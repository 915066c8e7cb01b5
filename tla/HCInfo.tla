------------------------------- MODULE HCInfo -------------------------------
(***************************************************************************)
(* The information file: the element SaveInfo of a parameter class writes  *)
(* (lib/hc/hc*.hh) and the proxy HCConnection makes from one               *)
(* (lib/hc/hcconnection.cc).                                               *)
(*                                                                         *)
(* An element has a tag, the type's name and the letter of the shape, and  *)
(* fields.  A field is the set of the text in it, empty when the field is  *)
(* missing or has no text: XMLElement::GetText is null for both.           *)
(***************************************************************************)
EXTENDS HCParam

NoFields == [tag |-> <<>>, pid |-> {}, name |-> {}, acc |-> {}, sav |-> {}, size |-> {}, maxsize |-> {},
             scl |-> {}, eidenums |-> {}, valenums |-> {}]

Access(reads, writes) ==
    CASE reads /\ writes -> {"RW"} [] reads /\ ~writes -> {"R"} [] ~reads /\ writes -> {"W"} [] OTHER -> {}

\* A scale is printed with six digits: in the units of the model, a large one loses its last.
SixDigits == 1000000
Printed(s) == IF s < SixDigits THEN s ELSE (s \div 10) * 10

\* The entries before the first without a name.
Listed(enum) == {SubSeq(e, 1, Terminated(e)) : e \in enum}

Head1(p, letter, pid) == [NoFields EXCEPT !.tag = <<p.type, letter>>, !.pid = {pid}, !.name = {p.name} \ {""}]
Value1(p, letter, pid) ==
    [Head1(p, letter, pid) EXCEPT !.acc = Access(p.get, p.set), !.sav = {IF p.sav THEN "Yes" ELSE "No"}]
Table1(p, pid) == [Value1(p, "t", pid) EXCEPT !.size = {p.size}, !.eidenums = Listed(p.eidenums)]
\* A list is written as writable when it has both methods.
List1(p, pid) == [Value1(p, "l", pid) EXCEPT !.acc = Access(p.get, p.add /\ p.sub), !.maxsize = {p.size}]
Scales(p) == {[c \in DOMAIN p.scale |-> Printed(p.scale[c])]}

HCCallInfo(p, pid) == Head1(p, "", pid)
HCCallTableInfo(p, pid) ==
    [Head1(p, "t", pid) EXCEPT !.size = {p.size}, !.eidenums = Listed(p.eidenums)]
HCFileInfo(p, pid) == [Head1(p, "", pid) EXCEPT !.acc = Access(p.get, p.set)]
HCBooleanInfo(p, pid) == [Value1(p, "", pid) EXCEPT !.valenums = Listed(p.valenums)]
HCBooleanTableInfo(p, pid) == [Table1(p, pid) EXCEPT !.valenums = Listed(p.valenums)]
HCStringInfo(p, pid) == Value1(p, "", pid)
HCStringTableInfo(p, pid) == Table1(p, pid)
HCStringListInfo(p, pid) == List1(p, pid)
HCIntegerInfo(p, pid) == [Value1(p, "", pid) EXCEPT !.valenums = Listed(p.valenums)]
\* A mutant: the names of the values are not written.
HCIntegerTableInfoUnnamed(p, pid) == Table1(p, pid)
HCIntegerTableInfo(p, pid) == [Table1(p, pid) EXCEPT !.valenums = Listed(p.valenums)]
HCIntegerListInfo(p, pid) == [List1(p, pid) EXCEPT !.valenums = Listed(p.valenums)]
HCIntegerArrayInfo(p, pid) == Value1(p, "a", pid)
HCFloatInfo(p, pid) == [Value1(p, "", pid) EXCEPT !.scl = Scales(p)]
HCFloatTableInfo(p, pid) == [Table1(p, pid) EXCEPT !.scl = Scales(p)]
HCVec2Info(p, pid) == [Value1(p, "", pid) EXCEPT !.scl = Scales(p)]
HCVec2TableInfo(p, pid) == [Table1(p, pid) EXCEPT !.scl = Scales(p)]
HCVec3Info(p, pid) == [Value1(p, "", pid) EXCEPT !.scl = Scales(p)]
HCVec3TableInfo(p, pid) == [Table1(p, pid) EXCEPT !.scl = Scales(p)]

SaveInfo(p, pid) ==
    CASE ByClass(p) = <<"call", "scalar">>  -> HCCallInfo(p, pid)
      [] ByClass(p) = <<"call", "table">>   -> HCCallTableInfo(p, pid)
      [] ByClass(p) = <<"file", "scalar">>  -> HCFileInfo(p, pid)
      [] ByClass(p) = <<"bool", "scalar">>  -> HCBooleanInfo(p, pid)
      [] ByClass(p) = <<"bool", "table">>   -> HCBooleanTableInfo(p, pid)
      [] ByClass(p) = <<"str", "scalar">>   -> HCStringInfo(p, pid)
      [] ByClass(p) = <<"str", "table">>    -> HCStringTableInfo(p, pid)
      [] ByClass(p) = <<"str", "list">>     -> HCStringListInfo(p, pid)
      [] ByClass(p) = <<"int", "scalar">>   -> HCIntegerInfo(p, pid)
      [] ByClass(p) = <<"int", "table">>    -> HCIntegerTableInfo(p, pid)
      [] ByClass(p) = <<"int", "list">>     -> HCIntegerListInfo(p, pid)
      [] ByClass(p) = <<"int", "array">>    -> HCIntegerArrayInfo(p, pid)
      [] ByClass(p) = <<"float", "scalar">> -> HCFloatInfo(p, pid)
      [] ByClass(p) = <<"float", "table">>  -> HCFloatTableInfo(p, pid)
      [] ByClass(p) = <<"vec2", "scalar">>  -> HCVec2Info(p, pid)
      [] ByClass(p) = <<"vec2", "table">>   -> HCVec2TableInfo(p, pid)
      [] ByClass(p) = <<"vec3", "scalar">>  -> HCVec3Info(p, pid)
      [] ByClass(p) = <<"vec3", "table">>   -> HCVec3TableInfo(p, pid)

------------------------------------------------------------------------------
(* Parsing: at most one proxy for an element, with the PID its stub uses. *)

The(S) == CHOOSE x \in S : TRUE
Present(e, fields) == \A f \in fields : e[f] # {}
Reading(e) == e.acc \in {{"RW"}, {"R"}}
Writing(e) == e.acc \in {{"RW"}, {"W"}}
Proxy(e, fields, p) ==
    {[pid |-> The(e.pid), par |-> IF e.sav = {"Yes"} THEN Savable(q) ELSE q] :
        q \in IF Present(e, {"pid", "name"} \cup fields) THEN {p} ELSE {}}

\* A table of names without an entry is none.
ParseEnum(enum) == {s \in enum : s # <<>>}
ParseBoolEnum(e) == ParseEnum(e.valenums)
ParseIntEnum(e) == ParseEnum(e.valenums)
ParseEIDEnum(e) == ParseEnum(e.eidenums)

ParseCall(e) == Proxy(e, {}, HCCall(The(e.name)))
ParseCallT(e) == Proxy(e, {"size"}, HCCallTable(The(e.name), The(e.size), ParseEIDEnum(e)))
ParseFile(e) == Proxy(e, {"acc"}, HCFile(The(e.name), Reading(e), Writing(e)))
ParseBool(e) == Proxy(e, {"acc", "sav"}, HCBoolean(The(e.name), Reading(e), Writing(e), ParseBoolEnum(e)))
ParseBoolT(e) ==
    Proxy(e, {"acc", "sav", "size"},
          HCBooleanTable(The(e.name), Reading(e), Writing(e), The(e.size), ParseEIDEnum(e), ParseBoolEnum(e)))
ParseStr(e) == Proxy(e, {"acc", "sav"}, HCString(The(e.name), Reading(e), Writing(e)))
ParseStrT(e) ==
    Proxy(e, {"acc", "sav", "size"},
          HCStringTable(The(e.name), Reading(e), Writing(e), The(e.size), ParseEIDEnum(e)))
ParseStrL(e) ==
    Proxy(e, {"acc", "sav", "maxsize"},
          HCStringList(The(e.name), Reading(e), Writing(e), Writing(e), The(e.maxsize)))
ParseInt(e) ==
    Proxy(e, {"acc", "sav"}, HCInteger(The(e.name), e.tag[1], Reading(e), Writing(e), ParseIntEnum(e)))
ParseIntT(e) ==
    Proxy(e, {"acc", "sav", "size"},
          HCIntegerTable(The(e.name), e.tag[1], Reading(e), Writing(e), The(e.size), ParseEIDEnum(e), ParseIntEnum(e)))
ParseIntL(e) ==
    Proxy(e, {"acc", "sav", "maxsize"},
          HCIntegerList(The(e.name), e.tag[1], Reading(e), Writing(e), Writing(e), The(e.maxsize), ParseIntEnum(e)))
ParseIntA(e) == Proxy(e, {"acc", "sav"}, HCIntegerArray(The(e.name), e.tag[1], Reading(e), Writing(e)))
ParseFloat(e) ==
    Proxy(e, {"acc", "sav", "scl"}, HCFloat(The(e.name), e.tag[1], Reading(e), Writing(e), The(e.scl)[1]))
ParseFloatTable(e) ==
    Proxy(e, {"acc", "sav", "scl", "size"},
          HCFloatTable(The(e.name), e.tag[1], Reading(e), Writing(e), The(e.size), ParseEIDEnum(e), The(e.scl)[1]))
ParseVec2(e) ==
    Proxy(e, {"acc", "sav", "scl"},
          HCVec2(The(e.name), e.tag[1], Reading(e), Writing(e), The(e.scl)[1], The(e.scl)[2]))
ParseVec2T(e) ==
    Proxy(e, {"acc", "sav", "scl", "size"},
          HCVec2Table(The(e.name), e.tag[1], Reading(e), Writing(e), The(e.size), ParseEIDEnum(e),
                      The(e.scl)[1], The(e.scl)[2]))
ParseVec3(e) ==
    Proxy(e, {"acc", "sav", "scl"},
          HCVec3(The(e.name), e.tag[1], Reading(e), Writing(e), The(e.scl)[1], The(e.scl)[2], The(e.scl)[3]))
ParseVec3T(e) ==
    Proxy(e, {"acc", "sav", "scl", "size"},
          HCVec3Table(The(e.name), e.tag[1], Reading(e), Writing(e), The(e.size), ParseEIDEnum(e),
                      The(e.scl)[1], The(e.scl)[2], The(e.scl)[3]))

Integer == Signed \cup Unsigned

\* ParseServer and ParseCont look at an element's tag; an unknown one is left out.
ParseElement(e) ==
    LET type == e.tag[1]
        letter == e.tag[2]
    IN
    CASE e.tag = <<"call", "">>  -> ParseCall(e)
      [] e.tag = <<"call", "t">> -> ParseCallT(e)
      [] e.tag = <<"file", "">>  -> ParseFile(e)
      [] e.tag = <<"bool", "">>  -> ParseBool(e)
      [] e.tag = <<"bool", "t">> -> ParseBoolT(e)
      [] e.tag = <<"str", "">>   -> ParseStr(e)
      [] e.tag = <<"str", "t">>  -> ParseStrT(e)
      [] e.tag = <<"str", "l">>  -> ParseStrL(e)
      [] type \in Integer /\ letter = ""  -> ParseInt(e)
      [] type \in Integer /\ letter = "t" -> ParseIntT(e)
      [] type \in Integer /\ letter = "l" -> ParseIntL(e)
      [] type \in Integer /\ letter = "a" -> ParseIntA(e)
      [] type \in {"f32", "f64"} /\ letter = ""  -> ParseFloat(e)
      [] type \in {"f32", "f64"} /\ letter = "t" -> ParseFloatTable(e)
      [] type \in {"v2f32", "v2f64"} /\ letter = ""  -> ParseVec2(e)
      [] type \in {"v2f32", "v2f64"} /\ letter = "t" -> ParseVec2T(e)
      [] type \in {"v3f32", "v3f64"} /\ letter = ""  -> ParseVec3(e)
      [] type \in {"v3f32", "v3f64"} /\ letter = "t" -> ParseVec3T(e)
      [] OTHER -> {}
==============================================================================
