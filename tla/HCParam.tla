------------------------------- MODULE HCParam -------------------------------
(***************************************************************************)
(* The parameter classes of Host Control (lib/hc/hc*.hh), as definitions   *)
(* over a record that describes a parameter:                               *)
(*   - the classes an application may create;                              *)
(*   - the element SaveInfo writes for one to the information file;        *)
(*   - the proxy HCConnection makes from such an element;                  *)
(*   - what the text interface, which the console and the query server     *)
(*     use, does with a request;                                           *)
(*   - what a command cell from a client does to one;                      *)
(*   - the command a proxy's stub gives for a call of one of its methods.  *)
(*                                                                         *)
(* The application's object is behind the methods: an operation either is  *)
(* refused with an error code or calls a method.  A set with at most one   *)
(* member stands for a pointer that may be null or a value that may be     *)
(* missing.                                                                *)
(***************************************************************************)
EXTENDS Integers, Sequences, FiniteSets

Signed == {"i8", "i16", "i32", "i64"}
Unsigned == {"u8", "u16", "u32", "u64"}

\* The record every class fills in.  get, set, add and sub say whether the method pointer is given (the read and
\* write methods of a file are its get and set, the method of a call its set); a scale for every component.
Blank == [name |-> "", cls |-> "call", shape |-> "scalar", type |-> "call", get |-> FALSE, set |-> FALSE,
          add |-> FALSE, sub |-> FALSE, sav |-> FALSE, size |-> 0, valenums |-> {}, eidenums |-> {}, scale |-> <<>>]

Scalar(n, c, t, g, s) == [Blank EXCEPT !.name = n, !.cls = c, !.type = t, !.get = g, !.set = s]
Table(n, c, t, g, s, size, eids) ==
    [Scalar(n, c, t, g, s) EXCEPT !.shape = "table", !.size = size, !.eidenums = eids]
List(n, c, t, g, a, b, maxsize) ==
    [Scalar(n, c, t, g, FALSE) EXCEPT !.shape = "list", !.add = a, !.sub = b, !.size = maxsize]

------------------------------------------------------------------------------
(* The templates, one operator for each. *)

HCCall(n) == Scalar(n, "call", "call", FALSE, TRUE)
HCCallTable(n, size, eids) == Table(n, "call", "call", FALSE, TRUE, size, eids)
HCFile(n, r, w) == Scalar(n, "file", "file", r, w)
HCBoolean(n, g, s, vals) == [Scalar(n, "bool", "bool", g, s) EXCEPT !.valenums = vals]
HCBooleanTable(n, g, s, size, eids, vals) == [Table(n, "bool", "bool", g, s, size, eids) EXCEPT !.valenums = vals]
HCString(n, g, s) == Scalar(n, "str", "str", g, s)
HCStringTable(n, g, s, size, eids) == Table(n, "str", "str", g, s, size, eids)
HCStringList(n, g, a, b, maxsize) == List(n, "str", "str", g, a, b, maxsize)
HCInteger(n, t, g, s, vals) == [Scalar(n, "int", t, g, s) EXCEPT !.valenums = vals]
HCIntegerTable(n, t, g, s, size, eids, vals) == [Table(n, "int", t, g, s, size, eids) EXCEPT !.valenums = vals]
HCIntegerList(n, t, g, a, b, maxsize, vals) == [List(n, "int", t, g, a, b, maxsize) EXCEPT !.valenums = vals]
HCIntegerArray(n, t, g, s) == [Scalar(n, "int", t, g, s) EXCEPT !.shape = "array"]
HCFloat(n, t, g, s, scl) == [Scalar(n, "float", t, g, s) EXCEPT !.scale = <<scl>>]
HCFloatTable(n, t, g, s, size, eids, scl) == [Table(n, "float", t, g, s, size, eids) EXCEPT !.scale = <<scl>>]
HCVec2(n, t, g, s, s0, s1) == [Scalar(n, "vec2", t, g, s) EXCEPT !.scale = <<s0, s1>>]
HCVec2Table(n, t, g, s, size, eids, s0, s1) ==
    [Table(n, "vec2", t, g, s, size, eids) EXCEPT !.scale = <<s0, s1>>]
HCVec3(n, t, g, s, s0, s1, s2) == [Scalar(n, "vec3", t, g, s) EXCEPT !.scale = <<s0, s1, s2>>]
HCVec3Table(n, t, g, s, size, eids, s0, s1, s2) ==
    [Table(n, "vec3", t, g, s, size, eids) EXCEPT !.scale = <<s0, s1, s2>>]

\* The S form of every template differs in IsSavable alone.
Savable(p) == [p EXCEPT !.sav = TRUE]

------------------------------------------------------------------------------
(* The classes derived from the templates: each fixes the type and leaves out the optional arguments or not.      *)
(* Vals and EIDs are the name tables to choose from, n a name, m a size, Scl the scales.                          *)

SavableOrNot(S) == S \cup {Savable(p) : p \in S}
Optional(S) == {{}} \cup {{e} : e \in S}

IntegerScalars(n, T, Vals) ==
    SavableOrNot({HCInteger(n, t, g, s, v) : t \in T, g \in BOOLEAN, s \in BOOLEAN, v \in Optional(Vals)})
SignedScalars(n, Vals) == IntegerScalars(n, Signed, Vals)
UnsignedScalars(n, Vals) == IntegerScalars(n, Unsigned, Vals)

IntegerTables(n, T, m, EIDs, Vals) ==
    SavableOrNot({HCIntegerTable(n, t, g, s, m, e, v) :
                    t \in T, g \in BOOLEAN, s \in BOOLEAN, e \in Optional(EIDs), v \in Optional(Vals)})
SignedTables(n, m, EIDs, Vals) == IntegerTables(n, Signed, m, EIDs, Vals)
UnsignedTables(n, m, EIDs, Vals) == IntegerTables(n, Unsigned, m, EIDs, Vals)

IntegerLists(n, T, m, Vals) ==
    SavableOrNot({HCIntegerList(n, t, g, a, b, m, v) :
                    t \in T, g \in BOOLEAN, a \in BOOLEAN, b \in BOOLEAN, v \in Optional(Vals)})
SignedLists(n, m, Vals) == IntegerLists(n, Signed, m, Vals)
UnsignedLists(n, m, Vals) == IntegerLists(n, Unsigned, m, Vals)

IntegerArrays(n) ==
    SavableOrNot({HCIntegerArray(n, t, g, s) : t \in Signed \cup Unsigned, g \in BOOLEAN, s \in BOOLEAN})

BooleanScalars(n, Vals) ==
    SavableOrNot({HCBoolean(n, g, s, v) : g \in BOOLEAN, s \in BOOLEAN, v \in Optional(Vals)})
BooleanTables(n, m, EIDs, Vals) ==
    SavableOrNot({HCBooleanTable(n, g, s, m, e, v) :
                    g \in BOOLEAN, s \in BOOLEAN, e \in Optional(EIDs), v \in Optional(Vals)})

StringScalars(n) == SavableOrNot({HCString(n, g, s) : g \in BOOLEAN, s \in BOOLEAN})
StringTables(n, m, EIDs) ==
    SavableOrNot({HCStringTable(n, g, s, m, e) : g \in BOOLEAN, s \in BOOLEAN, e \in Optional(EIDs)})
StringLists(n, m) == SavableOrNot({HCStringList(n, g, a, b, m) : g \in BOOLEAN, a \in BOOLEAN, b \in BOOLEAN})

FloatScalars(n, Scl) ==
    SavableOrNot({HCFloat(n, t, g, s, c) : t \in {"f32", "f64"}, g \in BOOLEAN, s \in BOOLEAN, c \in Scl})
FloatTables(n, m, EIDs, Scl) ==
    SavableOrNot({HCFloatTable(n, t, g, s, m, e, c) :
                    t \in {"f32", "f64"}, g \in BOOLEAN, s \in BOOLEAN, e \in Optional(EIDs), c \in Scl})

Vec2Scalars(n, Scl) ==
    SavableOrNot({HCVec2(n, t, g, s, c, d) :
                    t \in {"v2f32", "v2f64"}, g \in BOOLEAN, s \in BOOLEAN, c \in Scl, d \in Scl})
Vec2Tables(n, m, EIDs, Scl) ==
    SavableOrNot({HCVec2Table(n, t, g, s, m, e, c, 1) :
                    t \in {"v2f32", "v2f64"}, g \in BOOLEAN, s \in BOOLEAN, e \in Optional(EIDs), c \in Scl})
Vec3Scalars(n, Scl) ==
    SavableOrNot({HCVec3(n, t, g, s, c, d, 1) :
                    t \in {"v3f32", "v3f64"}, g \in BOOLEAN, s \in BOOLEAN, c \in Scl, d \in Scl})
Vec3Tables(n, m, EIDs, Scl) ==
    SavableOrNot({HCVec3Table(n, t, g, s, m, e, c, 1, 1) :
                    t \in {"v3f32", "v3f64"}, g \in BOOLEAN, s \in BOOLEAN, e \in Optional(EIDs), c \in Scl})
------------------------------------------------------------------------------
(* The text interface.  An operation is refused with an error, or calls method m with the one member of vals,     *)
(* or with no value when vals is empty.                                                                           *)

Refuse(e) == [err |-> e, method |-> "none", vals |-> {}]
Calls(m, vals) == [err |-> "NONE", method |-> m, vals |-> vals]

\* The checks of an operation in the order they are made, each a failing condition and its error.
Checked(checks, outcome) ==
    IF \E i \in DOMAIN checks : checks[i][1]
    THEN Refuse(checks[CHOOSE i \in DOMAIN checks : checks[i][1] /\ \A j \in 1..(i - 1) : ~checks[j][1]][2])
    ELSE outcome

\* Numerals are the texts the model types and the empty one, of which strtoimax, strtoumax and strtof make a zero
\* without an error; every other text is a word.
Number == [t \in {"", "-1", "0", "1", "2", "200"} |->
             CASE t \in {"", "0"} -> 0 [] t = "-1" -> -1 [] t = "1" -> 1 [] t = "2" -> 2 [] t = "200" -> 200]
Numeric(t) == {Number[u] : u \in {t} \cap DOMAIN Number}

InRange(type, n) ==
    CASE type = "i8" -> n \in -128..127 [] type = "u8" -> n \in 0..255
      [] type \in Signed \ {"i8"} -> TRUE [] type \in Unsigned \ {"u8"} -> n >= 0

\* strtoumax turns -1 into the largest number of 64 bits, which no narrower type holds.
Largest == 1000000
IntegerConvert(type, t) ==
    IF type = "u64" /\ t = "-1" THEN {Largest} ELSE {n \in Numeric(t) : InRange(type, n)}
\* The numbers between the commas: none in the empty text.
ArrayConvert(type, t) == IF t = "" THEN {<<>>} ELSE {<<n>> : n \in IntegerConvert(type, t)}
BooleanConvert(t) == CASE t \in {"0", "false"} -> {FALSE} [] t \in {"1", "true"} -> {TRUE} [] OTHER -> {}

\* Floats in units of 1/Unit: the text is divided by the scale to set a value, a value multiplied by it to print.
\* sscanf, which reads the components of a vector, finds none in the empty text.
Unit == 220
FloatConvert(p, t) ==
    {[c \in DOMAIN p.scale |-> (n * Unit) \div p.scale[c]] : n \in IF t = "" /\ p.cls # "float" THEN {} ELSE Numeric(t)}
FloatPrint(p, v) == [c \in DOMAIN p.scale |-> (v[c] * p.scale[c]) \div Unit]

\* A name table is searched from its start and ends before the first empty name.
Terminated(e) == CHOOSE k \in 0..Len(e) : /\ \A i \in 1..k : e[i][2] # ""
                                         /\ k < Len(e) => e[k + 1][2] = ""
Entries(enum) == UNION {{e[i] : i \in 1..Terminated(e)} : e \in enum}
First(enum, field, x) ==
    UNION {{e[i] : i \in {i \in 1..Terminated(e) : e[i][field] = x /\ \A j \in 1..(i - 1) : e[j][field] # x}} : e \in enum}
Named(enum, v) == \E x \in Entries(enum) : x[1] = v
NumsOf(enum, t) == {x[1] : x \in First(enum, 2, t)}
NamesOf(enum, v) == {x[2] : x \in First(enum, 1, v)}

EIDStrToNum(p, t) == NumsOf(p.eidenums, t)
EIDNumToStr(p, eid) == NamesOf(p.eidenums, eid)

NoMethod(has) == <<~has, "ACCESS">>
NoElement(p, eid) == <<eid >= p.size, "EID">>
NotConverted(vals, e) == <<vals = {}, e>>
Unnamed(p, vals) == <<p.valenums # {} /\ \E v \in vals : ~Named(p.valenums, v), "RANGE">>

\* A literal is looked up among the value names.
Literal(p, t) == <<<<p.valenums = {}, "TYPE">>, <<NumsOf(p.valenums, t) = {}, "RANGE">>>>

\* What a parameter does not override answers with an error.
NotOverridden == Refuse("TYPE")

GetText(p) == Checked(<<NoMethod(p.get)>>, Calls("get", {}))

\* A request is a record of the operation's name, an element and a text.
HCBooleanText(p, r) ==
    LET vals == BooleanConvert(r.text) IN
    CASE r.op = "GetStr"    -> GetText(p)
      [] r.op = "SetStr"    -> Checked(<<NoMethod(p.set), NotConverted(vals, "RANGE")>>, Calls("set", vals))
      [] r.op = "SetStrLit" -> Checked(<<NoMethod(p.set)>> \o Literal(p, r.text), Calls("set", NumsOf(p.valenums, r.text)))
      [] OTHER -> NotOverridden

HCBooleanTableText(p, r) ==
    LET vals == BooleanConvert(r.text)
        pre == <<NoElement(p, r.eid), NoMethod(p.set)>>
    IN
    CASE r.op = "GetStrTbl"    -> GetText(p)
      [] r.op = "SetStrTbl"    -> Checked(pre \o <<NotConverted(vals, "RANGE"), Unnamed(p, vals)>>, Calls("set", vals))
      [] r.op = "SetStrLitTbl" -> Checked(pre \o Literal(p, r.text), Calls("set", NumsOf(p.valenums, r.text)))
      [] OTHER -> NotOverridden

IntegerSet(p, has, m, t) ==
    LET vals == IntegerConvert(p.type, t)
    IN  Checked(<<NoMethod(has), NotConverted(vals, "UNSPEC"), Unnamed(p, vals)>>, Calls(m, vals))
IntegerSetLit(p, has, m, t) ==
    Checked(<<NoMethod(has)>> \o Literal(p, t), Calls(m, NumsOf(p.valenums, t)))

HCIntegerText(p, r) ==
    CASE r.op = "GetStr"    -> GetText(p)
      [] r.op = "SetStr"    -> IntegerSet(p, p.set, "set", r.text)
      [] r.op = "SetStrLit" -> IntegerSetLit(p, p.set, "set", r.text)
      [] OTHER -> NotOverridden

HCIntegerTableText(p, r) ==
    CASE r.op \notin {"GetStrTbl", "SetStrTbl", "SetStrLitTbl"} -> NotOverridden
      [] r.op \in {"GetStrTbl", "SetStrTbl", "SetStrLitTbl"} /\ r.eid >= p.size -> Refuse("EID")
      [] OTHER -> HCIntegerText(p, [r EXCEPT !.op = CASE r.op = "GetStrTbl" -> "GetStr" [] r.op = "SetStrTbl" -> "SetStr"
                                                      [] OTHER -> "SetStrLit"])

\* A list does not check the element.
HCIntegerListText(p, r) ==
    CASE r.op = "GetStrTbl" -> GetText(p)
      [] r.op = "AddStr"    -> IntegerSet(p, p.add, "add", r.text)
      [] r.op = "AddStrLit" -> IntegerSetLit(p, p.add, "add", r.text)
      [] r.op = "SubStr"    -> IntegerSet(p, p.sub, "sub", r.text)
      [] r.op = "SubStrLit" -> IntegerSetLit(p, p.sub, "sub", r.text)
      [] OTHER -> NotOverridden

\* The literal forms of the classes below delegate to the plain ones.
Plain(p, has, m, vals) == Checked(<<NoMethod(has), NotConverted(vals, "UNSPEC")>>, Calls(m, vals))

HCIntegerArrayText(p, r) ==
    CASE r.op = "GetStr" -> GetText(p)
      [] r.op \in {"SetStr", "SetStrLit"} -> Plain(p, p.set, "set", ArrayConvert(p.type, r.text))
      [] OTHER -> NotOverridden

HCStringText(p, r) ==
    CASE r.op = "GetStr" -> GetText(p)
      [] r.op \in {"SetStr", "SetStrLit"} -> Plain(p, p.set, "set", {r.text})
      [] OTHER -> NotOverridden

\* Neither a table nor a list of strings checks the element: the object's method does.
HCStringTableText(p, r) ==
    CASE r.op = "GetStrTbl" -> GetText(p)
      [] r.op \in {"SetStrTbl", "SetStrLitTbl"} -> Plain(p, p.set, "set", {r.text})
      [] OTHER -> NotOverridden

HCStringListText(p, r) ==
    CASE r.op = "GetStrTbl" -> GetText(p)
      [] r.op \in {"AddStr", "AddStrLit"} -> Plain(p, p.add, "add", {r.text})
      [] r.op \in {"SubStr", "SubStrLit"} -> Plain(p, p.sub, "sub", {r.text})
      [] OTHER -> NotOverridden

HCFloatText(p, r) ==
    CASE r.op = "GetStr" -> GetText(p)
      [] r.op \in {"SetStr", "SetStrLit"} -> Plain(p, p.set, "set", FloatConvert(p, r.text))
      [] OTHER -> NotOverridden

HCFloatTableText(p, r) ==
    CASE r.op = "GetStrTbl" -> Checked(<<NoElement(p, r.eid)>>, GetText(p))
      [] r.op \in {"SetStrTbl", "SetStrLitTbl"} ->
            Checked(<<NoElement(p, r.eid)>>, Plain(p, p.set, "set", FloatConvert(p, r.text)))
      [] OTHER -> NotOverridden

\* The vectors read and print their components as the floats do.
HCVec2Text(p, r) == HCFloatText(p, r)
HCVec2TableText(p, r) == HCFloatTableText(p, r)
HCVec3Text(p, r) == HCFloatText(p, r)
HCVec3TableText(p, r) == HCFloatTableText(p, r)

\* The console calls a call; an application calls a call table's element too.
HCCallText(p, r) == IF r.op = "Call" THEN Calls("call", {}) ELSE NotOverridden
HCCallTableText(p, r) ==
    IF r.op = "CallTbl" THEN Checked(<<NoElement(p, r.eid)>>, Calls("call", {})) ELSE NotOverridden

Text(p, r) ==
    CASE p.cls = "call"  -> IF p.shape = "table" THEN HCCallTableText(p, r) ELSE HCCallText(p, r)
      [] p.cls = "bool"  -> IF p.shape = "table" THEN HCBooleanTableText(p, r) ELSE HCBooleanText(p, r)
      [] p.cls = "float" -> IF p.shape = "table" THEN HCFloatTableText(p, r) ELSE HCFloatText(p, r)
      [] p.cls = "vec2"  -> IF p.shape = "table" THEN HCVec2TableText(p, r) ELSE HCVec2Text(p, r)
      [] p.cls = "vec3"  -> IF p.shape = "table" THEN HCVec3TableText(p, r) ELSE HCVec3Text(p, r)
      [] p.cls = "str"   -> CASE p.shape = "table" -> HCStringTableText(p, r) [] p.shape = "list" -> HCStringListText(p, r)
                              [] OTHER -> HCStringText(p, r)
      [] p.cls = "int"   -> CASE p.shape = "table" -> HCIntegerTableText(p, r) [] p.shape = "list" -> HCIntegerListText(p, r)
                              [] p.shape = "array" -> HCIntegerArrayText(p, r) [] OTHER -> HCIntegerText(p, r)
      [] p.cls = "file"  -> NotOverridden

\* The text of a value a get method returned with error e.  The classes with value names give no text with an
\* error, and refuse a value without a name.
Shown(p, e, v) ==
    CASE p.cls \in {"int", "bool"} /\ e # "NONE" -> [err |-> e, text |-> {}]
      [] p.cls \in {"int", "bool"} /\ e = "NONE" /\ p.valenums # {} ->
            IF Named(p.valenums, v) THEN [err |-> e, text |-> NamesOf(p.valenums, v)]
            ELSE [err |-> "RANGE", text |-> {}]
      [] p.cls \in {"float", "vec2", "vec3"} -> [err |-> e, text |-> {FloatPrint(p, v)}]
      [] OTHER -> [err |-> e, text |-> {v}]
------------------------------------------------------------------------------
(* Commands from a client.  A cell names an operation, an element and, where the operation takes a value, the     *)
(* type of the value and the value.  A parameter answers with an error, calls a method, or cannot make an answer. *)

Unhandled == [err |-> "none", method |-> "none", vals |-> {}]

\* Arrays have type codes of their own, which SkipValue does not know.
TypeCode(p) == <<p.type, p.shape = "array">>
SkipValue(code) == ~code[2]

\* What a refused get sends as the value, and what a client returns when there was no answer.
DefaultVal(p) ==
    CASE p.cls = "bool" -> FALSE
      [] p.cls = "str"  -> ""
      [] p.cls \in {"float", "vec2", "vec3"} -> [c \in DOMAIN p.scale |-> 0]
      [] p.shape = "array" -> <<>>
      [] OTHER -> 0

Reads(p) == Checked(<<NoMethod(p.get)>>, Calls("get", {}))
\* A mutant: the value's type is not compared.
WritesAnyType(p, has, m, c) == Checked(<<NoMethod(has)>>, Calls(m, c.vals))
Writes(p, has, m, c) ==
    IF c.type # TypeCode(p) /\ ~SkipValue(c.type) THEN Unhandled
    ELSE Checked(<<<<c.type # TypeCode(p), "TYPE">>, NoMethod(has)>>, Calls(m, c.vals))

\* No handler checks the element: the object's method does.
ScalarCells(p, c) ==
    CASE c.op = "get" -> Reads(p)
      [] c.op = "set" -> Writes(p, p.set, "set", c)
      [] OTHER -> Unhandled
TableCells(p, c) ==
    CASE c.op = "iget" -> Reads(p)
      [] c.op = "iset" -> Writes(p, p.set, "set", c)
      [] OTHER -> Unhandled
ListCells(p, c) ==
    CASE c.op = "iget" -> Reads(p)
      [] c.op = "add"  -> Writes(p, p.add, "add", c)
      [] c.op = "sub"  -> Writes(p, p.sub, "sub", c)
      [] OTHER -> Unhandled

HCBooleanCells(p, c) == ScalarCells(p, c)
HCBooleanTableCells(p, c) == TableCells(p, c)
HCStringCells(p, c) == ScalarCells(p, c)
HCStringTableCells(p, c) == TableCells(p, c)
HCStringListCells(p, c) == ListCells(p, c)
HCIntegerCells(p, c) == ScalarCells(p, c)
HCIntegerTableCells(p, c) == TableCells(p, c)
HCIntegerListCells(p, c) == ListCells(p, c)
HCIntegerArrayCells(p, c) == ScalarCells(p, c)
HCFloatCells(p, c) == ScalarCells(p, c)
HCFloatTableCells(p, c) == TableCells(p, c)
HCVec2Cells(p, c) == ScalarCells(p, c)
HCVec2TableCells(p, c) == TableCells(p, c)
HCVec3Cells(p, c) == ScalarCells(p, c)
HCVec3TableCells(p, c) == TableCells(p, c)
HCCallCells(p, c) == IF c.op = "call" THEN Calls("call", {}) ELSE Unhandled
HCCallTableCells(p, c) == IF c.op = "icall" THEN Calls("call", {}) ELSE Unhandled
HCFileCells(p, c) ==
    CASE c.op = "read"  -> Checked(<<NoMethod(p.get)>>, Calls("get", {}))
      [] c.op = "write" -> Checked(<<NoMethod(p.set)>>, Calls("set", c.vals))
      [] OTHER -> Unhandled

ByClass(p) == <<p.cls, p.shape>>
ClassesAndShapes ==
    {"bool", "str", "int", "float", "vec2", "vec3", "call"} \X {"scalar", "table"}
    \cup {<<"str", "list">>, <<"int", "list">>, <<"int", "array">>, <<"file", "scalar">>}
Cells(p, c) ==
    CASE ByClass(p) = <<"bool", "scalar">>  -> HCBooleanCells(p, c)
      [] ByClass(p) = <<"bool", "table">>   -> HCBooleanTableCells(p, c)
      [] ByClass(p) = <<"str", "scalar">>   -> HCStringCells(p, c)
      [] ByClass(p) = <<"str", "table">>    -> HCStringTableCells(p, c)
      [] ByClass(p) = <<"str", "list">>     -> HCStringListCells(p, c)
      [] ByClass(p) = <<"int", "scalar">>   -> HCIntegerCells(p, c)
      [] ByClass(p) = <<"int", "table">>    -> HCIntegerTableCells(p, c)
      [] ByClass(p) = <<"int", "list">>     -> HCIntegerListCells(p, c)
      [] ByClass(p) = <<"int", "array">>    -> HCIntegerArrayCells(p, c)
      [] ByClass(p) = <<"float", "scalar">> -> HCFloatCells(p, c)
      [] ByClass(p) = <<"float", "table">>  -> HCFloatTableCells(p, c)
      [] ByClass(p) = <<"vec2", "scalar">>  -> HCVec2Cells(p, c)
      [] ByClass(p) = <<"vec2", "table">>   -> HCVec2TableCells(p, c)
      [] ByClass(p) = <<"vec3", "scalar">>  -> HCVec3Cells(p, c)
      [] ByClass(p) = <<"vec3", "table">>   -> HCVec3TableCells(p, c)
      [] ByClass(p) = <<"call", "scalar">>  -> HCCallCells(p, c)
      [] ByClass(p) = <<"call", "table">>   -> HCCallTableCells(p, c)
      [] ByClass(p) = <<"file", "scalar">>  -> HCFileCells(p, c)

------------------------------------------------------------------------------
(* The stubs behind a proxy: the command each gives its client for a call of a method.                            *)

Scalars == [get |-> "get", set |-> "set"]
Elements == [get |-> "iget", set |-> "iset"]
Changes == [get |-> "iget", add |-> "add", sub |-> "sub"]

HCCallCli(p) == [call |-> IF p.shape = "table" THEN "icall" ELSE "call"]
HCFileCli(p) == [get |-> "read", set |-> "write"]
HCBooleanCli(p) == IF p.shape = "table" THEN Elements ELSE Scalars
HCStringCli(p) == CASE p.shape = "table" -> Elements [] p.shape = "list" -> Changes [] OTHER -> Scalars
HCIntegerCli(p) == CASE p.shape = "table" -> Elements [] p.shape = "list" -> Changes [] OTHER -> Scalars
HCFloatCli(p) == IF p.shape = "table" THEN Elements ELSE Scalars
HCVec2Cli(p) == IF p.shape = "table" THEN Elements ELSE Scalars
HCVec3Cli(p) == IF p.shape = "table" THEN Elements ELSE Scalars

Stub(p) ==
    CASE p.cls = "call" -> HCCallCli(p)
      [] p.cls = "file" -> HCFileCli(p)
      [] p.cls = "bool" -> HCBooleanCli(p)
      [] p.cls = "str" -> HCStringCli(p)
      [] p.cls = "int" -> HCIntegerCli(p)
      [] p.cls = "float" -> HCFloatCli(p)
      [] p.cls = "vec2" -> HCVec2Cli(p)
      [] p.cls = "vec3" -> HCVec3Cli(p)

\* The command the client of proxy p sends to the parameter with number pid.
Command(p, pid, m, eid, vals) ==
    [op |-> Stub(p)[m], pid |-> pid, eid |-> eid, type |-> TypeCode(p), vals |-> vals]
==============================================================================
