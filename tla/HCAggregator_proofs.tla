------------------------- MODULE HCAggregator_proofs -------------------------
(***************************************************************************)
(* What goes through an aggregator keeps its type (TypesAreKept), and      *)
(* reaches the parameter it was asked for while no server was replaced     *)
(* since its file was asked for (CommandsArrive), proved for any origins   *)
(* and programs, with parameters of every class, however often programs    *)
(* are replaced and messages lost.                                         *)
(*                                                                         *)
(* A command carries the type code of the proxy that made it.  A server    *)
(* compares it with its parameter's before it calls a method, and the stub *)
(* behind a proxy gives the same operation on; the type of a value that is *)
(* read is compared on each way back.  The number a proxy gives a command  *)
(* was in an information file at an element of the parameter's name, under *)
(* its containers, and the server that wrote the file has it there.        *)
(***************************************************************************)
EXTENDS HCAggregator, SequenceTheorems, WellFoundedInduction, TLAPS

-----------------------------------------------------------------------------
(* The parameters' operators.                                              *)

\* A parameter of one of the classes.
IsOfClass(p) == ByClass(p) \in ClassesAndShapes

Operations == {"get", "iget", "set", "iset", "add", "sub", "call", "icall"}
ReadsText(r) == r.op \in {"GetStr", "GetStrTbl"}

LEMMA Least ==
  ASSUME NEW F, F \subseteq Nat, F # {}
  PROVE  \E i \in F : \A j \in F : i <= j
<1>1. PICK m \in F : \A k \in F : ~(<<k, m>> \in OpToRel(<, Nat))
  BY NatLessThanWellFounded, WFMin
<1>2. ASSUME NEW k \in F PROVE m <= k
  <2>1. ~(k < m)
    BY <1>1 DEF OpToRel
  <2> QED BY <2>1
<1> QED BY <1>2

\* Checks are refused with an error.
IsChecks(s) == \E n \in Nat : DOMAIN s = 1..n /\ \A i \in 1..n : s[i][2] # "NONE"

LEMMA CheckedIs ==
  ASSUME NEW checks, IsChecks(checks), NEW outcome
  PROVE  \/ Checked(checks, outcome) = outcome
         \/ Checked(checks, outcome).method = "none" /\ Checked(checks, outcome).err # "NONE"
<1> DEFINE F == {i \in DOMAIN checks : checks[i][1]}
           Is(i) == i \in DOMAIN checks /\ checks[i][1] /\ \A j \in 1..(i - 1) : ~checks[j][1]
           c == CHOOSE i : Is(i)
<1>1. CASE F = {}
  BY <1>1 DEF Checked
<1>2. CASE F # {}
  <2>1. DOMAIN checks \subseteq Nat
    BY DEF IsChecks
  <2>2. PICK i \in F : \A j \in F : i <= j
    BY <1>2, <2>1, Least
  <2>3. PICK n \in Nat : DOMAIN checks = 1..n /\ \A k \in 1..n : checks[k][2] # "NONE"
    BY DEF IsChecks
  <2>4. Is(i)
    <3>1. ASSUME NEW j \in 1..(i - 1), checks[j][1] PROVE FALSE
      <4>1. j \in DOMAIN checks /\ ~(i <= j)
        BY <2>2, <2>3
      <4> QED BY <2>2, <3>1, <4>1
    <3> QED BY <2>2, <3>1
  <2>5. Is(c)
    <3> HIDE DEF Is
    <3> QED BY <2>4
  <2>6. Checked(checks, outcome) = Refuse(checks[c][2])
    <3>1. \E k \in DOMAIN checks : checks[k][1]
      BY <1>2
    <3>2. (CHOOSE k \in DOMAIN checks : checks[k][1] /\ \A j \in 1..(k - 1) : ~checks[j][1]) = c
      OBVIOUS
    <3> HIDE DEF c
    <3> QED BY <3>1, <3>2 DEF Checked
  <2>7. checks[c][2] # "NONE"
    <3> HIDE DEF c
    <3> QED BY <2>3, <2>5
  <2> QED BY <2>6, <2>7 DEF Refuse
<1> QED BY <1>1, <1>2

LEMMA OneCheck == \A a : a[2] # "NONE" => IsChecks(<<a>>)
<1> SUFFICES ASSUME NEW a, a[2] # "NONE" PROVE IsChecks(<<a>>)
  OBVIOUS
<1>1. DOMAIN <<a>> = 1..1 /\ 1 \in Nat /\ \A i \in 1..1 : (<<a>>)[i] = a
  OBVIOUS
<1> QED BY <1>1 DEF IsChecks
LEMMA ThreeChecks ==
  ASSUME NEW a, NEW b, NEW c, a[2] # "NONE", b[2] # "NONE", c[2] # "NONE"
  PROVE  IsChecks(<<a, b>>) /\ IsChecks(<<a, b, c>>)
<1>1. DOMAIN <<a, b>> = 1..2 /\ DOMAIN <<a, b, c>> = 1..3
  OBVIOUS
<1>2. \A i \in 1..2 : (<<a, b>>)[i] \in {a, b}
  OBVIOUS
<1>3. \A i \in 1..3 : (<<a, b, c>>)[i] \in {a, b, c}
  OBVIOUS
<1>4. IsChecks(<<a, b>>)
  BY <1>1, <1>2 DEF IsChecks
<1>5. IsChecks(<<a, b, c>>)
  BY <1>1, <1>3 DEF IsChecks
<1> QED BY <1>4, <1>5
LEMMA MoreChecks ==
  ASSUME NEW s, NEW t, IsChecks(s), IsChecks(t), NEW U, s \in Seq(U), t \in Seq(U)
  PROVE  IsChecks(s \o t)
<1>1. \A i \in 1..Len(s) : s[i][2] # "NONE"
  BY DEF IsChecks
<1>2. \A i \in 1..Len(t) : t[i][2] # "NONE"
  BY DEF IsChecks
<1>3. Len(s \o t) \in Nat /\ DOMAIN (s \o t) = 1..Len(s \o t) /\ Len(s \o t) = Len(s) + Len(t)
  OBVIOUS
<1>4. ASSUME NEW i \in 1..Len(s \o t) PROVE (s \o t)[i][2] # "NONE"
  <2>1. CASE i <= Len(s)
    <3>1. (s \o t)[i] = s[i] /\ i \in 1..Len(s)
      BY <1>3, <2>1
    <3> QED BY <1>1, <3>1
  <2>2. CASE i > Len(s)
    <3>1. (s \o t)[i] = t[i - Len(s)] /\ i - Len(s) \in 1..Len(t)
      BY <1>3, <2>2
    <3> QED BY <1>2, <3>1
  <2> QED BY <1>3, <2>1, <2>2
<1> QED BY <1>3, <1>4 DEF IsChecks

\* What the text interface of p does with a request: it refuses it with an error, or has the method called for
\* which the stub of a proxy makes a command that reads if the request does.
IsRefused(o) == o.method = "none" /\ o.err # "NONE"
Asks(p, r, o) ==
  \/ IsRefused(o)
  \/ /\ p.cls # "file" /\ o.method # "none" /\ Stub(p)[o.method] \in Operations
     /\ IsGet(Stub(p)[o.method]) <=> ReadsText(r)

LEMMA RefuseIs == \A e : e # "NONE" => IsRefused(Refuse(e))
BY DEF IsRefused, Refuse
LEMMA CallsIs == \A m, vals : Calls(m, vals).method = m
BY DEF Calls

LEMMA OneChecked ==
  ASSUME NEW a, a[2] # "NONE", NEW p, NEW r, NEW o, Asks(p, r, o) PROVE Asks(p, r, Checked(<<a>>, o))
BY OneCheck, CheckedIs, Zenon DEF Asks, IsRefused
LEMMA TwoChecked ==
  ASSUME NEW a, NEW b, a[2] # "NONE", b[2] # "NONE", NEW p, NEW r, NEW o, Asks(p, r, o) PROVE Asks(p, r, Checked(<<a, b>>, o))
<1>1. IsChecks(<<a, b>>)
  BY ThreeChecks
<1> QED BY <1>1, CheckedIs, Zenon DEF Asks, IsRefused
LEMMA ThreeChecked ==
  ASSUME NEW a, NEW b, NEW c, a[2] # "NONE", b[2] # "NONE", c[2] # "NONE", NEW p, NEW r, NEW o, Asks(p, r, o)
  PROVE  /\ Asks(p, r, Checked(<<a, b, c>>, o)) /\ Asks(p, r, Checked(<<a>> \o <<b, c>>, o))
<1>1. IsChecks(<<a, b, c>>) /\ IsChecks(<<a>>) /\ IsChecks(<<b, c>>)
  BY ThreeChecks, OneCheck
<1>2. IsChecks(<<a>> \o <<b, c>>)
  <2>1. <<a>> \in Seq({a, b, c}) /\ <<b, c>> \in Seq({a, b, c})
    OBVIOUS
  <2> QED BY <1>1, <2>1, MoreChecks
<1> QED BY <1>1, <1>2, CheckedIs, Zenon DEF Asks, IsRefused
LEMMA FourChecked ==
  ASSUME NEW a, NEW b, NEW c, NEW d, a[2] # "NONE", b[2] # "NONE", c[2] # "NONE", d[2] # "NONE",
         NEW p, NEW r, NEW o, Asks(p, r, o)
  PROVE  Asks(p, r, Checked(<<a, b>> \o <<c, d>>, o))
<1>1. IsChecks(<<a, b>>) /\ IsChecks(<<c, d>>)
  BY ThreeChecks
<1>2. IsChecks(<<a, b>> \o <<c, d>>)
  <2>1. <<a, b>> \in Seq({a, b, c, d}) /\ <<c, d>> \in Seq({a, b, c, d})
    OBVIOUS
  <2> QED BY <1>1, <2>1, MoreChecks
<1> QED BY <1>2, CheckedIs, Zenon DEF Asks, IsRefused

\* The checks of the parameters' classes.
LEMMA Errors ==
  /\ \A has : NoMethod(has)[2] = "ACCESS"
  /\ \A p, eid : NoElement(p, eid)[2] = "EID"
  /\ \A vals, e : NotConverted(vals, e)[2] = e
  /\ \A p, vals : Unnamed(p, vals)[2] = "RANGE"
  /\ \A p, t : \E a, b : Literal(p, t) = <<a, b>> /\ a[2] = "TYPE" /\ b[2] = "RANGE"
<1>1. \A p, t : \E a, b : Literal(p, t) = <<a, b>> /\ a[2] = "TYPE" /\ b[2] = "RANGE"
  <2> SUFFICES ASSUME NEW p, NEW t PROVE \E a, b : Literal(p, t) = <<a, b>> /\ a[2] = "TYPE" /\ b[2] = "RANGE"
    OBVIOUS
  <2> DEFINE x == <<p.valenums = {}, "TYPE">>
             y == <<NumsOf(p.valenums, t) = {}, "RANGE">>
  <2>1. Literal(p, t) = <<x, y>> /\ x[2] = "TYPE" /\ y[2] = "RANGE"
    BY DEF Literal
  <2> HIDE DEF x, y
  <2> QED BY <2>1
<1>2. \A has : NoMethod(has)[2] = "ACCESS"
  BY DEF NoMethod
<1>3. \A p, eid : NoElement(p, eid)[2] = "EID"
  BY DEF NoElement
<1>4. \A vals, e : NotConverted(vals, e)[2] = e
  BY DEF NotConverted
<1>5. \A p, vals : Unnamed(p, vals)[2] = "RANGE"
  BY DEF Unnamed
<1> QED BY <1>1, <1>2, <1>3, <1>4, <1>5

\* The operation the stub of p has for a method.
Gives(p, r, m) == p.cls # "file" /\ m # "none" /\ Stub(p)[m] \in Operations /\ (IsGet(Stub(p)[m]) <=> ReadsText(r))

LEMMA GivesAsks == \A p, r, m, vals : Gives(p, r, m) => Asks(p, r, Calls(m, vals))
BY CallsIs DEF Gives, Asks
LEMMA GetTextAsks == \A p, r : Gives(p, r, "get") => Asks(p, r, GetText(p))
<1> SUFFICES ASSUME NEW p, NEW r, Gives(p, r, "get") PROVE Asks(p, r, GetText(p))
  OBVIOUS
<1>1. Asks(p, r, Calls("get", {})) /\ NoMethod(p.get)[2] # "NONE"
  BY GivesAsks, Errors
<1> QED BY <1>1, OneChecked DEF GetText
LEMMA NotOverriddenAsks == \A p, r : Asks(p, r, NotOverridden)
BY RefuseIs DEF NotOverridden, Asks
LEMMA PlainAsks == \A p, r, has, m, vals : Gives(p, r, m) => Asks(p, r, Plain(p, has, m, vals))
<1> SUFFICES ASSUME NEW p, NEW r, NEW has, NEW m, NEW vals, Gives(p, r, m) PROVE Asks(p, r, Plain(p, has, m, vals))
  OBVIOUS
<1>1. Asks(p, r, Calls(m, vals)) /\ NoMethod(has)[2] # "NONE" /\ NotConverted(vals, "UNSPEC")[2] # "NONE"
  BY GivesAsks, Errors
<1> QED BY <1>1, TwoChecked DEF Plain
LEMMA IntegerSetAsks == \A p, r, has, m, t : Gives(p, r, m) => Asks(p, r, IntegerSet(p, has, m, t))
<1> SUFFICES ASSUME NEW p, NEW r, NEW has, NEW m, NEW t, Gives(p, r, m) PROVE Asks(p, r, IntegerSet(p, has, m, t))
  OBVIOUS
<1> DEFINE vals == IntegerConvert(p.type, t)
<1>1. /\ Asks(p, r, Calls(m, vals)) /\ NoMethod(has)[2] # "NONE" /\ NotConverted(vals, "UNSPEC")[2] # "NONE"
      /\ Unnamed(p, vals)[2] # "NONE"
  BY GivesAsks, Errors
<1> QED BY <1>1, ThreeChecked DEF IntegerSet
\* A literal for a class with value names.
LEMMA LiteralAsks ==
  ASSUME NEW p, NEW r, NEW m, NEW t, NEW vals, Gives(p, r, m), NEW x, NEW y, x[2] # "NONE", y[2] # "NONE"
  PROVE  /\ Asks(p, r, Checked(<<x>> \o Literal(p, t), Calls(m, vals)))
         /\ Asks(p, r, Checked(<<x, y>> \o Literal(p, t), Calls(m, vals)))
<1>1. PICK a, b : Literal(p, t) = <<a, b>> /\ a[2] # "NONE" /\ b[2] # "NONE"
  BY Errors
<1>2. Asks(p, r, Calls(m, vals))
  BY GivesAsks
<1>3. Asks(p, r, Checked(<<x>> \o <<a, b>>, Calls(m, vals)))
  BY <1>1, <1>2, ThreeChecked
<1>4. Asks(p, r, Checked(<<x, y>> \o <<a, b>>, Calls(m, vals)))
  BY <1>1, <1>2, FourChecked
<1> QED BY <1>1, <1>3, <1>4
LEMMA IntegerSetLitAsks == \A p, r, has, m, t : Gives(p, r, m) => Asks(p, r, IntegerSetLit(p, has, m, t))
<1> SUFFICES ASSUME NEW p, NEW r, NEW has, NEW m, NEW t, Gives(p, r, m) PROVE Asks(p, r, IntegerSetLit(p, has, m, t))
  OBVIOUS
<1>1. NoMethod(has)[2] # "NONE"
  BY Errors
<1> QED BY <1>1, LiteralAsks DEF IntegerSetLit

\* The stubs by class and shape.
ValueClasses == {"bool", "float", "vec2", "vec3", "str", "int"}
LEMMA StubIs ==
  ASSUME NEW p, IsOfClass(p)
  PROVE  /\ p.cls \in ValueClasses /\ p.shape = "table" => Stub(p) = Elements
         /\ p.cls \in ValueClasses /\ p.shape \in {"scalar", "array"} => Stub(p) = Scalars
         /\ p.cls \in ValueClasses /\ p.shape = "list" => Stub(p) = Changes
         /\ p.cls = "call" /\ p.shape = "table" => Stub(p) = [call |-> "icall"]
         /\ p.cls = "call" /\ p.shape = "scalar" => Stub(p) = [call |-> "call"]
         /\ p.cls \in ValueClasses \cup {"call", "file"} /\ p.shape \in {"scalar", "table", "list", "array"}
         /\ p.shape = "list" => p.cls \in {"str", "int"}
         /\ p.shape = "array" => p.cls = "int"
         /\ p.cls = "file" => p.shape = "scalar"
<1> USE DEF IsOfClass, ByClass, ClassesAndShapes, ValueClasses
<1>1. /\ p.cls \in ValueClasses \cup {"call", "file"} /\ p.shape \in {"scalar", "table", "list", "array"}
      /\ p.shape = "list" => p.cls \in {"str", "int"}
      /\ p.shape = "array" => p.cls = "int"
      /\ p.cls = "file" => p.shape = "scalar"
  OBVIOUS
<1>2. p.cls \in ValueClasses /\ p.shape = "table" => Stub(p) = Elements
  BY DEF Stub, HCBooleanCli, HCStringCli, HCIntegerCli, HCFloatCli, HCVec2Cli, HCVec3Cli
<1>3. p.cls \in ValueClasses /\ p.shape \in {"scalar", "array"} => Stub(p) = Scalars
  BY DEF Stub, HCBooleanCli, HCStringCli, HCIntegerCli, HCFloatCli, HCVec2Cli, HCVec3Cli
<1>4. p.cls \in ValueClasses /\ p.shape = "list" => Stub(p) = Changes
  BY <1>1 DEF Stub, HCStringCli, HCIntegerCli
<1>5. /\ p.cls = "call" /\ p.shape = "table" => Stub(p) = [call |-> "icall"]
      /\ p.cls = "call" /\ p.shape = "scalar" => Stub(p) = [call |-> "call"]
  BY DEF Stub, HCCallCli
<1> QED BY <1>1, <1>2, <1>3, <1>4, <1>5

LEMMA StubGives ==
  ASSUME NEW p, IsOfClass(p), NEW r
  PROVE  /\ p.cls \in ValueClasses /\ ReadsText(r) => Gives(p, r, "get")
         /\ p.cls \in ValueClasses /\ p.shape # "list" /\ ~ReadsText(r) => Gives(p, r, "set")
         /\ p.cls \in ValueClasses /\ p.shape = "list" /\ ~ReadsText(r) => Gives(p, r, "add") /\ Gives(p, r, "sub")
         /\ p.cls = "call" /\ ~ReadsText(r) => Gives(p, r, "call")
<1>1. /\ \A m \in {"get", "set"} : Elements[m] \in Operations /\ (IsGet(Elements[m]) <=> m = "get")
      /\ \A m \in {"get", "set"} : Scalars[m] \in Operations /\ (IsGet(Scalars[m]) <=> m = "get")
      /\ \A m \in {"get", "add", "sub"} : Changes[m] \in Operations /\ (IsGet(Changes[m]) <=> m = "get")
      /\ [call |-> "icall"].call \in Operations /\ ~IsGet([call |-> "icall"].call)
      /\ [call |-> "call"].call \in Operations /\ ~IsGet([call |-> "call"].call)
  BY DEF Elements, Scalars, Changes, IsGet, Operations
<1>2. p.cls \in ValueClasses => p.cls # "file"
  BY DEF ValueClasses
<1>3. CASE p.cls \in ValueClasses /\ p.shape = "table"
  BY <1>1, <1>2, <1>3, StubIs DEF Gives
<1>4. CASE p.cls \in ValueClasses /\ p.shape \in {"scalar", "array"}
  BY <1>1, <1>2, <1>4, StubIs DEF Gives
<1>5. CASE p.cls \in ValueClasses /\ p.shape = "list"
  BY <1>1, <1>2, <1>5, StubIs DEF Gives
<1>6. CASE p.cls = "call" /\ p.shape \in {"scalar", "table"}
  BY <1>1, <1>6, StubIs DEF Gives, ValueClasses
<1> QED BY <1>3, <1>4, <1>5, <1>6, StubIs DEF IsOfClass, ByClass, ClassesAndShapes, ValueClasses

\* What a request is.
IsRequest(r) == "op" \in DOMAIN r

LEMMA HCBooleanTextAsks ==
  ASSUME NEW p, IsOfClass(p), NEW r, p.cls = "bool", p.shape = "scalar" PROVE Asks(p, r, HCBooleanText(p, r))
<1> DEFINE vals == BooleanConvert(r.text)
<1>1. CASE r.op = "GetStr"
  <2>1. Gives(p, r, "get")
    BY <1>1, StubGives DEF ReadsText, ValueClasses
  <2>2. HCBooleanText(p, r) = GetText(p)
    BY <1>1 DEF HCBooleanText
  <2> QED BY <2>1, <2>2, GetTextAsks
<1>2. CASE r.op = "SetStr"
  <2>1. Gives(p, r, "set")
    BY <1>2, StubGives DEF ReadsText, ValueClasses
  <2>2. HCBooleanText(p, r) = Checked(<<NoMethod(p.set), NotConverted(vals, "RANGE")>>, Calls("set", vals))
    BY <1>2 DEF HCBooleanText
  <2>3. Asks(p, r, Calls("set", vals)) /\ NoMethod(p.set)[2] # "NONE" /\ NotConverted(vals, "RANGE")[2] # "NONE"
    BY <2>1, GivesAsks, Errors
  <2> QED BY <2>2, <2>3, TwoChecked
<1>3. CASE r.op = "SetStrLit"
  <2>1. Gives(p, r, "set")
    BY <1>3, StubGives DEF ReadsText, ValueClasses
  <2>2. HCBooleanText(p, r)
          = Checked(<<NoMethod(p.set)>> \o Literal(p, r.text), Calls("set", NumsOf(p.valenums, r.text)))
    BY <1>3 DEF HCBooleanText
  <2>3. NoMethod(p.set)[2] # "NONE"
    BY Errors
  <2> QED BY <2>1, <2>2, <2>3, LiteralAsks
<1>4. CASE r.op \notin {"GetStr", "SetStr", "SetStrLit"}
  <2>1. HCBooleanText(p, r) = NotOverridden
    BY <1>4 DEF HCBooleanText
  <2> QED BY <2>1, NotOverriddenAsks
<1> QED BY <1>1, <1>2, <1>3, <1>4

LEMMA HCBooleanTableTextAsks ==
  ASSUME NEW p, IsOfClass(p), NEW r, p.cls = "bool", p.shape = "table" PROVE Asks(p, r, HCBooleanTableText(p, r))
<1> DEFINE vals == BooleanConvert(r.text)
           x == NoElement(p, r.eid)
           y == NoMethod(p.set)
<1>1. CASE r.op = "GetStrTbl"
  <2>1. Gives(p, r, "get")
    BY <1>1, StubGives DEF ReadsText, ValueClasses
  <2>2. HCBooleanTableText(p, r) = GetText(p)
    BY <1>1 DEF HCBooleanTableText
  <2> QED BY <2>1, <2>2, GetTextAsks
<1>2. CASE r.op = "SetStrTbl"
  <2>1. Gives(p, r, "set")
    BY <1>2, StubGives DEF ReadsText, ValueClasses
  <2>2. HCBooleanTableText(p, r)
          = Checked(<<x, y>> \o <<NotConverted(vals, "RANGE"), Unnamed(p, vals)>>, Calls("set", vals))
    BY <1>2 DEF HCBooleanTableText
  <2>3. /\ Asks(p, r, Calls("set", vals)) /\ x[2] # "NONE" /\ y[2] # "NONE"
        /\ NotConverted(vals, "RANGE")[2] # "NONE" /\ Unnamed(p, vals)[2] # "NONE"
    BY <2>1, GivesAsks, Errors
  <2> HIDE DEF x, y, vals
  <2> QED BY <2>2, <2>3, FourChecked
<1>3. CASE r.op = "SetStrLitTbl"
  <2>1. Gives(p, r, "set")
    BY <1>3, StubGives DEF ReadsText, ValueClasses
  <2>2. HCBooleanTableText(p, r)
          = Checked(<<x, y>> \o Literal(p, r.text), Calls("set", NumsOf(p.valenums, r.text)))
    BY <1>3 DEF HCBooleanTableText
  <2>3. x[2] # "NONE" /\ y[2] # "NONE"
    BY Errors
  <2> HIDE DEF x, y
  <2> QED BY <2>1, <2>2, <2>3, LiteralAsks
<1>4. CASE r.op \notin {"GetStrTbl", "SetStrTbl", "SetStrLitTbl"}
  <2>1. HCBooleanTableText(p, r) = NotOverridden
    BY <1>4 DEF HCBooleanTableText
  <2> QED BY <2>1, NotOverriddenAsks
<1> QED BY <1>1, <1>2, <1>3, <1>4

LEMMA HCIntegerTextAsks ==
  ASSUME NEW p, IsOfClass(p), NEW r, p.cls = "int", p.shape \in {"scalar", "table"} PROVE Asks(p, r, HCIntegerText(p, r))
<1>1. CASE r.op = "GetStr"
  <2>1. Gives(p, r, "get")
    BY <1>1, StubGives DEF ReadsText, ValueClasses
  <2>2. HCIntegerText(p, r) = GetText(p)
    BY <1>1 DEF HCIntegerText
  <2> QED BY <2>1, <2>2, GetTextAsks
<1>2. CASE r.op = "SetStr"
  <2>1. Gives(p, r, "set")
    BY <1>2, StubGives DEF ReadsText, ValueClasses
  <2>2. HCIntegerText(p, r) = IntegerSet(p, p.set, "set", r.text)
    BY <1>2 DEF HCIntegerText
  <2> QED BY <2>1, <2>2, IntegerSetAsks
<1>3. CASE r.op = "SetStrLit"
  <2>1. Gives(p, r, "set")
    BY <1>3, StubGives DEF ReadsText, ValueClasses
  <2>2. HCIntegerText(p, r) = IntegerSetLit(p, p.set, "set", r.text)
    BY <1>3 DEF HCIntegerText
  <2> QED BY <2>1, <2>2, IntegerSetLitAsks
<1>4. CASE r.op \notin {"GetStr", "SetStr", "SetStrLit"}
  <2>1. HCIntegerText(p, r) = NotOverridden
    BY <1>4 DEF HCIntegerText
  <2> QED BY <2>1, NotOverriddenAsks
<1> QED BY <1>1, <1>2, <1>3, <1>4

LEMMA HCIntegerTableTextAsks ==
  ASSUME NEW p, IsOfClass(p), NEW r, IsRequest(r), p.cls = "int", p.shape = "table" PROVE Asks(p, r, HCIntegerTableText(p, r))
<1> DEFINE op == CASE r.op = "GetStrTbl" -> "GetStr" [] r.op = "SetStrTbl" -> "SetStr" [] OTHER -> "SetStrLit"
           s == [r EXCEPT !.op = op]
<1>1. CASE r.op \notin {"GetStrTbl", "SetStrTbl", "SetStrLitTbl"}
  <2>1. HCIntegerTableText(p, r) = NotOverridden
    BY <1>1 DEF HCIntegerTableText
  <2> QED BY <2>1, NotOverriddenAsks
<1>2. CASE r.op \in {"GetStrTbl", "SetStrTbl", "SetStrLitTbl"} /\ r.eid >= p.size
  <2>1. HCIntegerTableText(p, r) = Refuse("EID")
    BY <1>2 DEF HCIntegerTableText
  <2> QED BY <2>1, RefuseIs DEF Asks
<1>3. CASE r.op \in {"GetStrTbl", "SetStrTbl", "SetStrLitTbl"} /\ ~(r.eid >= p.size)
  <2>1. HCIntegerTableText(p, r) = HCIntegerText(p, s)
    BY <1>3 DEF HCIntegerTableText
  <2>2. s.op = op
    BY DEF IsRequest
  <2>3. ReadsText(s) <=> ReadsText(r)
    BY <1>3, <2>2 DEF ReadsText
  <2>4. Asks(p, s, HCIntegerText(p, s))
    <3> HIDE DEF s
    <3> QED BY HCIntegerTextAsks
  <2> HIDE DEF s
  <2> QED BY <2>1, <2>3, <2>4 DEF Asks
<1> QED BY <1>1, <1>2, <1>3

LEMMA HCIntegerListTextAsks ==
  ASSUME NEW p, IsOfClass(p), NEW r, p.cls = "int", p.shape = "list" PROVE Asks(p, r, HCIntegerListText(p, r))
<1>1. CASE r.op = "GetStrTbl"
  <2>1. Gives(p, r, "get")
    BY <1>1, StubGives DEF ReadsText, ValueClasses
  <2>2. HCIntegerListText(p, r) = GetText(p)
    BY <1>1 DEF HCIntegerListText
  <2> QED BY <2>1, <2>2, GetTextAsks
<1>2. CASE r.op \in {"AddStr", "AddStrLit", "SubStr", "SubStrLit"}
  <2>1. Gives(p, r, "add") /\ Gives(p, r, "sub")
    BY <1>2, StubGives DEF ReadsText, ValueClasses
  <2>2. /\ r.op = "AddStr" => HCIntegerListText(p, r) = IntegerSet(p, p.add, "add", r.text)
        /\ r.op = "AddStrLit" => HCIntegerListText(p, r) = IntegerSetLit(p, p.add, "add", r.text)
        /\ r.op = "SubStr" => HCIntegerListText(p, r) = IntegerSet(p, p.sub, "sub", r.text)
        /\ r.op = "SubStrLit" => HCIntegerListText(p, r) = IntegerSetLit(p, p.sub, "sub", r.text)
    BY <1>2 DEF HCIntegerListText
  <2> QED BY <1>2, <2>1, <2>2, IntegerSetAsks, IntegerSetLitAsks
<1>3. CASE r.op \notin {"GetStrTbl", "AddStr", "AddStrLit", "SubStr", "SubStrLit"}
  <2>1. HCIntegerListText(p, r) = NotOverridden
    BY <1>3 DEF HCIntegerListText
  <2> QED BY <2>1, NotOverriddenAsks
<1> QED BY <1>1, <1>2, <1>3

LEMMA HCIntegerArrayTextAsks ==
  ASSUME NEW p, IsOfClass(p), NEW r, p.cls = "int", p.shape = "array" PROVE Asks(p, r, HCIntegerArrayText(p, r))
<1>1. CASE r.op = "GetStr"
  <2>1. Gives(p, r, "get")
    BY <1>1, StubGives DEF ReadsText, ValueClasses
  <2>2. HCIntegerArrayText(p, r) = GetText(p)
    BY <1>1 DEF HCIntegerArrayText
  <2> QED BY <2>1, <2>2, GetTextAsks
<1>2. CASE r.op \in {"SetStr", "SetStrLit"}
  <2>1. Gives(p, r, "set")
    BY <1>2, StubGives DEF ReadsText, ValueClasses
  <2>2. HCIntegerArrayText(p, r) = Plain(p, p.set, "set", ArrayConvert(p.type, r.text))
    BY <1>2 DEF HCIntegerArrayText
  <2> QED BY <2>1, <2>2, PlainAsks
<1>3. CASE r.op \notin {"GetStr", "SetStr", "SetStrLit"}
  <2>1. HCIntegerArrayText(p, r) = NotOverridden
    BY <1>3 DEF HCIntegerArrayText
  <2> QED BY <2>1, NotOverriddenAsks
<1> QED BY <1>1, <1>2, <1>3

LEMMA HCStringTextAsks ==
  ASSUME NEW p, IsOfClass(p), NEW r, p.cls = "str", p.shape = "scalar" PROVE Asks(p, r, HCStringText(p, r))
<1>1. CASE r.op = "GetStr"
  <2>1. Gives(p, r, "get")
    BY <1>1, StubGives DEF ReadsText, ValueClasses
  <2>2. HCStringText(p, r) = GetText(p)
    BY <1>1 DEF HCStringText
  <2> QED BY <2>1, <2>2, GetTextAsks
<1>2. CASE r.op \in {"SetStr", "SetStrLit"}
  <2>1. Gives(p, r, "set")
    BY <1>2, StubGives DEF ReadsText, ValueClasses
  <2>2. HCStringText(p, r) = Plain(p, p.set, "set", {r.text})
    BY <1>2 DEF HCStringText
  <2> QED BY <2>1, <2>2, PlainAsks
<1>3. CASE r.op \notin {"GetStr", "SetStr", "SetStrLit"}
  <2>1. HCStringText(p, r) = NotOverridden
    BY <1>3 DEF HCStringText
  <2> QED BY <2>1, NotOverriddenAsks
<1> QED BY <1>1, <1>2, <1>3

LEMMA HCStringTableTextAsks ==
  ASSUME NEW p, IsOfClass(p), NEW r, p.cls = "str", p.shape = "table" PROVE Asks(p, r, HCStringTableText(p, r))
<1>1. CASE r.op = "GetStrTbl"
  <2>1. Gives(p, r, "get")
    BY <1>1, StubGives DEF ReadsText, ValueClasses
  <2>2. HCStringTableText(p, r) = GetText(p)
    BY <1>1 DEF HCStringTableText
  <2> QED BY <2>1, <2>2, GetTextAsks
<1>2. CASE r.op \in {"SetStrTbl", "SetStrLitTbl"}
  <2>1. Gives(p, r, "set")
    BY <1>2, StubGives DEF ReadsText, ValueClasses
  <2>2. HCStringTableText(p, r) = Plain(p, p.set, "set", {r.text})
    BY <1>2 DEF HCStringTableText
  <2> QED BY <2>1, <2>2, PlainAsks
<1>3. CASE r.op \notin {"GetStrTbl", "SetStrTbl", "SetStrLitTbl"}
  <2>1. HCStringTableText(p, r) = NotOverridden
    BY <1>3 DEF HCStringTableText
  <2> QED BY <2>1, NotOverriddenAsks
<1> QED BY <1>1, <1>2, <1>3

LEMMA HCStringListTextAsks ==
  ASSUME NEW p, IsOfClass(p), NEW r, p.cls = "str", p.shape = "list" PROVE Asks(p, r, HCStringListText(p, r))
<1>1. CASE r.op = "GetStrTbl"
  <2>1. Gives(p, r, "get")
    BY <1>1, StubGives DEF ReadsText, ValueClasses
  <2>2. HCStringListText(p, r) = GetText(p)
    BY <1>1 DEF HCStringListText
  <2> QED BY <2>1, <2>2, GetTextAsks
<1>2. CASE r.op \in {"AddStr", "AddStrLit"}
  <2>1. Gives(p, r, "add")
    BY <1>2, StubGives DEF ReadsText, ValueClasses
  <2>2. HCStringListText(p, r) = Plain(p, p.add, "add", {r.text})
    BY <1>2 DEF HCStringListText
  <2> QED BY <2>1, <2>2, PlainAsks
<1>3. CASE r.op \in {"SubStr", "SubStrLit"}
  <2>1. Gives(p, r, "sub")
    BY <1>3, StubGives DEF ReadsText, ValueClasses
  <2>2. HCStringListText(p, r) = Plain(p, p.sub, "sub", {r.text})
    BY <1>3 DEF HCStringListText
  <2> QED BY <2>1, <2>2, PlainAsks
<1>4. CASE r.op \notin {"GetStrTbl", "AddStr", "AddStrLit", "SubStr", "SubStrLit"}
  <2>1. HCStringListText(p, r) = NotOverridden
    BY <1>4 DEF HCStringListText
  <2> QED BY <2>1, NotOverriddenAsks
<1> QED BY <1>1, <1>2, <1>3, <1>4

LEMMA HCFloatTextAsks ==
  ASSUME NEW p, IsOfClass(p), NEW r, p.cls \in {"float", "vec2", "vec3"}, p.shape = "scalar" PROVE Asks(p, r, HCFloatText(p, r))
<1>1. CASE r.op = "GetStr"
  <2>1. Gives(p, r, "get")
    BY <1>1, StubGives DEF ReadsText, ValueClasses
  <2>2. HCFloatText(p, r) = GetText(p)
    BY <1>1 DEF HCFloatText
  <2> QED BY <2>1, <2>2, GetTextAsks
<1>2. CASE r.op \in {"SetStr", "SetStrLit"}
  <2>1. Gives(p, r, "set")
    BY <1>2, StubGives DEF ReadsText, ValueClasses
  <2>2. HCFloatText(p, r) = Plain(p, p.set, "set", FloatConvert(p, r.text))
    BY <1>2 DEF HCFloatText
  <2> QED BY <2>1, <2>2, PlainAsks
<1>3. CASE r.op \notin {"GetStr", "SetStr", "SetStrLit"}
  <2>1. HCFloatText(p, r) = NotOverridden
    BY <1>3 DEF HCFloatText
  <2> QED BY <2>1, NotOverriddenAsks
<1> QED BY <1>1, <1>2, <1>3

LEMMA HCFloatTableTextAsks ==
  ASSUME NEW p, IsOfClass(p), NEW r, p.cls \in {"float", "vec2", "vec3"}, p.shape = "table" PROVE Asks(p, r, HCFloatTableText(p, r))
<1> DEFINE x == NoElement(p, r.eid)
<1>0. x[2] # "NONE"
  BY Errors
<1>1. CASE r.op = "GetStrTbl"
  <2>1. Gives(p, r, "get")
    BY <1>1, StubGives DEF ReadsText, ValueClasses
  <2>2. HCFloatTableText(p, r) = Checked(<<x>>, GetText(p))
    BY <1>1 DEF HCFloatTableText
  <2>3. Asks(p, r, GetText(p))
    BY <2>1, GetTextAsks
  <2> HIDE DEF x
  <2> QED BY <1>0, <2>2, <2>3, OneChecked
<1>2. CASE r.op \in {"SetStrTbl", "SetStrLitTbl"}
  <2>1. Gives(p, r, "set")
    BY <1>2, StubGives DEF ReadsText, ValueClasses
  <2> DEFINE o == Plain(p, p.set, "set", FloatConvert(p, r.text))
  <2>2. HCFloatTableText(p, r) = Checked(<<x>>, o)
    BY <1>2 DEF HCFloatTableText
  <2>3. Asks(p, r, o)
    BY <2>1, PlainAsks
  <2> HIDE DEF x, o
  <2> QED BY <1>0, <2>2, <2>3, OneChecked
<1>3. CASE r.op \notin {"GetStrTbl", "SetStrTbl", "SetStrLitTbl"}
  <2>1. HCFloatTableText(p, r) = NotOverridden
    BY <1>3 DEF HCFloatTableText
  <2> QED BY <2>1, NotOverriddenAsks
<1> QED BY <1>1, <1>2, <1>3

LEMMA HCCallTextAsks ==
  ASSUME NEW p, IsOfClass(p), NEW r, p.cls = "call"
  PROVE  Asks(p, r, HCCallText(p, r)) /\ Asks(p, r, HCCallTableText(p, r))
<1>1. CASE r.op \in {"Call", "CallTbl"}
  <2>1. Gives(p, r, "call")
    BY <1>1, StubGives DEF ReadsText
  <2>2. Asks(p, r, Calls("call", {})) /\ NoElement(p, r.eid)[2] # "NONE"
    BY <2>1, GivesAsks, Errors
  <2>3. Asks(p, r, Checked(<<NoElement(p, r.eid)>>, Calls("call", {})))
    BY <2>2, OneChecked
  <2> QED BY <2>2, <2>3, NotOverriddenAsks DEF HCCallText, HCCallTableText
<1>2. CASE r.op \notin {"Call", "CallTbl"}
  BY <1>2, NotOverriddenAsks DEF HCCallText, HCCallTableText
<1> QED BY <1>1, <1>2

LEMMA TextAsks ==
  ASSUME NEW p, IsOfClass(p), NEW r, IsRequest(r) PROVE Asks(p, r, Text(p, r))
<1>1. CASE p.cls = "call"
  BY <1>1, HCCallTextAsks DEF Text
<1>2. CASE p.cls = "bool"
  <2>1. p.shape \in {"scalar", "table"}
    BY <1>2, StubIs
  <2>2. Text(p, r) = IF p.shape = "table" THEN HCBooleanTableText(p, r) ELSE HCBooleanText(p, r)
    BY <1>2 DEF Text
  <2> QED BY <1>2, <2>1, <2>2, HCBooleanTextAsks, HCBooleanTableTextAsks
<1>3. CASE p.cls \in {"float", "vec2", "vec3"}
  <2>1. p.shape \in {"scalar", "table"}
    BY <1>3, StubIs
  <2>2. Text(p, r) = IF p.shape = "table" THEN HCFloatTableText(p, r) ELSE HCFloatText(p, r)
    BY <1>3 DEF Text, HCVec2Text, HCVec2TableText, HCVec3Text, HCVec3TableText
  <2> QED BY <1>3, <2>1, <2>2, HCFloatTextAsks, HCFloatTableTextAsks
<1>4. CASE p.cls = "str"
  <2>1. p.shape \in {"scalar", "table", "list"}
    BY <1>4, StubIs
  <2>2. Text(p, r) = CASE p.shape = "table" -> HCStringTableText(p, r) [] p.shape = "list" -> HCStringListText(p, r)
                       [] OTHER -> HCStringText(p, r)
    BY <1>4 DEF Text
  <2> QED BY <1>4, <2>1, <2>2, HCStringTextAsks, HCStringTableTextAsks, HCStringListTextAsks
<1>5. CASE p.cls = "int"
  <2>1. p.shape \in {"scalar", "table", "list", "array"}
    BY <1>5, StubIs
  <2>2. Text(p, r) = CASE p.shape = "table" -> HCIntegerTableText(p, r) [] p.shape = "list" -> HCIntegerListText(p, r)
                       [] p.shape = "array" -> HCIntegerArrayText(p, r) [] OTHER -> HCIntegerText(p, r)
    BY <1>5 DEF Text
  <2> QED BY <1>5, <2>1, <2>2, HCIntegerTextAsks, HCIntegerTableTextAsks, HCIntegerListTextAsks, HCIntegerArrayTextAsks
<1>6. CASE p.cls = "file"
  <2>1. Text(p, r) = NotOverridden
    BY <1>6 DEF Text
  <2> QED BY <2>1, NotOverriddenAsks
<1> QED BY <1>1, <1>2, <1>3, <1>4, <1>5, <1>6, StubIs DEF ValueClasses

-----------------------------------------------------------------------------
(* A command at a parameter.                                               *)

\* What a parameter does with a command: it cannot make an answer, refuses it with an error, or has the method called
\* for which the stub of a proxy gives the same operation on, with a value only of the parameter's type.
Does(p, c, o) ==
  \/ o = Unhandled
  \/ IsRefused(o)
  \/ /\ o.method # "none" /\ p.cls # "file" /\ Stub(p)[o.method] = c.op
     /\ o.method = "get" <=> IsGet(c.op)
     /\ o.method = "call" <=> IsCall(c.op)
     /\ o.method \in {"set", "add", "sub"} => c.type = TypeCode(p)
     /\ o.method \in {"get", "set", "add", "sub", "call"}

LEMMA UnhandledIs == Unhandled.method = "none" /\ Unhandled.err # "NONE"
BY DEF Unhandled

\* The operation is that of the stub's method.
Serves(p, c, m) ==
  /\ p.cls # "file" /\ Stub(p)[m] = c.op /\ (m = "get" <=> IsGet(c.op)) /\ (m = "call" <=> IsCall(c.op))
  /\ m \in {"get", "set", "add", "sub", "call"}

LEMMA ReadsDoes == ASSUME NEW p, NEW c, Serves(p, c, "get") PROVE Does(p, c, Reads(p))
<1> DEFINE x == NoMethod(p.get)
           o == Calls("get", {})
<1>1. Reads(p) = Checked(<<x>>, o) /\ IsChecks(<<x>>)
  BY OneCheck, Errors DEF Reads
<1>2. Does(p, c, o)
  BY CallsIs DEF Does, Serves
<1> HIDE DEF x, o
<1> QED BY <1>1, <1>2, CheckedIs DEF Does, IsRefused

LEMMA WritesDoes ==
  ASSUME NEW p, NEW c, NEW has, NEW m \in {"set", "add", "sub"}, Serves(p, c, m) PROVE Does(p, c, Writes(p, has, m, c))
<1> DEFINE x == <<c.type # TypeCode(p), "TYPE">>
           y == NoMethod(has)
           o == Calls(m, c.vals)
<1>1. CASE c.type # TypeCode(p) /\ ~SkipValue(c.type)
  <2>1. Writes(p, has, m, c) = Unhandled
    BY <1>1 DEF Writes
  <2> QED BY <2>1 DEF Does
<1>2. CASE ~(c.type # TypeCode(p) /\ ~SkipValue(c.type)) /\ c.type # TypeCode(p)
  <2>1. Writes(p, has, m, c) = Checked(<<x, y>>, o)
    BY <1>2 DEF Writes
  <2>2. DOMAIN <<x, y>> = 1..2 /\ (<<x, y>>)[1][1]
    <3>1. x[1] = TRUE
      BY <1>2
    <3> HIDE DEF x, y
    <3>2. DOMAIN <<x, y>> = 1..2 /\ (<<x, y>>)[1] = x
      OBVIOUS
    <3> QED BY <3>1, <3>2
  <2>3. IsChecks(<<x, y>>)
    <3>1. x[2] # "NONE" /\ y[2] # "NONE"
      BY Errors
    <3> HIDE DEF x, y
    <3> QED BY <3>1, ThreeChecks
  <2>4. \E e : Checked(<<x, y>>, o) = Refuse(e)
    <3>1. \E i \in DOMAIN <<x, y>> : (<<x, y>>)[i][1]
      BY <2>2
    <3> HIDE DEF x, y, o
    <3> QED BY <3>1 DEF Checked
  <2>5. Checked(<<x, y>>, o).method = "none"
    <3> HIDE DEF x, y, o
    <3> QED BY <2>4 DEF Refuse
  <2>6. o.method # "none"
    BY CallsIs
  <2>7. IsRefused(Checked(<<x, y>>, o))
    <3> HIDE DEF x, y, o
    <3> QED BY <2>3, <2>5, <2>6, CheckedIs DEF IsRefused
  <2> HIDE DEF x, y, o
  <2> QED BY <2>1, <2>7 DEF Does
<1>3. CASE c.type = TypeCode(p)
  <2>1. Writes(p, has, m, c) = Checked(<<x, y>>, o)
    BY <1>3 DEF Writes
  <2>2. IsChecks(<<x, y>>)
    <3>1. x[2] # "NONE" /\ y[2] # "NONE"
      BY Errors
    <3> HIDE DEF x, y
    <3> QED BY <3>1, ThreeChecks
  <2>3. Does(p, c, o)
    BY <1>3, CallsIs DEF Does, Serves
  <2> HIDE DEF x, y, o
  <2> QED BY <2>1, <2>2, <2>3, CheckedIs DEF Does, IsRefused
<1> QED BY <1>1, <1>2, <1>3

LEMMA OpsServed ==
  ASSUME NEW p, IsOfClass(p), NEW c
  PROVE  /\ p.cls \in ValueClasses /\ p.shape = "table" =>
              (c.op = "iget" => Serves(p, c, "get")) /\ (c.op = "iset" => Serves(p, c, "set"))
         /\ p.cls \in ValueClasses /\ p.shape \in {"scalar", "array"} =>
              (c.op = "get" => Serves(p, c, "get")) /\ (c.op = "set" => Serves(p, c, "set"))
         /\ p.cls \in ValueClasses /\ p.shape = "list" =>
              /\ c.op = "iget" => Serves(p, c, "get")
              /\ c.op = "add" => Serves(p, c, "add")
              /\ c.op = "sub" => Serves(p, c, "sub")
         /\ p.cls = "call" /\ p.shape = "table" /\ c.op = "icall" => Serves(p, c, "call")
         /\ p.cls = "call" /\ p.shape = "scalar" /\ c.op = "call" => Serves(p, c, "call")
<1>1. p.cls \in ValueClasses => p.cls \notin {"file", "call"}
  BY DEF ValueClasses
<1>2. CASE p.cls \in ValueClasses /\ p.shape = "table"
  <2>1. Stub(p) = [get |-> "iget", set |-> "iset"]
    BY <1>2, StubIs DEF Elements
  <2> QED BY <1>1, <1>2, <2>1 DEF Serves, IsGet, IsCall
<1>3. CASE p.cls \in ValueClasses /\ p.shape \in {"scalar", "array"}
  <2>1. Stub(p) = [get |-> "get", set |-> "set"]
    BY <1>3, StubIs DEF Scalars
  <2> QED BY <1>1, <1>3, <2>1 DEF Serves, IsGet, IsCall
<1>4. CASE p.cls \in ValueClasses /\ p.shape = "list"
  <2>1. Stub(p) = [get |-> "iget", add |-> "add", sub |-> "sub"]
    BY <1>4, StubIs DEF Changes
  <2> QED BY <1>1, <1>4, <2>1 DEF Serves, IsGet, IsCall
<1>5. CASE p.cls = "call"
  BY <1>5, StubIs DEF Serves, IsGet, IsCall, ValueClasses
<1> QED BY <1>2, <1>3, <1>4, <1>5, StubIs DEF ValueClasses

LEMMA CellsDo ==
  ASSUME NEW p, IsOfClass(p), NEW c, c.op \in Operations PROVE Does(p, c, Cells(p, c))
<1>1. Does(p, c, Unhandled)
  BY DEF Does
<1>2. CASE p.cls \in ValueClasses /\ p.shape = "table"
  <2>1. Cells(p, c) = TableCells(p, c)
    BY <1>2 DEF Cells, ByClass, ValueClasses, HCBooleanTableCells, HCStringTableCells, HCIntegerTableCells,
                HCFloatTableCells, HCVec2TableCells, HCVec3TableCells
  <2>2. CASE c.op = "iget"
    <3>1. TableCells(p, c) = Reads(p)
      BY <2>2 DEF TableCells
    <3> QED BY <1>2, <2>1, <2>2, <3>1, OpsServed, ReadsDoes
  <2>3. CASE c.op = "iset"
    <3>1. TableCells(p, c) = Writes(p, p.set, "set", c)
      BY <2>3 DEF TableCells
    <3> QED BY <1>2, <2>1, <2>3, <3>1, OpsServed, WritesDoes
  <2>4. CASE c.op \notin {"iget", "iset"}
    BY <1>1, <2>1, <2>4 DEF TableCells
  <2> QED BY <2>2, <2>3, <2>4
<1>3. CASE p.cls \in ValueClasses /\ p.shape \in {"scalar", "array"}
  <2>1. Cells(p, c) = ScalarCells(p, c)
    BY <1>3, StubIs DEF Cells, ByClass, ValueClasses, HCBooleanCells, HCStringCells, HCIntegerCells, HCIntegerArrayCells,
                HCFloatCells, HCVec2Cells, HCVec3Cells
  <2>2. CASE c.op = "get"
    <3>1. ScalarCells(p, c) = Reads(p)
      BY <2>2 DEF ScalarCells
    <3> QED BY <1>3, <2>1, <2>2, <3>1, OpsServed, ReadsDoes
  <2>3. CASE c.op = "set"
    <3>1. ScalarCells(p, c) = Writes(p, p.set, "set", c)
      BY <2>3 DEF ScalarCells
    <3> QED BY <1>3, <2>1, <2>3, <3>1, OpsServed, WritesDoes
  <2>4. CASE c.op \notin {"get", "set"}
    BY <1>1, <2>1, <2>4 DEF ScalarCells
  <2> QED BY <2>2, <2>3, <2>4
<1>4. CASE p.cls \in ValueClasses /\ p.shape = "list"
  <2>1. Cells(p, c) = ListCells(p, c)
    BY <1>4, StubIs DEF Cells, ByClass, HCStringListCells, HCIntegerListCells
  <2>2. CASE c.op = "iget"
    <3>1. ListCells(p, c) = Reads(p)
      BY <2>2 DEF ListCells
    <3> QED BY <1>4, <2>1, <2>2, <3>1, OpsServed, ReadsDoes
  <2>3. CASE c.op = "add"
    <3>1. ListCells(p, c) = Writes(p, p.add, "add", c)
      BY <2>3 DEF ListCells
    <3> QED BY <1>4, <2>1, <2>3, <3>1, OpsServed, WritesDoes
  <2>4. CASE c.op = "sub"
    <3>1. ListCells(p, c) = Writes(p, p.sub, "sub", c)
      BY <2>4 DEF ListCells
    <3> QED BY <1>4, <2>1, <2>4, <3>1, OpsServed, WritesDoes
  <2>5. CASE c.op \notin {"iget", "add", "sub"}
    BY <1>1, <2>1, <2>5 DEF ListCells
  <2> QED BY <2>2, <2>3, <2>4, <2>5
<1>5. CASE p.cls = "call"
  <2>1. p.shape \in {"scalar", "table"}
    BY <1>5, StubIs DEF ValueClasses
  <2>2. Cells(p, c) = IF p.shape = "table" THEN HCCallTableCells(p, c) ELSE HCCallCells(p, c)
    BY <1>5, <2>1 DEF Cells, ByClass
  <2>3. Serves(p, c, "call") => Does(p, c, Calls("call", {}))
    BY CallsIs DEF Does, Serves
  <2> QED BY <1>1, <1>5, <2>1, <2>2, <2>3, OpsServed DEF HCCallCells, HCCallTableCells
<1>6. CASE p.cls = "file"
  <2>1. Cells(p, c) = HCFileCells(p, c)
    BY <1>6, StubIs DEF Cells, ByClass
  <2>2. HCFileCells(p, c) = Unhandled
    BY DEF HCFileCells, Operations
  <2> QED BY <1>1, <2>1, <2>2
<1> QED BY <1>2, <1>3, <1>4, <1>5, <1>6, StubIs DEF ValueClasses

-----------------------------------------------------------------------------
(* The proxies of an information file are of the classes.                  *)

\* A parameter's description, as far as a program does not choose it.
Described(p, n, cls, shape) ==
  /\ p.name = n /\ p.cls = cls /\ p.shape = shape
  /\ {"name", "cls", "shape", "type", "size", "valenums", "eidenums", "scale", "sav", "add", "sub"} \subseteq DOMAIN p

LEMMA TemplatesAre ==
  /\ \A n, c, t, g, s : Described(Scalar(n, c, t, g, s), n, c, "scalar")
  /\ \A n, c, t, g, s, size, eids : Described(Table(n, c, t, g, s, size, eids), n, c, "table")
  /\ \A n, c, t, g, a, b, size : Described(List(n, c, t, g, a, b, size), n, c, "list")
<1>1. Described(Blank, "", "call", "scalar") /\ {"name", "get", "set"} \subseteq DOMAIN Blank
  BY DEF Blank, Described
<1>2. \A n, c, t, g, s : Described(Scalar(n, c, t, g, s), n, c, "scalar")
  <2> SUFFICES ASSUME NEW n, NEW c, NEW t, NEW g, NEW s PROVE Described(Scalar(n, c, t, g, s), n, c, "scalar")
    OBVIOUS
  <2> DEFINE q == Scalar(n, c, t, g, s)
  <2>1. DOMAIN q = DOMAIN Blank
    BY DEF Scalar
  <2>2. q.name = n /\ q.cls = c /\ q.shape = "scalar"
    BY <1>1 DEF Described, Scalar
  <2> HIDE DEF q
  <2>3. Described(q, n, c, "scalar")
    BY <1>1, <2>1, <2>2 DEF Described
  <2> QED BY <2>3 DEF q
<1>3. \A n, c, t, g, s, size, eids : Described(Table(n, c, t, g, s, size, eids), n, c, "table")
  BY <1>2 DEF Described, Table
<1>4. \A n, c, t, g, a, b, size : Described(List(n, c, t, g, a, b, size), n, c, "list")
  <2> SUFFICES ASSUME NEW n, NEW c, NEW t, NEW g, NEW a, NEW b, NEW size
               PROVE  Described(List(n, c, t, g, a, b, size), n, c, "list")
    OBVIOUS
  <2> DEFINE q == Scalar(n, c, t, g, FALSE)
  <2>1. Described(q, n, c, "scalar")
    BY <1>2, Zenon
  <2>2. List(n, c, t, g, a, b, size) = [q EXCEPT !.shape = "list", !.add = a, !.sub = b, !.size = size]
    BY DEF List
  <2> HIDE DEF q
  <2> QED BY <2>1, <2>2 DEF Described
<1> QED BY <1>2, <1>3, <1>4

LEMMA ClassesAre ==
  /\ \A n : Described(HCCall(n), n, "call", "scalar")
  /\ \A n, m, e : Described(HCCallTable(n, m, e), n, "call", "table")
  /\ \A n, g, s : Described(HCFile(n, g, s), n, "file", "scalar")
  /\ \A n, g, s, v : Described(HCBoolean(n, g, s, v), n, "bool", "scalar")
  /\ \A n, g, s, m, e, v : Described(HCBooleanTable(n, g, s, m, e, v), n, "bool", "table")
  /\ \A n, g, s : Described(HCString(n, g, s), n, "str", "scalar")
  /\ \A n, g, s, m, e : Described(HCStringTable(n, g, s, m, e), n, "str", "table")
  /\ \A n, g, a, b, m : Described(HCStringList(n, g, a, b, m), n, "str", "list")
  /\ \A n, t, g, s, v : Described(HCInteger(n, t, g, s, v), n, "int", "scalar")
  /\ \A n, t, g, s, m, e, v : Described(HCIntegerTable(n, t, g, s, m, e, v), n, "int", "table")
  /\ \A n, t, g, a, b, m, v : Described(HCIntegerList(n, t, g, a, b, m, v), n, "int", "list")
  /\ \A n, t, g, s : Described(HCIntegerArray(n, t, g, s), n, "int", "array")
  /\ \A n, t, g, s, c : Described(HCFloat(n, t, g, s, c), n, "float", "scalar")
  /\ \A n, t, g, s, m, e, c : Described(HCFloatTable(n, t, g, s, m, e, c), n, "float", "table")
  /\ \A n, t, g, s, c, d : Described(HCVec2(n, t, g, s, c, d), n, "vec2", "scalar")
  /\ \A n, t, g, s, m, e, c, d : Described(HCVec2Table(n, t, g, s, m, e, c, d), n, "vec2", "table")
  /\ \A n, t, g, s, c, d, f : Described(HCVec3(n, t, g, s, c, d, f), n, "vec3", "scalar")
  /\ \A n, t, g, s, m, e, c, d, f : Described(HCVec3Table(n, t, g, s, m, e, c, d, f), n, "vec3", "table")
<1>1. /\ \A n : Described(HCCall(n), n, "call", "scalar")
      /\ \A n, m, e : Described(HCCallTable(n, m, e), n, "call", "table")
      /\ \A n, g, s : Described(HCFile(n, g, s), n, "file", "scalar")
  BY TemplatesAre DEF HCCall, HCCallTable, HCFile
<1>2. /\ \A n, g, s, v : Described(HCBoolean(n, g, s, v), n, "bool", "scalar")
      /\ \A n, g, s, m, e, v : Described(HCBooleanTable(n, g, s, m, e, v), n, "bool", "table")
  BY TemplatesAre DEF Described, HCBoolean, HCBooleanTable
<1>3. /\ \A n, g, s : Described(HCString(n, g, s), n, "str", "scalar")
      /\ \A n, g, s, m, e : Described(HCStringTable(n, g, s, m, e), n, "str", "table")
      /\ \A n, g, a, b, m : Described(HCStringList(n, g, a, b, m), n, "str", "list")
  BY TemplatesAre DEF HCString, HCStringTable, HCStringList
<1>4. /\ \A n, t, g, s, v : Described(HCInteger(n, t, g, s, v), n, "int", "scalar")
      /\ \A n, t, g, s, m, e, v : Described(HCIntegerTable(n, t, g, s, m, e, v), n, "int", "table")
  BY TemplatesAre DEF Described, HCInteger, HCIntegerTable
<1>5. /\ \A n, t, g, a, b, m, v : Described(HCIntegerList(n, t, g, a, b, m, v), n, "int", "list")
      /\ \A n, t, g, s : Described(HCIntegerArray(n, t, g, s), n, "int", "array")
  BY TemplatesAre DEF Described, HCIntegerList, HCIntegerArray
<1>6. /\ \A n, t, g, s, c : Described(HCFloat(n, t, g, s, c), n, "float", "scalar")
      /\ \A n, t, g, s, m, e, c : Described(HCFloatTable(n, t, g, s, m, e, c), n, "float", "table")
  BY TemplatesAre DEF Described, HCFloat, HCFloatTable
<1>7. /\ \A n, t, g, s, c, d : Described(HCVec2(n, t, g, s, c, d), n, "vec2", "scalar")
      /\ \A n, t, g, s, m, e, c, d : Described(HCVec2Table(n, t, g, s, m, e, c, d), n, "vec2", "table")
  BY TemplatesAre DEF Described, HCVec2, HCVec2Table
<1>8. /\ \A n, t, g, s, c, d, f : Described(HCVec3(n, t, g, s, c, d, f), n, "vec3", "scalar")
      /\ \A n, t, g, s, m, e, c, d, f : Described(HCVec3Table(n, t, g, s, m, e, c, d, f), n, "vec3", "table")
  BY TemplatesAre DEF Described, HCVec3, HCVec3Table
<1> QED BY <1>1, <1>2, <1>3, <1>4, <1>5, <1>6, <1>7, <1>8

\* The proxies made from an element: of the classes, with its name and number.
IsProxyOf(y, e) ==
  /\ IsOfClass(y.par) /\ e.pid # {} /\ y.pid = The(e.pid) /\ e.name # {} /\ y.par.name = The(e.name)

LEMMA ProxyIs ==
  ASSUME NEW e, NEW fields, NEW p, NEW cls, NEW shape, Described(p, The(e.name), cls, shape),
         <<cls, shape>> \in ClassesAndShapes, NEW y \in Proxy(e, fields, p)
  PROVE  IsProxyOf(y, e)
<1>1. PICK q \in IF Present(e, {"pid", "name"} \cup fields) THEN {p} ELSE {} :
        y = [pid |-> The(e.pid), par |-> IF e.sav = {"Yes"} THEN Savable(q) ELSE q]
  BY DEF Proxy
<1>2. q = p /\ Present(e, {"pid", "name"} \cup fields)
  OBVIOUS
<1>3. e.pid # {} /\ e.name # {}
  BY <1>2 DEF Present
<1>4. y.pid = The(e.pid) /\ (y.par = p \/ y.par = Savable(p))
  BY <1>1, <1>2
<1>5. /\ Savable(p).cls = cls /\ Savable(p).shape = shape /\ Savable(p).name = The(e.name)
      /\ p.cls = cls /\ p.shape = shape /\ p.name = The(e.name)
  BY DEF Described, Savable
<1> QED BY <1>3, <1>4, <1>5 DEF IsProxyOf, IsOfClass, ByClass

LEMMA ParseElementIs == ASSUME NEW e, NEW y \in ParseElement(e) PROVE IsProxyOf(y, e)
<1> DEFINE Parsed(S) == y \in S => IsProxyOf(y, e)
<1>0. {"bool", "str", "int", "float", "vec2", "vec3", "call"} \X {"scalar", "table"} \subseteq ClassesAndShapes
      /\ {<<"str", "list">>, <<"int", "list">>, <<"int", "array">>, <<"file", "scalar">>} \subseteq ClassesAndShapes
  BY DEF ClassesAndShapes
<1> HIDE DEF Parsed
<1>1. ASSUME NEW fields, NEW p, NEW cls, NEW shape, Described(p, The(e.name), cls, shape), <<cls, shape>> \in ClassesAndShapes
      PROVE  Parsed(Proxy(e, fields, p))
  BY <1>1, ProxyIs DEF Parsed
<1>2. Parsed(ParseCall(e)) /\ Parsed(ParseCallT(e)) /\ Parsed(ParseFile(e))
  BY <1>0, <1>1, ClassesAre DEF ParseCall, ParseCallT, ParseFile
<1>3. Parsed(ParseBool(e)) /\ Parsed(ParseBoolT(e))
  BY <1>0, <1>1, ClassesAre DEF ParseBool, ParseBoolT
<1>4. Parsed(ParseStr(e)) /\ Parsed(ParseStrT(e)) /\ Parsed(ParseStrL(e))
  BY <1>0, <1>1, ClassesAre DEF ParseStr, ParseStrT, ParseStrL
<1>5. Parsed(ParseInt(e)) /\ Parsed(ParseIntT(e))
  BY <1>0, <1>1, ClassesAre DEF ParseInt, ParseIntT
<1>6. Parsed(ParseIntL(e)) /\ Parsed(ParseIntA(e))
  BY <1>0, <1>1, ClassesAre DEF ParseIntL, ParseIntA
<1>7. Parsed(ParseFloat(e)) /\ Parsed(ParseFloatTable(e))
  BY <1>0, <1>1, ClassesAre DEF ParseFloat, ParseFloatTable
<1>8. Parsed(ParseVec2(e)) /\ Parsed(ParseVec2T(e))
  BY <1>0, <1>1, ClassesAre DEF ParseVec2, ParseVec2T
<1>9. Parsed(ParseVec3(e)) /\ Parsed(ParseVec3T(e))
  BY <1>0, <1>1, ClassesAre DEF ParseVec3, ParseVec3T
<1>10. Parsed({})
  BY DEF Parsed
<1>11. Parsed(ParseElement(e))
  BY <1>2, <1>3, <1>4, <1>5, <1>6, <1>7, <1>8, <1>9, <1>10 DEF ParseElement
<1> QED BY <1>11 DEF Parsed

-----------------------------------------------------------------------------
(* Sequences one after the other.                                          *)

LEMMA Induction ==
  ASSUME NEW n \in Nat, NEW T, 0 \in T, \A i \in 1..n : i - 1 \in T => i \in T
  PROVE  \A i \in 0..n : i \in T
<1> DEFINE F == (0..n) \ T
<1>1. SUFFICES ASSUME F # {} PROVE FALSE
  OBVIOUS
<1>2. PICK m \in F : \A k \in F : m <= k
  <2>1. F \subseteq Nat
    OBVIOUS
  <2> HIDE DEF F
  <2> QED BY <1>1, <2>1, Least
<1>3. m \in 1..n /\ m \notin T /\ m - 1 \in 0..n
  OBVIOUS
<1>4. m - 1 \notin F
  <2> HIDE DEF F
  <2> QED BY <1>2, <1>3
<1> QED BY <1>3, <1>4

\* A function that is given at 0, and at every further number from the one before, exists.
IsRecursion(f, n, S, first, step) ==
  f \in [0..n -> S] /\ f[0] = first /\ \A i \in 1..n : f[i] = step[i][f[i - 1]]

LEMMA Recursion ==
  ASSUME NEW n \in Nat, NEW S, NEW first \in S, NEW step \in [1..n -> [S -> S]]
  PROVE  \E f : IsRecursion(f, n, S, first, step)
<1> DEFINE Is(f, k) == f \in [0..k -> S] /\ f[0] = first /\ \A i \in 1..k : f[i] = step[i][f[i - 1]]
           T == {k \in 0..n : \E f : Is(f, k)}
<1>1. 0 \in T
  <2>1. Is([i \in 0..0 |-> first], 0)
    OBVIOUS
  <2> HIDE DEF Is
  <2> QED BY <2>1
<1>2. ASSUME NEW k \in 1..n, k - 1 \in T PROVE k \in T
  <2>1. PICK g : Is(g, k - 1)
    BY <1>2
  <2> DEFINE h == [i \in 0..k |-> IF i = k THEN step[k][g[k - 1]] ELSE g[i]]
  <2>2. g[k - 1] \in S /\ step[k][g[k - 1]] \in S /\ \A i \in 0..(k - 1) : g[i] \in S
    BY <2>1
  <2>3. h \in [0..k -> S]
    BY <2>2
  <2>4. h[0] = first
    BY <2>1
  <2>5. ASSUME NEW i \in 1..k PROVE h[i] = step[i][h[i - 1]]
    <3>1. CASE i = k
      BY <3>1
    <3>2. CASE i # k
      <4>1. i \in 1..(k - 1) /\ i \in 0..k /\ i - 1 \in 0..k /\ i - 1 # k
        BY <3>2
      <4>2. g[i] = step[i][g[i - 1]]
        BY <2>1, <4>1
      <4> QED BY <3>2, <4>1, <4>2
    <3> QED BY <3>1, <3>2
  <2>6. Is(h, k)
    <3> HIDE DEF h
    <3> QED BY <2>3, <2>4, <2>5
  <2> HIDE DEF Is
  <2> QED BY <2>6
<1>3. n \in T
  <2> HIDE DEF T
  <2>1. n \in 0..n
    OBVIOUS
  <2> QED BY <1>1, <1>2, <2>1, Induction
<1>4. PICK f : Is(f, n)
  BY <1>3
<1>5. IsRecursion(f, n, S, first, step)
  BY <1>4 DEF IsRecursion
<1> QED BY <1>5

Running(seqs) == CHOOSE f : f = [i \in 1..Len(seqs) |-> IF i = 1 THEN seqs[i] ELSE f[i - 1] \o seqs[i]]

LEMMA RunningOnce ==
  ASSUME NEW U, NEW seqs \in Seq(Seq(U))
  PROVE  /\ Running(seqs) \in [1..Len(seqs) -> Seq(U)]
         /\ Len(seqs) # 0 => Running(seqs)[1] = seqs[1]
         /\ \A i \in 2..Len(seqs) : Running(seqs)[i] = Running(seqs)[i - 1] \o seqs[i]
<1> DEFINE n == Len(seqs)
           S == Seq(U)
           step == [i \in 1..n |-> [a \in S |-> a \o seqs[i]]]
           Def(f) == f = [i \in 1..n |-> IF i = 1 THEN seqs[i] ELSE f[i - 1] \o seqs[i]]
<1>1. n \in Nat /\ \A i \in 1..n : seqs[i] \in Seq(U)
  OBVIOUS
<1>2. <<>> \in S /\ step \in [1..n -> [S -> S]]
  BY <1>1
<1>3. PICK f : f \in [0..n -> S] /\ f[0] = <<>> /\ \A i \in 1..n : f[i] = step[i][f[i - 1]]
  <2> DEFINE first == <<>>
  <2> HIDE DEF n, S, step, first
  <2>1. n \in Nat /\ first \in S /\ step \in [1..n -> [S -> S]]
    BY <1>1, <1>2 DEF first
  <2>2. PICK f : IsRecursion(f, n, S, first, step)
    BY <2>1, Recursion, Zenon
  <2> QED BY <2>2 DEF first, IsRecursion
<1>4. ASSUME NEW i \in 1..n PROVE f[i - 1] \in S /\ f[i] = f[i - 1] \o seqs[i]
  <2>1. i - 1 \in 0..n
    BY <1>1
  <2>2. f[i - 1] \in S
    <3> HIDE DEF n, S
    <3> QED BY <1>3, <2>1
  <2>3. step[i][f[i - 1]] = f[i - 1] \o seqs[i]
    <3> HIDE DEF n, S
    <3> QED BY <2>2
  <2> QED BY <1>3, <2>2, <2>3
<1> DEFINE g == [i \in 1..n |-> f[i]]
<1>5. Def(g)
  <2>1. ASSUME NEW i \in 1..n PROVE g[i] = IF i = 1 THEN seqs[i] ELSE g[i - 1] \o seqs[i]
    <3>1. CASE i = 1
      <4>1. f[1] = <<>> \o seqs[1]
        <5>1. i - 1 = 0
          BY <3>1
        <5>2. f[i] = f[i - 1] \o seqs[i]
          BY <1>4
        <5>3. f[0] = <<>>
          BY <1>3
        <5> QED BY <3>1, <5>1, <5>2, <5>3
      <4>2. <<>> \o seqs[1] = seqs[1]
        BY <1>1, <3>1
      <4> QED BY <3>1, <4>1, <4>2
    <3>2. CASE i # 1
      <4>1. i - 1 \in 1..n
        BY <1>1, <3>2
      <4>2. g[i] = f[i] /\ g[i - 1] = f[i - 1]
        BY <4>1
      <4>3. f[i] = f[i - 1] \o seqs[i]
        BY <1>4
      <4> HIDE DEF g
      <4> QED BY <3>2, <4>2, <4>3
    <3> QED BY <3>1, <3>2
  <2> DEFINE h == [i \in 1..n |-> IF i = 1 THEN seqs[i] ELSE g[i - 1] \o seqs[i]]
  <2>2. g = h
    <3>1. \A i \in 1..n : g[i] = h[i]
      BY <2>1
    <3> QED BY <3>1
  <2> QED BY <2>2
<1> DEFINE J == Running(seqs)
<1>6. Def(J)
  <2>1. \E x : Def(x)
    BY <1>5
  <2>2. J = CHOOSE x : Def(x)
    BY DEF Running
  <2> HIDE DEF Def, J
  <2> QED BY <2>1, <2>2
<1> HIDE DEF J
<1>7. DOMAIN J = 1..n /\ J = [i \in 1..n |-> J[i]]
  BY <1>6
<1>8. \A i \in 1..n : J[i] = IF i = 1 THEN seqs[i] ELSE J[i - 1] \o seqs[i]
  BY <1>6
<1> DEFINE T == {i \in 0..n : i = 0 \/ J[i] \in Seq(U)}
<1>9. ASSUME NEW i \in 1..n, i - 1 \in T PROVE i \in T
  <2>1. CASE i = 1
    BY <1>1, <1>8, <2>1
  <2>2. CASE i # 1
    <3>1. J[i - 1] \in Seq(U) /\ seqs[i] \in Seq(U)
      BY <1>1, <1>9, <2>2
    <3>2. J[i] = J[i - 1] \o seqs[i]
      BY <1>8, <2>2
    <3>3. J[i - 1] \o seqs[i] \in Seq(U)
      BY <3>1
    <3>4. J[i] \in Seq(U)
      BY <3>2, <3>3
    <3>5. i \in 0..n
      BY <1>1
    <3> HIDE DEF n
    <3> QED BY <3>4, <3>5
  <2> QED BY <2>1, <2>2
<1>10. \A i \in 0..n : i \in T
  <2>1. 0 \in T
    BY <1>1
  <2> HIDE DEF T, n
  <2> QED BY <1>1, <1>9, <2>1, Induction
<1>11. \A i \in 1..n : J[i] \in Seq(U)
  BY <1>10
<1>12. J \in [1..n -> Seq(U)]
  BY <1>7, <1>11
<1>13. n # 0 => J[1] = seqs[1]
  <2>1. n # 0 => 1 \in 1..n
    BY <1>1
  <2> QED BY <1>8, <2>1
<1>14. ASSUME NEW i \in 2..n PROVE J[i] = J[i - 1] \o seqs[i]
  <2>1. i \in 1..n /\ i # 1
    BY <1>1
  <2> QED BY <1>8, <2>1
<1> QED BY <1>12, <1>13, <1>14 DEF J

LEMMA FlattenIsRunning ==
  ASSUME NEW seqs
  PROVE  FlattenSeq(seqs) = IF Len(seqs) = 0 THEN seqs ELSE Running(seqs)[Len(seqs)]
BY DEF FlattenSeq, Running

LEMMA FlattenType ==
  ASSUME NEW U, NEW seqs \in Seq(Seq(U))
  PROVE  FlattenSeq(seqs) \in Seq(U)
<1>1. CASE Len(seqs) = 0
  <2>1. seqs = <<>>
    BY <1>1
  <2>2. FlattenSeq(seqs) = seqs
    BY <1>1, FlattenIsRunning
  <2>3. <<>> \in Seq(U)
    OBVIOUS
  <2>4. seqs \in Seq(U)
    BY <2>1, <2>3, Zenon
  <2> QED BY <2>2, <2>4, Zenon
<1>2. CASE Len(seqs) # 0
  <2>1. Len(seqs) \in 1..Len(seqs)
    BY <1>2
  <2>2. Running(seqs)[Len(seqs)] \in Seq(U)
    BY <2>1, RunningOnce
  <2>3. FlattenSeq(seqs) = Running(seqs)[Len(seqs)]
    BY <1>2, FlattenIsRunning
  <2> QED BY <2>2, <2>3, Zenon
<1> QED BY <1>1, <1>2, Zenon

IsSequence(s) == s \in Seq({s[i] : i \in DOMAIN s})

\* What is joined are the elements of the sequences.
LEMMA JoinedIs ==
  ASSUME NEW s, IsSequence(s), \A k \in DOMAIN s : IsSequence(s[k])
  PROVE  /\ IsSequence(Joined(s))
         /\ \A i \in DOMAIN Joined(s) : \E k \in DOMAIN s : \E j \in DOMAIN s[k] : Joined(s)[i] = s[k][j]
<1> DEFINE U == UNION {{s[k][j] : j \in DOMAIN s[k]} : k \in DOMAIN s}
<1>1. \A k \in DOMAIN s : s[k] \in Seq(U)
  <2>1. ASSUME NEW k \in DOMAIN s PROVE s[k] \in Seq(U)
    <3>1. {s[k][j] : j \in DOMAIN s[k]} \subseteq U
      OBVIOUS
    <3>2. s[k] \in Seq({s[k][j] : j \in DOMAIN s[k]})
      BY DEF IsSequence
    <3> DEFINE t == s[k]
    <3> HIDE DEF U
    <3> QED BY <3>1, <3>2
  <2> QED BY <2>1
<1>2. s \in Seq(Seq(U))
  <2> HIDE DEF U
  <2>1. Len(s) \in Nat /\ DOMAIN s = 1..Len(s) /\ s = [k \in 1..Len(s) |-> s[k]]
    BY DEF IsSequence
  <2> QED BY <1>1, <2>1
<1>3. s \o <<>> = s
  BY DEF IsSequence
<1>4. Joined(s) \in Seq(U)
  <2> HIDE DEF U
  <2> QED BY <1>2, <1>3, FlattenType DEF Joined
<1> DEFINE t == Joined(s)
<1>5. IsSequence(t)
  <2> HIDE DEF U, t
  <2>1. t \in Seq(U)
    BY <1>4 DEF t
  <2>2. Len(t) \in Nat /\ DOMAIN t = 1..Len(t) /\ t = [i \in 1..Len(t) |-> t[i]]
    BY <2>1
  <2> QED BY <2>2 DEF IsSequence
<1>6. ASSUME NEW i \in DOMAIN t PROVE t[i] \in U
  <2> HIDE DEF U, t
  <2>1. t \in Seq(U)
    BY <1>4 DEF t
  <2> QED BY <2>1
<1>7. \A i \in DOMAIN t : \E k \in DOMAIN s : \E j \in DOMAIN s[k] : t[i] = s[k][j]
  BY <1>6
<1> QED BY <1>5, <1>7

\* Functions on the first numbers are sequences.
LEMMA FunctionIs ==
  ASSUME NEW n \in Nat, NEW f, f = [i \in 1..n |-> f[i]] PROVE IsSequence(f) /\ DOMAIN f = 1..n /\ Len(f) = n
BY DEF IsSequence
LEMMA SequenceIs ==
  ASSUME NEW s, IsSequence(s) PROVE Len(s) \in Nat /\ DOMAIN s = 1..Len(s) /\ s = [i \in 1..Len(s) |-> s[i]]
BY DEF IsSequence
LEMMA OneIs == /\ IsSequence(<<>>) /\ DOMAIN <<>> = {}
               /\ \A e : IsSequence(<<e>>) /\ DOMAIN <<e>> = {1} /\ (<<e>>)[1] = e
<1>1. IsSequence(<<>>) /\ DOMAIN <<>> = {}
  <2>1. <<>> \in Seq({})
    OBVIOUS
  <2>2. DOMAIN <<>> = {}
    OBVIOUS
  <2> QED BY <2>1, <2>2 DEF IsSequence
<1>2. ASSUME NEW e PROVE IsSequence(<<e>>) /\ DOMAIN <<e>> = {1} /\ (<<e>>)[1] = e
  <2>1. DOMAIN <<e>> = {1} /\ (<<e>>)[1] = e
    OBVIOUS
  <2>2. <<e>> \in Seq({e})
    OBVIOUS
  <2>3. {(<<e>>)[i] : i \in DOMAIN <<e>>} = {e}
    BY <2>1
  <2> QED BY <2>1, <2>2, <2>3 DEF IsSequence
<1> QED BY <1>1, <1>2
LEMMA ConcatIs ==
  ASSUME NEW s, NEW t, IsSequence(s), IsSequence(t)
  PROVE  /\ IsSequence(s \o t) /\ Len(s \o t) = Len(s) + Len(t)
         /\ \A i \in DOMAIN (s \o t) : \/ i \in DOMAIN s /\ (s \o t)[i] = s[i]
                                       \/ i - Len(s) \in DOMAIN t /\ (s \o t)[i] = t[i - Len(s)]
<1> DEFINE U == {s[i] : i \in DOMAIN s} \cup {t[i] : i \in DOMAIN t}
           c == s \o t
<1>1. s \in Seq(U) /\ t \in Seq(U)
  <2>1. {s[i] : i \in DOMAIN s} \subseteq U /\ {t[i] : i \in DOMAIN t} \subseteq U
    OBVIOUS
  <2>2. s \in Seq({s[i] : i \in DOMAIN s}) /\ t \in Seq({t[i] : i \in DOMAIN t})
    BY DEF IsSequence
  <2> HIDE DEF U
  <2> QED BY <2>1, <2>2
<1> HIDE DEF U
<1>2. c \in Seq(U) /\ Len(c) = Len(s) + Len(t) /\ DOMAIN c = 1..(Len(s) + Len(t))
  BY <1>1
<1>3. \A i \in DOMAIN c : \/ i \in DOMAIN s /\ c[i] = s[i]
                          \/ i - Len(s) \in DOMAIN t /\ c[i] = t[i - Len(s)]
  BY <1>1
<1>4. IsSequence(c)
  <2> HIDE DEF c
  <2>1. Len(c) \in Nat /\ c = [i \in 1..Len(c) |-> c[i]]
    BY <1>2
  <2> QED BY <2>1, FunctionIs
<1> QED BY <1>2, <1>3, <1>4

-----------------------------------------------------------------------------
(* Servers.                                                                *)

\* Parameters of the classes, in trees and lists of proxies.
OfClasses(x) == IsSequence(x) /\ \A i \in DOMAIN x : IsOfClass(x[i].par)

LEMMA TheIs == ASSUME NEW S, S # {} PROVE The(S) \in S
BY DEF The

LEMMA InfoFileIs == ASSUME NEW srv, IsSequence(srv.tree) PROVE IsSequence(InfoFile(srv))
<1> DEFINE e(i) == <<[cont |-> srv.tree[i].cont, elt |-> SaveInfo(srv.tree[i].par, The(ParamToPID(srv, i)))]>>
           s == [i \in DOMAIN srv.tree |-> IF ParamToPID(srv, i) = {} THEN <<>> ELSE e(i)]
<1>1. InfoFile(srv) = Joined(s)
  BY DEF InfoFile
<1>2. IsSequence(s)
  <2>1. s = [i \in 1..Len(srv.tree) |-> s[i]] /\ Len(srv.tree) \in Nat
    BY SequenceIs
  <2> HIDE DEF s
  <2> QED BY <2>1, FunctionIs
<1>3. ASSUME NEW k \in DOMAIN s PROVE IsSequence(s[k])
  <2>1. s[k] = IF ParamToPID(srv, k) = {} THEN <<>> ELSE e(k)
    OBVIOUS
  <2>2. IsSequence(e(k))
    BY OneIs
  <2> HIDE DEF s, e
  <2> QED BY <2>1, <2>2, OneIs
<1> HIDE DEF s
<1> QED BY <1>1, <1>2, <1>3, JoinedIs

LEMMA ParseServerIs == ASSUME NEW file, IsSequence(file) PROVE OfClasses(ParseServer(file))
<1> DEFINE P(x) == {<<[cont |-> x.cont, par |-> y.par, pid |-> y.pid]>> :
                      y \in IF "" \in Range(x.cont) THEN {} ELSE ParseElement(x.elt)}
           s == [k \in DOMAIN file |-> IF P(file[k]) = {} THEN <<>> ELSE The(P(file[k]))]
<1>1. ParseServer(file) = Joined(s)
  BY DEF ParseServer
<1>2. IsSequence(s)
  <2>1. s = [i \in 1..Len(file) |-> s[i]] /\ Len(file) \in Nat
    BY SequenceIs
  <2> HIDE DEF s
  <2> QED BY <2>1, FunctionIs
<1>3. ASSUME NEW k \in DOMAIN s
      PROVE  IsSequence(s[k]) /\ \A j \in DOMAIN s[k] : IsOfClass(s[k][j].par)
  <2>1. s[k] = IF P(file[k]) = {} THEN <<>> ELSE The(P(file[k]))
    OBVIOUS
  <2>2. CASE P(file[k]) = {}
    <3>1. s[k] = <<>>
      BY <2>1, <2>2
    <3> QED BY <3>1, OneIs
  <2>3. CASE P(file[k]) # {}
    <3>1. s[k] \in P(file[k])
      <4> HIDE DEF P, s
      <4> QED BY <2>1, <2>3, TheIs
    <3>2. PICK y \in ParseElement(file[k].elt) : s[k] = <<[cont |-> file[k].cont, par |-> y.par, pid |-> y.pid]>>
      <4> HIDE DEF s
      <4> QED BY <3>1
    <3> DEFINE z == [cont |-> file[k].cont, par |-> y.par, pid |-> y.pid]
    <3>3. IsOfClass(z.par)
      BY ParseElementIs DEF IsProxyOf
    <3>4. s[k] = <<z>>
      BY <3>2
    <3> HIDE DEF s, z
    <3> QED BY <3>3, <3>4, OneIs
  <2> QED BY <2>2, <2>3
<1> HIDE DEF s
<1>4. /\ IsSequence(Joined(s))
      /\ \A i \in DOMAIN Joined(s) : \E k \in DOMAIN s : \E j \in DOMAIN s[k] : Joined(s)[i] = s[k][j]
  BY <1>2, <1>3, JoinedIs
<1> QED BY <1>1, <1>3, <1>4 DEF OfClasses

LEMMA TogetherIs == ASSUME NEW s, NEW t, OfClasses(s), OfClasses(t) PROVE OfClasses(s \o t)
<1>1. /\ IsSequence(s \o t)
      /\ \A i \in DOMAIN (s \o t) : \/ i \in DOMAIN s /\ (s \o t)[i] = s[i]
                                    \/ i - Len(s) \in DOMAIN t /\ (s \o t)[i] = t[i - Len(s)]
  BY ConcatIs DEF OfClasses
<1> QED BY <1>1 DEF OfClasses

\* The parameters every server has of its own, and those a connection adds.
LEMMA InIs ==
  ASSUME NEW cont, NEW pars, IsSequence(pars), \A i \in DOMAIN pars : IsOfClass(pars[i])
  PROVE  OfClasses(In(cont, pars)) /\ Len(In(cont, pars)) = Len(pars)
<1> DEFINE t == In(cont, pars)
<1>1. Len(pars) \in Nat /\ DOMAIN pars = 1..Len(pars)
  BY SequenceIs
<1>2. t = [i \in 1..Len(pars) |-> t[i]] /\ \A i \in 1..Len(pars) : t[i].par = pars[i]
  BY <1>1 DEF In, Entry
<1> HIDE DEF t
<1>3. IsSequence(t) /\ DOMAIN t = 1..Len(pars) /\ Len(t) = Len(pars)
  BY <1>1, <1>2, FunctionIs
<1>4. OfClasses(t)
  BY <1>1, <1>2, <1>3 DEF OfClasses
<1> QED BY <1>3, <1>4 DEF t

LEMMA OwnParameters ==
  /\ IsSequence(Special) /\ Len(Special) = 4 /\ \A i \in DOMAIN Special : IsOfClass(Special[i])
  /\ IsSequence(Status) /\ Len(Status) = 1 /\ \A i \in DOMAIN Status : IsOfClass(Status[i])
<1>1. ASSUME NEW p, NEW n, NEW cls, NEW shape, Described(p, n, cls, shape), <<cls, shape>> \in ClassesAndShapes PROVE IsOfClass(p)
  BY <1>1 DEF Described, IsOfClass, ByClass
<1> DEFINE a == HCString("name", TRUE, FALSE)
           b == HCString("version", TRUE, FALSE)
           c == HCInteger("infofilecrc", "u32", TRUE, FALSE, {})
           d == HCFile("infofile", TRUE, FALSE)
           e == HCBoolean("debug", TRUE, TRUE, Offon)
<1>2. /\ Described(a, "name", "str", "scalar") /\ Described(b, "version", "str", "scalar") /\ Described(c, "infofilecrc", "int", "scalar")
      /\ Described(d, "infofile", "file", "scalar") /\ Described(e, "debug", "bool", "scalar")
  BY ClassesAre, Zenon
<1>3. Special = <<a, b, c, d>> /\ Status = <<e>>
  BY DEF Special, Status
<1> HIDE DEF a, b, c, d, e
<1>4. IsOfClass(a) /\ IsOfClass(b) /\ IsOfClass(c) /\ IsOfClass(d) /\ IsOfClass(e)
  BY <1>1, <1>2 DEF ClassesAndShapes
<1>5. /\ <<a, b, c, d>> = [i \in 1..4 |-> (<<a, b, c, d>>)[i]] /\ \A i \in 1..4 : (<<a, b, c, d>>)[i] \in {a, b, c, d}
      /\ <<e>> = [i \in 1..1 |-> (<<e>>)[i]] /\ \A i \in 1..1 : (<<e>>)[i] = e
  OBVIOUS
<1>6. IsSequence(Special) /\ DOMAIN Special = 1..4 /\ Len(Special) = 4 /\ \A i \in 1..4 : Special[i] \in {a, b, c, d}
  <2>1. Special = [i \in 1..4 |-> Special[i]]
    BY <1>3, <1>5, Zenon
  <2> QED BY <1>3, <1>5, <2>1, FunctionIs
<1>7. IsSequence(Status) /\ DOMAIN Status = 1..1 /\ Len(Status) = 1 /\ \A i \in 1..1 : Status[i] = e
  <2>1. Status = [i \in 1..1 |-> Status[i]]
    BY <1>3, <1>5, Zenon
  <2> QED BY <1>3, <1>5, <2>1, FunctionIs
<1> QED BY <1>4, <1>6, <1>7

\* A server's table leads to parameters of the classes.
IsServer(srv) ==
  OfClasses(srv.tree) /\ DOMAIN srv.table \subseteq Nat /\ \A k \in DOMAIN srv.table : srv.table[k] \in DOMAIN srv.tree

LEMMA ServerIs ==
  ASSUME NEW tree, OfClasses(tree), NEW added, IsSequence(added), \A k \in DOMAIN added : added[k] \in 1..(Len(tree) + 5)
  PROVE  IsServer(Server(tree, added))
<1> DEFINE own == In(<<".server">>, Special \o Status)
           first == [i \in DOMAIN Special |-> Len(tree) + i]
           all == first \o added
           n == Shorter(Len(all), PidMax)
           srv == Server(tree, added)
<1>1. srv.tree = tree \o own /\ srv.table = SubSeq(all, 1, n)
  BY DEF Server
<1>2. OfClasses(own) /\ Len(own) = 5
  <2> DEFINE both == Special \o Status
  <2>1. /\ IsSequence(both) /\ Len(both) = Len(Special) + Len(Status)
        /\ \A i \in DOMAIN both : \/ i \in DOMAIN Special /\ both[i] = Special[i]
                                  \/ i - Len(Special) \in DOMAIN Status /\ both[i] = Status[i - Len(Special)]
    BY OwnParameters, ConcatIs, Zenon
  <2> HIDE DEF both
  <2>2. Len(both) = 5
    BY <2>1, OwnParameters
  <2>3. \A i \in DOMAIN both : IsOfClass(both[i])
    BY <2>1, OwnParameters
  <2>4. own = In(<<".server">>, both)
    BY DEF both
  <2> HIDE DEF own
  <2> QED BY <2>1, <2>2, <2>3, <2>4, InIs
<1>3. OfClasses(tree \o own)
  BY <1>2, TogetherIs
<1>4. IsSequence(tree) /\ IsSequence(own) /\ Len(tree) \in Nat
  BY <1>2, SequenceIs DEF OfClasses
<1>5. DOMAIN (tree \o own) = 1..(Len(tree) + 5)
  <2>1. Len(tree \o own) = Len(tree) + Len(own)
    BY <1>4, ConcatIs, Zenon
  <2>2. IsSequence(tree \o own)
    BY <1>3 DEF OfClasses
  <2> HIDE DEF own
  <2> QED BY <1>2, <2>1, <2>2, SequenceIs
<1>6. IsSequence(first) /\ \A k \in DOMAIN first : first[k] \in 1..(Len(tree) + 5)
  <2>1. DOMAIN Special = 1..4
    BY OwnParameters, SequenceIs
  <2>2. first = [i \in 1..4 |-> first[i]] /\ \A k \in 1..4 : first[k] = Len(tree) + k
    BY <2>1
  <2> HIDE DEF first
  <2>3. IsSequence(first) /\ DOMAIN first = 1..4
    BY <2>2, FunctionIs
  <2> QED BY <1>4, <2>2, <2>3
<1> HIDE DEF first, own
<1>7. IsSequence(all) /\ \A k \in DOMAIN all : all[k] \in 1..(Len(tree) + 5)
  <2>1. /\ IsSequence(all)
        /\ \A i \in DOMAIN all : \/ i \in DOMAIN first /\ all[i] = first[i]
                                 \/ i - Len(first) \in DOMAIN added /\ all[i] = added[i - Len(first)]
    BY <1>6, ConcatIs
  <2> HIDE DEF all
  <2> QED BY <1>6, <2>1
<1> HIDE DEF all
<1>8. n \in 0..Len(all)
  <2>1. Len(all) \in Nat
    BY <1>7, SequenceIs
  <2> QED BY <2>1, BoundsAssumption DEF Shorter
<1> HIDE DEF n
<1>9. /\ DOMAIN SubSeq(all, 1, n) \subseteq Nat
      /\ \A k \in DOMAIN SubSeq(all, 1, n) : SubSeq(all, 1, n)[k] \in 1..(Len(tree) + 5)
  <2>1. Len(all) \in Nat /\ DOMAIN all = 1..Len(all)
    BY <1>7, SequenceIs
  <2>2. DOMAIN SubSeq(all, 1, n) = 1..n /\ \A k \in 1..n : SubSeq(all, 1, n)[k] = all[k]
    BY <1>8
  <2> QED BY <1>7, <1>8, <2>1, <2>2
<1> HIDE DEF srv
<1>10. IsServer(srv)
  BY <1>1, <1>3, <1>5, <1>9 DEF IsServer
<1> QED BY <1>10 DEF srv

LEMMA ProgramsServer == ASSUME NEW program, IsProgram(program) PROVE IsServer(ServerOf(program))
<1>1. OfClasses(program.tree)
  BY DEF OfClasses, IsProgram, IsOfClass, IsSequence, Range
<1>2. IsSequence(program.added) /\ \A k \in DOMAIN program.added : program.added[k] \in 1..(Len(program.tree) + 5)
  <2>1. Len(program.tree) \in Nat /\ DOMAIN program.tree = 1..Len(program.tree)
    BY <1>1, SequenceIs DEF OfClasses
  <2>2. program.added \in Seq(DOMAIN program.tree)
    BY DEF IsProgram
  <2>3. IsSequence(program.added)
    BY <2>2 DEF IsSequence
  <2>4. \A k \in DOMAIN program.added : program.added[k] \in DOMAIN program.tree
    BY <2>2
  <2> QED BY <2>1, <2>3, <2>4
<1> QED BY <1>1, <1>2, ServerIs DEF ServerOf

-----------------------------------------------------------------------------
(* Trees: the parameters of a connection and of an aggregator, whose proxies lead to origins.                      *)

IsTree(x) == OfClasses(x) /\ \A i \in DOMAIN x : \A v \in x[i].via : v.to \in Range(Origins)
IsAggregator(srv) == IsServer(srv) /\ IsTree(srv.tree)

LEMMA TreesTogether == ASSUME NEW s, NEW t, IsTree(s), IsTree(t) PROVE IsTree(s \o t)
<1>1. OfClasses(s \o t)
  BY TogetherIs DEF IsTree
<1>2. \A i \in DOMAIN (s \o t) : \/ i \in DOMAIN s /\ (s \o t)[i] = s[i]
                                 \/ i - Len(s) \in DOMAIN t /\ (s \o t)[i] = t[i - Len(s)]
  BY ConcatIs DEF OfClasses, IsTree
<1> QED BY <1>1, <1>2 DEF IsTree

LEMMA JoinedTrees ==
  ASSUME NEW s, IsSequence(s), \A k \in DOMAIN s : IsTree(s[k])
  PROVE  IsTree(Joined(s))
<1>1. /\ IsSequence(Joined(s))
      /\ \A i \in DOMAIN Joined(s) : \E k \in DOMAIN s : \E j \in DOMAIN s[k] : Joined(s)[i] = s[k][j]
  BY JoinedIs DEF IsTree, OfClasses
<1>2. \A k \in DOMAIN s : \A j \in DOMAIN s[k] : IsOfClass(s[k][j].par) /\ \A v \in s[k][j].via : v.to \in Range(Origins)
  BY DEF IsTree, OfClasses
<1> DEFINE t == Joined(s)
<1> HIDE DEF t
<1>3. IsSequence(t) /\ \A i \in DOMAIN t : \E k \in DOMAIN s : \E j \in DOMAIN s[k] : t[i] = s[k][j]
  BY <1>1 DEF t
<1>4. ASSUME NEW i \in DOMAIN t PROVE IsOfClass(t[i].par) /\ \A v \in t[i].via : v.to \in Range(Origins)
  <2>1. PICK k \in DOMAIN s : \E j \in DOMAIN s[k] : t[i] = s[k][j]
    BY <1>3
  <2>2. PICK j \in DOMAIN s[k] : t[i] = s[k][j]
    BY <2>1
  <2> QED BY <1>2, <2>2
<1>5. IsTree(t)
  BY <1>3, <1>4 DEF IsTree, OfClasses
<1> QED BY <1>5 DEF t

LEMMA EmptyTree == IsTree(<<>>)
BY OneIs DEF IsTree, OfClasses

LEMMA OneTree ==
  ASSUME NEW e, IsOfClass(e.par), \A v \in e.via : v.to \in Range(Origins) PROVE IsTree(<<e>>)
BY OneIs DEF IsTree, OfClasses

\* The parameters of a server's or a connection's own lead nowhere.
LEMMA InTree ==
  ASSUME NEW cont, NEW pars, IsSequence(pars), \A i \in DOMAIN pars : IsOfClass(pars[i]) PROVE IsTree(In(cont, pars))
<1>1. OfClasses(In(cont, pars))
  BY InIs
<1>2. \A i \in DOMAIN In(cont, pars) : In(cont, pars)[i].via = {}
  BY DEF In, Entry
<1> QED BY <1>1, <1>2 DEF IsTree

LEMMA ConnTreeIs ==
  ASSUME NEW o \in Range(Origins), NEW source, \A program \in source : IsProgram(program)
  PROVE  IsTree(ConnTree(o, source))
<1> DEFINE proxies == IF source = {} THEN <<>> ELSE ParseServer(InfoFile(ServerOf(The(source))))
           e(k) == [cont |-> <<o>> \o proxies[k].cont, par |-> proxies[k].par, via |-> {[to |-> o, pid |-> proxies[k].pid]}]
           s(top) == [k \in DOMAIN proxies |-> IF (proxies[k].cont = <<>>) # top THEN <<>> ELSE <<e(k)>>]
           own == In(<<o, ".client">>, Status)
<1>1. ConnTree(o, source)
        = IF config[o] # "well" THEN <<>> ELSE Joined(s(TRUE)) \o own \o Joined(s(FALSE))
  BY Zenon DEF ConnTree
<1>2. OfClasses(proxies)
  <2>1. CASE source = {}
    BY <2>1, OneIs DEF OfClasses
  <2>2. CASE source # {}
    <3>1. IsProgram(The(source))
      BY <2>2, TheIs
    <3>2. IsSequence(ServerOf(The(source)).tree)
      BY <3>1, ProgramsServer DEF IsServer, OfClasses
    <3>3. OfClasses(ParseServer(InfoFile(ServerOf(The(source)))))
      BY <3>2, InfoFileIs, ParseServerIs
    <3> QED BY <2>2, <3>3
  <2> QED BY <2>1, <2>2
<1> HIDE DEF proxies
<1>3. ASSUME NEW top \in BOOLEAN PROVE IsTree(Joined(s(top)))
  <2> DEFINE t == s(top)
  <2>1. t = [k \in 1..Len(proxies) |-> t[k]] /\ Len(proxies) \in Nat
    BY <1>2, SequenceIs DEF OfClasses
  <2>2. ASSUME NEW k \in DOMAIN proxies PROVE IsTree(<<e(k)>>)
    <3>1. IsOfClass(e(k).par) /\ \A v \in e(k).via : v.to \in Range(Origins)
      BY <1>2 DEF OfClasses
    <3> DEFINE x == e(k)
    <3> HIDE DEF x
    <3>2. IsTree(<<x>>)
      BY <3>1, OneTree DEF x
    <3> QED BY <3>2 DEF x
  <2>3. ASSUME NEW k \in DOMAIN t PROVE IsTree(t[k])
    <3>1. t[k] = (IF (proxies[k].cont = <<>>) # top THEN <<>> ELSE <<e(k)>>) /\ k \in DOMAIN proxies
      OBVIOUS
    <3> HIDE DEF t, e
    <3> QED BY <2>2, <3>1, EmptyTree
  <2> HIDE DEF t
  <2>4. IsSequence(t)
    BY <2>1, FunctionIs
  <2>5. IsTree(Joined(t))
    BY <2>3, <2>4, JoinedTrees
  <2> QED BY <2>5 DEF t
<1>4. IsTree(own)
  BY OwnParameters, InTree
<1>5. IsTree(Joined(s(TRUE))) /\ IsTree(Joined(s(FALSE)))
  <2> HIDE DEF s
  <2> QED BY <1>3, Zenon
<1> HIDE DEF s, own
<1>6. IsTree(Joined(s(TRUE)) \o own \o Joined(s(FALSE)))
  <2>1. IsTree(Joined(s(TRUE)) \o own)
    BY <1>4, <1>5, TreesTogether
  <2> QED BY <1>5, <2>1, TreesTogether
<1> QED BY <1>1, <1>6, EmptyTree

LEMMA AggTreeIs ==
  ASSUME \A o \in Range(Origins) : \A program \in loaded[o] : IsProgram(program)
  PROVE  IsTree(AggTree)
<1> DEFINE s == [i \in DOMAIN Origins |-> ConnTree(Origins[i], loaded[Origins[i]])]
<1>1. Len(Origins) \in Nat /\ DOMAIN Origins = 1..Len(Origins) /\ \A i \in DOMAIN Origins : Origins[i] \in Range(Origins)
  BY OriginsAssumption DEF Range
<1>2. s = [i \in 1..Len(Origins) |-> s[i]] /\ DOMAIN s = DOMAIN Origins
  BY <1>1
<1>3. ASSUME NEW k \in DOMAIN s PROVE IsTree(s[k])
  <2>1. s[k] = ConnTree(Origins[k], loaded[Origins[k]]) /\ Origins[k] \in Range(Origins)
    BY <1>1
  <2> HIDE DEF s
  <2> QED BY <2>1, ConnTreeIs
<1>4. AggTree = Joined(s)
  BY DEF AggTree
<1> HIDE DEF s
<1>5. IsSequence(s)
  BY <1>1, <1>2, FunctionIs
<1> QED BY <1>3, <1>4, <1>5, JoinedTrees

LEMMA AddParamsIs == ASSUME NEW tree, IsTree(tree) PROVE IsAggregator(AddParamsToServer(tree))
<1> DEFINE n == Len(tree) + Len(Special \o Status)
           added == [i \in 1..n |-> i]
           srv == AddParamsToServer(tree)
           own == In(<<".server">>, Special \o Status)
<1>1. Len(tree) \in Nat
  BY SequenceIs DEF IsTree, OfClasses
<1>2. /\ IsSequence(Special \o Status) /\ Len(Special \o Status) = 5
      /\ \A i \in DOMAIN (Special \o Status) : IsOfClass((Special \o Status)[i])
  <2> DEFINE both == Special \o Status
  <2>1. /\ IsSequence(both) /\ Len(both) = Len(Special) + Len(Status)
        /\ \A i \in DOMAIN both : \/ i \in DOMAIN Special /\ both[i] = Special[i]
                                  \/ i - Len(Special) \in DOMAIN Status /\ both[i] = Status[i - Len(Special)]
    BY OwnParameters, ConcatIs, Zenon
  <2> HIDE DEF both
  <2>2. IsSequence(both) /\ Len(both) = 5 /\ \A i \in DOMAIN both : IsOfClass(both[i])
    BY <2>1, OwnParameters
  <2> QED BY <2>2 DEF both
<1>3. n \in Nat /\ n = Len(tree) + 5
  BY <1>1, <1>2
<1>4. IsSequence(added) /\ \A k \in DOMAIN added : added[k] \in 1..(Len(tree) + 5)
  <2> HIDE DEF n
  <2>1. added = [i \in 1..n |-> added[i]] /\ DOMAIN added = 1..n /\ \A k \in 1..n : added[k] = k
    OBVIOUS
  <2> HIDE DEF added
  <2> QED BY <1>3, <2>1, FunctionIs
<1>5. IsServer(srv) /\ srv.tree = tree \o own
  <2>1. srv = Server(tree, added)
    BY DEF AddParamsToServer
  <2>2. srv.tree = tree \o own
    BY <2>1 DEF Server
  <2> HIDE DEF added, srv, own
  <2>3. IsServer(Server(tree, added))
    BY <1>4, ServerIs DEF IsTree
  <2> QED BY <2>1, <2>2, <2>3
<1>6. IsTree(own)
  BY <1>2, InTree
<1> HIDE DEF srv, own
<1>7. IsAggregator(srv)
  BY <1>5, <1>6, TreesTogether DEF IsAggregator
<1> QED BY <1>7 DEF srv

LEMMA VisibleIs ==
  ASSUME NEW srv, IsServer(srv) PROVE \A x \in Visible(ParseServer(InfoFile(srv))) : IsOfClass(x.par)
<1>1. OfClasses(ParseServer(InfoFile(srv)))
  BY InfoFileIs, ParseServerIs DEF IsServer, OfClasses
<1> DEFINE s == ParseServer(InfoFile(srv))
<1> HIDE DEF s
<1>2. \A x \in Visible(s) : \E i \in DOMAIN s : x = s[i]
  BY DEF Visible
<1>3. \A x \in Visible(s) : IsOfClass(x.par)
  BY <1>1, <1>2 DEF OfClasses, s
<1> QED BY <1>3 DEF s
-----------------------------------------------------------------------------
(* Where a number leads.                                                   *)

\* A server's parameter of that number has that path.
LeadsTo(srv, pid, cont, name) ==
  /\ pid + 1 \in DOMAIN srv.table
  /\ srv.tree[srv.table[pid + 1]].cont = cont /\ srv.tree[srv.table[pid + 1]].par.name = name

\* An element begins with the number and the name.
HasHead(e, p, pid) ==
  /\ {"tag", "pid", "name", "acc", "sav", "size", "maxsize", "scl", "eidenums", "valenums"} \subseteq DOMAIN e
  /\ e.pid = {pid} /\ e.name = {p.name} \ {""}

LEMMA HeadsAre ==
  ASSUME NEW p, NEW pid
  PROVE  /\ \A letter : HasHead(Head1(p, letter, pid), p, pid) /\ HasHead(Value1(p, letter, pid), p, pid)
         /\ HasHead(Table1(p, pid), p, pid) /\ HasHead(List1(p, pid), p, pid)
<1>1. {"tag", "pid", "name", "acc", "sav", "size", "maxsize", "scl", "eidenums", "valenums"} \subseteq DOMAIN NoFields
  BY DEF NoFields
<1>2. \A letter : HasHead(Head1(p, letter, pid), p, pid)
  BY <1>1 DEF Head1, HasHead
<1>3. \A letter : HasHead(Value1(p, letter, pid), p, pid)
  BY <1>2 DEF Value1, HasHead
<1>4. HasHead(Table1(p, pid), p, pid)
  BY <1>3 DEF Table1, HasHead
<1>5. HasHead(List1(p, pid), p, pid)
  BY <1>3 DEF List1, HasHead
<1> QED BY <1>2, <1>3, <1>4, <1>5

\* Setting other fields keeps them.
LEMMA HeadKept ==
  ASSUME NEW q, NEW p, NEW pid, HasHead(q, p, pid)
  PROVE  /\ \A v : HasHead([q EXCEPT !.acc = v], p, pid) /\ HasHead([q EXCEPT !.scl = v], p, pid)
         /\ \A v : HasHead([q EXCEPT !.valenums = v], p, pid)
         /\ \A v, w : HasHead([q EXCEPT !.size = v, !.eidenums = w], p, pid)
<1>1. \A v : HasHead([q EXCEPT !.acc = v], p, pid)
  BY DEF HasHead
<1>2. \A v : HasHead([q EXCEPT !.scl = v], p, pid)
  BY DEF HasHead
<1>3. \A v : HasHead([q EXCEPT !.valenums = v], p, pid)
  BY DEF HasHead
<1>4. \A v, w : HasHead([q EXCEPT !.size = v, !.eidenums = w], p, pid)
  BY DEF HasHead
<1> QED BY <1>1, <1>2, <1>3, <1>4

LEMMA SaveInfoIs == ASSUME NEW p, IsOfClass(p), NEW pid PROVE HasHead(SaveInfo(p, pid), p, pid)
<1> DEFINE Is(e) == HasHead(e, p, pid)
<1>1. \A q : Is(q) => /\ \A v : Is([q EXCEPT !.acc = v]) /\ Is([q EXCEPT !.scl = v]) /\ Is([q EXCEPT !.valenums = v])
                     /\ \A v, w : Is([q EXCEPT !.size = v, !.eidenums = w])
  BY HeadKept
<1>2. /\ \A letter : Is(Head1(p, letter, pid)) /\ Is(Value1(p, letter, pid))
      /\ Is(Table1(p, pid)) /\ Is(List1(p, pid))
  BY HeadsAre
<1> HIDE DEF Is
<1>3. Is(HCCallInfo(p, pid)) /\ Is(HCCallTableInfo(p, pid)) /\ Is(HCFileInfo(p, pid))
  BY <1>1, <1>2, Zenon DEF HCCallInfo, HCCallTableInfo, HCFileInfo
<1>4. Is(HCBooleanInfo(p, pid)) /\ Is(HCBooleanTableInfo(p, pid))
  BY <1>1, <1>2, Zenon DEF HCBooleanInfo, HCBooleanTableInfo
<1>5. Is(HCStringInfo(p, pid)) /\ Is(HCStringTableInfo(p, pid)) /\ Is(HCStringListInfo(p, pid))
  BY <1>1, <1>2, Zenon DEF HCStringInfo, HCStringTableInfo, HCStringListInfo
<1>6. Is(HCIntegerInfo(p, pid)) /\ Is(HCIntegerTableInfo(p, pid))
  BY <1>1, <1>2, Zenon DEF HCIntegerInfo, HCIntegerTableInfo
<1>7. Is(HCIntegerListInfo(p, pid)) /\ Is(HCIntegerArrayInfo(p, pid))
  BY <1>1, <1>2, Zenon DEF HCIntegerListInfo, HCIntegerArrayInfo
<1>8. Is(HCFloatInfo(p, pid)) /\ Is(HCFloatTableInfo(p, pid))
  BY <1>1, <1>2, Zenon DEF HCFloatInfo, HCFloatTableInfo
<1>9. Is(HCVec2Info(p, pid)) /\ Is(HCVec2TableInfo(p, pid))
  BY <1>1, <1>2, Zenon DEF HCVec2Info, HCVec2TableInfo
<1>10. Is(HCVec3Info(p, pid)) /\ Is(HCVec3TableInfo(p, pid))
  BY <1>1, <1>2, Zenon DEF HCVec3Info, HCVec3TableInfo
<1>11. Is(SaveInfo(p, pid))
  BY <1>3, <1>4, <1>5, <1>6, <1>7, <1>8, <1>9, <1>10 DEF SaveInfo, IsOfClass, ByClass, ClassesAndShapes
<1> QED BY <1>11 DEF Is

\* The numbers of an information file lead to the parameters whose elements they are in.
LEMMA InfoFileLeads ==
  ASSUME NEW srv, IsServer(srv)
  PROVE  \A k \in DOMAIN InfoFile(srv) : \E i \in DOMAIN srv.tree : \E pid :
            /\ InfoFile(srv)[k].cont = srv.tree[i].cont /\ HasHead(InfoFile(srv)[k].elt, srv.tree[i].par, pid)
            /\ LeadsTo(srv, pid, srv.tree[i].cont, srv.tree[i].par.name)
<1> DEFINE e(i) == [cont |-> srv.tree[i].cont, elt |-> SaveInfo(srv.tree[i].par, The(ParamToPID(srv, i)))]
           s == [i \in DOMAIN srv.tree |-> IF ParamToPID(srv, i) = {} THEN <<>> ELSE <<e(i)>>]
           Good(x) == \E i \in DOMAIN srv.tree : \E pid :
             /\ x.cont = srv.tree[i].cont /\ HasHead(x.elt, srv.tree[i].par, pid)
             /\ LeadsTo(srv, pid, srv.tree[i].cont, srv.tree[i].par.name)
<1>1. InfoFile(srv) = Joined(s)
  BY DEF InfoFile
<1>2. IsSequence(s)
  <2>1. s = [i \in 1..Len(srv.tree) |-> s[i]] /\ Len(srv.tree) \in Nat
    BY SequenceIs DEF IsServer, OfClasses
  <2> HIDE DEF s
  <2> QED BY <2>1, FunctionIs
<1>3. ASSUME NEW i \in DOMAIN srv.tree, ParamToPID(srv, i) # {} PROVE Good(e(i))
  <2> DEFINE pid == The(ParamToPID(srv, i))
  <2>1. pid \in ParamToPID(srv, i)
    BY <1>3, TheIs
  <2>2. PICK k \in DOMAIN srv.table : srv.table[k] = i /\ pid = k - 1
    <3> HIDE DEF pid
    <3> QED BY <2>1 DEF ParamToPID
  <2>3. e(i).cont = srv.tree[i].cont /\ e(i).elt = SaveInfo(srv.tree[i].par, pid)
    OBVIOUS
  <2> HIDE DEF pid
  <2>4. LeadsTo(srv, pid, srv.tree[i].cont, srv.tree[i].par.name)
    <3>1. pid + 1 = k
      BY <2>2 DEF IsServer
    <3> QED BY <2>2, <3>1 DEF LeadsTo
  <2>5. HasHead(e(i).elt, srv.tree[i].par, pid)
    BY <2>3, SaveInfoIs DEF IsServer, OfClasses
  <2> HIDE DEF e
  <2> QED BY <2>3, <2>4, <2>5
<1>4. ASSUME NEW k \in DOMAIN s PROVE IsSequence(s[k]) /\ \A j \in DOMAIN s[k] : Good(s[k][j])
  <2>1. k \in DOMAIN srv.tree /\ s[k] = IF ParamToPID(srv, k) = {} THEN <<>> ELSE <<e(k)>>
    OBVIOUS
  <2> HIDE DEF s, e, Good
  <2>2. CASE ParamToPID(srv, k) = {}
    BY <2>1, <2>2, OneIs
  <2>3. CASE ParamToPID(srv, k) # {}
    BY <1>3, <2>1, <2>3, OneIs
  <2> QED BY <2>2, <2>3
<1>5. \A i \in DOMAIN Joined(s) : \E k \in DOMAIN s : \E j \in DOMAIN s[k] : Joined(s)[i] = s[k][j]
  <2> HIDE DEF s, Good
  <2> QED BY <1>2, <1>4, JoinedIs
<1>6. \A k \in DOMAIN InfoFile(srv) : Good(InfoFile(srv)[k])
  <2> HIDE DEF s, Good
  <2> QED BY <1>1, <1>4, <1>5
<1> QED BY <1>6

\* So do those of the proxies made from it.
LEMMA ParseServerLeads ==
  ASSUME NEW srv, IsServer(srv)
  PROVE  \A k \in DOMAIN ParseServer(InfoFile(srv)) :
            LeadsTo(srv, ParseServer(InfoFile(srv))[k].pid, ParseServer(InfoFile(srv))[k].cont,
                    ParseServer(InfoFile(srv))[k].par.name)
<1> DEFINE file == InfoFile(srv)
           P(x) == {<<[cont |-> x.cont, par |-> y.par, pid |-> y.pid]>> :
                      y \in IF "" \in Range(x.cont) THEN {} ELSE ParseElement(x.elt)}
           s == [k \in DOMAIN file |-> IF P(file[k]) = {} THEN <<>> ELSE The(P(file[k]))]
           Good(x) == LeadsTo(srv, x.pid, x.cont, x.par.name)
<1>1. ParseServer(file) = Joined(s)
  BY DEF ParseServer
<1>2. IsSequence(file)
  BY InfoFileIs DEF IsServer, OfClasses
<1>3. \A k \in DOMAIN file : \E i \in DOMAIN srv.tree : \E pid :
            /\ file[k].cont = srv.tree[i].cont /\ HasHead(file[k].elt, srv.tree[i].par, pid)
            /\ LeadsTo(srv, pid, srv.tree[i].cont, srv.tree[i].par.name)
  BY InfoFileLeads
<1> HIDE DEF file
<1>4. IsSequence(s)
  <2>1. s = [i \in 1..Len(file) |-> s[i]] /\ Len(file) \in Nat
    BY <1>2, SequenceIs
  <2> HIDE DEF s
  <2> QED BY <2>1, FunctionIs
<1>5. ASSUME NEW k \in DOMAIN s PROVE IsSequence(s[k]) /\ \A j \in DOMAIN s[k] : Good(s[k][j])
  <2>1. k \in DOMAIN file /\ s[k] = IF P(file[k]) = {} THEN <<>> ELSE The(P(file[k]))
    OBVIOUS
  <2>2. CASE P(file[k]) = {}
    <3>1. s[k] = <<>>
      BY <2>1, <2>2
    <3> HIDE DEF s, Good
    <3> QED BY <3>1, OneIs
  <2>3. CASE P(file[k]) # {}
    <3>1. s[k] \in P(file[k])
      <4> HIDE DEF P, s
      <4> QED BY <2>1, <2>3, TheIs
    <3>2. PICK y \in ParseElement(file[k].elt) : s[k] = <<[cont |-> file[k].cont, par |-> y.par, pid |-> y.pid]>>
      <4> HIDE DEF s
      <4> QED BY <3>1
    <3>3. IsProxyOf(y, file[k].elt)
      BY ParseElementIs
    <3>10. PICK i \in DOMAIN srv.tree : \E pid :
            /\ file[k].cont = srv.tree[i].cont /\ HasHead(file[k].elt, srv.tree[i].par, pid)
            /\ LeadsTo(srv, pid, srv.tree[i].cont, srv.tree[i].par.name)
      BY <1>3, <2>1
    <3>4. PICK pid :
            /\ file[k].cont = srv.tree[i].cont /\ HasHead(file[k].elt, srv.tree[i].par, pid)
            /\ LeadsTo(srv, pid, srv.tree[i].cont, srv.tree[i].par.name)
      BY <3>10
    <3>5. y.pid = pid /\ y.par.name = srv.tree[i].par.name
      BY <3>3, <3>4, TheIs DEF IsProxyOf, HasHead
    <3> DEFINE z == [cont |-> file[k].cont, par |-> y.par, pid |-> y.pid]
    <3>6. z.cont = file[k].cont /\ z.par = y.par /\ z.pid = y.pid
      OBVIOUS
    <3>7. s[k] = <<z>>
      BY <3>2
    <3> HIDE DEF s, z
    <3>8. Good(z)
      BY <3>4, <3>5, <3>6
    <3> HIDE DEF Good
    <3> QED BY <3>7, <3>8, OneIs
  <2> QED BY <2>2, <2>3
<1>6. \A i \in DOMAIN Joined(s) : \E k \in DOMAIN s : \E j \in DOMAIN s[k] : Joined(s)[i] = s[k][j]
  <2> HIDE DEF s, Good
  <2> QED BY <1>4, <1>5, JoinedIs
<1>7. \A i \in DOMAIN ParseServer(file) : Good(ParseServer(file)[i])
  <2> HIDE DEF s, Good
  <2> QED BY <1>1, <1>5, <1>6
<1> QED BY <1>7 DEF file

LEMMA VisibleLeads ==
  ASSUME NEW srv, IsServer(srv)
  PROVE  \A x \in Visible(ParseServer(InfoFile(srv))) : LeadsTo(srv, x.pid, x.cont, x.par.name)
<1> DEFINE s == ParseServer(InfoFile(srv))
<1>1. \A k \in DOMAIN s : LeadsTo(srv, s[k].pid, s[k].cont, s[k].par.name)
  BY ParseServerLeads
<1> HIDE DEF s
<1>2. \A x \in Visible(s) : \E i \in DOMAIN s : x = s[i]
  BY DEF Visible
<1>3. \A x \in Visible(s) : LeadsTo(srv, x.pid, x.cont, x.par.name)
  BY <1>1, <1>2
<1> QED BY <1>3 DEF s
-----------------------------------------------------------------------------
(* The invariant.                                                          *)

\* What programs run, what was asked and loaded of them, and what proxies there are.
PlaceInv ==
  /\ scenario \in DOMAIN Scenarios
  /\ DOMAIN version = Range(Origins) /\ \A o \in Range(Origins) : IsProgram(version[o])
  /\ DOMAIN loaded = Range(Origins) /\ \A o \in Range(Origins) : \A program \in loaded[o] : IsProgram(program)
  /\ DOMAIN asked = Links /\ \A o \in Range(Origins) : \A program \in asked[o] : IsProgram(program)
  /\ \A srv \in asked["far"] : IsAggregator(srv)
  /\ \A srv \in agg : IsAggregator(srv)
  /\ \A x \in known : IsOfClass(x.par)

\* A command reads if the request does.
IsSent(c) == c.op \in Operations /\ (IsGet(c.op) <=> ReadsText(req.asks))
Sets(op) == ~IsGet(op) /\ ~IsCall(op)

\* If there was no error, one method was called and it succeeded, on a parameter of the type of what was read, or
\* of the proxy a value was given for.
Accomplished(err, type) ==
  err = "NONE" => \E d \in done : /\ done = {d} /\ d.err = "NONE"
                                  /\ d.method # "call" => TypeCode(d.par) = IF ReadsText(req.asks) THEN type ELSE TypeCode(req.par)

\* What was called, and what each message on the way may say.
ChainInv ==
  /\ pc \in {"none", "toagg", "toorigin", "unanswered", "fromorigin", "fromagg", "lost"}
  /\ \A d \in done : d.method \in {"set", "add", "sub"} => d.carried = TypeCode(d.par)
  /\ pc # "none" => result = <<>>
  /\ pc = "none" /\ result # <<>> => Accomplished(result.err, TypeCode(req.par))
  /\ pc = "toagg" => done = {} /\ IsSent(msg) /\ msg.type = TypeCode(req.par)
  /\ pc = "toorigin" => /\ done = {} /\ IsSent(msg) /\ msg.type = TypeCode(hop.par) /\ hop.to \in Range(Origins)
                        /\ Sets(msg.op) => TypeCode(hop.par) = TypeCode(req.par)
  /\ pc \in {"toorigin", "unanswered", "fromorigin"} => (IsGet(hop.cell.op) <=> ReadsText(req.asks))
  /\ pc \in {"fromorigin", "fromagg"} => Accomplished(msg.err, msg.type)

TypeInv == PlaceInv /\ ChainInv

-----------------------------------------------------------------------------
(* Connections and programs.                                               *)

LEMMA LinkIs == "far" \notin Range(Origins) /\ "far" \in Links /\ Range(Origins) \subseteq Links
               /\ \A l \in Links : l # "far" => l \in Range(Origins)
BY OriginsAssumption DEF Links

LEMMA InitTypes == Init => TypeInv
<1> SUFFICES ASSUME Init PROVE TypeInv
  OBVIOUS
<1>1. scenario \in DOMAIN Scenarios
  BY DEF Init
<1>2. DOMAIN version = Range(Origins) /\ \A o \in Range(Origins) : version[o] \in Scenarios[scenario].programs[o]
  BY DEF Init
<1>3. \A o \in Range(Origins) : IsProgram(version[o])
  BY <1>1, <1>2, ProgramsAssumption
<1>4. DOMAIN loaded = Range(Origins) /\ \A o \in Range(Origins) : loaded[o] = {}
  BY DEF Init
<1>5. DOMAIN asked = Links /\ \A l \in Links : asked[l] = {}
  BY DEF Init
<1>6. agg = {} /\ known = {} /\ pc = "none" /\ result = <<>> /\ done = {}
  BY DEF Init
<1>7. PlaceInv
  BY <1>1, <1>2, <1>3, <1>4, <1>5, <1>6, LinkIs DEF PlaceInv
<1>8. ChainInv
  BY <1>6 DEF ChainInv
<1> QED BY <1>7, <1>8 DEF TypeInv

\* Nothing on the request's way changes, or it is forgotten.
LEMMA ChainStays == ASSUME ChainInv, UNCHANGED chainVars PROVE ChainInv'
BY DEF ChainInv, chainVars, Accomplished, IsSent, Sets, ReadsText

LEMMA ChainForgotten == ASSUME Forget PROVE ChainInv'
BY DEF Forget, ChainInv

LEMMA PlaceStays == ASSUME PlaceInv, UNCHANGED <<scenario, version, loaded, asked, agg, known>> PROVE PlaceInv'
BY DEF PlaceInv

\* What is behind a link.
LEMMA BehindIs ==
  ASSUME PlaceInv, NEW l \in Links
  PROVE  /\ l # "far" => \A program \in Behind(l) \cup asked[l] : IsProgram(program)
         /\ l = "far" => \A srv \in Behind(l) \cup asked[l] : IsAggregator(srv)
<1>1. CASE l = "far"
  BY <1>1 DEF PlaceInv, Behind
<1>2. CASE l # "far"
  BY <1>2, LinkIs DEF PlaceInv, Behind
<1> QED BY <1>1, <1>2

LEMMA AskTypes == ASSUME TypeInv, NEW l \in Links, Ask(l) PROVE TypeInv'
<1>1. PlaceInv /\ ChainInv
  BY DEF TypeInv
<1>2. ChainInv'
  <2>1. CASE l = "far"
    BY <2>1, ChainForgotten DEF Ask
  <2>2. CASE l # "far"
    BY <1>1, <2>2, ChainStays DEF Ask
  <2> QED BY <2>1, <2>2
<1>3. UNCHANGED <<scenario, version, loaded, agg>> /\ asked' = [asked EXCEPT ![l] = Behind(l)] /\ (known' = {} \/ UNCHANGED known)
  BY DEF Ask
<1>4. DOMAIN asked = Links
  BY <1>1 DEF PlaceInv
<1>5. \A o \in Range(Origins) : \A program \in asked'[o] : IsProgram(program)
  <2> SUFFICES ASSUME NEW o \in Range(Origins), NEW program \in asked'[o] PROVE IsProgram(program)
    OBVIOUS
  <2>1. CASE o = l
    BY <1>1, <1>3, <1>4, <2>1, BehindIs, LinkIs
  <2>2. CASE o # l
    BY <1>1, <1>3, <1>4, <2>2, LinkIs DEF PlaceInv
  <2> QED BY <2>1, <2>2
<1>6. \A srv \in asked'["far"] : IsAggregator(srv)
  <2> SUFFICES ASSUME NEW srv \in asked'["far"] PROVE IsAggregator(srv)
    OBVIOUS
  <2>1. CASE l = "far"
    BY <1>1, <1>3, <1>4, <2>1, BehindIs, LinkIs
  <2>2. CASE l # "far"
    BY <1>1, <1>3, <1>4, <2>2, LinkIs DEF PlaceInv
  <2> QED BY <2>1, <2>2
<1>7. PlaceInv'
  BY <1>1, <1>3, <1>4, <1>5, <1>6 DEF PlaceInv
<1> QED BY <1>2, <1>7 DEF TypeInv

LEMMA LoadTypes == ASSUME TypeInv, NEW l \in Links, Load(l) PROVE TypeInv'
<1>1. PlaceInv /\ ChainInv
  BY DEF TypeInv
<1>2. ChainInv'
  BY <1>1, ChainStays DEF Load
<1>3. UNCHANGED <<scenario, version, asked, agg>>
  BY DEF Load
<1>4. PICK source \in {asked[l], Behind(l)} \ {{}} :
        IF l = "far" THEN known' = Visible(ParseServer(InfoFile(The(source)))) /\ UNCHANGED loaded
        ELSE loaded' = [loaded EXCEPT ![l] = source] /\ UNCHANGED known
  BY DEF Load
<1>5. CASE l = "far"
  <2>1. IsServer(The(source))
    BY <1>1, <1>4, <1>5, BehindIs, TheIs DEF IsAggregator
  <2>2. \A x \in known' : IsOfClass(x.par)
    BY <1>4, <1>5, <2>1, VisibleIs
  <2>3. UNCHANGED loaded
    BY <1>4, <1>5
  <2>4. PlaceInv'
    BY <1>1, <1>3, <2>2, <2>3 DEF PlaceInv
  <2> QED BY <1>2, <2>4 DEF TypeInv
<1>6. CASE l # "far"
  <2>1. \A program \in source : IsProgram(program)
    BY <1>1, <1>4, <1>6, BehindIs
  <2>2. loaded' = [loaded EXCEPT ![l] = source] /\ UNCHANGED known /\ DOMAIN loaded = Range(Origins)
    BY <1>1, <1>4, <1>6 DEF PlaceInv
  <2>3. \A o \in Range(Origins) : loaded'[o] = source \/ loaded'[o] = loaded[o]
    BY <2>2
  <2>4. \A o \in Range(Origins) : \A program \in loaded'[o] : IsProgram(program)
    BY <1>1, <2>1, <2>3 DEF PlaceInv
  <2>5. PlaceInv'
    BY <1>1, <1>3, <2>2, <2>4 DEF PlaceInv
  <2> QED BY <1>2, <2>5 DEF TypeInv
<1> QED BY <1>5, <1>6

LEMMA StartTypes == ASSUME TypeInv, Start PROVE TypeInv'
<1>1. PlaceInv /\ ChainInv
  BY DEF TypeInv
<1>2. ChainInv'
  BY <1>1, ChainStays DEF Start
<1>3. UNCHANGED <<scenario, version, asked, loaded, known>> /\ agg' = {AddParamsToServer(AggTree)}
  BY DEF Start
<1>4. IsAggregator(AddParamsToServer(AggTree))
  BY <1>1, AggTreeIs, AddParamsIs DEF PlaceInv
<1>5. PlaceInv'
  BY <1>1, <1>3, <1>4 DEF PlaceInv
<1> QED BY <1>2, <1>5 DEF TypeInv

LEMMA FailTypes == ASSUME TypeInv, NEW l \in Links, Fail(l) PROVE TypeInv'
BY ChainStays, PlaceStays DEF TypeInv, Fail

LEMMA ReplaceTypes == ASSUME TypeInv, NEW o \in Range(Origins), Replace(o) PROVE TypeInv'
<1>1. PlaceInv /\ ChainInv
  BY DEF TypeInv
<1>2. ChainInv'
  BY <1>1, ChainStays DEF Replace
<1>3. PICK v \in Scenarios[scenario].programs[o] : version' = [version EXCEPT ![o] = v]
  BY DEF Replace
<1>4. UNCHANGED <<scenario, loaded, asked, agg, known>>
  BY DEF Replace, connVars
<1>5. scenario \in DOMAIN Scenarios /\ DOMAIN version = Range(Origins)
  BY <1>1 DEF PlaceInv
<1>6. IsProgram(v)
  BY <1>3, <1>5, ProgramsAssumption
<1>7. DOMAIN version' = Range(Origins) /\ \A p \in Range(Origins) : version'[p] = v \/ version'[p] = version[p]
  BY <1>3, <1>5
<1>8. \A p \in Range(Origins) : IsProgram(version'[p])
  BY <1>1, <1>6, <1>7 DEF PlaceInv
<1>9. PlaceInv'
  BY <1>1, <1>4, <1>7, <1>8 DEF PlaceInv
<1> QED BY <1>2, <1>9 DEF TypeInv

LEMMA RestartAggregatorTypes == ASSUME TypeInv, RestartAggregator PROVE TypeInv'
<1>1. PlaceInv /\ ChainInv
  BY DEF TypeInv
<1>2. /\ agg' = {} /\ loaded' = [o \in Range(Origins) |-> {}]
      /\ pc' = IF pc \in {"none", "toagg", "fromagg"} THEN pc ELSE "lost"
      /\ UNCHANGED <<scenario, version, asked, known, req, msg, hop, result, done>>
  BY DEF RestartAggregator
<1>3. PlaceInv'
  <2>1. DOMAIN loaded' = Range(Origins) /\ \A o \in Range(Origins) : loaded'[o] = {}
    BY <1>2
  <2> QED BY <1>1, <1>2, <2>1 DEF PlaceInv
<1>4. ChainInv'
  <2>1. CASE pc \in {"none", "toagg", "fromagg"}
    <3>1. UNCHANGED chainVars
      BY <1>2, <2>1 DEF chainVars
    <3> QED BY <1>1, <3>1, ChainStays
  <2>2. CASE pc \notin {"none", "toagg", "fromagg"}
    BY <1>1, <1>2, <2>2 DEF ChainInv
  <2> QED BY <2>1, <2>2
<1> QED BY <1>3, <1>4 DEF TypeInv
-----------------------------------------------------------------------------
(* The numbers of the aggregator's proxies.                                *)

\* An origin's parameter of that number has the path cont names after the origin.
RoutesTo(srv, o, pid, cont, name) ==
  /\ pid + 1 \in DOMAIN srv.table
  /\ cont = <<o>> \o srv.tree[srv.table[pid + 1]].cont /\ name = srv.tree[srv.table[pid + 1]].par.name

\* An entry of the aggregator's tree is a parameter of its own, or leads to the program whose file was loaded.
Routed(x) ==
  \A v \in x.via : /\ v.to \in Range(Origins) /\ loaded[v.to] # {} /\ x.cont[1] = v.to
                   /\ RoutesTo(ServerOf(The(loaded[v.to])), v.to, v.pid, x.cont, x.par.name)

\* What was asked, loaded and started since what.
RouteInv ==
  /\ DOMAIN phase = Links /\ DOMAIN stale = Links
  /\ \A o \in Range(Origins) :
       /\ phase[o] # "done" => loaded[o] = {}
       /\ ~stale[o] => asked[o] \subseteq {version[o]} /\ loaded[o] \subseteq {version[o]}
       /\ Started => phase[o] = "done"
  /\ \A srv \in agg : agg = {srv} /\ \A i \in DOMAIN srv.tree : Routed(srv.tree[i])
  /\ ~stale["far"] => /\ asked["far"] \in {{}, agg}
                      /\ \A x \in known : Started /\ LeadsTo(AggServer, x.pid, x.cont, x.par.name)

\* Where the request at hand goes.
WayInv ==
  /\ pc \in {"toorigin", "unanswered", "fromorigin"} => Started
  /\ (pc # "none" \/ done # {}) /\ ~stale["far"] => Started
  /\ pc = "toagg" /\ ~stale["far"] => LeadsTo(AggServer, msg.pid, req.cont, req.par.name)
  /\ pc = "toorigin" /\ ~stale["far"] =>
       /\ req.cont[1] = hop.to
       /\ ~stale[hop.to] => RoutesTo(OriginServer(hop.to), hop.to, msg.pid, req.cont, req.par.name)

PathInv == TypeInv /\ RouteInv /\ WayInv /\ ReachesItsParameter

-----------------------------------------------------------------------------
(* The trees' numbers.                                                     *)

LEMMA HeadOfPath == ASSUME NEW o, NEW cont, IsSequence(cont) PROVE (<<o>> \o cont)[1] = o
<1>1. <<o>> \in Seq({o} \cup {cont[i] : i \in DOMAIN cont}) /\ cont \in Seq({o} \cup {cont[i] : i \in DOMAIN cont})
  BY DEF IsSequence
<1> QED BY <1>1

LEMMA ServerConts ==
  ASSUME NEW program, IsProgram(program)
  PROVE  \A i \in DOMAIN ServerOf(program).tree : IsSequence(ServerOf(program).tree[i].cont)
<1> DEFINE own == In(<<".server">>, Special \o Status)
           tree == ServerOf(program).tree
<1>1. tree = program.tree \o own
  BY DEF ServerOf, Server
<1>2. IsSequence(program.tree)
  <2>1. program.tree \in Seq(Range(program.tree))
    BY DEF IsProgram
  <2> QED BY <2>1 DEF IsSequence
<1>3. IsSequence(own)
  <2> DEFINE both == Special \o Status
  <2>1. IsSequence(both) /\ \A i \in DOMAIN both : \/ i \in DOMAIN Special /\ both[i] = Special[i]
                                                   \/ i - Len(Special) \in DOMAIN Status /\ both[i] = Status[i - Len(Special)]
    BY OwnParameters, ConcatIs, Zenon
  <2> HIDE DEF both
  <2>2. \A i \in DOMAIN both : IsOfClass(both[i])
    BY <2>1, OwnParameters
  <2>3. IsSequence(In(<<".server">>, both))
    BY <2>1, <2>2, InIs DEF OfClasses
  <2> QED BY <2>3 DEF both
<1>4. \A i \in DOMAIN own : own[i].cont = <<".server">>
  BY DEF In, Entry
<1>5. IsSequence(<<".server">>) /\ \A i \in DOMAIN program.tree : IsSequence(program.tree[i].cont)
  <2>1. \A i \in DOMAIN program.tree : program.tree[i].cont \in Seq(Range(program.tree[i].cont))
    BY DEF IsProgram
  <2> QED BY <2>1, OneIs DEF IsSequence, Range
<1> HIDE DEF own, tree
<1>6. \A i \in DOMAIN tree : \/ i \in DOMAIN program.tree /\ tree[i] = program.tree[i]
                             \/ i - Len(program.tree) \in DOMAIN own /\ tree[i] = own[i - Len(program.tree)]
  BY <1>1, <1>2, <1>3, ConcatIs, Zenon
<1>7. \A i \in DOMAIN tree : IsSequence(tree[i].cont)
  BY <1>4, <1>5, <1>6
<1> QED BY <1>7 DEF tree

\* The proxies of a program's parameters, under the name of its connection.
LEMMA ProxiesRoute ==
  ASSUME NEW program, IsProgram(program), NEW o, NEW x,
         LeadsTo(ServerOf(program), x.pid, x.cont, x.par.name)
  PROVE  (<<o>> \o x.cont)[1] = o /\ RoutesTo(ServerOf(program), o, x.pid, <<o>> \o x.cont, x.par.name)
<1> DEFINE srv == ServerOf(program)
           i == srv.table[x.pid + 1]
<1>1. IsServer(srv) /\ \A j \in DOMAIN srv.tree : IsSequence(srv.tree[j].cont)
  BY ProgramsServer, ServerConts
<1> HIDE DEF srv
<1>2. x.pid + 1 \in DOMAIN srv.table /\ srv.tree[i].cont = x.cont /\ srv.tree[i].par.name = x.par.name
  BY DEF LeadsTo, srv
<1>3. i \in DOMAIN srv.tree
  BY <1>1, <1>2 DEF IsServer
<1>4. IsSequence(x.cont)
  BY <1>1, <1>2, <1>3
<1>5. RoutesTo(srv, o, x.pid, <<o>> \o x.cont, x.par.name)
  BY <1>2 DEF RoutesTo
<1> QED BY <1>4, <1>5, HeadOfPath DEF srv

IsRouted(x) == IsSequence(x) /\ \A i \in DOMAIN x : Routed(x[i])

LEMMA RoutedTogether == ASSUME NEW s, NEW t, IsRouted(s), IsRouted(t) PROVE IsRouted(s \o t)
<1>1. /\ IsSequence(s \o t)
      /\ \A i \in DOMAIN (s \o t) : \/ i \in DOMAIN s /\ (s \o t)[i] = s[i]
                                    \/ i - Len(s) \in DOMAIN t /\ (s \o t)[i] = t[i - Len(s)]
  BY ConcatIs DEF IsRouted
<1> QED BY <1>1 DEF IsRouted

LEMMA JoinedRouted ==
  ASSUME NEW s, IsSequence(s), \A k \in DOMAIN s : IsRouted(s[k]) PROVE IsRouted(Joined(s))
<1>1. /\ IsSequence(Joined(s))
      /\ \A i \in DOMAIN Joined(s) : \E k \in DOMAIN s : \E j \in DOMAIN s[k] : Joined(s)[i] = s[k][j]
  BY JoinedIs DEF IsRouted
<1>2. \A k \in DOMAIN s : \A j \in DOMAIN s[k] : Routed(s[k][j])
  BY DEF IsRouted
<1> QED BY <1>1, <1>2 DEF IsRouted

LEMMA FewRouted == IsRouted(<<>>) /\ \A e : Routed(e) => IsRouted(<<e>>)
BY OneIs DEF IsRouted

LEMMA InRouted ==
  ASSUME NEW cont, NEW pars, IsSequence(pars), \A i \in DOMAIN pars : IsOfClass(pars[i]) PROVE IsRouted(In(cont, pars))
<1>1. IsSequence(In(cont, pars))
  BY InIs DEF OfClasses
<1>2. \A i \in DOMAIN In(cont, pars) : In(cont, pars)[i].via = {}
  BY DEF In, Entry
<1> QED BY <1>1, <1>2 DEF IsRouted, Routed

LEMMA ConnTreeRouted ==
  ASSUME NEW o \in Range(Origins), \A program \in loaded[o] : IsProgram(program)
  PROVE  IsRouted(ConnTree(o, loaded[o]))
<1> DEFINE source == loaded[o]
           proxies == IF source = {} THEN <<>> ELSE ParseServer(InfoFile(ServerOf(The(source))))
           e(k) == [cont |-> <<o>> \o proxies[k].cont, par |-> proxies[k].par, via |-> {[to |-> o, pid |-> proxies[k].pid]}]
           s(top) == [k \in DOMAIN proxies |-> IF (proxies[k].cont = <<>>) # top THEN <<>> ELSE <<e(k)>>]
           own == In(<<o, ".client">>, Status)
<1>1. ConnTree(o, source)
        = IF config[o] # "well" THEN <<>> ELSE Joined(s(TRUE)) \o own \o Joined(s(FALSE))
  BY Zenon DEF ConnTree
<1>2. IsSequence(proxies) /\ \A k \in DOMAIN proxies : Routed(e(k))
  <2>1. CASE source = {}
    <3>1. proxies = <<>>
      BY <2>1
    <3> HIDE DEF proxies
    <3> QED BY <3>1, OneIs
  <2>2. CASE source # {}
    <3>1. The(source) \in source /\ IsProgram(The(source))
      BY <2>2, TheIs
    <3> DEFINE srv == ServerOf(The(source))
    <3>2. IsServer(srv)
      BY <3>1, ProgramsServer
    <3>3. proxies = ParseServer(InfoFile(srv))
      BY <2>2
    <3>4. IsSequence(proxies)
      BY <3>2, <3>3, InfoFileIs, ParseServerIs DEF IsServer, OfClasses
    <3>5. ASSUME NEW k \in DOMAIN proxies PROVE Routed(e(k))
      <4> DEFINE x == proxies[k]
                 v == [to |-> o, pid |-> x.pid]
      <4>1. LeadsTo(srv, x.pid, x.cont, x.par.name)
        BY <3>2, <3>3, ParseServerLeads
      <4>2. (<<o>> \o x.cont)[1] = o /\ RoutesTo(srv, o, x.pid, <<o>> \o x.cont, x.par.name)
        BY <3>1, <4>1, ProxiesRoute
      <4>3. e(k).via = {v} /\ e(k).cont = <<o>> \o x.cont /\ e(k).par = x.par /\ v.to = o /\ v.pid = x.pid
        OBVIOUS
      <4> HIDE DEF e, v, x
      <4> QED BY <2>2, <4>2, <4>3 DEF Routed
    <3> QED BY <3>4, <3>5
  <2> QED BY <2>1, <2>2
<1> HIDE DEF proxies, e
<1>3. ASSUME NEW top \in BOOLEAN PROVE IsRouted(Joined(s(top)))
  <2> DEFINE t == s(top)
  <2>1. t = [k \in 1..Len(proxies) |-> t[k]] /\ Len(proxies) \in Nat
    BY <1>2, SequenceIs
  <2>2. ASSUME NEW k \in DOMAIN t PROVE IsRouted(t[k])
    <3>1. t[k] = (IF (proxies[k].cont = <<>>) # top THEN <<>> ELSE <<e(k)>>) /\ k \in DOMAIN proxies
      OBVIOUS
    <3> HIDE DEF t
    <3> QED BY <1>2, <3>1, FewRouted
  <2> HIDE DEF t
  <2>3. IsSequence(t)
    BY <2>1, FunctionIs
  <2>4. IsRouted(Joined(t))
    BY <2>2, <2>3, JoinedRouted
  <2> QED BY <2>4 DEF t
<1>4. IsRouted(own)
  BY OwnParameters, InRouted
<1>5. IsRouted(Joined(s(TRUE))) /\ IsRouted(Joined(s(FALSE)))
  <2> HIDE DEF s
  <2> QED BY <1>3, Zenon
<1> HIDE DEF s, own
<1>6. IsRouted(Joined(s(TRUE)) \o own \o Joined(s(FALSE)))
  <2>1. IsRouted(Joined(s(TRUE)) \o own)
    BY <1>4, <1>5, RoutedTogether
  <2> QED BY <1>5, <2>1, RoutedTogether
<1> QED BY <1>1, <1>6, FewRouted

LEMMA AggTreeRouted ==
  ASSUME \A o \in Range(Origins) : \A program \in loaded[o] : IsProgram(program)
  PROVE  IsRouted(AggTree)
<1> DEFINE s == [i \in DOMAIN Origins |-> ConnTree(Origins[i], loaded[Origins[i]])]
<1>1. Len(Origins) \in Nat /\ DOMAIN Origins = 1..Len(Origins) /\ \A i \in DOMAIN Origins : Origins[i] \in Range(Origins)
  BY OriginsAssumption DEF Range
<1>2. s = [i \in 1..Len(Origins) |-> s[i]] /\ DOMAIN s = DOMAIN Origins
  BY <1>1
<1>3. ASSUME NEW k \in DOMAIN s PROVE IsRouted(s[k])
  <2>1. s[k] = ConnTree(Origins[k], loaded[Origins[k]]) /\ Origins[k] \in Range(Origins)
    BY <1>1
  <2> HIDE DEF s
  <2> QED BY <2>1, ConnTreeRouted
<1>4. AggTree = Joined(s)
  BY DEF AggTree
<1> HIDE DEF s
<1>5. IsSequence(s)
  BY <1>1, <1>2, FunctionIs
<1> QED BY <1>3, <1>4, <1>5, JoinedRouted

LEMMA AddParamsRouted == ASSUME NEW tree, IsRouted(tree) PROVE IsRouted(AddParamsToServer(tree).tree)
<1> DEFINE both == Special \o Status
           own == In(<<".server">>, both)
<1>1. AddParamsToServer(tree).tree = tree \o own
  BY DEF AddParamsToServer, Server
<1>2. IsSequence(both) /\ \A i \in DOMAIN both : \/ i \in DOMAIN Special /\ both[i] = Special[i]
                                                 \/ i - Len(Special) \in DOMAIN Status /\ both[i] = Status[i - Len(Special)]
  BY OwnParameters, ConcatIs, Zenon
<1> HIDE DEF both
<1>3. \A i \in DOMAIN both : IsOfClass(both[i])
  BY <1>2, OwnParameters
<1>4. IsRouted(own)
  BY <1>2, <1>3, InRouted
<1> HIDE DEF own
<1> QED BY <1>1, <1>4, RoutedTogether
-----------------------------------------------------------------------------
(* A request's way.                                                        *)

LEMMA Failed == ASSUME NEW err, err # "NONE", NEW type PROVE Accomplished(err, type)
BY DEF Accomplished

LEMMA RefusedFails == ASSUME NEW p, NEW c, NEW e, e # "NONE" PROVE Refused(p, c, e).err # "NONE"
BY DEF Refused, Reply
LEMMA NoSuchPIDFails == \A c : NoSuchPID(c).err # "NONE"
BY DEF NoSuchPID, Reply

\* The parameter a command is for.
LEMMA AddressedIs ==
  ASSUME NEW srv, IsServer(srv), ~PIDError(srv)
  PROVE  IsOfClass(Addressed(srv).par) /\ \E i \in DOMAIN srv.tree : Addressed(srv) = srv.tree[i]
<1>1. srv.table[msg.pid + 1] \in DOMAIN srv.tree
  BY DEF IsServer, PIDError
<1> QED BY <1>1 DEF IsServer, OfClasses, Addressed

\* A method that is called is given a value of its parameter's type, which is the type the command carries.
LEMMA PerformKeeps ==
  ASSUME ChainInv, done = {}, IsSent(msg), UNCHANGED req,
         NEW place, NEW x, NEW o, Does(x.par, msg, o), o.method # "none", Perform(place, x, msg, o),
         Sets(msg.op) => msg.type = TypeCode(req.par)
  PROVE  /\ Accomplished(msg.err, msg.type)'
         /\ \A d \in done' : d.method \in {"set", "add", "sub"} => d.carried = TypeCode(d.par)
<1>1. PICK e, v :
        /\ done' = done \cup {[at |-> place, cont |-> x.cont, par |-> x.par, carried |-> msg.type, eid |-> msg.eid,
                               method |-> o.method, vals |-> o.vals, err |-> e, val |-> v]}
        /\ msg' = IF IsGet(msg.op) THEN Reply(e, TypeCode(x.par), {v}) ELSE Reply(e, <<>>, {})
  BY Zenon DEF Perform
<1> DEFINE d == [at |-> place, cont |-> x.cont, par |-> x.par, carried |-> msg.type, eid |-> msg.eid,
                 method |-> o.method, vals |-> o.vals, err |-> e, val |-> v]
<1>2. d.par = x.par /\ d.carried = msg.type /\ d.method = o.method /\ d.err = e
  OBVIOUS
<1>3. done' = {d}
  BY <1>1
<1> HIDE DEF d
<1>4. /\ o.method = "get" <=> IsGet(msg.op)
      /\ o.method = "call" <=> IsCall(msg.op)
      /\ o.method \in {"set", "add", "sub"} => msg.type = TypeCode(x.par)
      /\ o.method \in {"get", "set", "add", "sub", "call"}
  BY UnhandledIs DEF Does, IsRefused
<1>5. \A c \in done' : c.method \in {"set", "add", "sub"} => c.carried = TypeCode(c.par)
  BY <1>2, <1>3, <1>4
<1>6. msg'.err = e /\ (IsGet(msg.op) => msg'.type = TypeCode(x.par))
  BY <1>1 DEF Reply
<1>7. ReadsText(req.asks) <=> IsGet(msg.op)
  BY DEF IsSent
<1>8. ASSUME e = "NONE", d.method # "call"
      PROVE  TypeCode(d.par) = IF ReadsText(req.asks) THEN msg'.type ELSE TypeCode(req.par)
  <2>1. CASE ReadsText(req.asks)
    BY <1>2, <1>6, <1>7, <2>1
  <2>2. CASE ~ReadsText(req.asks)
    <3>1. Sets(msg.op)
      BY <1>2, <1>4, <1>7, <1>8, <2>2 DEF Sets
    <3>2. o.method \in {"set", "add", "sub"}
      BY <1>2, <1>4, <1>7, <1>8, <2>2
    <3> QED BY <1>2, <1>4, <2>2, <3>1, <3>2
  <2> QED BY <2>1, <2>2
<1>9. msg'.err = "NONE" => \E c \in done' :
        /\ done' = {c} /\ c.err = "NONE"
        /\ c.method # "call" => TypeCode(c.par) = IF ReadsText(req.asks) THEN msg'.type ELSE TypeCode(req.par)
  <2> SUFFICES ASSUME msg'.err = "NONE" PROVE \E c \in done' :
        /\ done' = {c} /\ c.err = "NONE"
        /\ c.method # "call" => TypeCode(c.par) = IF ReadsText(req.asks) THEN msg'.type ELSE TypeCode(req.par)
    OBVIOUS
  <2>1. d \in done' /\ d.err = "NONE" /\ e = "NONE"
    BY <1>2, <1>3, <1>6
  <2> QED BY <1>3, <1>8, <2>1
<1>10. Accomplished(msg.err, msg.type)'
  BY <1>9 DEF Accomplished, ReadsText, TypeCode
<1> QED BY <1>5, <1>10

LEMMA PlaceKept == ASSUME PlaceInv, UNCHANGED <<scenario, version, connVars>> PROVE PlaceInv'
BY PlaceStays DEF connVars

LEMMA RequestTypes ==
  ASSUME TypeInv, pc = "none", NEW r \in Scenarios[scenario].requests, NEW x \in known, Request(x, r)
  PROVE  TypeInv'
<1> DEFINE o == Text(x.par, r)
           cell == Command(x.par, x.pid, o.method, r.eid, o.vals)
           called == o.method # "none"
<1>1. PlaceInv /\ ChainInv
  BY DEF TypeInv
<1>2. /\ req' = [cont |-> x.cont, par |-> x.par, asks |-> r] /\ done' = {}
      /\ called => pc' = "toagg" /\ msg' = cell /\ result' = <<>>
      /\ ~called => pc' = "none" /\ result' = [err |-> o.err, text |-> {}]
      /\ UNCHANGED <<scenario, version, connVars>>
  BY DEF Request
<1>3. IsOfClass(x.par)
  BY <1>1 DEF PlaceInv
<1>4. IsRequest(r)
  <2>1. scenario \in DOMAIN Scenarios
    BY <1>1 DEF PlaceInv
  <2>2. r \in [name : STRING, op : STRING, eid : Nat, text : STRING]
    BY <2>1, RequestsAssumption
  <2> QED BY <2>2 DEF IsRequest
<1>5. Asks(x.par, r, o)
  BY <1>3, <1>4, TextAsks
<1>6. PlaceInv'
  BY <1>1, <1>2, PlaceKept
<1>7. req'.par = x.par /\ req'.asks = r
  BY <1>2
<1>8. CASE called
  <2>1. Stub(x.par)[o.method] \in Operations /\ (IsGet(Stub(x.par)[o.method]) <=> ReadsText(r))
    BY <1>5, <1>8 DEF Asks, IsRefused
  <2>2. cell.op = Stub(x.par)[o.method] /\ cell.type = TypeCode(x.par)
    BY DEF Command
  <2> HIDE DEF cell, o
  <2>3. IsSent(msg)'
    BY <1>2, <1>7, <1>8, <2>1, <2>2 DEF IsSent, IsGet, ReadsText
  <2>4. (msg.type = TypeCode(req.par))'
    BY <1>2, <1>7, <1>8, <2>2 DEF TypeCode
  <2>5. pc' = "toagg" /\ done' = {} /\ result' = <<>>
    BY <1>2, <1>8
  <2>6. ChainInv'
    BY <2>3, <2>4, <2>5 DEF ChainInv
  <2> QED BY <1>6, <2>6 DEF TypeInv
<1>9. CASE ~called
  <2>1. o.err # "NONE"
    BY <1>5, <1>9 DEF Asks, IsRefused
  <2>2. pc' = "none" /\ result'.err = o.err /\ done' = {}
    BY <1>2, <1>9
  <2> HIDE DEF o
  <2>3. Accomplished(result.err, TypeCode(req.par))'
    BY <2>1, <2>2 DEF Accomplished
  <2>4. ChainInv'
    BY <2>2, <2>3 DEF ChainInv
  <2> QED BY <1>6, <2>4 DEF TypeInv
<1> QED BY <1>8, <1>9

\* A server answers a command: it has no parameter of that number, the parameter refuses it, or its method is called.
LEMMA ServesKeeps ==
  ASSUME ChainInv, done = {}, IsSent(msg), UNCHANGED <<req, result, hop>>, result = <<>>, NEW srv, IsServer(srv), NEW place,
         Sets(msg.op) => msg.type = TypeCode(req.par), NEW to \in {"fromagg", "fromorigin"}, pc' = to,
         to = "fromorigin" => (IsGet(hop.cell.op) <=> ReadsText(req.asks)),
         \/ PIDError(srv) /\ msg' = NoSuchPID(msg) /\ UNCHANGED done
         \/ /\ ~PIDError(srv) /\ Outcome(srv).method = "none" /\ Outcome(srv) # Unhandled
            /\ msg' = Refused(Addressed(srv).par, msg, Outcome(srv).err) /\ UNCHANGED done
         \/ ~PIDError(srv) /\ Outcome(srv).method # "none" /\ Perform(place, Addressed(srv), msg, Outcome(srv))
  PROVE  ChainInv'
<1> DEFINE Kept == /\ Accomplished(msg.err, msg.type)'
                   /\ \A d \in done' : d.method \in {"set", "add", "sub"} => d.carried = TypeCode(d.par)
<1>1. ~PIDError(srv) => Does(Addressed(srv).par, msg, Outcome(srv))
  BY AddressedIs, CellsDo DEF IsSent, Outcome
<1>2. Kept
  <2>1. CASE PIDError(srv) /\ msg' = NoSuchPID(msg) /\ UNCHANGED done
    <3>1. msg'.err # "NONE"
      BY <2>1, NoSuchPIDFails
    <3> QED BY <2>1, <3>1 DEF Accomplished
  <2>2. CASE /\ ~PIDError(srv) /\ Outcome(srv).method = "none" /\ Outcome(srv) # Unhandled
             /\ msg' = Refused(Addressed(srv).par, msg, Outcome(srv).err) /\ UNCHANGED done
    <3>1. Outcome(srv).err # "NONE"
      BY <1>1, <2>2 DEF Does, IsRefused
    <3>2. msg'.err # "NONE"
      BY <2>2, <3>1, RefusedFails
    <3> QED BY <2>2, <3>2 DEF Accomplished
  <2>3. CASE ~PIDError(srv) /\ Outcome(srv).method # "none" /\ Perform(place, Addressed(srv), msg, Outcome(srv))
    <3> DEFINE x == Addressed(srv)
               o == Outcome(srv)
    <3>1. Does(x.par, msg, o) /\ o.method # "none" /\ Perform(place, x, msg, o)
      BY <1>1, <2>3
    <3> HIDE DEF x, o
    <3> QED BY <3>1, PerformKeeps
  <2> HIDE DEF Kept
  <2> QED BY <2>1, <2>2, <2>3
<1>3. hop' = hop /\ req' = req /\ result' = <<>> /\ pc' = to
  OBVIOUS
<1> QED BY <1>2, <1>3 DEF ChainInv, IsGet, ReadsText

\* A command at the aggregator is sent on by the stub of its parameter, or is answered there.
LEMMA AggAnswersTypes == ASSUME TypeInv, AggAnswers PROVE TypeInv'
<1> DEFINE srv == AggServer
<1>1. PlaceInv /\ ChainInv
  BY DEF TypeInv
<1>2. PlaceInv'
  BY <1>1, PlaceKept DEF AggAnswers
<1>3. IsServer(srv)
  BY <1>1, TheIs DEF AggAnswers, Started, AggServer, PlaceInv, IsAggregator
<1>4. /\ pc = "toagg" /\ UNCHANGED <<req, hop, result>>
      /\ \/ PIDError(srv) /\ pc' = "fromagg" /\ msg' = NoSuchPID(msg) /\ UNCHANGED done
         \/ pc' = "lost" /\ UNCHANGED <<msg, done>>
         \/ /\ ~PIDError(srv) /\ Outcome(srv).method = "none" /\ Outcome(srv) # Unhandled
            /\ pc' = "fromagg" /\ msg' = Refused(Addressed(srv).par, msg, Outcome(srv).err) /\ UNCHANGED done
         \/ ~PIDError(srv) /\ Outcome(srv).method # "none" /\ pc' = "fromagg" /\ Perform("agg", Addressed(srv), msg, Outcome(srv))
  BY DEF AggAnswers
<1> HIDE DEF srv
<1>5. done = {} /\ IsSent(msg) /\ msg.type = TypeCode(req.par) /\ result = <<>>
  BY <1>1, <1>4 DEF ChainInv
<1>6. ASSUME pc' = "lost" /\ UNCHANGED <<msg, done>> PROVE ChainInv'
  BY <1>4, <1>5, <1>6 DEF ChainInv
<1>7. ASSUME pc' = "fromagg" PROVE ChainInv'
  BY <1>1, <1>3, <1>4, <1>5, <1>7, ServesKeeps
<1>8. ChainInv'
  BY <1>4, <1>6, <1>7
<1> QED BY <1>2, <1>8 DEF TypeInv

LEMMA AggForwardsTypes == ASSUME TypeInv, AggForwards PROVE TypeInv'
<1> DEFINE x == Addressed(AggServer)
           o == Outcome(AggServer)
           v == The(x.via)
<1>1. PlaceInv /\ ChainInv
  BY DEF TypeInv
<1>2. PlaceInv'
  BY <1>1, PlaceKept DEF AggForwards
<1>3. /\ pc = "toagg" /\ ~PIDError(AggServer) /\ o.method # "none" /\ x.via # {}
      /\ hop' = [to |-> v.to, par |-> x.par, cell |-> msg]
      /\ msg' = Command(x.par, v.pid, o.method, msg.eid, o.vals)
      /\ pc' = "toorigin" /\ UNCHANGED <<req, result, done>>
  BY DEF AggForwards
<1>4. IsAggregator(AggServer)
  BY <1>1, TheIs DEF AggForwards, Started, AggServer, PlaceInv
<1>5. IsOfClass(x.par) /\ v.to \in Range(Origins)
  <2>1. IsOfClass(x.par) /\ \E i \in DOMAIN AggServer.tree : x = AggServer.tree[i]
    BY <1>3, <1>4, AddressedIs DEF IsAggregator
  <2>2. v \in x.via
    BY <1>3, TheIs
  <2> QED BY <1>4, <2>1, <2>2 DEF IsAggregator, IsTree
<1>6. done = {} /\ IsSent(msg) /\ msg.type = TypeCode(req.par) /\ result = <<>>
  BY <1>1, <1>3 DEF ChainInv
<1>7. Does(x.par, msg, o)
  <2>1. o = Cells(x.par, msg)
    BY DEF Outcome
  <2> HIDE DEF x, o
  <2> QED BY <1>5, <1>6, <2>1, CellsDo DEF IsSent
<1> HIDE DEF x, o, v
<1>8. /\ Stub(x.par)[o.method] = msg.op
      /\ Sets(msg.op) => msg.type = TypeCode(x.par)
  BY <1>3, <1>7, UnhandledIs DEF Does, IsRefused, Sets
<1>9. msg'.op = msg.op /\ msg'.type = TypeCode(x.par)
  BY <1>3, <1>8 DEF Command
<1>10. hop'.to = v.to /\ hop'.par = x.par /\ hop'.cell = msg
  BY <1>3
<1>11. IsSent(msg)'
  BY <1>3, <1>6, <1>9 DEF IsSent, IsGet, ReadsText
<1>12. (msg.type = TypeCode(hop.par) /\ hop.to \in Range(Origins))'
  BY <1>5, <1>9, <1>10 DEF TypeCode
<1>13. (Sets(msg.op) => TypeCode(hop.par) = TypeCode(req.par))'
  BY <1>3, <1>6, <1>8, <1>9, <1>10 DEF Sets, IsGet, IsCall, TypeCode
<1>14. (IsGet(hop.cell.op) <=> ReadsText(req.asks))'
  BY <1>3, <1>6, <1>10 DEF IsSent, IsGet, ReadsText
<1>15. pc' = "toorigin" /\ done' = {} /\ result' = <<>>
  BY <1>3, <1>6
<1>16. ChainInv'
  BY <1>11, <1>12, <1>13, <1>14, <1>15 DEF ChainInv
<1> QED BY <1>2, <1>16 DEF TypeInv

LEMMA OriginServesTypes == ASSUME TypeInv, OriginServes PROVE TypeInv'
<1> DEFINE srv == OriginServer(hop.to)
<1>1. PlaceInv /\ ChainInv
  BY DEF TypeInv
<1>2. PlaceInv'
  BY <1>1, PlaceKept DEF OriginServes
<1>3. /\ pc = "toorigin" /\ UNCHANGED <<req, hop, result>>
      /\ \/ PIDError(srv) /\ pc' = "fromorigin" /\ msg' = NoSuchPID(msg) /\ UNCHANGED done
         \/ pc' = "unanswered" /\ UNCHANGED <<msg, done>>
         \/ /\ ~PIDError(srv) /\ Outcome(srv).method = "none" /\ Outcome(srv) # Unhandled
            /\ pc' = "fromorigin" /\ msg' = Refused(Addressed(srv).par, msg, Outcome(srv).err) /\ UNCHANGED done
         \/ ~PIDError(srv) /\ Outcome(srv).method # "none" /\ pc' = "fromorigin" /\ Perform(hop.to, Addressed(srv), msg, Outcome(srv))
  BY DEF OriginServes
<1>4. /\ done = {} /\ IsSent(msg) /\ msg.type = TypeCode(hop.par) /\ hop.to \in Range(Origins) /\ result = <<>>
      /\ Sets(msg.op) => TypeCode(hop.par) = TypeCode(req.par)
      /\ IsGet(hop.cell.op) <=> ReadsText(req.asks)
  BY <1>1, <1>3 DEF ChainInv
<1>5. IsServer(srv)
  BY <1>1, <1>4, ProgramsServer DEF OriginServer, PlaceInv
<1> HIDE DEF srv
<1>6. ASSUME pc' = "unanswered" /\ UNCHANGED <<msg, done>> PROVE ChainInv'
  BY <1>3, <1>4, <1>6 DEF ChainInv, IsGet, ReadsText
<1>7. ASSUME pc' = "fromorigin" PROVE ChainInv'
  BY <1>1, <1>3, <1>4, <1>5, <1>7, ServesKeeps
<1>8. ChainInv'
  BY <1>3, <1>6, <1>7
<1> QED BY <1>2, <1>8 DEF TypeInv
-----------------------------------------------------------------------------
(* The way back.                                                           *)

LEMMA TimedOutFails == ASSUME NEW p, NEW c PROVE TimedOut(p, c).err # "NONE"
BY DEF TimedOut

\* A reply a stub takes for a success is one, and what was read has the proxy's type.
LEMMA AcceptedIs ==
  ASSUME NEW p, NEW c, NEW m, Accepted(p, c, m).err = "NONE"
  PROVE  m.err = "NONE" /\ (IsGet(c.op) => m.type = TypeCode(p))
<1>1. CASE IsGet(c.op) /\ m.type # TypeCode(p)
  BY <1>1 DEF Accepted
<1>2. CASE ~(IsGet(c.op) /\ m.type # TypeCode(p))
  BY <1>2 DEF Accepted
<1> QED BY <1>1, <1>2

\* What a user is told is a success only if the answer is.
LEMMA ToldIs == ASSUME NEW p, NEW r, NEW a, Told(p, r, a).err = "NONE" PROVE a.err = "NONE"
<1>1. CASE r.op \in {"GetStr", "GetStrTbl"}
  <2>1. Told(p, r, a) = Shown(p, a.err, The(a.vals))
    BY <1>1 DEF Told
  <2>2. \A e, v : Shown(p, e, v).err = "NONE" => e = "NONE"
    <3> SUFFICES ASSUME NEW e, NEW v, e # "NONE" PROVE Shown(p, e, v).err # "NONE"
      OBVIOUS
    <3>1. CASE p.cls \in {"int", "bool"}
      BY <3>1 DEF Shown
    <3>2. CASE p.cls \in {"float", "vec2", "vec3"}
      BY <3>2 DEF Shown
    <3>3. CASE p.cls \notin {"int", "bool", "float", "vec2", "vec3"}
      BY <3>3 DEF Shown
    <3> QED BY <3>1, <3>2, <3>3
  <2> QED BY <2>1, <2>2
<1>2. CASE r.op \notin {"GetStr", "GetStrTbl"}
  BY <1>2 DEF Told
<1> QED BY <1>1, <1>2

LEMMA AnswerKeeps ==
  ASSUME ChainInv, PlaceInv, NEW a, Answer(a), result = <<>>,
         \A type : a.err = "NONE" /\ (ReadsText(req.asks) => type = TypeCode(hop.par)) => Accomplished(a.err, type),
         IsGet(hop.cell.op) <=> ReadsText(req.asks)
  PROVE  TypeInv'
<1>1. PlaceInv'
  BY PlaceKept DEF Answer
<1>2. pc' = "fromagg" /\ result' = <<>> /\ done' = done /\ req' = req
  BY DEF Answer
<1>3. msg'.err = a.err /\ (IsGet(hop.cell.op) => msg'.type = TypeCode(hop.par))
  BY DEF Answer, Reply
<1>4. Accomplished(a.err, msg'.type)
  BY <1>3 DEF Accomplished
<1>5. Accomplished(msg.err, msg.type)'
  BY <1>2, <1>3, <1>4 DEF Accomplished, ReadsText, TypeCode
<1>6. ChainInv'
  BY <1>2, <1>5 DEF ChainInv
<1> QED BY <1>1, <1>6 DEF TypeInv

LEMMA AggReceivesTypes == ASSUME TypeInv, AggReceives PROVE TypeInv'
<1> DEFINE a == Accepted(hop.par, hop.cell, msg)
<1>1. PlaceInv /\ ChainInv /\ pc = "fromorigin" /\ Answer(a)
  BY DEF TypeInv, AggReceives
<1>2. Accomplished(msg.err, msg.type) /\ result = <<>> /\ (IsGet(hop.cell.op) <=> ReadsText(req.asks))
  BY <1>1 DEF ChainInv
<1>3. a.err = "NONE" => msg.err = "NONE" /\ (IsGet(hop.cell.op) => msg.type = TypeCode(hop.par))
  BY AcceptedIs
<1> HIDE DEF a
<1>4. ASSUME NEW type, a.err = "NONE", ReadsText(req.asks) => type = TypeCode(hop.par) PROVE Accomplished(a.err, type)
  BY <1>2, <1>3, <1>4 DEF Accomplished
<1> QED BY <1>1, <1>2, <1>4, AnswerKeeps

LEMMA AggTimesOutTypes == ASSUME TypeInv, AggTimesOut PROVE TypeInv'
<1> DEFINE a == TimedOut(hop.par, hop.cell)
<1>1. PlaceInv /\ ChainInv /\ pc \in {"unanswered", "toorigin", "fromorigin"} /\ Answer(a)
  BY DEF TypeInv, AggTimesOut
<1>2. result = <<>> /\ (IsGet(hop.cell.op) <=> ReadsText(req.asks))
  BY <1>1 DEF ChainInv
<1>3. a.err # "NONE"
  BY TimedOutFails
<1> HIDE DEF a
<1> QED BY <1>1, <1>2, <1>3, AnswerKeeps

LEMMA FarKeeps ==
  ASSUME ChainInv, PlaceInv, NEW a, FarIs(a), a.err = "NONE" => Accomplished(a.err, TypeCode(req.par)) PROVE TypeInv'
<1>1. PlaceInv'
  BY PlaceKept DEF FarIs
<1>2. pc' = "none" /\ result' = Told(req.par, req.asks, a) /\ done' = done /\ req' = req
  BY DEF FarIs
<1>3. result'.err = "NONE" => a.err = "NONE"
  BY <1>2, ToldIs
<1>4. Accomplished(result.err, TypeCode(req.par))'
  BY <1>2, <1>3 DEF Accomplished, ReadsText, TypeCode
<1>5. ChainInv'
  BY <1>2, <1>4 DEF ChainInv
<1> QED BY <1>1, <1>5 DEF TypeInv

LEMMA FarReceivesTypes == ASSUME TypeInv, FarReceives PROVE TypeInv'
<1> DEFINE a == Accepted(req.par, FarCell, msg)
<1>1. PlaceInv /\ ChainInv /\ pc = "fromagg" /\ FarIs(a)
  BY DEF TypeInv, FarReceives
<1>2. Accomplished(msg.err, msg.type)
  BY <1>1 DEF ChainInv
<1>3. IsGet(FarCell.op) <=> ReadsText(req.asks)
  BY DEF FarCell, IsGet, ReadsText
<1>4. a.err = "NONE" => msg.err = "NONE" /\ (IsGet(FarCell.op) => msg.type = TypeCode(req.par))
  BY AcceptedIs
<1> HIDE DEF a
<1>5. a.err = "NONE" => Accomplished(a.err, TypeCode(req.par))
  BY <1>2, <1>3, <1>4 DEF Accomplished
<1> QED BY <1>1, <1>5, FarKeeps

LEMMA FarTimesOutTypes == ASSUME TypeInv, FarTimesOut PROVE TypeInv'
<1> DEFINE a == TimedOut(req.par, FarCell)
<1>1. PlaceInv /\ ChainInv /\ FarIs(a)
  BY DEF TypeInv, FarTimesOut
<1>2. a.err # "NONE"
  BY TimedOutFails
<1> HIDE DEF a
<1> QED BY <1>1, <1>2, FarKeeps

-----------------------------------------------------------------------------
LEMMA NextTypes == TypeInv /\ [Next]_vars => TypeInv'
<1> SUFFICES ASSUME TypeInv, [Next]_vars PROVE TypeInv'
  OBVIOUS
<1>1. ASSUME NEW l \in Links, Ask(l) PROVE TypeInv'
  BY <1>1, AskTypes
<1>2. ASSUME NEW l \in Links, Load(l) PROVE TypeInv'
  BY <1>2, LoadTypes
<1>3. CASE Start
  BY <1>3, StartTypes
<1>4. CASE AggAnswers
  BY <1>4, AggAnswersTypes
<1>5. CASE AggForwards
  BY <1>5, AggForwardsTypes
<1>6. CASE OriginServes
  BY <1>6, OriginServesTypes
<1>7. CASE AggReceives
  BY <1>7, AggReceivesTypes
<1>8. CASE AggTimesOut
  BY <1>8, AggTimesOutTypes
<1>9. CASE FarReceives
  BY <1>9, FarReceivesTypes
<1>10. CASE FarTimesOut
  BY <1>10, FarTimesOutTypes
<1>11. ASSUME pc = "none", NEW r \in Scenarios[scenario].requests, NEW x \in known, Request(x, r) PROVE TypeInv'
  BY <1>11, RequestTypes
<1>12. ASSUME NEW o \in Range(Origins), Replace(o) PROVE TypeInv'
  BY <1>12, ReplaceTypes
<1>13. ASSUME NEW l \in Links, Fail(l) PROVE TypeInv'
  BY <1>13, FailTypes
<1>14. CASE RestartAggregator
  BY <1>14, RestartAggregatorTypes
<1>15. CASE UNCHANGED vars
  <2>1. UNCHANGED chainVars /\ UNCHANGED <<scenario, version, connVars>>
    BY <1>15 DEF vars
  <2> QED BY <2>1, ChainStays, PlaceKept DEF TypeInv
<1> QED
  BY <1>1, <1>2, <1>3, <1>4, <1>5, <1>6, <1>7, <1>8, <1>9, <1>10, <1>11, <1>12, <1>13, <1>14, <1>15
  DEF Next, Connecting, Answering, Environment

\* However stale the numbers of the proxies are, a value is given to a parameter of the type it was made for, and
\* the program behind an aggregator is told of success only if one method was called, it succeeded, and the
\* parameter has the type that program takes it for (the type codes in the cells, HCClient::GetXact).
THEOREM TypesAreKept == Spec => []TypeKept
<1>1. TypeInv => TypeKept
  <2> SUFFICES ASSUME TypeInv PROVE TypeKept
    OBVIOUS
  <2>1. \A d \in done : d.method \in {"set", "add", "sub"} => d.carried = TypeCode(d.par)
    BY DEF TypeInv, ChainInv
  <2>2. ASSUME result # <<>>, result.err = "NONE"
        PROVE  \E d \in done : done = {d} /\ d.err = "NONE" /\ (d.method # "call" => TypeCode(d.par) = TypeCode(req.par))
    <3>1. Accomplished(result.err, TypeCode(req.par))
      BY <2>2 DEF TypeInv, ChainInv
    <3> QED BY <2>2, <3>1 DEF Accomplished
  <2> QED BY <2>1, <2>2 DEF TypeKept
<1> QED BY <1>1, InitTypes, NextTypes, PTL DEF Spec

-----------------------------------------------------------------------------
(* The connections' steps, and requests that reach their parameters.       *)

WaysInv == RouteInv /\ WayInv /\ ReachesItsParameter

LEMMA RouteStays == ASSUME RouteInv, UNCHANGED <<phase, stale, asked, loaded, version, agg, known>> PROVE RouteInv'
BY DEF RouteInv, Routed, Started, AggServer

LEMMA WayStays ==
  ASSUME WayInv, UNCHANGED <<pc, req, msg, hop, done, stale, version, agg>> PROVE WayInv'
BY DEF WayInv, Started, AggServer, OriginServer

LEMMA ReachesStays == ASSUME ReachesItsParameter, UNCHANGED <<req, done, stale>> PROVE ReachesItsParameter'
BY DEF ReachesItsParameter, Fresh

\* Nothing is under way before the aggregator has started, unless it was restarted.
LEMMA NothingToReach == ASSUME stale["far"] \/ done = {} PROVE ReachesItsParameter
BY DEF ReachesItsParameter, Fresh

LEMMA InitPath == Init => PathInv
<1> SUFFICES ASSUME Init PROVE PathInv
  OBVIOUS
<1>1. TypeInv
  BY InitTypes
<1>2. /\ DOMAIN phase = Links /\ DOMAIN stale = Links /\ agg = {} /\ known = {} /\ pc = "none" /\ done = {}
      /\ \A o \in Range(Origins) : asked[o] = {} /\ loaded[o] = {}
      /\ asked["far"] = {}
  BY LinkIs DEF Init
<1>3. RouteInv
  BY <1>2 DEF RouteInv, Started
<1>4. WayInv
  BY <1>2 DEF WayInv
<1>5. ReachesItsParameter
  BY <1>2, NothingToReach
<1> QED BY <1>1, <1>3, <1>4, <1>5 DEF PathInv

LEMMA AskWays == ASSUME PathInv, NEW l \in Links, Ask(l) PROVE WaysInv'
<1>1. PlaceInv /\ RouteInv /\ WayInv /\ ReachesItsParameter /\ Turn(l)
  BY DEF PathInv, TypeInv, Ask
<1>2. /\ phase' = [phase EXCEPT ![l] = "asked"] /\ asked' = [asked EXCEPT ![l] = Behind(l)]
      /\ stale' = [stale EXCEPT ![l] = FALSE] /\ UNCHANGED <<version, loaded, agg>>
      /\ l = "far" => known' = {} /\ Forget
      /\ l # "far" => UNCHANGED <<known, pc, req, msg, hop, done>>
  BY DEF Ask, chainVars
<1>3. DOMAIN phase = Links /\ DOMAIN asked = Links /\ DOMAIN stale = Links
  BY <1>1 DEF PlaceInv, RouteInv
<1>4. \A k \in Links : k # l => phase'[k] = phase[k] /\ asked'[k] = asked[k] /\ stale'[k] = stale[k]
  BY <1>2, <1>3
<1>5. phase'[l] = "asked" /\ asked'[l] = Behind(l) /\ ~stale'[l] /\ DOMAIN phase' = Links /\ DOMAIN stale' = Links
  BY <1>2, <1>3
<1>6. \A srv \in agg : agg = {srv} /\ \A i \in DOMAIN srv.tree : Routed(srv.tree[i])'
  BY <1>1, <1>2 DEF RouteInv, Routed
<1>7. CASE l = "far"
  <2>1. \A o \in Range(Origins) : o # l /\ o \in Links
    BY <1>7, LinkIs
  <2>2. asked'["far"] = agg' /\ known' = {} /\ pc' = "none" /\ done' = {}
    BY <1>2, <1>5, <1>7 DEF Behind, Forget
  <2>3. RouteInv'
    BY <1>1, <1>2, <1>4, <1>5, <1>6, <2>1, <2>2 DEF RouteInv, Started
  <2>4. WayInv'
    BY <2>2 DEF WayInv
  <2>5. ReachesItsParameter'
    BY <2>2 DEF ReachesItsParameter
  <2> QED BY <2>3, <2>4, <2>5 DEF WaysInv
<1>8. CASE l # "far"
  <2>1. l \in Range(Origins) /\ phase[l] = "none" /\ asked'[l] = {version[l]}
    BY <1>1, <1>5, <1>8, LinkIs DEF Turn, Behind
  <2>2. ~Started /\ agg = {} /\ loaded[l] = {}
    BY <1>1, <2>1 DEF RouteInv, Started
  <2>3. stale'["far"] = stale["far"] /\ asked'["far"] = asked["far"]
    BY <1>4, <1>8, LinkIs
  <2>4. \A o \in Range(Origins) :
          /\ phase'[o] # "done" => loaded'[o] = {}
          /\ ~stale'[o] => asked'[o] \subseteq {version'[o]} /\ loaded'[o] \subseteq {version'[o]}
    <3> SUFFICES ASSUME NEW o \in Range(Origins)
                 PROVE  /\ phase'[o] # "done" => loaded'[o] = {}
                        /\ ~stale'[o] => asked'[o] \subseteq {version'[o]} /\ loaded'[o] \subseteq {version'[o]}
      OBVIOUS
    <3>1. CASE o = l
      BY <1>2, <2>1, <2>2, <3>1
    <3>2. CASE o # l
      <4>1. phase'[o] = phase[o] /\ asked'[o] = asked[o] /\ stale'[o] = stale[o]
        BY <1>4, <3>2, LinkIs
      <4> QED BY <1>1, <1>2, <4>1 DEF RouteInv
    <3> QED BY <3>1, <3>2
  <2>5. ~Started' /\ agg' = {} /\ UNCHANGED <<known, pc, req, msg, hop, done>>
    BY <1>2, <1>8, <2>2 DEF Started
  <2>6. ~stale["far"] => asked["far"] = {} /\ known = {} /\ pc = "none" /\ done = {}
    BY <1>1, <2>2 DEF RouteInv, WayInv
  <2>7. RouteInv'
    BY <1>5, <2>3, <2>4, <2>5, <2>6 DEF RouteInv
  <2>8. WayInv'
    BY <1>1, <2>2, <2>3, <2>5, <2>6 DEF WayInv
  <2>9. ReachesItsParameter'
    BY <2>3, <2>5, <2>6 DEF ReachesItsParameter, Fresh
  <2> QED BY <2>7, <2>8, <2>9 DEF WaysInv
<1> QED BY <1>7, <1>8

LEMMA LoadWays == ASSUME PathInv, NEW l \in Links, Load(l) PROVE WaysInv'
<1>1. PlaceInv /\ RouteInv /\ WayInv /\ ReachesItsParameter /\ phase[l] = "asked"
  BY DEF PathInv, TypeInv, Load
<1>2. PICK source \in {asked[l], Behind(l)} \ {{}} :
        IF l = "far" THEN known' = Visible(ParseServer(InfoFile(The(source)))) /\ UNCHANGED loaded
        ELSE loaded' = [loaded EXCEPT ![l] = source] /\ UNCHANGED known
  BY DEF Load
<1>3. phase' = [phase EXCEPT ![l] = "done"] /\ UNCHANGED <<version, asked, agg, pc, req, msg, hop, done, stale>>
  BY DEF Load, chainVars
<1>4. DOMAIN phase = Links /\ DOMAIN stale = Links /\ DOMAIN loaded = Range(Origins)
  BY <1>1 DEF RouteInv, PlaceInv
<1>5. DOMAIN phase' = Links /\ phase'[l] = "done" /\ \A k \in Links : k # l => phase'[k] = phase[k]
  BY <1>3, <1>4
<1>6. WayInv' /\ ReachesItsParameter'
  BY <1>1, <1>3, WayStays, ReachesStays
<1>7. CASE l = "far"
  <2>1. UNCHANGED loaded /\ \A o \in Range(Origins) : phase'[o] = phase[o]
    BY <1>2, <1>5, <1>7, LinkIs
  <2>2. \A srv \in agg : agg = {srv} /\ \A i \in DOMAIN srv.tree : Routed(srv.tree[i])'
    BY <1>1, <2>1 DEF RouteInv, Routed
  <2>3. ASSUME ~stale["far"] PROVE \A x \in known' : Started /\ LeadsTo(AggServer, x.pid, x.cont, x.par.name)
    <3>1. source = agg /\ agg # {}
      BY <1>1, <1>2, <1>7, <2>3 DEF RouteInv, Behind
    <3>2. IsServer(AggServer)
      BY <1>1, <3>1, TheIs DEF PlaceInv, IsAggregator, AggServer
    <3>3. known' = Visible(ParseServer(InfoFile(AggServer)))
      BY <1>2, <1>7, <3>1 DEF AggServer
    <3> QED BY <3>1, <3>2, <3>3, VisibleLeads DEF Started
  <2>4. Started' = Started /\ AggServer' = AggServer
    BY <1>3 DEF Started, AggServer
  <2>5. RouteInv'
    BY <1>1, <1>3, <1>4, <1>5, <2>1, <2>2, <2>3, <2>4 DEF RouteInv
  <2> QED BY <1>6, <2>5 DEF WaysInv
<1>8. CASE l # "far"
  <2>1. l \in Range(Origins) /\ Behind(l) = {version[l]} /\ ~Started /\ agg = {}
    BY <1>1, <1>8, LinkIs DEF RouteInv, Behind, Started
  <2>2. UNCHANGED known /\ loaded'[l] = source /\ \A o \in Range(Origins) : o # l => loaded'[o] = loaded[o]
    BY <1>2, <1>4, <1>8, <2>1
  <2>3. ~stale[l] => source \subseteq {version[l]}
    BY <1>1, <1>2, <2>1 DEF RouteInv
  <2>4. \A o \in Range(Origins) :
          /\ phase'[o] # "done" => loaded'[o] = {}
          /\ ~stale'[o] => asked'[o] \subseteq {version'[o]} /\ loaded'[o] \subseteq {version'[o]}
    <3> SUFFICES ASSUME NEW o \in Range(Origins)
                 PROVE  /\ phase'[o] # "done" => loaded'[o] = {}
                        /\ ~stale'[o] => asked'[o] \subseteq {version'[o]} /\ loaded'[o] \subseteq {version'[o]}
      OBVIOUS
    <3>1. CASE o = l
      BY <1>1, <1>3, <1>5, <2>2, <2>3, <3>1 DEF RouteInv
    <3>2. CASE o # l
      <4>1. phase'[o] = phase[o] /\ loaded'[o] = loaded[o]
        BY <1>5, <2>2, <3>2, LinkIs
      <4> QED BY <1>1, <1>3, <4>1 DEF RouteInv
    <3> QED BY <3>1, <3>2
  <2>5. ~Started' /\ agg' = {} /\ (~stale["far"] => asked["far"] = {} /\ known = {})
    BY <1>1, <1>3, <2>1 DEF RouteInv, Started
  <2>6. RouteInv'
    BY <1>3, <1>4, <1>5, <2>2, <2>4, <2>5 DEF RouteInv
  <2> QED BY <1>6, <2>6 DEF WaysInv
<1> QED BY <1>7, <1>8

LEMMA FailWays == ASSUME PathInv, NEW l \in Links, Fail(l) PROVE WaysInv'
<1>1. RouteInv /\ WayInv /\ ReachesItsParameter /\ l \in Range(Origins) /\ phase[l] # "done"
  BY LinkIs DEF PathInv, Fail, Turn
<1>2. /\ phase' = [phase EXCEPT ![l] = "done"]
      /\ UNCHANGED <<version, asked, loaded, agg, known, pc, req, msg, hop, done, stale>>
  BY DEF Fail, chainVars
<1>3. DOMAIN phase' = Links /\ phase'[l] = "done" /\ \A k \in Links : k # l => phase'[k] = phase[k]
  BY <1>1, <1>2 DEF RouteInv
<1>4. agg = {} /\ ~Started /\ ~Started'
  BY <1>1, <1>2 DEF RouteInv, Started
<1>5. RouteInv'
  BY <1>1, <1>2, <1>3, <1>4, LinkIs DEF RouteInv
<1> QED BY <1>1, <1>2, <1>5, WayStays, ReachesStays DEF WaysInv

LEMMA StartWays == ASSUME PathInv, Start PROVE WaysInv'
<1>1. PICK srv : srv = AddParamsToServer(AggTree)
  OBVIOUS
<1>2. PlaceInv /\ RouteInv /\ WayInv /\ ReachesItsParameter
  BY DEF PathInv, TypeInv
<1>3. /\ ~Started /\ agg' = {srv} /\ \A o \in Range(Origins) : phase[o] = "done"
      /\ UNCHANGED <<version, phase, asked, loaded, known, pc, req, msg, hop, done, stale>>
  BY <1>1 DEF Start, chainVars
<1>4. IsRouted(srv.tree)
  BY <1>1, <1>2, AggTreeRouted, AddParamsRouted DEF PlaceInv
<1>5. \A i \in DOMAIN srv.tree : Routed(srv.tree[i])'
  BY <1>3, <1>4 DEF IsRouted, Routed
<1>6. ~stale["far"] => asked["far"] = {} /\ known = {} /\ pc = "none" /\ done = {}
  BY <1>2, <1>3 DEF RouteInv, WayInv, Started
<1>7. RouteInv'
  BY <1>2, <1>3, <1>5, <1>6 DEF RouteInv
<1>8. Started'
  BY <1>3 DEF Started
<1>9. WayInv'
  BY <1>2, <1>3, <1>6, <1>8 DEF WayInv
<1>10. ReachesItsParameter'
  BY <1>2, <1>3, ReachesStays
<1> QED BY <1>7, <1>9, <1>10 DEF WaysInv

LEMMA ReplaceWays == ASSUME PathInv, NEW o \in Range(Origins), Replace(o) PROVE WaysInv'
<1>1. PlaceInv /\ ChainInv /\ RouteInv /\ WayInv /\ ReachesItsParameter
  BY DEF PathInv, TypeInv
<1>2. PICK v : version' = [version EXCEPT ![o] = v]
  BY DEF Replace
<1>3. /\ stale' = [stale EXCEPT ![o] = TRUE]
      /\ UNCHANGED <<phase, asked, loaded, agg, known, pc, req, msg, hop, done>>
  BY DEF Replace, connVars, chainVars
<1>4. stale'["far"] = stale["far"] /\ stale'[o] /\ DOMAIN stale' = Links
  BY <1>1, <1>3, LinkIs DEF RouteInv
<1>5. \A p \in Range(Origins) : p # o => version'[p] = version[p] /\ stale'[p] = stale[p]
  BY <1>1, <1>2, <1>3, LinkIs DEF RouteInv, PlaceInv
<1>6. \A srv \in agg : agg = {srv} /\ \A i \in DOMAIN srv.tree : Routed(srv.tree[i])'
  BY <1>1, <1>3 DEF RouteInv, Routed
<1>7. Started' = Started /\ AggServer' = AggServer
  BY <1>3 DEF Started, AggServer
<1>8. RouteInv'
  BY <1>1, <1>3, <1>4, <1>5, <1>6, <1>7 DEF RouteInv
<1>9. WayInv'
  <2>1. (pc = "toorigin" /\ ~stale["far"])' =>
          /\ req'.cont[1] = hop'.to
          /\ ~stale'[hop'.to] => RoutesTo(OriginServer(hop.to)', hop'.to, msg'.pid, req'.cont, req'.par.name)
    <3> SUFFICES ASSUME pc = "toorigin", ~stale["far"]
                 PROVE  /\ req.cont[1] = hop.to
                        /\ ~stale'[hop.to] => RoutesTo(OriginServer(hop.to)', hop.to, msg.pid, req.cont, req.par.name)
      BY <1>3, <1>4
    <3>1. hop.to \in Range(Origins)
      BY <1>1 DEF ChainInv
    <3>2. ~stale'[hop.to] => OriginServer(hop.to)' = OriginServer(hop.to) /\ ~stale[hop.to]
      BY <1>3, <1>4, <1>5, <3>1 DEF OriginServer
    <3> QED BY <1>1, <3>2 DEF WayInv
  <2> QED BY <1>1, <1>3, <1>4, <1>7, <2>1 DEF WayInv
<1>10. ReachesItsParameter'
  <2>1. Fresh' => Fresh
    BY <1>3, <1>4, <1>5 DEF Fresh
  <2> QED BY <1>1, <1>3, <2>1 DEF ReachesItsParameter
<1> QED BY <1>8, <1>9, <1>10 DEF WaysInv

LEMMA RestartAggregatorWays == ASSUME PathInv, RestartAggregator PROVE WaysInv'
<1>1. ChainInv /\ RouteInv
  BY DEF PathInv, TypeInv
<1>2. /\ agg' = {} /\ phase' = [l \in Links |-> IF l = "far" THEN phase[l] ELSE ParseConn(l)]
      /\ loaded' = [o \in Range(Origins) |-> {}] /\ stale' = [stale EXCEPT !["far"] = TRUE]
      /\ pc' = IF pc \in {"none", "toagg", "fromagg"} THEN pc ELSE "lost"
      /\ UNCHANGED <<version, asked, known, req, done>>
  BY DEF RestartAggregator
<1>3. /\ stale'["far"] /\ DOMAIN stale' = Links /\ DOMAIN phase' = Links
      /\ \A o \in Range(Origins) : loaded'[o] = {} /\ stale'[o] = stale[o]
  BY <1>1, <1>2, LinkIs DEF RouteInv
<1>4. RouteInv'
  BY <1>1, <1>2, <1>3 DEF RouteInv, Started
<1>5. WayInv'
  BY <1>2, <1>3 DEF WayInv
<1>6. ReachesItsParameter'
  BY <1>3 DEF ReachesItsParameter, Fresh
<1> QED BY <1>4, <1>5, <1>6 DEF WaysInv

LEMMA RequestWays ==
  ASSUME PathInv, pc = "none", NEW r \in Scenarios[scenario].requests, NEW x \in known, Request(x, r) PROVE WaysInv'
<1> DEFINE o == Text(x.par, r)
           cell == Command(x.par, x.pid, o.method, r.eid, o.vals)
<1>1. RouteInv
  BY DEF PathInv
<1>2. /\ req' = [cont |-> x.cont, par |-> x.par, asks |-> r] /\ done' = {}
      /\ (pc' = "toagg" /\ msg' = cell) \/ pc' = "none"
      /\ UNCHANGED <<version, phase, asked, loaded, agg, known, stale>>
  BY DEF Request, connVars
<1>3. cell.pid = x.pid
  BY DEF Command
<1> HIDE DEF cell
<1>4. RouteInv'
  BY <1>1, <1>2, RouteStays
<1>5. Started' = Started /\ AggServer' = AggServer /\ req'.cont = x.cont /\ req'.par = x.par
  BY <1>2 DEF Started, AggServer
<1>6. ~stale["far"] => Started /\ LeadsTo(AggServer, x.pid, x.cont, x.par.name)
  BY <1>1 DEF RouteInv
<1>7. WayInv'
  BY <1>2, <1>3, <1>5, <1>6 DEF WayInv
<1>8. ReachesItsParameter'
  BY <1>2 DEF ReachesItsParameter
<1> QED BY <1>4, <1>7, <1>8 DEF WaysInv

\* Only a method that is called is new in done.
LEMMA PerformIs ==
  ASSUME done = {}, NEW place, NEW x, NEW c, NEW o, Perform(place, x, c, o), NEW d \in done'
  PROVE  d.at = place /\ d.cont = x.cont /\ d.par = x.par
<1>1. PICK e, v : done' = done \cup {[at |-> place, cont |-> x.cont, par |-> x.par, carried |-> c.type, eid |-> c.eid,
                                      method |-> o.method, vals |-> o.vals, err |-> e, val |-> v]}
  BY Zenon DEF Perform
<1>2. d = [at |-> place, cont |-> x.cont, par |-> x.par, carried |-> c.type, eid |-> c.eid,
           method |-> o.method, vals |-> o.vals, err |-> e, val |-> v]
  BY <1>1
<1> QED BY <1>2

\* A command at the aggregator is for the parameter it was asked for.
LEMMA AddressedThere ==
  ASSUME PathInv, pc = "toagg", ~stale["far"]
  PROVE  Started /\ Addressed(AggServer).cont = req.cont /\ Addressed(AggServer).par.name = req.par.name
<1>1. WayInv
  BY DEF PathInv
<1>2. Started /\ LeadsTo(AggServer, msg.pid, req.cont, req.par.name)
  BY <1>1 DEF WayInv
<1> QED BY <1>2 DEF LeadsTo, Addressed

LEMMA AggAnswersWays == ASSUME PathInv, AggAnswers PROVE WaysInv'
<1>1. ChainInv /\ RouteInv /\ WayInv
  BY DEF PathInv, TypeInv
<1>2. /\ pc = "toagg" /\ Started /\ pc' \in {"fromagg", "lost"}
      /\ UNCHANGED done \/ Perform("agg", Addressed(AggServer), msg, Outcome(AggServer))
      /\ UNCHANGED <<version, phase, asked, loaded, agg, known, stale, req>>
  BY DEF AggAnswers, connVars
<1>3. done = {}
  BY <1>1, <1>2 DEF ChainInv
<1>4. RouteInv'
  BY <1>1, <1>2, RouteStays
<1>5. WayInv'
  BY <1>2 DEF WayInv, Started
<1>6. ReachesItsParameter'
  <2> SUFFICES ASSUME NEW d \in done', Fresh'
               PROVE  /\ d.par.name = req'.par.name
                      /\ req'.cont = IF d.at = "agg" THEN d.cont ELSE <<d.at>> \o d.cont
    BY DEF ReachesItsParameter
  <2>1. d.at = "agg" /\ d.cont = Addressed(AggServer).cont /\ d.par = Addressed(AggServer).par
    BY <1>2, <1>3, PerformIs
  <2>2. ~stale["far"]
    BY <1>2 DEF Fresh
  <2> QED BY <1>2, <2>1, <2>2, AddressedThere
<1> QED BY <1>4, <1>5, <1>6 DEF WaysInv

LEMMA AggForwardsWays == ASSUME PathInv, AggForwards PROVE WaysInv'
<1> DEFINE x == Addressed(AggServer)
           v == The(x.via)
           cell == Command(x.par, v.pid, Outcome(AggServer).method, msg.eid, Outcome(AggServer).vals)
<1>1. PlaceInv /\ ChainInv /\ RouteInv /\ WayInv /\ ReachesItsParameter
  BY DEF PathInv, TypeInv
<1>2. /\ pc = "toagg" /\ Started /\ ~PIDError(AggServer) /\ x.via # {}
      /\ hop' = [to |-> v.to, par |-> x.par, cell |-> msg] /\ msg' = cell /\ pc' = "toorigin"
      /\ UNCHANGED <<version, phase, asked, loaded, agg, known, stale, req, done>>
  BY DEF AggForwards, connVars
<1>3. cell.pid = v.pid /\ hop'.to = v.to
  BY <1>2 DEF Command
<1> HIDE DEF cell
<1>4. AggServer \in agg /\ v \in x.via
  BY <1>2, TheIs DEF Started, AggServer
<1>5. \E i \in DOMAIN AggServer.tree : x = AggServer.tree[i]
  BY <1>1, <1>2, <1>4, AddressedIs DEF PlaceInv, IsAggregator
<1>6. Routed(x)
  BY <1>1, <1>4, <1>5 DEF RouteInv
<1> HIDE DEF x, v
<1>7. /\ v.to \in Range(Origins) /\ loaded[v.to] # {} /\ x.cont[1] = v.to
      /\ RoutesTo(ServerOf(The(loaded[v.to])), v.to, v.pid, x.cont, x.par.name)
  BY <1>4, <1>6 DEF Routed
<1>8. ASSUME ~stale[v.to] PROVE OriginServer(v.to) = ServerOf(The(loaded[v.to]))
  <2>1. The(loaded[v.to]) \in loaded[v.to] /\ loaded[v.to] \subseteq {version[v.to]}
    BY <1>1, <1>7, <1>8, TheIs DEF RouteInv
  <2> QED BY <2>1 DEF OriginServer
<1>9. ~stale["far"] => x.cont = req.cont /\ x.par.name = req.par.name
  BY <1>2, AddressedThere DEF x
<1>10. RouteInv' /\ ReachesItsParameter'
  BY <1>1, <1>2, RouteStays, ReachesStays
<1>11. (pc = "toorigin" /\ ~stale["far"] =>
          /\ req.cont[1] = hop.to
          /\ ~stale[hop.to] => RoutesTo(OriginServer(hop.to), hop.to, msg.pid, req.cont, req.par.name))'
  <2>1. \A l : OriginServer(l)' = OriginServer(l)
    BY <1>2 DEF OriginServer
  <2> SUFFICES ASSUME ~stale["far"]
               PROVE  /\ req.cont[1] = v.to
                      /\ ~stale[v.to] => RoutesTo(OriginServer(v.to), v.to, v.pid, req.cont, req.par.name)
    BY <1>2, <1>3 DEF OriginServer
  <2> QED BY <1>7, <1>8, <1>9
<1>12. WayInv'
  BY <1>2, <1>11 DEF WayInv, Started
<1> QED BY <1>10, <1>12 DEF WaysInv

LEMMA OriginServesWays == ASSUME PathInv, OriginServes PROVE WaysInv'
<1> DEFINE srv == OriginServer(hop.to)
<1>1. ChainInv /\ RouteInv /\ WayInv
  BY DEF PathInv, TypeInv
<1>2. /\ pc = "toorigin" /\ pc' \in {"fromorigin", "unanswered"}
      /\ UNCHANGED done \/ Perform(hop.to, Addressed(srv), msg, Outcome(srv))
      /\ UNCHANGED <<version, phase, asked, loaded, agg, known, stale, req>>
  BY DEF OriginServes, connVars
<1>3. done = {} /\ hop.to \in Range(Origins) /\ Started
  BY <1>1, <1>2 DEF ChainInv, WayInv
<1>4. RouteInv'
  BY <1>1, <1>2, RouteStays
<1>5. WayInv'
  BY <1>2, <1>3 DEF WayInv, Started
<1>6. ReachesItsParameter'
  <2> SUFFICES ASSUME NEW d \in done', Fresh'
               PROVE  /\ d.par.name = req'.par.name
                      /\ req'.cont = IF d.at = "agg" THEN d.cont ELSE <<d.at>> \o d.cont
    BY DEF ReachesItsParameter
  <2>1. d.at = hop.to /\ d.cont = Addressed(srv).cont /\ d.par = Addressed(srv).par
    BY <1>2, <1>3, PerformIs
  <2>2. ~stale["far"] /\ req.cont[1] = hop.to
    BY <1>1, <1>2 DEF Fresh, WayInv
  <2>3. ~stale[hop.to]
    BY <1>2, <1>3, <2>2 DEF Fresh
  <2> HIDE DEF srv
  <2>4. RoutesTo(srv, hop.to, msg.pid, req.cont, req.par.name)
    BY <1>1, <1>2, <2>2, <2>3 DEF WayInv, srv
  <2>5. req.cont = <<hop.to>> \o Addressed(srv).cont /\ Addressed(srv).par.name = req.par.name
    BY <2>4 DEF RoutesTo, Addressed
  <2>6. hop.to # "agg"
    BY <1>3, OriginsAssumption
  <2> QED BY <1>2, <2>1, <2>5, <2>6
<1> QED BY <1>4, <1>5, <1>6 DEF WaysInv

\* On the way back nothing is called.
LEMMA WaysBack ==
  ASSUME PathInv, pc' \in {"fromagg", "none"}, pc # "none" \/ pc' = "none",
         UNCHANGED <<version, phase, asked, loaded, agg, known, stale, req, done>>
  PROVE  WaysInv'
<1>1. RouteInv /\ WayInv /\ ReachesItsParameter
  BY DEF PathInv
<1>2. RouteInv' /\ ReachesItsParameter'
  BY <1>1, RouteStays, ReachesStays
<1>3. WayInv'
  BY <1>1 DEF WayInv, Started
<1> QED BY <1>2, <1>3 DEF WaysInv

LEMMA AnswerWays == ASSUME PathInv, AggReceives \/ AggTimesOut PROVE WaysInv'
<1>1. /\ pc \in {"fromorigin", "unanswered", "toorigin"} /\ pc' = "fromagg"
      /\ UNCHANGED <<version, phase, asked, loaded, agg, known, stale, req, done>>
  BY DEF AggReceives, AggTimesOut, Answer, connVars
<1> QED BY <1>1, WaysBack

LEMMA FarWays == ASSUME PathInv, FarReceives \/ FarTimesOut PROVE WaysInv'
<1>1. pc' = "none" /\ UNCHANGED <<version, phase, asked, loaded, agg, known, stale, req, done>>
  BY DEF FarReceives, FarTimesOut, FarIs, connVars
<1> QED BY <1>1, WaysBack

LEMMA NextPath == PathInv /\ [Next]_vars => PathInv'
<1> SUFFICES ASSUME PathInv, [Next]_vars PROVE PathInv'
  OBVIOUS
<1>1. TypeInv'
  BY NextTypes DEF PathInv
<1>2. WaysInv'
  <2>1. ASSUME NEW l \in Links, Ask(l) PROVE WaysInv'
    BY <2>1, AskWays
  <2>2. ASSUME NEW l \in Links, Load(l) PROVE WaysInv'
    BY <2>2, LoadWays
  <2>3. CASE Start
    BY <2>3, StartWays
  <2>4. CASE AggAnswers
    BY <2>4, AggAnswersWays
  <2>5. CASE AggForwards
    BY <2>5, AggForwardsWays
  <2>6. CASE OriginServes
    BY <2>6, OriginServesWays
  <2>7. CASE AggReceives \/ AggTimesOut
    BY <2>7, AnswerWays
  <2>8. CASE FarReceives \/ FarTimesOut
    BY <2>8, FarWays
  <2>9. ASSUME pc = "none", NEW r \in Scenarios[scenario].requests, NEW x \in known, Request(x, r) PROVE WaysInv'
    BY <2>9, RequestWays
  <2>10. ASSUME NEW o \in Range(Origins), Replace(o) PROVE WaysInv'
    BY <2>10, ReplaceWays
  <2>11. ASSUME NEW l \in Links, Fail(l) PROVE WaysInv'
    BY <2>11, FailWays
  <2>12. CASE RestartAggregator
    BY <2>12, RestartAggregatorWays
  <2>13. CASE UNCHANGED vars
    <3>1. UNCHANGED <<phase, stale, asked, loaded, version, agg, known, pc, req, msg, hop, done>>
      BY <2>13 DEF vars, connVars, chainVars
    <3> QED BY <3>1, RouteStays, WayStays, ReachesStays DEF PathInv, WaysInv
  <2> QED
    BY <2>1, <2>2, <2>3, <2>4, <2>5, <2>6, <2>7, <2>8, <2>9, <2>10, <2>11, <2>12, <2>13
    DEF Next, Connecting, Answering, Environment
<1> QED BY <1>1, <1>2 DEF PathInv, WaysInv

\* Whatever the numbers the application, the aggregator and the tables gave it, a command executes at the parameter
\* that has the path it was asked for, unless a server was replaced since its file was asked for
\* (AddParamsToServer, SaveInfo, ParamToPID, the stubs' PIDs).
THEOREM CommandsArrive == Spec => []ReachesItsParameter
<1>1. PathInv => ReachesItsParameter
  BY DEF PathInv
<1> QED BY <1>1, InitPath, NextPath, PTL DEF Spec
=============================================================================
