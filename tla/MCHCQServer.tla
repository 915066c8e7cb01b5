----------------------------- MODULE MCHCQServer -----------------------------
(* An instance of HCQServer: a tree of four containers, queries of one and two cells, and garbled ones. *)
EXTENDS HCQServer

Vals == <<<<0, "zero">>, <<1, "one">>>>
EIDs == <<<<0, "first">>, <<1, "second">>>>

\* The second container named a is behind the first.
Cont(parent, name) == [parent |-> parent, name |-> name]
Tree == <<Cont(0, ""), Cont(1, "a"), Cont(2, "b"), Cont(1, "a")>>
In(cont, par) == [cont |-> cont, par |-> par]
Added == <<In(1, HCInteger("n", "i8", TRUE, TRUE, {})), In(1, HCString("n", TRUE, TRUE)), In(1, HCCall("c")),
           In(2, HCInteger("e", "u8", TRUE, TRUE, {Vals})), In(2, HCCallTable("ct", 2, {EIDs})),
           In(3, HCIntegerTable("t", "u8", TRUE, TRUE, 2, {EIDs}, {Vals})), In(3, HCStringList("l", TRUE, TRUE, TRUE, 2)),
           In(4, HCString("h", TRUE, TRUE))>>

Dots == FoldLeft(LAMBDA s, i : s \o "./", "", [i \in 1..49 |-> i])
DotNames == [i \in 1..49 |-> "."]
LongPath == Dots \o "n"
TooLongPath == Dots \o "/n"
Paths == ("/n" :> <<"", "n">>) @@ ("../n" :> <<"..", "n">>) @@ ("a/.././n" :> <<"a", "..", ".", "n">>)
         @@ ("a/e" :> <<"a", "e">>) @@ ("a/../a/e" :> <<"a", "..", "a", "e">>) @@ ("/a/ct" :> <<"", "a", "ct">>)
         @@ ("a/b/t" :> <<"a", "b", "t">>) @@ ("a/b/../e" :> <<"a", "b", "..", "e">>) @@ ("a//b/l" :> <<"a", "", "b", "l">>)
         @@ (LongPath :> Append(DotNames, "n")) @@ (TooLongPath :> DotNames \o <<"", "n">>)
         @@ ("a/h" :> <<"a", "h">>) @@ ("b/t" :> <<"b", "t">>) @@ ("a/x/../e" :> <<"a", "x", "..", "e">>)

\* Cells, as a client writes them.
Bare(t) == <<t>>
Lit(t) == <<Quote, t, Quote>>
Ask(op, path, args) ==
    <<"[", Quote, op, Quote, ",", Quote, path, Quote>> \o FoldLeft(LAMBDA s, a : s \o <<",">> \o a, <<>>, args) \o <<"]">>
Save == <<"[", Quote, "sa", Quote, "]">>

FewCells == {Ask("ge", "a/e", <<>>), Ask("se", "n", <<Bare("1")>>), Ask("ig", "a/b/t", <<Lit("second")>>), Save}
GoodCells ==
    FewCells
    \cup {Ask("ge", p, <<>>) : p \in {"n", "/n", "../n", "a/.././n", LongPath, "a/../a/e", "a/b/../e"}}
    \cup {Ask("se", "a/e", <<v>>) : v \in {Bare("1"), Bare("2"), Lit("one"), Lit("two")}}
    \cup {Ask("ca", "c", <<>>), Ask("ic", "/a/ct", <<Bare("1")>>), Ask("ic", "/a/ct", <<Lit("first")>>)}
    \cup {Ask("ig", p, <<Bare(i)>>) : p \in {"a/b/t", "a//b/l"}, i \in {"0", "200"}}
    \cup {Ask("is", "a/b/t", <<e, v>>) : e \in {Bare("0"), Lit("first")}, v \in {Bare("1"), Lit("zero")}}
    \cup {Ask(op, "a//b/l", <<v>>) : op \in {"ad", "su"}, v \in {Bare("x"), Lit("y")}}
BadCells ==
    {Ask("ge", p, <<>>) : p \in {"a/h", "b/t", "a/x/../e", TooLongPath, "x"}}
    \cup {Ask("get", "n", <<>>), Ask("up", "n", <<>>), Ask("sa", "n", <<>>), Ask("se", "n", <<>>), Ask("ge", "n", <<Bare("1")>>)}
    \cup {Ask("ig", "a/b/t", <<e>>) : e \in {Lit("third"), Bare("first"), Bare("00000000001")}}

Query(xact, cells) ==
    <<"[", xact, ",">> \o FoldLeft(LAMBDA s, c : IF s = <<>> THEN c ELSE s \o <<",">> \o c, <<>>, cells) \o <<"]">>
Good == {Query("1", <<c>>) : c \in GoodCells} \cup {Query("1", <<c, d>>) : c \in FewCells, d \in FewCells}
        \cup {Query("2", <<c>>) : c \in FewCells}
Without(q, i) == SubSeq(q, 1, i - 1) \o SubSeq(q, i + 1, Len(q))
Garbled ==
    UNION {{Without(q, i) : i \in DOMAIN q} \cup {Append(q, "]")} : q \in {Query("1", <<c>>) : c \in FewCells}}
    \cup {Query("1", <<c>>) : c \in BadCells} \cup {Query("1", <<c, d>>) : c \in FewCells, d \in BadCells}
    \cup {<<"[", "1">>} \cup {Query(x, <<Save>>) : x \in {"200", "x", "-1"}}

Q(xact, i) == Query(xact, <<CASE i = 1 -> Ask("ge", "a/e", <<>>) [] i = 2 -> Ask("se", "n", <<Bare("1")>>) [] i = 3 -> Save>>)
AnyScript ==
    {[a \in {"A", "B"} |-> IF a = "A" THEN <<q>> ELSE <<>>] : q \in Good \cup Garbled}
    \cup {[a \in {"A", "B"} |-> IF a = "A" THEN <<Q("1", i), Q("1", j)>> ELSE <<Q("1", k)>>] :
            i \in {1, 2}, j \in {2, 3}, k \in {1, 3}}

AnyValue(p) ==
    CASE p.cls = "int" -> {1, 2} [] p.cls = "str" -> {"", "text"} [] OTHER -> {}
TwoErrors == {"NONE", "USER"}
==============================================================================
