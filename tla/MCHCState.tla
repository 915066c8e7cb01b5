------------------------------ MODULE MCHCState ------------------------------
EXTENDS HCState

Scalar(name, kind, enum, dom, init) ==
    [name |-> name, kind |-> kind, shape |-> "scalar", size |-> 1, enum |-> enum, eids |-> <<>>,
     savable |-> TRUE, mayfail |-> FALSE, dom |-> dom, init |-> <<init>>]

Table(p, size, eids, init) == [p EXCEPT !.shape = "table", !.size = size, !.eids = eids, !.init = init]
List(p, size) == [p EXCEPT !.shape = "list", !.size = size, !.init = <<>>]
OnOff == [k \in {0, 1} |-> IF k = 0 THEN "off" ELSE "on"]
OnOnly == [k \in {1} |-> "on"]

\* Between them the programs have a parameter of each class that prints or reads differently, one that is not
\* savable, and a string that is printed as three lines, the second of which sets another parameter.
MCPrograms == {
    << Scalar("e", "int", OnOff, {1, 2}, 0),
       Table(Scalar("t", "int", <<>>, {10}, 0), 2, [k \in {0} |-> "first"], <<0, 0>>),
       [Scalar("c", "int", <<>>, {5}, 0) EXCEPT !.savable = FALSE],
       List(Scalar("k", "string", <<>>, {<<"x">>, <<"y">>}, <<>>), 1) >>,
    << Scalar("b", "bool", OnOnly, {0}, 1),
       Table(Scalar("u", "bool", OnOnly, {0}, 1), 1, <<>>, <<1>>),
       [Scalar("f", "float", <<>>, {14}, 0) EXCEPT !.mayfail = TRUE],
       Scalar("v", "vec", <<>>, {<<1, 2>>}, <<0, 0>>) >>,
    << Scalar("s", "string", <<>>, {<<Quote>>, <<"x", Quote>>, <<NL, "a", "=", "1", NL>>}, <<"x">>),
       Scalar("a", "array", <<>>, {<<1, 10>>, <<-1>>}, <<>>),
       List(Scalar("l", "int", [k \in {1} |-> "one"], {1, 2}, 0), 2) >> }
==============================================================================
