--------------------------- MODULE MCHCAggregator ---------------------------
(* An instance of HCAggregator with scenarios: programs that are replaced, and a parameter of every class. *)
EXTENDS HCAggregator

TwoOrigins == <<"o1", "o2">>

\* At the first origin a program may be replaced by one whose numbers mean other parameters.
Speed == HCInteger("speed", "i8", TRUE, TRUE, {})
Limit == HCInteger("limit", "i8", TRUE, TRUE, {})
Flags == HCBooleanTable("flag", TRUE, TRUE, 2, {}, {})
Names == HCStringList("name", TRUE, TRUE, TRUE, 2)
Mode == HCInteger("mode", "u8", TRUE, TRUE, {})
Before == [tree |-> <<Entry(<<>>, Speed), Entry(<<>>, Limit), Entry(<<"sub">>, Flags)>>, added |-> <<2, 1, 3>>]
After == [tree |-> <<Entry(<<>>, Limit), Entry(<<>>, Mode), Entry(<<"sub">>, Names)>>, added |-> <<2, 1, 3>>]
Other == [tree |-> <<Entry(<<"">>, Speed), Entry(<<"sub">>, Limit)>>, added |-> <<1, 2>>]

\* A well-formed file, one whose first connection is left out, and one that ends the program at the second.
Replaced ==
    [configs  |-> {[o1 |-> "well", o2 |-> "well"], [o1 |-> "empty", o2 |-> "well"], [o1 |-> "well", o2 |-> "missing"]},
     programs |-> [o1 |-> {Before, After}, o2 |-> {Other}],
     requests |-> UNION {[name : {"speed", "limit", "debug"}, op : {"GetStr", "SetStr"}, eid : {1}, text : {"1"}],
                         [name : {"flag"}, op : {"GetStrTbl", "SetStrTbl"}, eid : {1}, text : {"1"}],
                         [name : {"version"}, op : {"GetStr", "SetStr"}, eid : {1}, text : {"1"}]},
     errs |-> {"NONE"}, lossy |-> TRUE, restarts |-> 1]

\* Two programs replaced in either order, with a request the two programs at the first origin take differently.
ReplacedTwice ==
    [Replaced EXCEPT !.restarts = 2, !.configs = {[o1 |-> "well", o2 |-> "well"]},
                     !.requests = {[name |-> "speed", op |-> "GetStr", eid |-> 1, text |-> "1"],
                                   [name |-> "speed", op |-> "SetStr", eid |-> 1, text |-> "1"],
                                   [name |-> "flag", op |-> "SetStrTbl", eid |-> 1, text |-> "1"]}]

\* A parameter of every class in turn, at the first origin; the second is left out.
Vals == {<<<<0, "zero">>, <<1, "one">>, <<2, "">>, <<200, "late">>>>, <<<<0, "">>>>}
BoolVals == {<<<<TRUE, "yes">>, <<FALSE, "no">>>>, <<<<TRUE, "yes">>>>, <<<<TRUE, "">>>>}
EIDs == {<<<<0, "first">>, <<1, "second">>>>}
Scl == {1, 2, 1234564}

Creatable ==
    UNION {SignedScalars("p", Vals), UnsignedScalars("p", Vals),
           SignedTables("p", 2, EIDs, Vals), UnsignedTables("p", 2, EIDs, Vals),
           SignedLists("p", 2, Vals), UnsignedLists("p", 2, Vals), IntegerArrays("p"),
           BooleanScalars("p", BoolVals), BooleanTables("p", 2, EIDs, BoolVals),
           StringScalars("p"), StringTables("p", 2, EIDs), StringLists("p", 2),
           FloatScalars("p", Scl), FloatTables("p", 2, EIDs, Scl),
           Vec2Scalars("p", Scl), Vec2Tables("p", 2, EIDs, Scl),
           Vec3Scalars("p", Scl), Vec3Tables("p", 2, EIDs, Scl),
           {HCCall("p"), HCCallTable("p", 2, EIDs), HCFile("p", TRUE, TRUE)}}

\* The S form, which differs in one field of the file, is taken of those with every method.
Classes == {p \in Creatable : p.sav => p.get /\ (p.set \/ (p.add /\ p.sub))}

\* Every operation with the texts and elements that make a difference to it.
Asking(ops, eids, texts) == [name : {"p"}, op : ops, eid : eids, text : texts]
Literals == {"yes", "zero"}
Numerals == {"", "-1", "1", "200", "yes"}
AnyRequest ==
    UNION {Asking({"GetStr", "Call"}, {0}, {"1"}), Asking({"GetStrTbl", "CallTbl"}, {0, 2}, {"1"}),
           Asking({"SetStr", "AddStr", "SubStr"}, {0}, Numerals), Asking({"SetStrTbl"}, {0, 2}, Numerals),
           Asking({"SetStrLit", "AddStrLit", "SubStrLit"}, {0}, Literals), Asking({"SetStrLitTbl"}, {0, 2}, Literals)}
EveryClass ==
    [configs  |-> {[o1 |-> "well", o2 |-> "empty"]},
     programs |-> [o1 |-> {[tree |-> <<Entry(<<>>, p)>>, added |-> <<1>>] : p \in Classes}, o2 |-> {Other}],
     requests |-> AnyRequest, errs |-> {"NONE", "USER"}, lossy |-> FALSE, restarts |-> 0]

ThreeScenarios == <<Replaced, ReplacedTwice, EveryClass>>
==============================================================================
