---------------------------- MODULE MCHCClient -----------------------------
(* Small instances of HCClient.                                            *)
EXTENDS HCClient

\* Two calls that differ in layout and address the same parameter.
CallAndGet ==
  {[op |-> "Call", pid |-> 1, sub |-> 0, type |-> 2],
   [op |-> "Get",  pid |-> 1, sub |-> 0, type |-> 2]}

\* A reply with a value and one without, of different length, for an element
\* of a table and for a scalar.
GetAndISet ==
  {[op |-> "Get",  pid |-> 1, sub |-> 0, type |-> 2],
   [op |-> "ISet", pid |-> 1, sub |-> 1, type |-> 2]}
=============================================================================
