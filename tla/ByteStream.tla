------------------------------ MODULE ByteStream ------------------------------
(* What a pipe promises: a stream of bytes with a bounded number in transit. *)
(* Writes are all or nothing, reads return what comes next, and a reset      *)
(* discards what is in transit.                                              *)
EXTENDS Integers, Sequences, SequencesExt

CONSTANTS Size, Payloads
VARIABLES written, delivered

Init == written = <<>> /\ delivered = <<>>

Write(data) ==
  /\ Len(written) + Len(data) - Len(delivered) <= Size
  /\ written' = written \o data
  /\ UNCHANGED delivered

Read(n) ==
  /\ Len(delivered) + n <= Len(written)
  /\ delivered' = SubSeq(written, 1, Len(delivered) + n)
  /\ UNCHANGED written

Reset == written' = <<>> /\ delivered' = <<>>

Next == (\E data \in Payloads : Write(data)) \/ (\E n \in 1..Size : Read(n)) \/ Reset

Spec == Init /\ [][Next]_<<written, delivered>>
=============================================================================
