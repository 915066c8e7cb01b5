------------------------------ MODULE Semaphore ------------------------------
(***************************************************************************)
(* The counting semaphore of the portability layer (lib/posix/semaphore.cc)*)
(* built like Event, but with a count that each Wait lowers by one and that *)
(* is asserted not to be 0 when a woken thread continues.                  *)
(***************************************************************************)
EXTENDS Naturals

CONSTANTS Threads, CountMax, InitCount
VARIABLE sem   \* [count, asleep, woken]

TypeOK == sem \in [count : 0..CountMax, asleep : SUBSET Threads, woken : SUBSET Threads]

Init == sem = [count |-> InitCount, asleep |-> {}, woken |-> {}]

Take == sem.count > 0 /\ sem' = [sem EXCEPT !.count = @ - 1]

Sleep(t) == sem.count = 0 /\ sem' = [sem EXCEPT !.asleep = @ \cup {t}]

Wake(t) ==
  /\ t \in sem.asleep
  /\ sem' = [sem EXCEPT !.asleep = @ \ {t}, !.woken = @ \cup {t}]

Return(t) ==
  /\ t \in sem.woken /\ sem.count > 0
  /\ sem' = [sem EXCEPT !.count = @ - 1, !.woken = @ \ {t}]

\* "The count should never be 0 here": the assertion fails, the program ends.
ReturnFails(t) == t \in sem.woken /\ sem.count = 0 /\ UNCHANGED sem

Timeout(t) ==
  /\ t \in sem.asleep
  /\ sem' = [sem EXCEPT !.asleep = @ \ {t}]

\* A mutant: a sleeper is woken, the count is not raised for it.
RaisedNotFor == sem.count

Raised == IF sem.count < CountMax THEN sem.count + 1 ELSE CountMax

\* A mutant: sleepers are not woken.
GiveSilently == sem' = [sem EXCEPT !.count = Raised]

\* The count is raised and one of the sleepers, if there are any, is woken.
Give ==
  \/ /\ sem.asleep = {}
     /\ sem' = [sem EXCEPT !.count = Raised]
  \/ \E t \in sem.asleep :
       sem' = [count |-> Raised, asleep |-> sem.asleep \ {t},
               woken |-> sem.woken \cup {t}]

Reset == sem' = [sem EXCEPT !.count = InitCount]
=============================================================================
