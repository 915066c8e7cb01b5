-------------------------------- MODULE Event --------------------------------
(***************************************************************************)
(* The event of the portability layer (lib/posix/event.cc): a count of 0   *)
(* or 1 and a condition variable, under a mutex of its own.                *)
(*                                                                         *)
(* Each operator is one stretch of code under that mutex.  A thread that   *)
(* calls Wait either finds the count set (Take) or sleeps on the condition *)
(* variable (Sleep); it leaves the sleepers when it is signalled, wakes up *)
(* spuriously or times out, and a woken thread continues when it gets the  *)
(* mutex back (Return).  WAIT_NONE is a Sleep and a Timeout at once.       *)
(***************************************************************************)
EXTENDS Naturals

CONSTANT Threads
VARIABLE event   \* [count, asleep, woken]

TypeOK == event \in [count : {0, 1}, asleep : SUBSET Threads, woken : SUBSET Threads]

Init == event = [count |-> 0, asleep |-> {}, woken |-> {}]

Take == event.count = 1 /\ event' = [event EXCEPT !.count = 0]

\* A mutant: the count is not tested before the wait.
SleepAnyway(t) == event' = [event EXCEPT !.asleep = @ \cup {t}]

Sleep(t) == event.count = 0 /\ event' = [event EXCEPT !.asleep = @ \cup {t}]

Wake(t) ==
  /\ t \in event.asleep
  /\ event' = [event EXCEPT !.asleep = @ \ {t}, !.woken = @ \cup {t}]

\* The count is set to 0, and not tested a second time.
Return(t) ==
  /\ t \in event.woken
  /\ event' = [event EXCEPT !.count = 0, !.woken = @ \ {t}]

Timeout(t) ==
  /\ t \in event.asleep
  /\ event' = [event EXCEPT !.asleep = @ \ {t}]

\* pthread_cond_signal wakes one of the sleepers, if there are any.
Signal ==
  \/ /\ event.asleep = {}
     /\ event' = [event EXCEPT !.count = 1]
  \/ \E t \in event.asleep :
       event' = [count |-> 1, asleep |-> event.asleep \ {t},
                 woken |-> event.woken \cup {t}]

Reset == event' = [event EXCEPT !.count = 0]
=============================================================================
