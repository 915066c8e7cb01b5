--------------------------------- MODULE Pipe ---------------------------------
(***************************************************************************)
(* The byte pipe between threads (lib/posix/pipe.cc): a ring buffer under  *)
(* a mutex, an event that writers signal to readers and one that readers   *)
(* signal to writers.                                                      *)
(*                                                                         *)
(* A stretch of code under the pipe's mutex is one step: nothing outside   *)
(* it sees the ring in between.  Between the test of the ring and the wait *)
(* on the event the mutex is free, so these are separate steps.            *)
(***************************************************************************)
EXTENDS Integers, Sequences, SequencesExt

CONSTANTS
  Readers, Writers,  \* threads that call Read, threads that call Write
  Size,              \* _size
  Bytes,             \* values of a byte
  Junk,              \* what memory holds that was never written
  Payloads,          \* what writers write
  MaxLens,           \* how much readers read at most
  Timed,             \* may a wait time out
  MaxBytes           \* bound: bytes written since the last Reset

ASSUME SizeAssumption == Size \in Nat \ {0} /\ MaxBytes \in Nat /\ Junk \notin Bytes
ASSUME PayloadAssumption == \A p \in Payloads : p \in Seq(Bytes) /\ Len(p) > 0
ASSUME MaxLenAssumption == MaxLens \subseteq Nat \ {0}
ASSUME ThreadAssumption == Readers \cap Writers = {}
ASSUME TimedAssumption == Timed \in BOOLEAN

Threads == Readers \cup Writers

VARIABLES
  buffer, head, tail, full,  \* the ring: _buffer, _head, _tail, _full
  wrevt, rdevt,              \* _wrevt and _rdevt
  pc,                        \* where each thread is in its call
  maxlen,                    \* argument of each reader's call
  data,                      \* argument of each writer's call
  written, delivered         \* ghosts: what was written and read since Reset

ring == <<buffer, head, tail, full>>
args == <<maxlen, data>>
ghosts == <<written, delivered>>
vars == <<ring, wrevt, rdevt, pc, args, ghosts>>

wr == INSTANCE Event WITH event <- wrevt
rd == INSTANCE Event WITH event <- rdevt
Stream == INSTANCE ByteStream

Init ==
  /\ buffer = [i \in 0..(Size - 1) |-> Junk]
  /\ head = 0 /\ tail = 0 /\ full = 0
  /\ wr!Init /\ rd!Init
  /\ pc = [t \in Threads |-> "idle"]
  /\ maxlen = [t \in Readers |-> 1]
  /\ data = [t \in Writers |-> <<>>]
  /\ written = <<>> /\ delivered = <<>>

Goto(t, from, to) == pc[t] = from /\ pc' = [pc EXCEPT ![t] = to]

-----------------------------------------------------------------------------
(* The ring.                                                               *)

\* "if(++index >= _size) index = 0", for an index advanced by at most _size.
Wrap(x) == IF x >= Size THEN x - Size ELSE x

\* How far place j is ahead of place i.
Ahead(i, j) == IF j >= i THEN j - i ELSE j + Size - i

\* The loop of Write.
CopyIn(bytes) ==
  /\ buffer' = [j \in 0..(Size - 1) |->
                  IF Ahead(head, j) < Len(bytes) THEN bytes[Ahead(head, j) + 1]
                                                 ELSE buffer[j]]
  /\ head' = Wrap(head + Len(bytes))
  /\ full' = full + Len(bytes)
  /\ written' = written \o bytes
  /\ UNCHANGED <<tail, delivered>>

\* The loop of Read, which copies n bytes out.
CopyOut(n) ==
  /\ delivered' = delivered \o [i \in 1..n |-> buffer[Wrap(tail + i - 1)]]
  /\ tail' = Wrap(tail + n)
  /\ full' = full - n
  /\ UNCHANGED <<buffer, head, written>>

-----------------------------------------------------------------------------
(* A reader's call.                                                        *)

Read(t, n) ==
  /\ t \in Readers
  /\ Goto(t, "idle", "try")
  /\ maxlen' = [maxlen EXCEPT ![t] = n]
  /\ UNCHANGED <<ring, wrevt, rdevt, data, ghosts>>

\* Under the mutex: take what there is, or prepare to wait.
TryRead(t) ==
  /\ t \in Readers
  /\ \/ /\ full = 0
        /\ Goto(t, "try", "wait")
        /\ UNCHANGED <<ring, ghosts>>
     \/ /\ full > 0
        /\ CopyOut(IF maxlen[t] < full THEN maxlen[t] ELSE full)
        /\ Goto(t, "try", "signal")
  /\ UNCHANGED <<wrevt, rdevt, args>>

\* _wrevt->Wait(msecs), then around the loop.
ReaderWait(t) ==
  /\ t \in Readers
  /\ \/ wr!Take /\ Goto(t, "wait", "try")
     \/ wr!Sleep(t) /\ Goto(t, "wait", "asleep")
     \/ wr!Return(t) /\ Goto(t, "asleep", "try")
  /\ UNCHANGED <<ring, rdevt, args, ghosts>>

ReaderTimeout(t) ==
  /\ Timed /\ t \in Readers
  /\ wr!Timeout(t) /\ Goto(t, "asleep", "idle")
  /\ UNCHANGED <<ring, rdevt, args, ghosts>>

ReaderSpurious(t) ==
  /\ t \in Readers
  /\ wr!Wake(t)
  /\ UNCHANGED <<ring, rdevt, pc, args, ghosts>>

\* A mutant: the writers are not told that there is room.
ReturnSilently(t) ==
  /\ t \in Readers
  /\ Goto(t, "signal", "idle")
  /\ UNCHANGED <<ring, wrevt, rdevt, args, ghosts>>

\* _rdevt->Signal() and the return.
SignalRead(t) ==
  /\ t \in Readers
  /\ rd!Signal
  /\ Goto(t, "signal", "idle")
  /\ UNCHANGED <<ring, wrevt, args, ghosts>>

-----------------------------------------------------------------------------
(* A writer's call.                                                        *)

\* A write of more than the size of the pipe returns at once.
Write(t, bytes) ==
  /\ t \in Writers
  /\ Len(bytes) <= Size
  /\ Len(written) + Len(bytes) <= MaxBytes
  /\ Goto(t, "idle", "try")
  /\ data' = [data EXCEPT ![t] = bytes]
  /\ UNCHANGED <<ring, wrevt, rdevt, maxlen, ghosts>>

\* A mutant: what is there is partly overwritten.
TryWriteAnyway(t) ==
  /\ t \in Writers
  /\ CopyIn(data[t])
  /\ Goto(t, "try", "signal")
  /\ UNCHANGED <<wrevt, rdevt, args>>

\* Under the mutex: write all of the data, or prepare to wait.
TryWrite(t) ==
  /\ t \in Writers
  /\ \/ /\ Len(data[t]) > Size - full
        /\ Goto(t, "try", "wait")
        /\ UNCHANGED <<ring, ghosts>>
     \/ /\ Len(data[t]) <= Size - full
        /\ CopyIn(data[t])
        /\ Goto(t, "try", "signal")
  /\ UNCHANGED <<wrevt, rdevt, args>>

\* _rdevt->Wait(msecs), then around the loop.
WriterWait(t) ==
  /\ t \in Writers
  /\ \/ rd!Take /\ Goto(t, "wait", "try")
     \/ rd!Sleep(t) /\ Goto(t, "wait", "asleep")
     \/ rd!Return(t) /\ Goto(t, "asleep", "try")
  /\ UNCHANGED <<ring, wrevt, args, ghosts>>

WriterTimeout(t) ==
  /\ Timed /\ t \in Writers
  /\ rd!Timeout(t) /\ Goto(t, "asleep", "idle")
  /\ UNCHANGED <<ring, wrevt, args, ghosts>>

WriterSpurious(t) ==
  /\ t \in Writers
  /\ rd!Wake(t)
  /\ UNCHANGED <<ring, wrevt, pc, args, ghosts>>

\* _wrevt->Signal() and the return.
SignalWritten(t) ==
  /\ t \in Writers
  /\ wr!Signal
  /\ Goto(t, "signal", "idle")
  /\ UNCHANGED <<ring, rdevt, args, ghosts>>

-----------------------------------------------------------------------------
\* Pipe::Reset, which no lock protects: called while no thread uses the pipe.
Reset ==
  /\ \A t \in Threads : pc[t] = "idle"
  /\ head' = 0 /\ tail' = 0 /\ full' = 0
  /\ wr!Reset /\ rd!Reset
  /\ written' = <<>> /\ delivered' = <<>>
  /\ UNCHANGED <<buffer, pc, args>>

\* What a thread does by itself once it has called Read or Write.
Run(t) ==
  \/ TryRead(t) \/ ReaderWait(t) \/ SignalRead(t)
  \/ TryWrite(t) \/ WriterWait(t) \/ SignalWritten(t)

Next ==
  \/ \E t \in Threads :
       \/ \E n \in MaxLens : Read(t, n)
       \/ \E bytes \in Payloads : Write(t, bytes)
       \/ Run(t)
       \/ ReaderTimeout(t) \/ ReaderSpurious(t)
       \/ WriterTimeout(t) \/ WriterSpurious(t)
  \/ Reset

Spec == Init /\ [][Next]_vars

\* Threads run, and get the mutexes they wait for.
FairSpec == Spec /\ \A t \in Threads : WF_vars(Run(t))

-----------------------------------------------------------------------------
(* Properties.                                                             *)

RingTypeOK ==
  /\ head \in 0..(Size - 1) /\ tail \in 0..(Size - 1) /\ full \in 0..Size
  /\ buffer \in [0..(Size - 1) -> Bytes \cup {Junk}]
  /\ written \in Seq(Bytes) /\ delivered \in Seq(Bytes)

CallTypeOK ==
  /\ wr!TypeOK /\ rd!TypeOK
  /\ pc \in [Threads -> {"idle", "try", "wait", "asleep", "signal"}]
  /\ maxlen \in [Readers -> Nat \ {0}]
  /\ data \in [Writers -> Payloads \cup {<<>>}]
  /\ \A t \in Writers : /\ Len(data[t]) <= Size
                        /\ pc[t] # "idle" => data[t] \in Payloads

\* The ring, the events and the threads' calls have their types.
TypeOK == RingTypeOK /\ CallTypeOK

\* What the ring holds is what was written and not yet read, in order: no byte
\* is lost, repeated, overtaken or overwritten, at any fill level and wherever
\* the indices have rolled over (Read, Write).
RingHoldsRest ==
  /\ head = Wrap(tail + full)
  /\ Len(delivered) + full = Len(written)
  /\ \A i \in 1..Len(delivered) : delivered[i] = written[i]
  /\ \A i \in 1..full : buffer[Wrap(tail + i - 1)] = written[Len(delivered) + i]

\* Any number of readers and writers see one bounded stream of bytes: the pipe
\* implements ByteStream.
ImplementsStream == Stream!Spec

\* A reader that is the only one never sleeps while there is data, and a writer
\* that is the only one never sleeps while there is room for its data, unless
\* the thread that made the data or the room is about to signal: the test of
\* the ring and the wait on the event are not atomic, but the event remembers.
NoLostWakeup ==
  /\ \A r \in Readers : Readers = {r} /\ r \in wrevt.asleep /\ full > 0 =>
       \E w \in Writers : pc[w] = "signal"
  /\ \A w \in Writers : Writers = {w} /\ w \in rdevt.asleep /\ Len(data[w]) <= Size - full =>
       \E r \in Readers : pc[r] = "signal"

\* One reader and one writer never wait for each other for ever, even if no wait
\* times out: when both are in a call, one of them returns.
NoStandoff ==
  \A r \in Readers, w \in Writers :
    pc[r] # "idle" /\ pc[w] # "idle" ~> pc[r] = "idle" \/ pc[w] = "idle"
-----------------------------------------------------------------------------
(* The inductive invariant behind NoLostWakeup.                            *)

\* A thread sleeps where its call says, and is not awake and asleep at once.
SleepInv ==
  /\ wrevt.asleep \cap wrevt.woken = {} /\ rdevt.asleep \cap rdevt.woken = {}
  /\ wrevt.asleep \cup wrevt.woken = {t \in Readers : pc[t] = "asleep"}
  /\ rdevt.asleep \cup rdevt.woken = {t \in Writers : pc[t] = "asleep"}

\* Before it sleeps, the signal may be there to be taken instead.
WaitInv ==
  /\ \A r \in Readers : Readers = {r} /\ pc[r] = "wait" /\ full > 0 =>
       wrevt.count = 1 \/ \E w \in Writers : pc[w] = "signal"
  /\ \A w \in Writers :
       Writers = {w} /\ pc[w] = "wait" /\ Len(data[w]) <= Size - full =>
         rdevt.count = 1 \/ \E r \in Readers : pc[r] = "signal"

IInv == TypeOK /\ RingHoldsRest /\ SleepInv /\ WaitInv /\ NoLostWakeup
=============================================================================
