-------------------------------- MODULE Queue --------------------------------
(***************************************************************************)
(* The message queue between threads (lib/posix/queue.cc): a ring of       *)
(* buffers, a semaphore that counts the empty ones, for writers, and one   *)
(* that counts the full ones, for readers.                                 *)
(*                                                                         *)
(* A stretch of code under the queue's mutex is one step.  A message is    *)
(* its place in the order of the writes that succeeded and its length.     *)
(***************************************************************************)
EXTENDS Integers, Sequences, FiniteSets, SequencesExt

CONSTANTS
  Readers, Writers,  \* threads that call Read, threads that call Write
  BufCount,          \* _bufcount
  BufSize,           \* _bufsiz
  CountMax,          \* SEMAPHORE_CNT_MAX
  Lengths,           \* lengths of the messages that are written
  MaxLens,           \* sizes of the readers' buffers
  MaxSent            \* bound: messages put in since the last Reset

\* The constructor of Semaphore asserts its initial count.
ASSUME CountAssumption == CountMax \in Nat /\ BufCount \in 1..CountMax /\ MaxSent \in Nat
ASSUME LengthAssumption == Lengths \subseteq Nat \ {0} /\ MaxLens \subseteq Nat \ {0}
ASSUME ThreadAssumption == Readers \cap Writers = {} /\ IsFiniteSet(Readers) /\ IsFiniteSet(Writers)

Threads == Readers \cup Writers

VARIABLES
  slot,                \* _bufarray: the message in each buffer
  wrbufind, rdbufind,  \* _wrbufind and _rdbufind
  emptysem, fullsem,   \* _emptysem and _fullsem
  pc,                  \* where each thread is in its call
  size,                \* each call's argument: length or buffer size
  aborted,             \* threads that failed an assertion
  sent, received,      \* ghosts: messages put in, and taken out, since Reset
  short,               \* ghost: a reader's buffer was too small for a message
  spurious             \* ghost: a thread was woken without a signal

sems == <<emptysem, fullsem>>
ring == <<slot, wrbufind, rdbufind>>
ghosts == <<sent, received, short>>
vars == <<ring, sems, pc, size, aborted, spurious, ghosts>>

Empty == [id |-> 0, len |-> 0]

em == INSTANCE Semaphore WITH sem <- emptysem, InitCount <- BufCount
fu == INSTANCE Semaphore WITH sem <- fullsem, InitCount <- 0

Init ==
  /\ slot = [i \in 0..(BufCount - 1) |-> Empty]
  /\ wrbufind = 0 /\ rdbufind = 0
  /\ em!Init /\ fu!Init
  /\ pc = [t \in Threads |-> "idle"]
  /\ size = [t \in Threads |-> 1]
  /\ aborted = {} /\ spurious = FALSE
  /\ sent = 0 /\ received = <<>> /\ short = FALSE

Goto(t, from, to) == aborted = {} /\ pc[t] = from /\ pc' = [pc EXCEPT ![t] = to]

\* A mutant: the ring is a buffer shorter.
NextBufEarly(i) == IF i + 1 >= BufCount - 1 THEN 0 ELSE i + 1

\* "if(++index >= _bufcount) index = 0"
NextBuf(i) == IF i + 1 >= BufCount THEN 0 ELSE i + 1

-----------------------------------------------------------------------------
(* A reader's call.                                                        *)

Read(t, maxlen) ==
  /\ t \in Readers
  /\ Goto(t, "idle", "sem")
  /\ size' = [size EXCEPT ![t] = maxlen]
  /\ UNCHANGED <<ring, sems, aborted, spurious, ghosts>>

\* _fullsem->Wait(msecs)
WaitFull(t) ==
  /\ t \in Readers
  /\ \/ fu!Take /\ Goto(t, "sem", "copy")
     \/ fu!Sleep(t) /\ Goto(t, "sem", "asleep")
     \/ fu!Return(t) /\ Goto(t, "asleep", "copy")
  /\ UNCHANGED <<ring, emptysem, size, aborted, spurious, ghosts>>

\* A mutant: a message that is too long for the reader's buffer is dropped.
CopyOutDrop(t) ==
  /\ t \in Readers
  /\ Goto(t, "copy", "give")
  /\ rdbufind' = NextBuf(rdbufind)
  /\ received' = IF slot[rdbufind].len <= size[t] THEN Append(received, slot[rdbufind].id)
                                                  ELSE received
  /\ slot' = [slot EXCEPT ![rdbufind] = Empty]
  /\ short' = (short \/ size[t] < slot[rdbufind].len)
  /\ UNCHANGED <<wrbufind, sems, size, aborted, spurious, sent>>

\* Under the mutex: a message that is too long for the reader's buffer stays
\* where it is, but the reading position moves on.
CopyOut(t) ==
  LET m == slot[rdbufind] IN
  /\ t \in Readers
  /\ Goto(t, "copy", "give")
  /\ rdbufind' = NextBuf(rdbufind)
  /\ \/ /\ size[t] < m.len \/ m = Empty
        /\ short' = (short \/ m # Empty)
        /\ UNCHANGED <<slot, received>>
     \/ /\ size[t] >= m.len /\ m # Empty
        /\ slot' = [slot EXCEPT ![rdbufind] = Empty]
        /\ received' = Append(received, m.id)
        /\ UNCHANGED short
  /\ UNCHANGED <<wrbufind, sems, size, aborted, spurious, sent>>

GiveEmpty(t) ==
  /\ t \in Readers
  /\ em!Give
  /\ Goto(t, "give", "idle")
  /\ UNCHANGED <<ring, fullsem, size, aborted, spurious, ghosts>>

-----------------------------------------------------------------------------
(* A writer's call.                                                        *)

\* A message longer than a buffer is refused at once.
Write(t, len) ==
  /\ t \in Writers
  /\ len <= BufSize
  /\ sent + Cardinality({w \in Writers : pc[w] \notin {"idle", "give"}}) < MaxSent
  /\ Goto(t, "idle", "sem")
  /\ size' = [size EXCEPT ![t] = len]
  /\ UNCHANGED <<ring, sems, aborted, spurious, ghosts>>

\* _emptysem->Wait(msecs)
WaitEmpty(t) ==
  /\ t \in Writers
  /\ \/ em!Take /\ Goto(t, "sem", "copy")
     \/ em!Sleep(t) /\ Goto(t, "sem", "asleep")
     \/ em!Return(t) /\ Goto(t, "asleep", "copy")
  /\ UNCHANGED <<ring, fullsem, size, aborted, spurious, ghosts>>

\* A mutant: a refused write returns without giving a semaphore.
CopyInReturn(t) ==
  /\ t \in Writers
  /\ wrbufind' = NextBuf(wrbufind)
  /\ \/ /\ slot[wrbufind] # Empty
        /\ Goto(t, "copy", "idle")
        /\ UNCHANGED <<slot, sent>>
     \/ /\ slot[wrbufind] = Empty
        /\ Goto(t, "copy", "give")
        /\ sent' = sent + 1
        /\ slot' = [slot EXCEPT ![wrbufind] = [id |-> sent', len |-> size[t]]]
  /\ UNCHANGED <<rdbufind, sems, size, aborted, spurious, received, short>>

\* Under the mutex: a buffer that still holds a message is left as it is, and
\* the write refused, but the writing position moves on.
CopyIn(t) ==
  /\ t \in Writers
  /\ Goto(t, "copy", "give")
  /\ wrbufind' = NextBuf(wrbufind)
  /\ \/ /\ slot[wrbufind] # Empty
        /\ UNCHANGED <<slot, sent>>
     \/ /\ slot[wrbufind] = Empty
        /\ sent' = sent + 1
        /\ slot' = [slot EXCEPT ![wrbufind] = [id |-> sent', len |-> size[t]]]
  /\ UNCHANGED <<rdbufind, sems, size, aborted, spurious, received, short>>

GiveFull(t) ==
  /\ t \in Writers
  /\ fu!Give
  /\ Goto(t, "give", "idle")
  /\ UNCHANGED <<ring, emptysem, size, aborted, spurious, ghosts>>

-----------------------------------------------------------------------------
\* A wait times out.
Timeout(t) ==
  /\ Goto(t, "asleep", "idle")
  /\ \/ t \in Readers /\ fu!Timeout(t) /\ UNCHANGED emptysem
     \/ t \in Writers /\ em!Timeout(t) /\ UNCHANGED fullsem
  /\ UNCHANGED <<ring, size, aborted, spurious, ghosts>>

WakeSpuriously(t) ==
  /\ aborted = {}
  /\ spurious' = TRUE
  /\ \/ t \in Readers /\ fu!Wake(t) /\ UNCHANGED emptysem
     \/ t \in Writers /\ em!Wake(t) /\ UNCHANGED fullsem
  /\ UNCHANGED <<ring, pc, size, aborted, ghosts>>

\* A woken thread finds the count at 0.
Abort(t) ==
  /\ aborted = {}
  /\ \/ t \in Readers /\ fu!ReturnFails(t)
     \/ t \in Writers /\ em!ReturnFails(t)
  /\ aborted' = {t}
  /\ UNCHANGED <<ring, sems, pc, size, spurious, ghosts>>

\* Queue::Reset, which no lock protects: called while no thread uses the queue.
Reset ==
  /\ aborted = {}
  /\ \A t \in Threads : pc[t] = "idle"
  /\ slot' = [i \in 0..(BufCount - 1) |-> Empty]
  /\ wrbufind' = 0 /\ rdbufind' = 0
  /\ em!Reset /\ fu!Reset
  /\ sent' = 0 /\ received' = <<>> /\ short' = FALSE
  /\ UNCHANGED <<pc, size, aborted, spurious>>

Run(t) ==
  \/ WaitFull(t) \/ CopyOut(t) \/ GiveEmpty(t)
  \/ WaitEmpty(t) \/ CopyIn(t) \/ GiveFull(t)
  \/ Abort(t)

Next ==
  \/ \E t \in Threads :
       \/ \E n \in MaxLens : Read(t, n)
       \/ \E n \in Lengths : Write(t, n)
       \/ Run(t) \/ Timeout(t) \/ WakeSpuriously(t)
  \/ Reset

Spec == Init /\ [][Next]_vars

\* Threads run, and get the mutexes they wait for.
FairSpec == Spec /\ \A t \in Threads : WF_vars(Run(t))

-----------------------------------------------------------------------------
(* Properties.                                                             *)

\* The ring, the semaphores and the threads' calls have their types.
TypeOK ==
  /\ slot \in [0..(BufCount - 1) -> [id : Nat, len : Nat]]
  /\ wrbufind \in 0..(BufCount - 1) /\ rdbufind \in 0..(BufCount - 1)
  /\ em!TypeOK /\ fu!TypeOK
  /\ pc \in [Threads -> {"idle", "sem", "asleep", "copy", "give"}]
  /\ size \in [Threads -> Nat]
  /\ aborted \subseteq Threads
  /\ sent \in Nat /\ received \in Seq(Nat) /\ {short, spurious} \subseteq BOOLEAN

At(place, who) == Cardinality({t \in who : pc[t] = place})

Held == {i \in DOMAIN slot : slot[i] # Empty}

\* Every buffer is accounted for, whatever the readers, writers, timeouts and
\* short buffers do: counted empty, taken by a writer, counted full, taken by a
\* reader, or about to be counted. So neither semaphore ever exceeds the number
\* of buffers, and none is lost to a refused write or a read that was cut short.
BuffersCounted ==
  emptysem.count + At("copy", Writers) + At("give", Writers)
    + fullsem.count + At("copy", Readers) + At("give", Readers) = BufCount

\* As long as no reader's buffer was too small, messages come out in the order
\* in which they were put in, each once, a reader that got the semaphore finds
\* a message and a writer that got it finds room.
InOrder ==
  ~short =>
    /\ received = [i \in 1..Len(received) |-> i]
    /\ Cardinality(Held) = sent - Len(received)
    /\ Cardinality(Held) = fullsem.count + At("give", Writers) + At("copy", Readers)
    /\ \A t \in Readers : pc[t] = "copy" => slot[rdbufind].id = Len(received) + 1
    /\ \A t \in Writers : pc[t] = "copy" => slot[wrbufind] = Empty

\* Even after a read with too small a buffer no message that was accepted is
\* lost or delivered twice: it has been received or is in a buffer, not both.
NothingLost ==
  /\ {slot[i].id : i \in Held} \cap ToSet(received) = {}
  /\ {slot[i].id : i \in Held} \cup ToSet(received) = 1..sent
  /\ IsInjective(received)

\* "The count should never be 0 here" (Semaphore::Wait, and its assertion) is
\* true of a thread that is the only one to wait for its semaphore, unless it
\* was woken without a signal; it is not with a second one.
AbortNeedsContention ==
  \A t \in aborted : spurious \/ (Readers # {t} /\ Writers # {t})

\* A reader and a writer that both are in a call do not wait for each other for
\* ever, whatever became of the messages.
NoStandoff ==
  \A r \in Readers, w \in Writers :
    pc[r] # "idle" /\ pc[w] # "idle" ~>
      pc[r] = "idle" \/ pc[w] = "idle" \/ aborted # {}
=============================================================================
