----------------------------- MODULE Pipe_proofs -----------------------------
(* Proofs about the pipe, for any size, any number of readers and writers, *)
(* spurious wakeups and timeouts.                                          *)
EXTENDS Pipe, TLAPS

-----------------------------------------------------------------------------
(* The ring.                                                               *)

\* The length of a sequence and the elements of a concatenation.
LEMMA Concatenation ==
  ASSUME NEW s \in Seq(Bytes), NEW d \in Seq(Bytes)
  PROVE  /\ Len(s) \in Nat /\ Len(d) \in Nat
         /\ s \o d \in Seq(Bytes) /\ Len(s \o d) = Len(s) + Len(d)
         /\ \A i \in 1..Len(s) : (s \o d)[i] = s[i]
         /\ \A i \in 1..Len(d) : (s \o d)[Len(s) + i] = d[i]
OBVIOUS

\* Copying data in appends it to the stream and disturbs nothing that is in
\* the ring.
LEMMA CopyInRing ==
  ASSUME RingTypeOK, RingHoldsRest, NEW bytes \in Seq(Bytes),
         Len(bytes) <= Size - full, CopyIn(bytes)
  PROVE  RingTypeOK' /\ RingHoldsRest'
<1> DEFINE k == Len(bytes)
<1>1. /\ Size \in Nat \ {0} /\ k \in Nat /\ k <= Size - full
      /\ head \in 0..(Size - 1) /\ tail \in 0..(Size - 1) /\ full \in 0..Size
      /\ head = Wrap(tail + full)
  BY SizeAssumption DEF RingTypeOK, RingHoldsRest
<1>2. /\ written \in Seq(Bytes) /\ written' \in Seq(Bytes)
      /\ Len(written) \in Nat /\ Len(written') = Len(written) + k
      /\ \A i \in 1..Len(written) : written'[i] = written[i]
      /\ \A i \in 1..k : written'[Len(written) + i] = bytes[i]
  BY Concatenation DEF CopyIn, RingTypeOK
<1>3. /\ head' = Wrap(head + k) /\ full' = full + k
      /\ tail' = tail /\ delivered' = delivered
  BY DEF CopyIn
<1>4. head' \in 0..(Size - 1) /\ full' \in 0..Size /\ head' = Wrap(tail + full')
  BY <1>1, <1>3 DEF Wrap
<1>5. \A j \in 0..(Size - 1) : Ahead(head, j) \in Nat
  BY <1>1 DEF Ahead
<1>6. buffer' \in [0..(Size - 1) -> Bytes \cup {Junk}]
  <2>1. \A j \in 0..(Size - 1) :
          Ahead(head, j) < k => bytes[Ahead(head, j) + 1] \in Bytes
    BY <1>1, <1>5
  <2> QED BY <2>1 DEF CopyIn, RingTypeOK
<1>7. RingTypeOK'
  BY <1>2, <1>3, <1>4, <1>6 DEF RingTypeOK
<1>8. /\ Len(delivered) \in Nat /\ Len(delivered) + full = Len(written)
      /\ \A i \in 1..Len(delivered) : delivered[i] = written[i]
  BY DEF RingTypeOK, RingHoldsRest
<1>9. ASSUME NEW i \in 1..full'
      PROVE  buffer'[Wrap(tail + i - 1)] = written'[Len(delivered) + i]
  <2> DEFINE j == Wrap(tail + i - 1)
  <2>1. j \in 0..(Size - 1) /\ i \in 1..(full + k)
    BY <1>1, <1>3, <1>4 DEF Wrap
  <2>2. buffer'[j] = IF Ahead(head, j) < k THEN bytes[Ahead(head, j) + 1]
                                           ELSE buffer[j]
    BY <2>1 DEF CopyIn
  <2>3. CASE i <= full
    <3>1. ~(Ahead(head, j) < k)
      BY <1>1, <2>1, <2>3 DEF Wrap, Ahead
    <3>2. buffer[j] = written[Len(delivered) + i]
      BY <1>1, <2>1, <2>3 DEF RingHoldsRest
    <3>3. written'[Len(delivered) + i] = written[Len(delivered) + i]
      <4>1. Len(delivered) + i \in 1..Len(written)
        BY <1>1, <1>8, <2>1, <2>3
      <4> QED BY <1>2, <4>1
    <3> QED BY <2>2, <3>1, <3>2, <3>3
  <2>4. CASE i > full
    <3>1. Ahead(head, j) = i - full - 1 /\ Ahead(head, j) < k
      BY <1>1, <2>1, <2>4 DEF Wrap, Ahead
    <3>2. buffer'[j] = bytes[i - full]
      BY <1>1, <2>1, <2>2, <3>1
    <3>3. written'[Len(written) + (i - full)] = bytes[i - full]
      <4>1. i - full \in 1..k
        BY <1>1, <2>1, <2>4
      <4> QED BY <1>2, <4>1
    <3>4. Len(written) + (i - full) = Len(delivered) + i
      BY <1>1, <1>8, <2>1
    <3> QED BY <3>2, <3>3, <3>4
  <2> QED BY <1>1, <2>1, <2>3, <2>4
<1>10. \A i \in 1..Len(delivered) : delivered[i] = written'[i]
  BY <1>1, <1>2, <1>8
<1>11. Len(delivered) + full' = Len(written')
  <2>1. full \in Nat /\ k \in Nat /\ Len(delivered) \in Nat
    BY <1>1, <1>8
  <2>2. full' = full + k /\ Len(written') = Len(written) + k
    BY <1>2, <1>3
  <2>3. Len(delivered) + full = Len(written)
    BY <1>8
  <2> HIDE DEF k
  <2> QED BY <2>1, <2>2, <2>3
<1>12. RingHoldsRest'
  BY <1>3, <1>4, <1>9, <1>10, <1>11 DEF RingHoldsRest, Wrap
<1> QED BY <1>7, <1>12

\* Copying data out delivers what was written next.
LEMMA CopyOutRing ==
  ASSUME RingTypeOK, RingHoldsRest, NEW n \in 1..full, CopyOut(n)
  PROVE  /\ RingTypeOK' /\ RingHoldsRest'
         /\ Len(delivered') = Len(delivered) + n
<1> DEFINE out == [i \in 1..n |-> buffer[Wrap(tail + i - 1)]]
<1>1. /\ Size \in Nat \ {0} /\ n \in Nat /\ n > 0 /\ n <= full
      /\ head \in 0..(Size - 1) /\ tail \in 0..(Size - 1) /\ full \in 0..Size
      /\ head = Wrap(tail + full)
  BY SizeAssumption DEF RingTypeOK, RingHoldsRest
<1>2. /\ delivered \in Seq(Bytes) /\ written \in Seq(Bytes)
      /\ Len(delivered) \in Nat /\ Len(written) \in Nat
      /\ Len(delivered) + full = Len(written)
      /\ \A i \in 1..Len(delivered) : delivered[i] = written[i]
      /\ \A i \in 1..full : buffer[Wrap(tail + i - 1)] = written[Len(delivered) + i]
  BY DEF RingTypeOK, RingHoldsRest
<1>3. \A i \in 1..n : out[i] = written[Len(delivered) + i]
  <2>1. \A i \in 1..n : out[i] = buffer[Wrap(tail + i - 1)] /\ i \in 1..full
    BY <1>1
  <2> QED BY <1>2, <2>1
<1>4. out \in Seq(Bytes) /\ Len(out) = n
  <2>1. \A i \in 1..n : written[Len(delivered) + i] \in Bytes
    BY <1>1, <1>2
  <2>2. out \in [1..n -> Bytes]
    BY <1>3, <2>1
  <2> QED BY <1>1, <2>2
<1>5. delivered' = delivered \o out
  BY DEF CopyOut
<1> HIDE DEF out
<1>6. /\ delivered' \in Seq(Bytes) /\ Len(delivered') = Len(delivered) + n
      /\ \A i \in 1..Len(delivered) : delivered'[i] = delivered[i]
      /\ \A i \in 1..n : delivered'[Len(delivered) + i] = out[i]
  BY <1>2, <1>4, <1>5, Concatenation
<1>7. /\ tail' = Wrap(tail + n) /\ full' = full - n
      /\ buffer' = buffer /\ head' = head /\ written' = written
  BY DEF CopyOut
<1>8. tail' \in 0..(Size - 1) /\ full' \in 0..Size /\ head = Wrap(tail' + full')
  BY <1>1, <1>7 DEF Wrap
<1>9. RingTypeOK'
  BY <1>6, <1>7, <1>8 DEF RingTypeOK
<1>10. ASSUME NEW i \in 1..Len(delivered') PROVE delivered'[i] = written[i]
  <2>1. CASE i <= Len(delivered)
    BY <1>2, <1>6, <2>1
  <2>2. CASE i > Len(delivered)
    <3>1. i - Len(delivered) \in 1..n
      BY <1>1, <1>2, <1>6, <2>2
    <3>2. delivered'[Len(delivered) + (i - Len(delivered))] = out[i - Len(delivered)]
      BY <1>6, <3>1
    <3>3. out[i - Len(delivered)] = written[Len(delivered) + (i - Len(delivered))]
      BY <1>3, <3>1
    <3>4. Len(delivered) + (i - Len(delivered)) = i
      BY <1>2, <1>6
    <3> QED BY <3>2, <3>3, <3>4
  <2> QED BY <1>2, <1>6, <2>1, <2>2
<1>11. ASSUME NEW i \in 1..full'
       PROVE buffer[Wrap(tail' + i - 1)] = written[Len(delivered') + i]
  <2>1. n + i \in 1..full /\ i \in Nat
    BY <1>1, <1>7
  <2>2. Wrap(tail' + i - 1) = Wrap(tail + (n + i) - 1)
    BY <1>1, <1>7, <2>1 DEF Wrap
  <2>3. Len(delivered') + i = Len(delivered) + (n + i)
    BY <1>1, <1>2, <1>6, <2>1
  <2> QED BY <1>2, <2>1, <2>2, <2>3
<1>12. Len(delivered') + full' = Len(written)
  <2>1. full \in Nat /\ n \in Nat /\ Len(delivered) \in Nat
    BY <1>1, <1>2
  <2>2. full' = full - n /\ Len(delivered') = Len(delivered) + n
    BY <1>6, <1>7
  <2>3. Len(delivered) + full = Len(written)
    BY <1>2
  <2> QED BY <2>1, <2>2, <2>3
<1>13. RingHoldsRest'
  BY <1>7, <1>8, <1>10, <1>11, <1>12 DEF RingHoldsRest, Wrap
<1> QED BY <1>6, <1>9, <1>13

\* The prefix of one sequence that another agrees with is that other sequence.
LEMMA AgreeingPrefix ==
  ASSUME NEW s \in Seq(Bytes), NEW c \in Seq(Bytes), Len(s) <= Len(c),
         \A i \in 1..Len(s) : s[i] = c[i]
  PROVE  s = SubSeq(c, 1, Len(s))
OBVIOUS

\* A read takes at least one byte, and no more than there are.
LEMMA ReadAmount ==
  ASSUME RingTypeOK, CallTypeOK, NEW t \in Readers, full > 0
  PROVE  (IF maxlen[t] < full THEN maxlen[t] ELSE full) \in 1..full
<1>1. maxlen[t] \in Nat \ {0} /\ full \in Nat
  BY SizeAssumption DEF RingTypeOK, CallTypeOK
<1> QED BY <1>1

-----------------------------------------------------------------------------
\* Every step keeps the ring in order, and is a step of the byte stream or does
\* not touch it.
LEMMA RingStep ==
  ASSUME RingTypeOK, CallTypeOK, RingHoldsRest, [Next]_vars
  PROVE  /\ RingTypeOK' /\ RingHoldsRest'
         /\ [Stream!Next]_<<written, delivered>>
<1>1. ASSUME NEW t \in Threads, TryRead(t), full > 0
      PROVE  RingTypeOK' /\ RingHoldsRest' /\ Stream!Next
  <2>1. PICK n \in 1..full : CopyOut(n)
    BY <1>1, ReadAmount DEF TryRead
  <2>2. /\ RingTypeOK' /\ RingHoldsRest'
        /\ Len(delivered') = Len(delivered) + n
    BY <2>1, CopyOutRing
  <2>3. /\ delivered' \in Seq(Bytes) /\ written \in Seq(Bytes) /\ written' = written
        /\ full' \in Nat /\ Len(delivered') + full' = Len(written')
        /\ \A i \in 1..Len(delivered') : delivered'[i] = written'[i]
    <3>1. written' = written
      BY <2>1 DEF CopyOut
    <3>2. delivered' \in Seq(Bytes) /\ written \in Seq(Bytes) /\ full' \in Nat
      BY <2>2, SizeAssumption, RingTypeOK DEF RingTypeOK
    <3>3. /\ Len(delivered') + full' = Len(written')
          /\ \A i \in 1..Len(delivered') : delivered'[i] = written'[i]
      BY <2>2 DEF RingHoldsRest
    <3> QED BY <3>1, <3>2, <3>3
  <2>4. Len(delivered') <= Len(written) /\ n \in 1..Size
    BY <2>3, SizeAssumption DEF RingTypeOK
  <2>5. delivered' = SubSeq(written, 1, Len(delivered) + n)
    BY <2>2, <2>3, <2>4, AgreeingPrefix
  <2>6. Stream!Read(n)
    BY <2>2, <2>3, <2>4, <2>5 DEF Stream!Read
  <2> QED BY <2>2, <2>4, <2>6 DEF Stream!Next
<1>2. ASSUME NEW t \in Threads, TryWrite(t), Len(data[t]) <= Size - full
      PROVE  RingTypeOK' /\ RingHoldsRest' /\ Stream!Next
  <2>1. t \in Writers /\ data[t] \in Payloads /\ data[t] \in Seq(Bytes)
    BY <1>2, PayloadAssumption DEF TryWrite, CallTypeOK, Goto
  <2>2. CopyIn(data[t])
    BY <1>2, <2>1, SizeAssumption DEF TryWrite, RingTypeOK
  <2>3. RingTypeOK' /\ RingHoldsRest'
    BY <1>2, <2>1, <2>2, CopyInRing
  <2>4. /\ Len(written) \in Nat /\ Len(delivered) \in Nat /\ Len(data[t]) \in Nat
        /\ full \in Nat /\ Len(delivered) + full = Len(written)
    BY <2>1, SizeAssumption DEF RingTypeOK, RingHoldsRest
  <2>5. Len(written) + Len(data[t]) - Len(delivered) <= Size
    BY <1>2, <2>4, SizeAssumption
  <2>6. Stream!Write(data[t])
    BY <2>2, <2>5 DEF Stream!Write, CopyIn
  <2> QED BY <2>1, <2>3, <2>6 DEF Stream!Next
<1>3. ASSUME Reset PROVE RingTypeOK' /\ RingHoldsRest' /\ Stream!Next
  <2>1. RingTypeOK'
    <3>1. <<>> \in Seq(Bytes)
      OBVIOUS
    <3> QED BY <1>3, <3>1, SizeAssumption DEF Reset, RingTypeOK
  <2>2. RingHoldsRest'
    BY <1>3, SizeAssumption DEF Reset, RingHoldsRest, Wrap
  <2>3. Stream!Next
    BY <1>3 DEF Reset, Stream!Next, Stream!Reset
  <2> QED BY <2>1, <2>2, <2>3
<1>4. ASSUME UNCHANGED <<ring, ghosts>>
      PROVE  RingTypeOK' /\ RingHoldsRest' /\ UNCHANGED <<written, delivered>>
  BY <1>4 DEF ring, ghosts, RingTypeOK, RingHoldsRest, Wrap
<1>5. ASSUME NEW t \in Threads,
             \/ \E n \in MaxLens : Read(t, n)
             \/ \E bytes \in Payloads : Write(t, bytes)
             \/ ReaderWait(t) \/ SignalRead(t) \/ WriterWait(t)
             \/ SignalWritten(t) \/ ReaderTimeout(t) \/ ReaderSpurious(t)
             \/ WriterTimeout(t) \/ WriterSpurious(t)
      PROVE  UNCHANGED <<ring, ghosts>>
  BY <1>5 DEF Read, Write, ReaderWait, SignalRead, WriterWait, SignalWritten,
              ReaderTimeout, ReaderSpurious, WriterTimeout, WriterSpurious
<1>6. ASSUME NEW t \in Threads, TryRead(t), ~(full > 0) PROVE UNCHANGED <<ring, ghosts>>
  BY <1>6 DEF TryRead
<1>7. ASSUME NEW t \in Threads, TryWrite(t), ~(Len(data[t]) <= Size - full)
      PROVE  UNCHANGED <<ring, ghosts>>
  BY <1>7 DEF TryWrite
<1>8. UNCHANGED vars => UNCHANGED <<ring, ghosts>>
  BY DEF vars
<1> QED BY <1>1, <1>2, <1>3, <1>4, <1>5, <1>6, <1>7, <1>8 DEF Next, Run

-----------------------------------------------------------------------------
(* The threads and the events.                                             *)

\* What each operation of wrevt does to it, field by field.
LEMMA WrevtEffects ==
  ASSUME wr!TypeOK, NEW t \in Threads
  PROVE
    /\ wr!Take =>
         wrevt.count = 1 /\ wrevt' = [count |-> 0, asleep |-> wrevt.asleep, woken |-> wrevt.woken]
    /\ wr!Sleep(t) =>
         wrevt.count = 0 /\ wrevt' = [count |-> 0, asleep |-> wrevt.asleep \cup {t}, woken |-> wrevt.woken]
    /\ wr!Wake(t) =>
         t \in wrevt.asleep /\ wrevt' = [count |-> wrevt.count, asleep |-> wrevt.asleep \ {t}, woken |-> wrevt.woken \cup {t}]
    /\ wr!Return(t) =>
         t \in wrevt.woken /\ wrevt' = [count |-> 0, asleep |-> wrevt.asleep, woken |-> wrevt.woken \ {t}]
    /\ wr!Timeout(t) =>
         t \in wrevt.asleep /\ wrevt' = [count |-> wrevt.count, asleep |-> wrevt.asleep \ {t}, woken |-> wrevt.woken]
    /\ wr!Reset =>
         wrevt' = [count |-> 0, asleep |-> wrevt.asleep, woken |-> wrevt.woken]
    /\ wr!Signal =>
         \/ wrevt.asleep = {} /\ wrevt' = [count |-> 1, asleep |-> wrevt.asleep, woken |-> wrevt.woken]
         \/ \E u \in wrevt.asleep :
              wrevt' = [count |-> 1, asleep |-> wrevt.asleep \ {u}, woken |-> wrevt.woken \cup {u}]
<1>1. wr!Take =>
         wrevt.count = 1 /\ wrevt' = [count |-> 0, asleep |-> wrevt.asleep, woken |-> wrevt.woken]
  BY DEF wr!TypeOK, wr!Take
<1>2. wr!Sleep(t) =>
         wrevt.count = 0 /\ wrevt' = [count |-> 0, asleep |-> wrevt.asleep \cup {t}, woken |-> wrevt.woken]
  BY DEF wr!TypeOK, wr!Sleep
<1>3. wr!Wake(t) =>
         t \in wrevt.asleep /\ wrevt' = [count |-> wrevt.count, asleep |-> wrevt.asleep \ {t}, woken |-> wrevt.woken \cup {t}]
  BY DEF wr!TypeOK, wr!Wake
<1>4. wr!Return(t) =>
         t \in wrevt.woken /\ wrevt' = [count |-> 0, asleep |-> wrevt.asleep, woken |-> wrevt.woken \ {t}]
  BY DEF wr!TypeOK, wr!Return
<1>5. wr!Timeout(t) =>
         t \in wrevt.asleep /\ wrevt' = [count |-> wrevt.count, asleep |-> wrevt.asleep \ {t}, woken |-> wrevt.woken]
  BY DEF wr!TypeOK, wr!Timeout
<1>6. wr!Reset =>
         wrevt' = [count |-> 0, asleep |-> wrevt.asleep, woken |-> wrevt.woken]
  BY DEF wr!TypeOK, wr!Reset
<1>7. wr!Signal =>
         \/ wrevt.asleep = {} /\ wrevt' = [count |-> 1, asleep |-> wrevt.asleep, woken |-> wrevt.woken]
         \/ \E u \in wrevt.asleep :
              wrevt' = [count |-> 1, asleep |-> wrevt.asleep \ {u}, woken |-> wrevt.woken \cup {u}]
  BY DEF wr!TypeOK, wr!Signal
<1> QED BY <1>1, <1>2, <1>3, <1>4, <1>5, <1>6, <1>7

\* What each operation of rdevt does to it, field by field.
LEMMA RdevtEffects ==
  ASSUME rd!TypeOK, NEW t \in Threads
  PROVE
    /\ rd!Take =>
         rdevt.count = 1 /\ rdevt' = [count |-> 0, asleep |-> rdevt.asleep, woken |-> rdevt.woken]
    /\ rd!Sleep(t) =>
         rdevt.count = 0 /\ rdevt' = [count |-> 0, asleep |-> rdevt.asleep \cup {t}, woken |-> rdevt.woken]
    /\ rd!Wake(t) =>
         t \in rdevt.asleep /\ rdevt' = [count |-> rdevt.count, asleep |-> rdevt.asleep \ {t}, woken |-> rdevt.woken \cup {t}]
    /\ rd!Return(t) =>
         t \in rdevt.woken /\ rdevt' = [count |-> 0, asleep |-> rdevt.asleep, woken |-> rdevt.woken \ {t}]
    /\ rd!Timeout(t) =>
         t \in rdevt.asleep /\ rdevt' = [count |-> rdevt.count, asleep |-> rdevt.asleep \ {t}, woken |-> rdevt.woken]
    /\ rd!Reset =>
         rdevt' = [count |-> 0, asleep |-> rdevt.asleep, woken |-> rdevt.woken]
    /\ rd!Signal =>
         \/ rdevt.asleep = {} /\ rdevt' = [count |-> 1, asleep |-> rdevt.asleep, woken |-> rdevt.woken]
         \/ \E u \in rdevt.asleep :
              rdevt' = [count |-> 1, asleep |-> rdevt.asleep \ {u}, woken |-> rdevt.woken \cup {u}]
<1>1. rd!Take =>
         rdevt.count = 1 /\ rdevt' = [count |-> 0, asleep |-> rdevt.asleep, woken |-> rdevt.woken]
  BY DEF rd!TypeOK, rd!Take
<1>2. rd!Sleep(t) =>
         rdevt.count = 0 /\ rdevt' = [count |-> 0, asleep |-> rdevt.asleep \cup {t}, woken |-> rdevt.woken]
  BY DEF rd!TypeOK, rd!Sleep
<1>3. rd!Wake(t) =>
         t \in rdevt.asleep /\ rdevt' = [count |-> rdevt.count, asleep |-> rdevt.asleep \ {t}, woken |-> rdevt.woken \cup {t}]
  BY DEF rd!TypeOK, rd!Wake
<1>4. rd!Return(t) =>
         t \in rdevt.woken /\ rdevt' = [count |-> 0, asleep |-> rdevt.asleep, woken |-> rdevt.woken \ {t}]
  BY DEF rd!TypeOK, rd!Return
<1>5. rd!Timeout(t) =>
         t \in rdevt.asleep /\ rdevt' = [count |-> rdevt.count, asleep |-> rdevt.asleep \ {t}, woken |-> rdevt.woken]
  BY DEF rd!TypeOK, rd!Timeout
<1>6. rd!Reset =>
         rdevt' = [count |-> 0, asleep |-> rdevt.asleep, woken |-> rdevt.woken]
  BY DEF rd!TypeOK, rd!Reset
<1>7. rd!Signal =>
         \/ rdevt.asleep = {} /\ rdevt' = [count |-> 1, asleep |-> rdevt.asleep, woken |-> rdevt.woken]
         \/ \E u \in rdevt.asleep :
              rdevt' = [count |-> 1, asleep |-> rdevt.asleep \ {u}, woken |-> rdevt.woken \cup {u}]
  BY DEF rd!TypeOK, rd!Signal
<1> QED BY <1>1, <1>2, <1>3, <1>4, <1>5, <1>6, <1>7

\* Steps change the threads' places and arguments, and the events, as typed.
LEMMA CallStep == ASSUME CallTypeOK, [Next]_vars PROVE CallTypeOK'
<1> USE ThreadAssumption DEF Goto, args
<1>a. wr!TypeOK /\ rd!TypeOK
  BY DEF CallTypeOK
<1> DEFINE Place == pc \in [Threads -> {"idle", "try", "wait", "asleep", "signal"}]
           Args == /\ maxlen \in [Readers -> Nat \ {0}]
                   /\ data \in [Writers -> Payloads \cup {<<>>}]
                   /\ \A t \in Writers : /\ Len(data[t]) <= Size
                                         /\ pc[t] # "idle" => data[t] \in Payloads
<1>b. Place /\ Args
  BY DEF CallTypeOK
<1>1. ASSUME NEW t \in Threads, NEW n \in MaxLens, Read(t, n)
      PROVE  Place' /\ Args' /\ UNCHANGED <<wrevt, rdevt>>
  <2>1. Place' /\ UNCHANGED <<wrevt, rdevt, data>>
    BY <1>1, <1>b DEF Read
  <2>2. maxlen' \in [Readers -> Nat \ {0}]
    BY <1>1, <1>b, MaxLenAssumption DEF Read
  <2>3. \A u \in Writers : pc'[u] = pc[u]
    BY <1>1, <1>b DEF Read, Threads
  <2> QED BY <1>b, <2>1, <2>2, <2>3
<1>2. ASSUME NEW t \in Threads, NEW bytes \in Payloads, Write(t, bytes)
      PROVE  Place' /\ Args' /\ UNCHANGED <<wrevt, rdevt>>
  <2>1. Place' /\ UNCHANGED <<wrevt, rdevt, maxlen>> /\ Len(bytes) <= Size
    BY <1>2, <1>b DEF Write
  <2>2. data' \in [Writers -> Payloads \cup {<<>>}]
    BY <1>2, <1>b DEF Write
  <2>3. \A u \in Writers : u # t => pc'[u] = pc[u] /\ data'[u] = data[u]
    BY <1>2, <1>b DEF Write, Threads
  <2>4. data'[t] = bytes
    BY <1>2, <1>b DEF Write
  <2> QED BY <1>b, <2>1, <2>2, <2>3, <2>4
<1>3. ASSUME NEW t \in Threads, Run(t) \/ ReaderTimeout(t) \/ WriterTimeout(t)
      PROVE  Place' /\ Args'
  <2>1. UNCHANGED args /\ pc[t] # "idle"
        /\ \E l \in {"idle", "try", "wait", "asleep", "signal"} :
             pc' = [pc EXCEPT ![t] = l]
    BY <1>3 DEF Run, TryRead, ReaderWait, SignalRead, TryWrite, WriterWait,
                SignalWritten, ReaderTimeout, WriterTimeout
  <2>2. Place'
    BY <1>b, <2>1
  <2>3. \A u \in Writers : pc'[u] # "idle" => pc[u] # "idle"
    BY <1>b, <2>1 DEF Threads
  <2> QED BY <1>b, <2>1, <2>2, <2>3
<1>4. ASSUME UNCHANGED <<pc, args>> PROVE Place' /\ Args'
  BY <1>4, <1>b
<1>5. ASSUME NEW t \in Threads,
             \/ wr!Take \/ wr!Sleep(t) \/ wr!Return(t) \/ wr!Timeout(t)
             \/ wr!Wake(t) \/ wr!Signal \/ wr!Reset \/ UNCHANGED wrevt
      PROVE  wr!TypeOK'
  <2>1. wrevt.count \in {0, 1} /\ wrevt.asleep \in SUBSET Threads /\ wrevt.woken \in SUBSET Threads
    BY <1>a DEF wr!TypeOK
  <2>2. \E c \in {0, 1}, x \in SUBSET Threads, y \in SUBSET Threads :
          wrevt' = [count |-> c, asleep |-> x, woken |-> y]
    <3>1. CASE UNCHANGED wrevt
      BY <3>1, <1>a DEF wr!TypeOK
    <3>2. CASE wr!Signal
      BY <3>2, <2>1, <1>a, WrevtEffects
    <3> QED BY <3>1, <3>2, <2>1, <1>5, <1>a, WrevtEffects
  <2> QED BY <2>2 DEF wr!TypeOK
<1>6. ASSUME NEW t \in Threads,
             \/ rd!Take \/ rd!Sleep(t) \/ rd!Return(t) \/ rd!Timeout(t)
             \/ rd!Wake(t) \/ rd!Signal \/ rd!Reset \/ UNCHANGED rdevt
      PROVE  rd!TypeOK'
  <2>1. rdevt.count \in {0, 1} /\ rdevt.asleep \in SUBSET Threads /\ rdevt.woken \in SUBSET Threads
    BY <1>a DEF rd!TypeOK
  <2>2. \E c \in {0, 1}, x \in SUBSET Threads, y \in SUBSET Threads :
          rdevt' = [count |-> c, asleep |-> x, woken |-> y]
    <3>1. CASE UNCHANGED rdevt
      BY <3>1, <1>a DEF rd!TypeOK
    <3>2. CASE rd!Signal
      BY <3>2, <2>1, <1>a, RdevtEffects
    <3> QED BY <3>1, <3>2, <2>1, <1>6, <1>a, RdevtEffects
  <2> QED BY <2>2 DEF rd!TypeOK
<1>7. ASSUME NEW t \in Threads,
             Run(t) \/ ReaderTimeout(t) \/ WriterTimeout(t)
               \/ ReaderSpurious(t) \/ WriterSpurious(t)
      PROVE  wr!TypeOK' /\ rd!TypeOK'
  BY <1>7, <1>5, <1>6 DEF Run, TryRead, ReaderWait, SignalRead, TryWrite,
        WriterWait, SignalWritten, ReaderTimeout, WriterTimeout,
        ReaderSpurious, WriterSpurious
<1>8. ASSUME Reset PROVE CallTypeOK'
  <2>1. wr!TypeOK' /\ rd!TypeOK'
    BY <1>8, <1>a DEF Reset, wr!TypeOK, rd!TypeOK, wr!Reset, rd!Reset
  <2>2. Place' /\ Args'
    BY <1>8, <1>4 DEF Reset
  <2> QED BY <2>1, <2>2 DEF CallTypeOK
<1>9. ASSUME UNCHANGED vars PROVE CallTypeOK'
  <2>1. UNCHANGED <<pc, args, wrevt, rdevt>>
    BY <1>9 DEF vars
  <2> QED BY <2>1, <1>4, <1>a DEF CallTypeOK, wr!TypeOK, rd!TypeOK
<1>10. ASSUME NEW t \in Threads, ReaderSpurious(t) \/ WriterSpurious(t)
       PROVE  Place' /\ Args'
  BY <1>10, <1>4 DEF ReaderSpurious, WriterSpurious
<1>11. UNCHANGED <<wrevt, rdevt>> => wr!TypeOK' /\ rd!TypeOK'
  BY <1>a DEF wr!TypeOK, rd!TypeOK
<1>12. Place' /\ Args' /\ wr!TypeOK' /\ rd!TypeOK' => CallTypeOK'
  BY DEF CallTypeOK
<1> HIDE DEF Place, Args
<1> QED BY <1>1, <1>2, <1>3, <1>7, <1>8, <1>9, <1>10, <1>11, <1>12 DEF Next

\* A thread sleeps on its event exactly while its call says so.
LEMMA SleepStep == ASSUME CallTypeOK, SleepInv, [Next]_vars PROVE SleepInv'
<1> USE ThreadAssumption DEF Goto
<1> DEFINE OnWr == /\ wrevt.asleep \cap wrevt.woken = {}
                   /\ wrevt.asleep \cup wrevt.woken = {t \in Readers : pc[t] = "asleep"}
           OnRd == /\ rdevt.asleep \cap rdevt.woken = {}
                   /\ rdevt.asleep \cup rdevt.woken = {t \in Writers : pc[t] = "asleep"}
<1>a. /\ OnWr /\ OnRd /\ (OnWr' /\ OnRd' => SleepInv')
      /\ pc \in [Threads -> {"idle", "try", "wait", "asleep", "signal"}]
      /\ wr!TypeOK /\ rd!TypeOK
  BY DEF SleepInv, CallTypeOK
<1> DEFINE Awake(t) == pc[t] # "asleep" /\ pc'[t] # "asleep"
                       /\ \A u \in Threads : u # t => pc'[u] = pc[u]
<1>1. ASSUME NEW t \in Threads, Awake(t), UNCHANGED wrevt PROVE OnWr'
  BY <1>1, <1>a DEF Threads
<1>2. ASSUME NEW t \in Threads, Awake(t), UNCHANGED rdevt PROVE OnRd'
  BY <1>2, <1>a DEF Threads
<1>3. ASSUME NEW t \in Threads,
             \/ \E n \in MaxLens : Read(t, n)
             \/ \E bytes \in Payloads : Write(t, bytes)
             \/ TryRead(t) \/ TryWrite(t)
      PROVE  OnWr' /\ OnRd'
  <2>1. Awake(t) /\ UNCHANGED <<wrevt, rdevt>>
    BY <1>3, <1>a DEF Read, Write, TryRead, TryWrite
  <2> QED BY <2>1, <1>1, <1>2
<1>4. ASSUME NEW t \in Readers, ReaderWait(t) \/ ReaderTimeout(t)
      PROVE  OnWr' /\ OnRd'
  <2>1. OnRd'
    <3>1. UNCHANGED rdevt /\ \A u \in Writers : pc'[u] = pc[u]
      BY <1>4, <1>a DEF ReaderWait, ReaderTimeout, Threads
    <3> QED BY <1>a, <3>1
  <2>2. CASE wr!Take /\ Goto(t, "wait", "try")
    <3>1. /\ wrevt'.asleep = wrevt.asleep /\ wrevt'.woken = wrevt.woken
          /\ pc[t] = "wait" /\ pc'[t] = "try"
      BY <1>a, <2>2, WrevtEffects DEF Threads
    <3>2. \A u \in Readers : u # t => pc'[u] = pc[u]
      BY <1>a, <2>2 DEF Threads
    <3> QED BY <1>a, <2>1, <3>1, <3>2
  <2>3. CASE wr!Sleep(t) /\ Goto(t, "wait", "asleep")
    <3>1. /\ wrevt'.asleep = wrevt.asleep \cup {t} /\ wrevt'.woken = wrevt.woken
          /\ pc[t] = "wait" /\ pc'[t] = "asleep"
      BY <1>a, <2>3, WrevtEffects DEF Threads
    <3>2. \A u \in Readers : u # t => pc'[u] = pc[u]
      BY <1>a, <2>3 DEF Threads
    <3> QED BY <1>a, <2>1, <3>1, <3>2
  <2>4. CASE wr!Return(t) /\ Goto(t, "asleep", "try")
    <3>1. /\ wrevt'.asleep = wrevt.asleep /\ wrevt'.woken = wrevt.woken \ {t}
          /\ pc[t] = "asleep" /\ pc'[t] = "try" /\ t \in wrevt.woken
      BY <1>a, <2>4, WrevtEffects DEF Threads
    <3>2. \A u \in Readers : u # t => pc'[u] = pc[u]
      BY <1>a, <2>4 DEF Threads
    <3> QED BY <1>a, <2>1, <3>1, <3>2
  <2>5. CASE wr!Timeout(t) /\ Goto(t, "asleep", "idle")
    <3>1. /\ wrevt'.asleep = wrevt.asleep \ {t} /\ wrevt'.woken = wrevt.woken
          /\ pc[t] = "asleep" /\ pc'[t] = "idle" /\ t \in wrevt.asleep
      BY <1>a, <2>5, WrevtEffects DEF Threads
    <3>2. \A u \in Readers : u # t => pc'[u] = pc[u]
      BY <1>a, <2>5 DEF Threads
    <3> QED BY <1>a, <2>1, <3>1, <3>2
  <2> QED BY <1>4, <2>1, <2>2, <2>3, <2>4, <2>5 DEF ReaderWait, ReaderTimeout
<1>5. ASSUME NEW t \in Writers, WriterWait(t) \/ WriterTimeout(t)
      PROVE  OnWr' /\ OnRd'
  <2>1. OnWr'
    <3>1. UNCHANGED wrevt /\ \A u \in Readers : pc'[u] = pc[u]
      BY <1>5, <1>a DEF WriterWait, WriterTimeout, Threads
    <3> QED BY <1>a, <3>1
  <2>2. CASE rd!Take /\ Goto(t, "wait", "try")
    <3>1. /\ rdevt'.asleep = rdevt.asleep /\ rdevt'.woken = rdevt.woken
          /\ pc[t] = "wait" /\ pc'[t] = "try"
      BY <1>a, <2>2, RdevtEffects DEF Threads
    <3>2. \A u \in Writers : u # t => pc'[u] = pc[u]
      BY <1>a, <2>2 DEF Threads
    <3> QED BY <1>a, <2>1, <3>1, <3>2
  <2>3. CASE rd!Sleep(t) /\ Goto(t, "wait", "asleep")
    <3>1. /\ rdevt'.asleep = rdevt.asleep \cup {t} /\ rdevt'.woken = rdevt.woken
          /\ pc[t] = "wait" /\ pc'[t] = "asleep"
      BY <1>a, <2>3, RdevtEffects DEF Threads
    <3>2. \A u \in Writers : u # t => pc'[u] = pc[u]
      BY <1>a, <2>3 DEF Threads
    <3> QED BY <1>a, <2>1, <3>1, <3>2
  <2>4. CASE rd!Return(t) /\ Goto(t, "asleep", "try")
    <3>1. /\ rdevt'.asleep = rdevt.asleep /\ rdevt'.woken = rdevt.woken \ {t}
          /\ pc[t] = "asleep" /\ pc'[t] = "try" /\ t \in rdevt.woken
      BY <1>a, <2>4, RdevtEffects DEF Threads
    <3>2. \A u \in Writers : u # t => pc'[u] = pc[u]
      BY <1>a, <2>4 DEF Threads
    <3> QED BY <1>a, <2>1, <3>1, <3>2
  <2>5. CASE rd!Timeout(t) /\ Goto(t, "asleep", "idle")
    <3>1. /\ rdevt'.asleep = rdevt.asleep \ {t} /\ rdevt'.woken = rdevt.woken
          /\ pc[t] = "asleep" /\ pc'[t] = "idle" /\ t \in rdevt.asleep
      BY <1>a, <2>5, RdevtEffects DEF Threads
    <3>2. \A u \in Writers : u # t => pc'[u] = pc[u]
      BY <1>a, <2>5 DEF Threads
    <3> QED BY <1>a, <2>1, <3>1, <3>2
  <2> QED BY <1>5, <2>1, <2>2, <2>3, <2>4, <2>5 DEF WriterWait, WriterTimeout
<1>6. ASSUME NEW t \in Readers, SignalRead(t) PROVE OnWr' /\ OnRd'
  <2>1. Awake(t) /\ UNCHANGED wrevt /\ \A u \in Writers : pc'[u] = pc[u]
    BY <1>6, <1>a DEF SignalRead, Threads
  <2>2. OnRd'
    BY <1>6, <1>a, <2>1 DEF SignalRead, rd!Signal, rd!TypeOK
  <2> QED BY <2>1, <2>2, <1>1 DEF Threads
<1>7. ASSUME NEW t \in Writers, SignalWritten(t) PROVE OnWr' /\ OnRd'
  <2>1. Awake(t) /\ UNCHANGED rdevt /\ \A u \in Readers : pc'[u] = pc[u]
    BY <1>7, <1>a DEF SignalWritten, Threads
  <2>2. OnWr'
    BY <1>7, <1>a, <2>1 DEF SignalWritten, wr!Signal, wr!TypeOK
  <2> QED BY <2>1, <2>2, <1>2 DEF Threads
<1>8. ASSUME NEW t \in Threads, ReaderSpurious(t) PROVE OnWr' /\ OnRd'
  BY <1>8, <1>a DEF ReaderSpurious, wr!Wake, wr!TypeOK
<1>9. ASSUME NEW t \in Threads, WriterSpurious(t) PROVE OnWr' /\ OnRd'
  BY <1>9, <1>a DEF WriterSpurious, rd!Wake, rd!TypeOK
<1>10. ASSUME Reset PROVE OnWr' /\ OnRd'
  BY <1>10, <1>a DEF Reset, wr!Reset, rd!Reset, wr!TypeOK, rd!TypeOK
<1>11. ASSUME UNCHANGED vars PROVE OnWr' /\ OnRd'
  BY <1>11, <1>a DEF vars
<1>12. \A t \in Threads :
         /\ ReaderWait(t) \/ ReaderTimeout(t) \/ SignalRead(t) => t \in Readers
         /\ WriterWait(t) \/ WriterTimeout(t) \/ SignalWritten(t) => t \in Writers
  BY DEF ReaderWait, ReaderTimeout, SignalRead, WriterWait, WriterTimeout,
         SignalWritten
<1> HIDE DEF OnWr, OnRd
<1> QED BY <1>a, <1>3, <1>4, <1>5, <1>6, <1>7, <1>8, <1>9, <1>10, <1>11, <1>12
        DEF Next, Run

-----------------------------------------------------------------------------
(* No lost wakeup.                                                         *)

\* What NoLostWakeup and WaitInv say of a reader, and of a writer.
ReaderTold(r) ==
  full > 0 =>
    /\ pc[r] = "wait" => wrevt.count = 1 \/ \E w \in Writers : pc[w] = "signal"
    /\ r \in wrevt.asleep => \E w \in Writers : pc[w] = "signal"

WriterTold(w) ==
  Len(data[w]) <= Size - full =>
    /\ pc[w] = "wait" => rdevt.count = 1 \/ \E r \in Readers : pc[r] = "signal"
    /\ w \in rdevt.asleep => \E r \in Readers : pc[r] = "signal"

\* The only reader is told of data in every step.
LEMMA ReaderToldStep ==
  ASSUME RingTypeOK, CallTypeOK, SleepInv, SleepInv', [Next]_vars,
         NEW r \in Readers, Readers = {r}, ReaderTold(r)
  PROVE  ReaderTold(r)'
<1> USE ThreadAssumption DEF Goto, ring, args
<1>a. /\ pc \in [Threads -> {"idle", "try", "wait", "asleep", "signal"}]
      /\ r \in Threads /\ Writers \subseteq Threads /\ wr!TypeOK
  BY DEF CallTypeOK, Threads
<1>b. (r \in wrevt.asleep => pc[r] = "asleep") /\ wrevt.asleep \subseteq {r}
  BY DEF SleepInv
<1>c. r \in wrevt'.asleep => pc'[r] = "asleep"
  BY DEF SleepInv
<1>1. ASSUME pc'[r] \notin {"wait", "asleep"} PROVE ReaderTold(r)'
  BY <1>1, <1>c DEF ReaderTold
<1>2. ASSUME full' = 0 PROVE ReaderTold(r)'
  BY <1>2 DEF ReaderTold
<1>3. ASSUME UNCHANGED <<full, wrevt>>, pc'[r] = pc[r],
             \A w \in Writers : pc[w] = "signal" => pc'[w] = "signal"
      PROVE  ReaderTold(r)'
  BY <1>3 DEF ReaderTold
<1>4. ASSUME NEW t \in Threads, \E n \in MaxLens : Read(t, n) PROVE ReaderTold(r)'
  BY <1>4, <1>a, <1>1 DEF Read
<1>5. ASSUME NEW t \in Threads, TryRead(t) PROVE ReaderTold(r)'
  <2>1. CASE full = 0
    <3>1. full' = 0
      BY <1>5, <2>1 DEF TryRead, CopyOut
    <3> QED BY <3>1, <1>2
  <2>2. CASE full # 0
    <3>1. pc'[r] = "signal"
      BY <1>5, <1>a, <2>2 DEF TryRead
    <3> QED BY <3>1, <1>1
  <2> QED BY <2>1, <2>2
<1>6. ASSUME NEW t \in Threads, ReaderWait(t) PROVE ReaderTold(r)'
  <2>1. t = r /\ full' = full /\ \A w \in Writers : pc'[w] = pc[w]
    BY <1>6, <1>a DEF ReaderWait
  <2>2. CASE pc'[r] # "asleep"
    BY <1>6, <1>a, <1>1, <2>1, <2>2 DEF ReaderWait
  <2>3. CASE pc'[r] = "asleep"
    <3>1. pc[r] = "wait" /\ wrevt.count = 0
      BY <1>6, <1>a, <2>1, <2>3 DEF ReaderWait, wr!Sleep
    <3> QED BY <2>1, <2>3, <3>1 DEF ReaderTold
  <2> QED BY <2>2, <2>3
<1>7. ASSUME NEW t \in Threads, ReaderTimeout(t) \/ SignalRead(t)
      PROVE  ReaderTold(r)'
  BY <1>7, <1>a, <1>1 DEF ReaderTimeout, SignalRead
<1>8. ASSUME NEW t \in Threads, ReaderSpurious(t) PROVE ReaderTold(r)'
  <2>1. t = r /\ UNCHANGED <<full, pc>>
    BY <1>8 DEF ReaderSpurious
  <2>2. pc[r] = "asleep" /\ r \notin wrevt'.asleep
    <3>1. r \in wrevt.asleep /\ wrevt'.asleep = wrevt.asleep \ {r}
      BY <1>8, <1>a, <2>1, WrevtEffects DEF ReaderSpurious
    <3> QED BY <1>b, <3>1
  <2> QED BY <2>1, <2>2 DEF ReaderTold
<1>9. ASSUME NEW t \in Threads,
             (\E bytes \in Payloads : Write(t, bytes)) \/ WriterWait(t)
               \/ WriterTimeout(t) \/ WriterSpurious(t)
      PROVE  ReaderTold(r)'
  <2>1. UNCHANGED <<full, wrevt>>
    BY <1>9 DEF Write, WriterWait, WriterTimeout, WriterSpurious
  <2>2. /\ pc'[r] = pc[r]
        /\ \A w \in Writers : pc[w] = "signal" => pc'[w] = "signal"
    BY <1>9, <1>a DEF Write, WriterWait, WriterTimeout, WriterSpurious
  <2> QED BY <2>1, <2>2, <1>3
<1>10. ASSUME NEW t \in Threads, TryWrite(t) PROVE ReaderTold(r)'
  <2>1. CASE Goto(t, "try", "wait") /\ UNCHANGED <<ring, wrevt>>
    BY <2>1, <1>10, <1>a, <1>3 DEF TryWrite
  <2>2. CASE Goto(t, "try", "signal")
    <3>1. t \in Writers /\ pc'[t] = "signal"
      BY <1>10, <1>a, <2>2 DEF TryWrite
    <3> QED BY <3>1 DEF ReaderTold
  <2> QED BY <1>10, <2>1, <2>2 DEF TryWrite
<1>11. ASSUME NEW t \in Threads, SignalWritten(t) PROVE ReaderTold(r)'
  <2>1. wrevt'.count = 1 /\ r \notin wrevt'.asleep
    BY <1>11, <1>a, <1>b, WrevtEffects DEF SignalWritten
  <2> QED BY <2>1 DEF ReaderTold
<1>12. ASSUME Reset PROVE ReaderTold(r)'
  BY <1>12, <1>2 DEF Reset
<1>13. ASSUME UNCHANGED vars PROVE ReaderTold(r)'
  BY <1>13, <1>3 DEF vars
<1> QED BY <1>4, <1>5, <1>6, <1>7, <1>8, <1>9, <1>10, <1>11, <1>12, <1>13 DEF Next, Run

\* The only writer is told of room in every step.
LEMMA WriterToldStep ==
  ASSUME RingTypeOK, CallTypeOK, SleepInv, SleepInv', [Next]_vars,
         NEW w \in Writers, Writers = {w}, WriterTold(w)
  PROVE  WriterTold(w)'
<1> USE ThreadAssumption DEF Goto, ring, args
<1>a. /\ pc \in [Threads -> {"idle", "try", "wait", "asleep", "signal"}]
      /\ w \in Threads /\ Readers \subseteq Threads /\ rd!TypeOK
      /\ full \in Nat /\ Size \in Nat /\ Len(data[w]) \in Nat
  BY SizeAssumption, PayloadAssumption DEF RingTypeOK, CallTypeOK, Threads
<1>b. (w \in rdevt.asleep => pc[w] = "asleep") /\ rdevt.asleep \subseteq {w}
  BY DEF SleepInv
<1>c. w \in rdevt'.asleep => pc'[w] = "asleep"
  BY DEF SleepInv
<1>1. ASSUME pc'[w] \notin {"wait", "asleep"} PROVE WriterTold(w)'
  BY <1>1, <1>c DEF WriterTold
<1>2. ASSUME UNCHANGED <<full, rdevt, data>>, pc'[w] = pc[w],
             \A r \in Readers : pc[r] = "signal" => pc'[r] = "signal"
      PROVE  WriterTold(w)'
  BY <1>2 DEF WriterTold
<1>3. ASSUME NEW t \in Threads, \E bytes \in Payloads : Write(t, bytes)
      PROVE  WriterTold(w)'
  BY <1>3, <1>a, <1>1 DEF Write
<1>4. ASSUME NEW t \in Threads, TryWrite(t) PROVE WriterTold(w)'
  <2>1. CASE Goto(t, "try", "signal")
    <3>1. pc'[w] = "signal"
      BY <1>4, <1>a, <2>1 DEF TryWrite
    <3> QED BY <3>1, <1>1
  <2>2. CASE Len(data[t]) > Size - full /\ UNCHANGED <<ring, ghosts>>
    <3>1. t = w /\ full' = full /\ data' = data
      BY <1>4, <2>2 DEF TryWrite
    <3> QED BY <1>a, <2>2, <3>1 DEF WriterTold
  <2> QED BY <1>4, <2>1, <2>2 DEF TryWrite
<1>5. ASSUME NEW t \in Threads, WriterWait(t) PROVE WriterTold(w)'
  <2>1. t = w /\ UNCHANGED <<full, data>> /\ \A r \in Readers : pc'[r] = pc[r]
    BY <1>5, <1>a DEF WriterWait
  <2>2. CASE pc'[w] # "asleep"
    BY <1>5, <1>a, <1>1, <2>1, <2>2 DEF WriterWait
  <2>3. CASE pc'[w] = "asleep"
    <3>1. pc[w] = "wait" /\ rdevt.count = 0
      BY <1>5, <1>a, <2>1, <2>3 DEF WriterWait, rd!Sleep
    <3> QED BY <2>1, <2>3, <3>1 DEF WriterTold
  <2> QED BY <2>2, <2>3
<1>6. ASSUME NEW t \in Threads, WriterTimeout(t) \/ SignalWritten(t)
      PROVE  WriterTold(w)'
  BY <1>6, <1>a, <1>1 DEF WriterTimeout, SignalWritten
<1>7. ASSUME NEW t \in Threads, WriterSpurious(t) PROVE WriterTold(w)'
  <2>1. t = w /\ UNCHANGED <<full, data, pc>>
    BY <1>7 DEF WriterSpurious
  <2>2. pc[w] = "asleep" /\ w \notin rdevt'.asleep
    <3>1. w \in rdevt.asleep /\ rdevt'.asleep = rdevt.asleep \ {w}
      BY <1>7, <1>a, <2>1, RdevtEffects DEF WriterSpurious
    <3> QED BY <1>b, <3>1
  <2> QED BY <2>1, <2>2 DEF WriterTold
<1>8. ASSUME NEW t \in Threads,
             (\E n \in MaxLens : Read(t, n)) \/ ReaderWait(t)
               \/ ReaderTimeout(t) \/ ReaderSpurious(t)
      PROVE  WriterTold(w)'
  <2>1. UNCHANGED <<full, rdevt, data>>
    BY <1>8 DEF Read, ReaderWait, ReaderTimeout, ReaderSpurious
  <2>2. /\ pc'[w] = pc[w]
        /\ \A r \in Readers : pc[r] = "signal" => pc'[r] = "signal"
    BY <1>8, <1>a DEF Read, ReaderWait, ReaderTimeout, ReaderSpurious
  <2> QED BY <2>1, <2>2, <1>2
<1>9. ASSUME NEW t \in Threads, TryRead(t) PROVE WriterTold(w)'
  <2>1. CASE Goto(t, "try", "wait") /\ UNCHANGED <<ring, rdevt>>
    BY <2>1, <1>9, <1>a, <1>2 DEF TryRead
  <2>2. CASE Goto(t, "try", "signal")
    <3>1. t \in Readers /\ pc'[t] = "signal"
      BY <1>9, <1>a, <2>2 DEF TryRead
    <3> QED BY <3>1 DEF WriterTold
  <2> QED BY <1>9, <2>1, <2>2 DEF TryRead
<1>10. ASSUME NEW t \in Threads, SignalRead(t) PROVE WriterTold(w)'
  <2>1. rdevt'.count = 1 /\ w \notin rdevt'.asleep
    BY <1>10, <1>a, <1>b, RdevtEffects DEF SignalRead
  <2> QED BY <2>1 DEF WriterTold
<1>11. ASSUME Reset PROVE WriterTold(w)'
  BY <1>11, <1>a, <1>1 DEF Reset
<1>12. ASSUME UNCHANGED vars PROVE WriterTold(w)'
  BY <1>12, <1>2 DEF vars
<1> QED BY <1>3, <1>4, <1>5, <1>6, <1>7, <1>8, <1>9, <1>10, <1>11, <1>12 DEF Next, Run

\* The two halves together.
LEMMA WaitStep ==
  ASSUME RingTypeOK, CallTypeOK, SleepInv, SleepInv', WaitInv, NoLostWakeup,
         [Next]_vars
  PROVE  WaitInv' /\ NoLostWakeup'
<1>1. ASSUME NEW r \in Readers, Readers = {r} PROVE ReaderTold(r)'
  <2>1. ReaderTold(r)
    BY <1>1 DEF ReaderTold, WaitInv, NoLostWakeup
  <2> QED BY <1>1, <2>1, ReaderToldStep
<1>2. ASSUME NEW w \in Writers, Writers = {w} PROVE WriterTold(w)'
  <2>1. WriterTold(w)
    BY <1>2 DEF WriterTold, WaitInv, NoLostWakeup
  <2> QED BY <1>2, <2>1, WriterToldStep
<1> QED BY <1>1, <1>2 DEF ReaderTold, WriterTold, WaitInv, NoLostWakeup

-----------------------------------------------------------------------------
\* The invariant holds of a new pipe.
LEMMA InitInv == Init => IInv
<1> SUFFICES ASSUME Init PROVE IInv
  OBVIOUS
<1> USE SizeAssumption
<1>1. RingTypeOK
  <2>1. <<>> \in Seq(Bytes) /\ 0 \in 0..(Size - 1) /\ 0 \in 0..Size
    OBVIOUS
  <2> QED BY <2>1 DEF Init, RingTypeOK
<1>2. CallTypeOK
  <2>1. wr!TypeOK /\ rd!TypeOK
    BY DEF Init, wr!Init, rd!Init, wr!TypeOK, rd!TypeOK
  <2>2. \A t \in Writers : Len(data[t]) <= Size /\ t \in Threads
    BY DEF Init, Threads
  <2>3. /\ pc \in [Threads -> {"idle", "try", "wait", "asleep", "signal"}]
        /\ maxlen \in [Readers -> Nat \ {0}]
        /\ data \in [Writers -> Payloads \cup {<<>>}]
        /\ \A t \in Threads : pc[t] = "idle"
    BY DEF Init
  <2> QED BY <2>1, <2>2, <2>3 DEF CallTypeOK
<1>3. RingHoldsRest
  BY DEF Init, RingHoldsRest, Wrap
<1>4. wrevt.asleep = {} /\ rdevt.asleep = {} /\ wrevt.woken = {} /\ rdevt.woken = {}
      /\ \A t \in Threads : pc[t] = "idle"
  BY DEF Init, wr!Init, rd!Init
<1>5. SleepInv
  BY <1>4 DEF SleepInv, Threads
<1>6. WaitInv /\ NoLostWakeup
  BY <1>4 DEF WaitInv, NoLostWakeup, Threads
<1> QED BY <1>1, <1>2, <1>3, <1>5, <1>6 DEF IInv, TypeOK

\* Every step preserves it.
LEMMA StepInv == IInv /\ [Next]_vars => IInv' /\ [Stream!Next]_<<written, delivered>>
<1> SUFFICES ASSUME IInv, [Next]_vars
             PROVE  IInv' /\ [Stream!Next]_<<written, delivered>>
  OBVIOUS
<1>1. /\ RingTypeOK /\ CallTypeOK /\ RingHoldsRest
      /\ SleepInv /\ WaitInv /\ NoLostWakeup
  BY DEF IInv, TypeOK
<1>2. RingTypeOK' /\ RingHoldsRest' /\ [Stream!Next]_<<written, delivered>>
  BY <1>1, RingStep
<1>3. CallTypeOK'
  BY <1>1, CallStep
<1>4. SleepInv'
  BY <1>1, SleepStep
<1>5. WaitInv' /\ NoLostWakeup'
  BY <1>1, <1>4, WaitStep
<1> QED BY <1>2, <1>3, <1>4, <1>5 DEF IInv, TypeOK

\* The strengthened invariant holds of every behaviour.
THEOREM Invariance == Spec => []IInv
<1>1. IInv /\ [Next]_vars => IInv'
  BY StepInv
<1> QED BY <1>1, InitInv, PTL DEF Spec

\* A pipe of any size, used by any number of readers and writers that time out
\* and wake up as they may, is one bounded stream of bytes: none is lost,
\* repeated or overtaken (Pipe::Read, Pipe::Write).
THEOREM PipeIsStream == Spec => ImplementsStream
<1>1. Init => Stream!Init
  BY DEF Init, Stream!Init
<1>2. IInv /\ [Next]_vars => [Stream!Next]_<<written, delivered>>
  BY StepInv
<1> QED BY <1>1, <1>2, Invariance, PTL DEF Spec, ImplementsStream, Stream!Spec

\* The only reader, or the only writer, never sleeps through data or room: no
\* interleaving of the test of the ring with the wait loses a wakeup.
THEOREM WakeupsAreKept == Spec => []NoLostWakeup
<1>1. IInv => NoLostWakeup
  BY DEF IInv
<1> QED BY <1>1, Invariance, PTL
=============================================================================
