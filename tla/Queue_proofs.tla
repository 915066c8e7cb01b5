---------------------------- MODULE Queue_proofs ----------------------------
(* Proofs about the queue, for any number of buffers, readers and writers, *)
(* buffers that are too small, timeouts and spurious wakeups.              *)
EXTENDS Queue, FiniteSetTheorems, TLAPS

-----------------------------------------------------------------------------
(* Types.                                                                  *)

Places == {"idle", "sem", "asleep", "copy", "give"}

\* What the semaphores do keeps their types.
LEMMA SemaphoreTypes ==
  ASSUME TypeOK, NEW t \in Threads
  PROVE  /\ em!Take \/ em!Sleep(t) \/ em!Wake(t) \/ em!Return(t) \/ em!Timeout(t) \/ em!Give \/ em!Reset => em!TypeOK'
         /\ fu!Take \/ fu!Sleep(t) \/ fu!Wake(t) \/ fu!Return(t) \/ fu!Timeout(t) \/ fu!Give \/ fu!Reset => fu!TypeOK'
<1>1. /\ BufCount \in 1..CountMax /\ CountMax \in Int /\ BufCount \in 0..CountMax /\ 0 \in 0..CountMax
      /\ emptysem \in [count : 0..CountMax, asleep : SUBSET Threads, woken : SUBSET Threads]
      /\ fullsem \in [count : 0..CountMax, asleep : SUBSET Threads, woken : SUBSET Threads]
  BY CountAssumption DEF TypeOK, em!TypeOK, fu!TypeOK
<1>2. em!Raised \in 0..CountMax /\ fu!Raised \in 0..CountMax
  BY <1>1 DEF em!Raised, fu!Raised
<1>3. /\ emptysem.count > 0 => emptysem.count - 1 \in 0..CountMax
      /\ fullsem.count > 0 => fullsem.count - 1 \in 0..CountMax
  BY <1>1
<1>4. em!Take \/ em!Return(t) => em!TypeOK'
  <2>1. em!Take => em!TypeOK'
    BY <1>1, <1>3 DEF em!Take, em!TypeOK
  <2>2. em!Return(t) => em!TypeOK'
    BY <1>1, <1>3 DEF em!Return, em!TypeOK
  <2> QED BY <2>1, <2>2
<1>5. em!Sleep(t) \/ em!Wake(t) \/ em!Timeout(t) \/ em!Reset => em!TypeOK'
  <2>1. em!Sleep(t) => em!TypeOK'
    BY <1>1 DEF em!Sleep, em!TypeOK
  <2>2. em!Wake(t) => em!TypeOK'
    <3>1. ASSUME em!Wake(t)
          PROVE  emptysem' = [count |-> emptysem.count, asleep |-> emptysem.asleep \ {t}, woken |-> emptysem.woken \cup {t}]
      BY <1>1, <3>1 DEF em!Wake
    <3>2. emptysem.count \in 0..CountMax /\ emptysem.asleep \ {t} \in SUBSET Threads /\ emptysem.woken \cup {t} \in SUBSET Threads
      BY <1>1
    <3> QED BY <3>1, <3>2 DEF em!TypeOK
  <2>3. em!Timeout(t) => em!TypeOK'
    BY <1>1 DEF em!Timeout, em!TypeOK
  <2>4. em!Reset => em!TypeOK'
    BY <1>1 DEF em!Reset, em!TypeOK
  <2> QED BY <2>1, <2>2, <2>3, <2>4
<1>6. em!Give => em!TypeOK'
  BY <1>1, <1>2 DEF em!Give, em!TypeOK
<1>7. fu!Take \/ fu!Return(t) => fu!TypeOK'
  <2>1. fu!Take => fu!TypeOK'
    BY <1>1, <1>3 DEF fu!Take, fu!TypeOK
  <2>2. fu!Return(t) => fu!TypeOK'
    BY <1>1, <1>3 DEF fu!Return, fu!TypeOK
  <2> QED BY <2>1, <2>2
<1>8. fu!Sleep(t) \/ fu!Wake(t) \/ fu!Timeout(t) \/ fu!Reset => fu!TypeOK'
  <2>1. fu!Sleep(t) => fu!TypeOK'
    BY <1>1 DEF fu!Sleep, fu!TypeOK
  <2>2. fu!Wake(t) => fu!TypeOK'
    <3>1. ASSUME fu!Wake(t)
          PROVE  fullsem' = [count |-> fullsem.count, asleep |-> fullsem.asleep \ {t}, woken |-> fullsem.woken \cup {t}]
      BY <1>1, <3>1 DEF fu!Wake
    <3>2. fullsem.count \in 0..CountMax /\ fullsem.asleep \ {t} \in SUBSET Threads /\ fullsem.woken \cup {t} \in SUBSET Threads
      BY <1>1
    <3> QED BY <3>1, <3>2 DEF fu!TypeOK
  <2>3. fu!Timeout(t) => fu!TypeOK'
    BY <1>1 DEF fu!Timeout, fu!TypeOK
  <2>4. fu!Reset => fu!TypeOK'
    BY <1>1 DEF fu!Reset, fu!TypeOK
  <2> QED BY <2>1, <2>2, <2>3, <2>4
<1>9. fu!Give => fu!TypeOK'
  BY <1>1, <1>2 DEF fu!Give, fu!TypeOK
<1> QED BY <1>4, <1>5, <1>6, <1>7, <1>8, <1>9

\* The places in the ring.
LEMMA RingPlaces ==
  ASSUME NEW i \in 0..(BufCount - 1)
  PROVE  NextBuf(i) \in 0..(BufCount - 1)
BY CountAssumption DEF NextBuf

LEMMA InitTypes == Init => TypeOK
<1> SUFFICES ASSUME Init PROVE TypeOK
  OBVIOUS
<1>1. em!TypeOK /\ fu!TypeOK
  BY CountAssumption DEF Init, em!Init, fu!Init, em!TypeOK, fu!TypeOK
<1>2. Empty \in [id : Nat, len : Nat] /\ 0 \in 0..(BufCount - 1)
  BY CountAssumption DEF Empty
<1>3. slot \in [0..(BufCount - 1) -> [id : Nat, len : Nat]] /\ wrbufind \in 0..(BufCount - 1) /\ rdbufind \in 0..(BufCount - 1)
  BY <1>2 DEF Init
<1>4. pc \in [Threads -> {"idle", "sem", "asleep", "copy", "give"}] /\ size \in [Threads -> Nat]
  BY DEF Init
<1>5. aborted \subseteq Threads /\ sent \in Nat /\ received \in Seq(Nat)
  BY DEF Init
<1>6. {short, spurious} \subseteq BOOLEAN
  BY Zenon DEF Init
<1> QED BY <1>1, <1>3, <1>4, <1>5, <1>6 DEF TypeOK

\* What a call begins with, and that it moves on.
LEMMA MoveTypes ==
  ASSUME TypeOK, NEW t \in Threads, NEW from, NEW to \in Places, Goto(t, from, to)
  PROVE  pc' \in [Threads -> Places]
BY DEF TypeOK, Goto, Places

LEMMA StepTypes == TypeOK /\ [Next]_vars => TypeOK'
<1> SUFFICES ASSUME TypeOK, [Next]_vars PROVE TypeOK'
  OBVIOUS
<1> USE DEF Places
<1>1. ASSUME NEW t \in Threads, NEW n \in MaxLens, Read(t, n) PROVE TypeOK'
  BY <1>1, MoveTypes, LengthAssumption DEF Read, TypeOK, em!TypeOK, fu!TypeOK, ring, sems, ghosts
<1>2. ASSUME NEW t \in Threads, NEW n \in Lengths, Write(t, n) PROVE TypeOK'
  BY <1>2, MoveTypes, LengthAssumption DEF Write, TypeOK, em!TypeOK, fu!TypeOK, ring, sems, ghosts
<1>3. ASSUME NEW t \in Threads, WaitFull(t) PROVE TypeOK'
  <2>1. fu!TypeOK' /\ pc' \in [Threads -> Places]
    BY <1>3, SemaphoreTypes, MoveTypes DEF WaitFull
  <2> QED BY <1>3, <2>1 DEF WaitFull, TypeOK, em!TypeOK, ring, ghosts
<1>4. ASSUME NEW t \in Threads, CopyOut(t) PROVE TypeOK'
  <2>1. pc' \in [Threads -> Places] /\ rdbufind' \in 0..(BufCount - 1)
    BY <1>4, MoveTypes, RingPlaces DEF CopyOut, TypeOK
  <2>2. slot[rdbufind] \in [id : Nat, len : Nat] /\ Empty \in [id : Nat, len : Nat]
    BY DEF TypeOK, Empty
  <2>4. slot' = slot \/ slot' = [slot EXCEPT ![rdbufind] = Empty]
    BY <1>4 DEF CopyOut
  <2>5. slot' \in [0..(BufCount - 1) -> [id : Nat, len : Nat]]
    BY <2>2, <2>4 DEF TypeOK
  <2>6. received' \in Seq(Nat)
    <3>1. received' = received \/ received' = Append(received, slot[rdbufind].id)
      BY <1>4 DEF CopyOut
    <3>2. slot[rdbufind].id \in Nat /\ received \in Seq(Nat)
      BY <2>2 DEF TypeOK
    <3> QED BY <3>1, <3>2
  <2>7. short' \in BOOLEAN
    BY <1>4, Zenon DEF CopyOut, TypeOK
  <2>3. slot' \in [0..(BufCount - 1) -> [id : Nat, len : Nat]] /\ received' \in Seq(Nat) /\ short' \in BOOLEAN
    BY <2>5, <2>6, <2>7
  <2> QED BY <1>4, <2>1, <2>3 DEF CopyOut, TypeOK, em!TypeOK, fu!TypeOK, sems
<1>5. ASSUME NEW t \in Threads, GiveEmpty(t) PROVE TypeOK'
  <2>1. em!TypeOK' /\ pc' \in [Threads -> Places]
    BY <1>5, SemaphoreTypes, MoveTypes DEF GiveEmpty
  <2> QED BY <1>5, <2>1 DEF GiveEmpty, TypeOK, fu!TypeOK, ring, ghosts
<1>6. ASSUME NEW t \in Threads, WaitEmpty(t) PROVE TypeOK'
  <2>1. em!TypeOK' /\ pc' \in [Threads -> Places]
    BY <1>6, SemaphoreTypes, MoveTypes DEF WaitEmpty
  <2> QED BY <1>6, <2>1 DEF WaitEmpty, TypeOK, fu!TypeOK, ring, ghosts
<1>7. ASSUME NEW t \in Threads, CopyIn(t) PROVE TypeOK'
  <2>1. pc' \in [Threads -> Places] /\ wrbufind' \in 0..(BufCount - 1)
    BY <1>7, MoveTypes, RingPlaces DEF CopyIn, TypeOK
  <2>2. sent' \in Nat /\ slot' \in [0..(BufCount - 1) -> [id : Nat, len : Nat]]
    BY <1>7 DEF CopyIn, TypeOK
  <2> QED BY <1>7, <2>1, <2>2 DEF CopyIn, TypeOK, em!TypeOK, fu!TypeOK, sems
<1>8. ASSUME NEW t \in Threads, GiveFull(t) PROVE TypeOK'
  <2>1. fu!TypeOK' /\ pc' \in [Threads -> Places]
    BY <1>8, SemaphoreTypes, MoveTypes DEF GiveFull
  <2> QED BY <1>8, <2>1 DEF GiveFull, TypeOK, em!TypeOK, ring, ghosts
<1>9. ASSUME NEW t \in Threads, Timeout(t) PROVE TypeOK'
  <2>1. em!TypeOK' /\ fu!TypeOK'
    <3>1. CASE fu!Timeout(t) /\ UNCHANGED emptysem
      BY <3>1, SemaphoreTypes DEF TypeOK, em!TypeOK
    <3>2. CASE em!Timeout(t) /\ UNCHANGED fullsem
      BY <3>2, SemaphoreTypes DEF TypeOK, fu!TypeOK
    <3> QED BY <1>9, <3>1, <3>2 DEF Timeout
  <2>2. pc' \in [Threads -> Places]
    BY <1>9, MoveTypes DEF Timeout
  <2> QED BY <1>9, <2>1, <2>2 DEF Timeout, TypeOK, ring, ghosts
<1>10. ASSUME NEW t \in Threads, WakeSpuriously(t) PROVE TypeOK'
  <2>1. em!TypeOK' /\ fu!TypeOK'
    <3>1. CASE fu!Wake(t) /\ UNCHANGED emptysem
      BY <3>1, SemaphoreTypes DEF TypeOK, em!TypeOK
    <3>2. CASE em!Wake(t) /\ UNCHANGED fullsem
      BY <3>2, SemaphoreTypes DEF TypeOK, fu!TypeOK
    <3> QED BY <1>10, <3>1, <3>2 DEF WakeSpuriously
  <2> QED BY <1>10, <2>1 DEF WakeSpuriously, TypeOK, ring, ghosts
<1>11. ASSUME NEW t \in Threads, Abort(t) PROVE TypeOK'
  BY <1>11 DEF Abort, TypeOK, em!TypeOK, fu!TypeOK, ring, sems, ghosts
<1>12. ASSUME Reset PROVE TypeOK'
  <2>2. Empty \in [id : Nat, len : Nat] /\ 0 \in 0..(BufCount - 1)
    BY CountAssumption DEF Empty
  <2>1. em!TypeOK' /\ fu!TypeOK'
    <3> BufCount \in 0..CountMax /\ 0 \in 0..CountMax
      BY CountAssumption
    <3>1. /\ emptysem \in [count : 0..CountMax, asleep : SUBSET Threads, woken : SUBSET Threads]
          /\ fullsem \in [count : 0..CountMax, asleep : SUBSET Threads, woken : SUBSET Threads]
      BY DEF TypeOK, em!TypeOK, fu!TypeOK
    <3>2. em!Reset => em!TypeOK'
      BY <3>1 DEF em!Reset, em!TypeOK
    <3>3. fu!Reset => fu!TypeOK'
      BY <3>1 DEF fu!Reset, fu!TypeOK
    <3> QED BY <1>12, <3>2, <3>3 DEF Reset
  <2>3. pc' \in [Threads -> Places] /\ size' \in [Threads -> Nat] /\ aborted' \subseteq Threads
    BY <1>12 DEF Reset, TypeOK
  <2>4. sent' \in Nat /\ received' \in Seq(Nat)
    BY <1>12 DEF Reset
  <2>6. {short', spurious'} \subseteq BOOLEAN
    BY <1>12, Zenon DEF Reset, TypeOK
  <2>5. slot' \in [0..(BufCount - 1) -> [id : Nat, len : Nat]] /\ wrbufind' \in 0..(BufCount - 1) /\ rdbufind' \in 0..(BufCount - 1)
    BY <1>12, <2>2 DEF Reset
  <2> QED BY <2>1, <2>3, <2>4, <2>5, <2>6 DEF TypeOK
<1>13. CASE UNCHANGED vars
  BY <1>13 DEF vars, TypeOK, em!TypeOK, fu!TypeOK, ring, sems, ghosts
<1> QED
  BY <1>1, <1>2, <1>3, <1>4, <1>5, <1>6, <1>7, <1>8, <1>9, <1>10, <1>11, <1>12, <1>13 DEF Next, Run

\* The ring, the semaphores and the threads' calls have their types, however many threads there are: no count exceeds
\* the semaphore's maximum and no index the ring.
THEOREM TypeCorrect == Spec => []TypeOK
BY InitTypes, StepTypes, PTL DEF Spec

-----------------------------------------------------------------------------
(* The buffers.                                                            *)

LEMMA AtType ==
  ASSUME NEW S \in {Readers, Writers}, NEW place
  PROVE  At(place, S) \in Nat /\ At(place, S)' \in Nat
<1>1. IsFiniteSet(S)
  BY ThreadAssumption
<1>2. IsFiniteSet({x \in S : pc[x] = place}) /\ IsFiniteSet({x \in S : pc'[x] = place})
  BY <1>1, FS_Subset
<1> QED BY <1>2, FS_CardinalityType DEF At

\* When one thread moves, one more is where it goes and one fewer where it was.
LEMMA ThreadMoves ==
  ASSUME TypeOK, NEW t \in Threads, NEW from, NEW to \in Places, from # to, Goto(t, from, to),
         NEW S \in {Readers, Writers}, NEW place
  PROVE  At(place, S)' =
           IF t \notin S THEN At(place, S)
           ELSE IF place = to THEN At(place, S) + 1
           ELSE IF place = from THEN At(place, S) - 1
           ELSE At(place, S)
<1> DEFINE F == {x \in S : pc[x] = place}
           G == {x \in S : pc'[x] = place}
<1>1. IsFiniteSet(F) /\ Cardinality(F) \in Nat /\ At(place, S) = Cardinality(F) /\ At(place, S)' = Cardinality(G)
  <2>1. IsFiniteSet(S)
    BY ThreadAssumption
  <2>2. IsFiniteSet(F)
    BY <2>1, FS_Subset
  <2> QED BY <2>2, FS_CardinalityType DEF At
<1>2. pc[t] = from /\ pc'[t] = to /\ \A x \in S : x # t => pc'[x] = pc[x]
  BY DEF TypeOK, Goto, Threads
<1> HIDE DEF F, G
<1>3. CASE t \notin S
  <2>1. G = F
    BY <1>2, <1>3 DEF F, G
  <2> QED BY <1>1, <1>3, <2>1
<1>4. CASE t \in S /\ place = to
  <2>1. G = F \cup {t} /\ t \notin F
    BY <1>2, <1>4 DEF F, G
  <2>2. Cardinality(F \cup {t}) = Cardinality(F) + 1
    BY <1>1, <2>1, FS_AddElement
  <2> QED BY <1>1, <1>4, <2>1, <2>2
<1>5. CASE t \in S /\ place # to /\ place = from
  <2>1. G = F \ {t} /\ t \in F
    BY <1>2, <1>5 DEF F, G
  <2>2. Cardinality(F \ {t}) = Cardinality(F) - 1
    BY <1>1, <2>1, FS_RemoveElement
  <2> QED BY <1>1, <1>5, <2>1, <2>2
<1>6. CASE t \in S /\ place # to /\ place # from
  <2>1. G = F
    BY <1>2, <1>6 DEF F, G
  <2> QED BY <1>1, <1>6, <2>1
<1> QED BY <1>3, <1>4, <1>5, <1>6

\* A count is raised when it is not at its maximum.
LEMMA Raises ==
  ASSUME TypeOK
  PROVE  /\ em!Give /\ emptysem.count < CountMax => emptysem'.count = emptysem.count + 1
         /\ fu!Give /\ fullsem.count < CountMax => fullsem'.count = fullsem.count + 1
BY DEF TypeOK, em!TypeOK, fu!TypeOK, em!Give, fu!Give, em!Raised, fu!Raised

LEMMA StepCounted == TypeOK /\ BuffersCounted /\ [Next]_vars => BuffersCounted'
<1> SUFFICES ASSUME TypeOK, BuffersCounted, [Next]_vars PROVE BuffersCounted'
  OBVIOUS
<1> DEFINE wc == At("copy", Writers)
           wg == At("give", Writers)
           rc == At("copy", Readers)
           rg == At("give", Readers)
<1>0. /\ {"idle", "sem", "asleep", "copy", "give"} \subseteq Places
      /\ emptysem.count \in Nat /\ fullsem.count \in Nat /\ emptysem.count <= CountMax /\ fullsem.count <= CountMax
      /\ CountMax \in Nat /\ BufCount \in Nat /\ BufCount <= CountMax
      /\ Readers \subseteq Threads /\ Writers \subseteq Threads /\ Readers \cap Writers = {}
      /\ wc \in Nat /\ wg \in Nat /\ rc \in Nat /\ rg \in Nat
  <2>1. wc \in Nat /\ wg \in Nat /\ rc \in Nat /\ rg \in Nat
    BY AtType
  <2> QED BY <2>1, CountAssumption, ThreadAssumption DEF TypeOK, em!TypeOK, fu!TypeOK, Places, Threads
<1> HIDE DEF wc, wg, rc, rg
<1>a. emptysem.count + wc + wg + fullsem.count + rc + rg = BufCount
  BY DEF BuffersCounted, wc, wg, rc, rg
<1>b. BuffersCounted' <=> emptysem'.count + wc' + wg' + fullsem'.count + rc' + rg' = BufCount
  BY DEF BuffersCounted, wc, wg, rc, rg
<1>c. ASSUME NEW t \in Threads, NEW from, NEW to \in Places, from # to, Goto(t, from, to)
      PROVE  /\ wc' = IF t \notin Writers THEN wc ELSE IF to = "copy" THEN wc + 1 ELSE IF from = "copy" THEN wc - 1 ELSE wc
             /\ wg' = IF t \notin Writers THEN wg ELSE IF to = "give" THEN wg + 1 ELSE IF from = "give" THEN wg - 1 ELSE wg
             /\ rc' = IF t \notin Readers THEN rc ELSE IF to = "copy" THEN rc + 1 ELSE IF from = "copy" THEN rc - 1 ELSE rc
             /\ rg' = IF t \notin Readers THEN rg ELSE IF to = "give" THEN rg + 1 ELSE IF from = "give" THEN rg - 1 ELSE rg
  BY <1>c, ThreadMoves DEF wc, wg, rc, rg
<1>d. pc' = pc => wc' = wc /\ wg' = wg /\ rc' = rc /\ rg' = rg
  BY DEF wc, wg, rc, rg, At
<1>e. ASSUME NEW t \in Threads, Goto(t, "give", "idle")
      PROVE  /\ t \in Writers => wg >= 1
             /\ t \in Readers => rg >= 1
  <2>2. wg' \in Nat /\ rg' \in Nat
    BY AtType DEF wg, rg
  <2> QED BY <1>0, <1>c, <1>e, <2>2
<1>1. ASSUME NEW t \in Threads, NEW n, Read(t, n) \/ Write(t, n) PROVE BuffersCounted'
  <2>1. Goto(t, "idle", "sem") /\ UNCHANGED sems
    BY <1>1 DEF Read, Write
  <2> QED BY <1>0, <1>a, <1>b, <1>c, <2>1 DEF sems
<1>2. ASSUME NEW t \in Threads, WaitFull(t) PROVE BuffersCounted'
  <2>1. t \in Readers /\ t \notin Writers /\ emptysem' = emptysem
    BY <1>0, <1>2 DEF WaitFull
  <2>2. CASE (fu!Take /\ Goto(t, "sem", "copy")) \/ (fu!Return(t) /\ Goto(t, "asleep", "copy"))
    <3>1. fullsem'.count = fullsem.count - 1
      BY <2>2 DEF fu!Take, fu!Return, TypeOK, fu!TypeOK
    <3>2. rc' = rc + 1 /\ rg' = rg /\ wc' = wc /\ wg' = wg
      BY <1>0, <1>c, <2>1, <2>2
    <3>3. emptysem'.count = emptysem.count
      BY <2>1
    <3> QED BY <1>0, <1>a, <1>b, <3>1, <3>2, <3>3
  <2>3. CASE fu!Sleep(t) /\ Goto(t, "sem", "asleep")
    <3>1. fullsem'.count = fullsem.count
      BY <2>3 DEF fu!Sleep, TypeOK, fu!TypeOK
    <3>2. rc' = rc /\ rg' = rg /\ wc' = wc /\ wg' = wg
      BY <1>0, <1>c, <2>1, <2>3
    <3> QED BY <1>a, <1>b, <2>1, <3>1, <3>2
  <2> QED BY <1>2, <2>2, <2>3 DEF WaitFull
<1>3. ASSUME NEW t \in Threads, WaitEmpty(t) PROVE BuffersCounted'
  <2>1. t \in Writers /\ t \notin Readers /\ fullsem' = fullsem
    BY <1>0, <1>3 DEF WaitEmpty
  <2>2. CASE (em!Take /\ Goto(t, "sem", "copy")) \/ (em!Return(t) /\ Goto(t, "asleep", "copy"))
    <3>1. emptysem'.count = emptysem.count - 1
      BY <2>2 DEF em!Take, em!Return, TypeOK, em!TypeOK
    <3>2. wc' = wc + 1 /\ wg' = wg /\ rc' = rc /\ rg' = rg
      BY <1>0, <1>c, <2>1, <2>2
    <3>3. fullsem'.count = fullsem.count
      BY <2>1
    <3> QED BY <1>0, <1>a, <1>b, <3>1, <3>2, <3>3
  <2>3. CASE em!Sleep(t) /\ Goto(t, "sem", "asleep")
    <3>1. emptysem'.count = emptysem.count
      BY <2>3 DEF em!Sleep, TypeOK, em!TypeOK
    <3>2. rc' = rc /\ rg' = rg /\ wc' = wc /\ wg' = wg
      BY <1>0, <1>c, <2>1, <2>3
    <3> QED BY <1>a, <1>b, <2>1, <3>1, <3>2
  <2> QED BY <1>3, <2>2, <2>3 DEF WaitEmpty
<1>4. ASSUME NEW t \in Threads, CopyOut(t) PROVE BuffersCounted'
  <2>1. t \in Readers /\ t \notin Writers /\ Goto(t, "copy", "give") /\ UNCHANGED sems
    BY <1>0, <1>4 DEF CopyOut
  <2>2. rc' = rc - 1 /\ rg' = rg + 1 /\ wc' = wc /\ wg' = wg
    BY <1>0, <1>c, <2>1
  <2> QED BY <1>0, <1>a, <1>b, <2>1, <2>2 DEF sems
<1>5. ASSUME NEW t \in Threads, CopyIn(t) PROVE BuffersCounted'
  <2>1. t \in Writers /\ t \notin Readers /\ Goto(t, "copy", "give") /\ UNCHANGED sems
    BY <1>0, <1>5 DEF CopyIn
  <2>2. wc' = wc - 1 /\ wg' = wg + 1 /\ rc' = rc /\ rg' = rg
    BY <1>0, <1>c, <2>1
  <2> QED BY <1>0, <1>a, <1>b, <2>1, <2>2 DEF sems
<1>6. ASSUME NEW t \in Threads, GiveEmpty(t) PROVE BuffersCounted'
  <2>1. t \in Readers /\ t \notin Writers /\ Goto(t, "give", "idle") /\ fullsem' = fullsem /\ em!Give
    BY <1>0, <1>6 DEF GiveEmpty
  <2>2. rg' = rg - 1 /\ rc' = rc /\ wc' = wc /\ wg' = wg
    BY <1>0, <1>c, <2>1
  <2>3. emptysem'.count = emptysem.count + 1
    BY <1>0, <1>a, <1>e, <2>1, Raises
  <2> QED BY <1>0, <1>a, <1>b, <2>1, <2>2, <2>3
<1>7. ASSUME NEW t \in Threads, GiveFull(t) PROVE BuffersCounted'
  <2>1. t \in Writers /\ t \notin Readers /\ Goto(t, "give", "idle") /\ emptysem' = emptysem /\ fu!Give
    BY <1>0, <1>7 DEF GiveFull
  <2>2. wg' = wg - 1 /\ rc' = rc /\ wc' = wc /\ rg' = rg
    BY <1>0, <1>c, <2>1
  <2>3. fullsem'.count = fullsem.count + 1
    BY <1>0, <1>a, <1>e, <2>1, Raises
  <2> QED BY <1>0, <1>a, <1>b, <2>1, <2>2, <2>3
<1>8. ASSUME NEW t \in Threads, Timeout(t) PROVE BuffersCounted'
  <2>1. emptysem'.count = emptysem.count /\ fullsem'.count = fullsem.count
    BY <1>8 DEF Timeout, em!Timeout, fu!Timeout, TypeOK, em!TypeOK, fu!TypeOK
  <2>2. wc' = wc /\ wg' = wg /\ rc' = rc /\ rg' = rg
    BY <1>0, <1>8, <1>c DEF Timeout
  <2> QED BY <1>a, <1>b, <2>1, <2>2
<1>9. ASSUME NEW t \in Threads, WakeSpuriously(t) PROVE BuffersCounted'
  <2>1. emptysem'.count = emptysem.count /\ fullsem'.count = fullsem.count /\ pc' = pc
    BY <1>9 DEF WakeSpuriously, em!Wake, fu!Wake, TypeOK, em!TypeOK, fu!TypeOK
  <2> QED BY <1>a, <1>b, <1>d, <2>1
<1>10. ASSUME NEW t \in Threads, Abort(t) PROVE BuffersCounted'
  BY <1>10, <1>a, <1>b, <1>d DEF Abort, sems
<1>11. ASSUME Reset PROVE BuffersCounted'
  <2>1. emptysem'.count = BufCount /\ fullsem'.count = 0 /\ pc' = pc
    BY <1>11 DEF Reset, em!Reset, fu!Reset, TypeOK, em!TypeOK, fu!TypeOK
  <2>2. \A S \in {Readers, Writers} : {t \in S : pc[t] = "copy"} = {} /\ {t \in S : pc[t] = "give"} = {}
    BY <1>11, <1>0 DEF Reset
  <2>3. wc = 0 /\ wg = 0 /\ rc = 0 /\ rg = 0
    BY <2>2, FS_EmptySet DEF wc, wg, rc, rg, At
  <2> QED BY <1>0, <1>b, <1>d, <2>1, <2>3
<1>12. CASE UNCHANGED vars
  BY <1>12, <1>a, <1>b, <1>d DEF vars, sems
<1> QED
  BY <1>1, <1>2, <1>3, <1>4, <1>5, <1>6, <1>7, <1>8, <1>9, <1>10, <1>11, <1>12 DEF Next, Run

LEMMA InitCounted == Init => BuffersCounted
<1> SUFFICES ASSUME Init PROVE BuffersCounted
  OBVIOUS
<1>1. \A S \in {Readers, Writers} : {t \in S : pc[t] = "copy"} = {} /\ {t \in S : pc[t] = "give"} = {}
  BY DEF Init, Threads
<1>2. \A S \in {Readers, Writers} : At("copy", S) = 0 /\ At("give", S) = 0
  BY <1>1, FS_EmptySet DEF At
<1>3. emptysem.count = BufCount /\ fullsem.count = 0 /\ BufCount \in Nat
  BY CountAssumption DEF Init, em!Init, fu!Init
<1> QED BY <1>2, <1>3 DEF BuffersCounted

\* Every buffer is accounted for, whatever the readers, writers, timeouts, spurious wakeups and short buffers do: no
\* semaphore is raised beyond the number of buffers, and no buffer is lost to a write that was refused.
THEOREM BuffersAreCounted == Spec => []BuffersCounted
<1>1. Init => TypeOK /\ BuffersCounted
  BY InitTypes, InitCounted
<1>2. TypeOK /\ BuffersCounted /\ [Next]_vars => (TypeOK /\ BuffersCounted)'
  BY StepTypes, StepCounted
<1> QED BY <1>1, <1>2, PTL DEF Spec

-----------------------------------------------------------------------------
(* The messages.                                                           *)

Ids == {slot[i].id : i \in Held}

\* No message is in two buffers: taking one out of a buffer takes it out of the ring.
InOneBuffer == \A i, j \in Held : slot[i].id = slot[j].id => i = j

Kept == NothingLost /\ InOneBuffer

\* A reader that takes a message takes one that nobody has received.
LEMMA Received ==
  ASSUME TypeOK, Kept, NEW i \in Held,
         slot' = [slot EXCEPT ![i] = Empty], received' = Append(received, slot[i].id), sent' = sent
  PROVE  Kept'
<1> DEFINE m == slot[i].id
<1>1. /\ slot \in [0..(BufCount - 1) -> [id : Nat, len : Nat]] /\ received \in Seq(Nat)
      /\ i \in 0..(BufCount - 1) /\ m \in Nat
  BY DEF TypeOK, Held
<1>2. Held' = Held \ {i} /\ \A j \in Held' : slot'[j] = slot[j]
  BY <1>1 DEF Held, Empty
<1>3. Ids' = Ids \ {m} /\ m \in Ids
  BY <1>2 DEF Ids, Kept, InOneBuffer
<1>4. ToSet(received') = ToSet(received) \cup {m}
  <2>1. DOMAIN received = 1..Len(received) /\ DOMAIN received' = 1..(Len(received) + 1) /\ Len(received) \in Nat
    BY <1>1
  <2>2. received'[Len(received) + 1] = m /\ \A k \in 1..Len(received) : received'[k] = received[k]
    BY <1>1
  <2>3. 1..(Len(received) + 1) = 1..Len(received) \cup {Len(received) + 1}
    BY <2>1
  <2> QED BY <2>1, <2>2, <2>3 DEF ToSet
<1>5. IsInjective(received')
  <2>1. DOMAIN received = 1..Len(received) /\ DOMAIN received' = 1..(Len(received) + 1) /\ Len(received) \in Nat
    BY <1>1
  <2>2. received'[Len(received) + 1] = m /\ \A k \in 1..Len(received) : received'[k] = received[k]
    BY <1>1
  <2>3. \A k \in DOMAIN received : received[k] # m
    BY <1>3 DEF Kept, NothingLost, Ids, ToSet
  <2>4. \A k, l \in DOMAIN received : received[k] = received[l] => k = l
    BY DEF Kept, NothingLost, IsInjective
  <2>5. \A k \in DOMAIN received' : k \in DOMAIN received \/ k = Len(received) + 1
    BY <2>1
  <2> QED BY <2>1, <2>2, <2>3, <2>4, <2>5 DEF IsInjective
<1>6. Ids \cap ToSet(received) = {} /\ Ids \cup ToSet(received) = 1..sent
  BY DEF Kept, NothingLost, Ids
<1>7. Ids' \cap ToSet(received') = {} /\ Ids' \cup ToSet(received') = 1..sent'
  BY <1>3, <1>4, <1>6
<1>8. InOneBuffer'
  BY <1>2 DEF Kept, InOneBuffer
<1> QED BY <1>5, <1>7, <1>8 DEF Kept, NothingLost, Ids

\* A writer that puts a message in gives it a number that no message has.
LEMMA PutIn ==
  ASSUME TypeOK, Kept, NEW i \in 0..(BufCount - 1), NEW n, slot[i] = Empty,
         sent' = sent + 1, slot' = [slot EXCEPT ![i] = [id |-> sent + 1, len |-> n]], received' = received
  PROVE  Kept'
<1>1. slot \in [0..(BufCount - 1) -> [id : Nat, len : Nat]] /\ sent \in Nat
  BY DEF TypeOK
<1>2. i \notin Held /\ Held' = Held \cup {i} /\ slot'[i].id = sent + 1 /\ \A j \in Held : slot'[j] = slot[j]
  <2>1. [id |-> sent + 1, len |-> n] # Empty
    BY <1>1 DEF Empty
  <2> QED BY <1>1, <2>1 DEF Held
<1>3. Ids' = Ids \cup {sent + 1}
  BY <1>2 DEF Ids
<1>4. Ids \cap ToSet(received) = {} /\ Ids \cup ToSet(received) = 1..sent /\ IsInjective(received)
  BY DEF Kept, NothingLost, Ids
<1>5. sent + 1 \notin 1..sent /\ 1..(sent + 1) = 1..sent \cup {sent + 1}
  BY <1>1
<1>6. Ids' \cap ToSet(received') = {} /\ Ids' \cup ToSet(received') = 1..sent' /\ IsInjective(received')
  BY <1>3, <1>4, <1>5
<1>7. InOneBuffer'
  <2>1. \A j \in Held : slot[j].id # sent + 1
    BY <1>4, <1>5 DEF Ids
  <2> QED BY <1>2, <2>1 DEF Kept, InOneBuffer
<1> QED BY <1>6, <1>7 DEF Kept, NothingLost, Ids

\* An empty ring, of which nothing has been received.
LEMMA NothingPut == slot = [i \in 0..(BufCount - 1) |-> Empty] /\ sent = 0 /\ received = <<>> => Kept
<1> SUFFICES ASSUME slot = [i \in 0..(BufCount - 1) |-> Empty], sent = 0, received = <<>> PROVE Kept
  OBVIOUS
<1>1. Held = {}
  BY DEF Held
<1>2. Ids = {} /\ InOneBuffer
  BY <1>1 DEF Ids, InOneBuffer
<1>3. ToSet(received) = {} /\ IsInjective(received) /\ 1..sent = {}
  BY DEF ToSet, IsInjective
<1> QED BY <1>2, <1>3 DEF Kept, NothingLost, Ids

LEMMA StepKept == TypeOK /\ Kept /\ [Next]_vars => Kept'
<1> SUFFICES ASSUME TypeOK, Kept, [Next]_vars PROVE Kept'
  OBVIOUS
<1>1. ASSUME UNCHANGED <<slot, sent, received>> PROVE Kept'
  BY <1>1 DEF Kept, NothingLost, InOneBuffer, Held
<1>2. ASSUME NEW t \in Threads, CopyOut(t) PROVE Kept'
  <2>1. CASE UNCHANGED <<slot, received>>
    BY <1>1, <1>2, <2>1 DEF CopyOut
  <2>2. CASE /\ slot[rdbufind] # Empty
             /\ slot' = [slot EXCEPT ![rdbufind] = Empty]
             /\ received' = Append(received, slot[rdbufind].id)
    <3>1. rdbufind \in Held /\ sent' = sent
      BY <1>2, <2>2 DEF TypeOK, Held, CopyOut
    <3> QED BY <2>2, <3>1, Received
  <2> QED BY <1>2, <2>1, <2>2 DEF CopyOut
<1>3. ASSUME NEW t \in Threads, CopyIn(t) PROVE Kept'
  <2>1. CASE UNCHANGED <<slot, sent>>
    BY <1>1, <1>3, <2>1 DEF CopyIn
  <2>2. CASE /\ slot[wrbufind] = Empty
             /\ sent' = sent + 1
             /\ slot' = [slot EXCEPT ![wrbufind] = [id |-> sent', len |-> size[t]]]
    <3>1. wrbufind \in 0..(BufCount - 1) /\ received' = received
      BY <1>3 DEF TypeOK, CopyIn
    <3> QED BY <2>2, <3>1, PutIn
  <2> QED BY <1>3, <2>1, <2>2 DEF CopyIn
<1>4. ASSUME Reset PROVE Kept'
  <2>1. (slot = [i \in 0..(BufCount - 1) |-> Empty] /\ sent = 0 /\ received = <<>>)'
    BY <1>4 DEF Reset
  <2>2. Held' = {}
    BY <2>1 DEF Held
  <2>3. InOneBuffer' /\ Ids' = {}
    BY <2>2 DEF Ids, InOneBuffer
  <2>4. ToSet(received') = {} /\ IsInjective(received') /\ 1..sent' = {}
    BY <2>1 DEF ToSet, IsInjective
  <2> QED BY <2>3, <2>4 DEF Kept, NothingLost, Ids
<1>5. ASSUME NEW t \in Threads, NEW n, Read(t, n) \/ Write(t, n) PROVE Kept'
  BY <1>1, <1>5 DEF Read, Write, ring, ghosts
<1>6. ASSUME NEW t \in Threads, WaitFull(t) \/ GiveEmpty(t) \/ WaitEmpty(t) \/ GiveFull(t) PROVE Kept'
  BY <1>1, <1>6 DEF WaitFull, GiveEmpty, WaitEmpty, GiveFull, ring, ghosts
<1>7. ASSUME NEW t \in Threads, Timeout(t) \/ WakeSpuriously(t) \/ Abort(t) PROVE Kept'
  BY <1>1, <1>7 DEF Timeout, WakeSpuriously, Abort, ring, ghosts
<1>8. CASE UNCHANGED vars
  BY <1>1, <1>8 DEF vars, ring, ghosts
<1> QED BY <1>2, <1>3, <1>4, <1>5, <1>6, <1>7, <1>8 DEF Next, Run

\* A message that a write put in has been received or is in a buffer, not both, and is received once, whatever the sizes
\* of the readers' buffers: a read that was cut short leaves the message to a later one.
THEOREM NothingIsLost == Spec => []NothingLost
<1>1. Init => TypeOK /\ Kept
  BY InitTypes, NothingPut DEF Init
<1>2. TypeOK /\ Kept /\ [Next]_vars => (TypeOK /\ Kept)'
  BY StepTypes, StepKept
<1>3. Kept => NothingLost
  BY DEF Kept
<1> QED BY <1>1, <1>2, <1>3, PTL DEF Spec

-----------------------------------------------------------------------------
(* The assertion in Semaphore::Wait.                                       *)

\* A semaphore's sleepers are threads that wait for it, and a thread that is
\* the only one to wait for its semaphore finds it raised when it is woken.
SleepInv ==
  /\ fullsem.asleep \cap fullsem.woken = {} /\ emptysem.asleep \cap emptysem.woken = {}
  /\ \A t \in fullsem.asleep \cup fullsem.woken : t \in Readers /\ pc[t] = "asleep"
  /\ \A t \in emptysem.asleep \cup emptysem.woken : t \in Writers /\ pc[t] = "asleep"
  /\ ~spurious =>
       /\ \A t \in fullsem.woken : Readers = {t} => fullsem.count > 0
       /\ \A t \in emptysem.woken : Writers = {t} => emptysem.count > 0

LEMMA InitSleep == Init => SleepInv /\ AbortNeedsContention
BY DEF Init, em!Init, fu!Init, SleepInv, AbortNeedsContention

\* What the semaphores do, spelled out.
LEMMA SemaphoreSteps ==
  ASSUME TypeOK, NEW t \in Threads
  PROVE  /\ em!Take => /\ emptysem'.asleep = emptysem.asleep /\ emptysem'.woken = emptysem.woken
                       /\ emptysem'.count = emptysem.count - 1
         /\ em!Sleep(t) => /\ emptysem'.asleep = emptysem.asleep \cup {t} /\ emptysem'.woken = emptysem.woken
                           /\ emptysem'.count = emptysem.count
         /\ em!Return(t) => /\ emptysem'.asleep = emptysem.asleep /\ emptysem'.woken = emptysem.woken \ {t}
                            /\ emptysem'.count = emptysem.count - 1
         /\ em!Timeout(t) => /\ emptysem'.asleep = emptysem.asleep \ {t} /\ emptysem'.woken = emptysem.woken
                             /\ emptysem'.count = emptysem.count
         /\ em!Wake(t) => /\ emptysem'.asleep = emptysem.asleep \ {t} /\ emptysem'.woken = emptysem.woken \cup {t}
                          /\ emptysem'.count = emptysem.count
         /\ em!Give => /\ emptysem'.asleep \cup emptysem'.woken = emptysem.asleep \cup emptysem.woken
                       /\ emptysem'.asleep \cap emptysem'.woken \subseteq emptysem.asleep \cap emptysem.woken
                       /\ emptysem'.count > 0
         /\ em!Reset => emptysem'.asleep = emptysem.asleep /\ emptysem'.woken = emptysem.woken
         /\ fu!Take => /\ fullsem'.asleep = fullsem.asleep /\ fullsem'.woken = fullsem.woken
                       /\ fullsem'.count = fullsem.count - 1
         /\ fu!Sleep(t) => /\ fullsem'.asleep = fullsem.asleep \cup {t} /\ fullsem'.woken = fullsem.woken
                           /\ fullsem'.count = fullsem.count
         /\ fu!Return(t) => /\ fullsem'.asleep = fullsem.asleep /\ fullsem'.woken = fullsem.woken \ {t}
                            /\ fullsem'.count = fullsem.count - 1
         /\ fu!Timeout(t) => /\ fullsem'.asleep = fullsem.asleep \ {t} /\ fullsem'.woken = fullsem.woken
                             /\ fullsem'.count = fullsem.count
         /\ fu!Wake(t) => /\ fullsem'.asleep = fullsem.asleep \ {t} /\ fullsem'.woken = fullsem.woken \cup {t}
                          /\ fullsem'.count = fullsem.count
         /\ fu!Give => /\ fullsem'.asleep \cup fullsem'.woken = fullsem.asleep \cup fullsem.woken
                       /\ fullsem'.asleep \cap fullsem'.woken \subseteq fullsem.asleep \cap fullsem.woken
                       /\ fullsem'.count > 0
         /\ fu!Reset => fullsem'.asleep = fullsem.asleep /\ fullsem'.woken = fullsem.woken
<1> USE DEF TypeOK, em!TypeOK, fu!TypeOK
<1>1. em!Raised > 0 /\ fu!Raised > 0
  BY CountAssumption DEF em!Raised, fu!Raised
<1>2. em!Give => /\ emptysem'.asleep \cup emptysem'.woken = emptysem.asleep \cup emptysem.woken
                 /\ emptysem'.asleep \cap emptysem'.woken \subseteq emptysem.asleep \cap emptysem.woken
                 /\ emptysem'.count > 0
  <2>1. CASE emptysem' = [emptysem EXCEPT !.count = em!Raised]
    BY <1>1, <2>1
  <2>2. ASSUME NEW u \in emptysem.asleep,
               emptysem' = [count |-> em!Raised, asleep |-> emptysem.asleep \ {u}, woken |-> emptysem.woken \cup {u}]
        PROVE  /\ emptysem'.asleep \cup emptysem'.woken = emptysem.asleep \cup emptysem.woken
               /\ emptysem'.asleep \cap emptysem'.woken \subseteq emptysem.asleep \cap emptysem.woken
               /\ emptysem'.count > 0
    BY <1>1, <2>2
  <2> QED BY <2>1, <2>2 DEF em!Give
<1>3. fu!Give => /\ fullsem'.asleep \cup fullsem'.woken = fullsem.asleep \cup fullsem.woken
                 /\ fullsem'.asleep \cap fullsem'.woken \subseteq fullsem.asleep \cap fullsem.woken
                 /\ fullsem'.count > 0
  <2>1. CASE fullsem' = [fullsem EXCEPT !.count = fu!Raised]
    BY <1>1, <2>1
  <2>2. ASSUME NEW u \in fullsem.asleep,
               fullsem' = [count |-> fu!Raised, asleep |-> fullsem.asleep \ {u}, woken |-> fullsem.woken \cup {u}]
        PROVE  /\ fullsem'.asleep \cup fullsem'.woken = fullsem.asleep \cup fullsem.woken
               /\ fullsem'.asleep \cap fullsem'.woken \subseteq fullsem.asleep \cap fullsem.woken
               /\ fullsem'.count > 0
    BY <1>1, <2>2
  <2> QED BY <2>1, <2>2 DEF fu!Give
<1>4. /\ em!Take => /\ emptysem'.asleep = emptysem.asleep /\ emptysem'.woken = emptysem.woken
                    /\ emptysem'.count = emptysem.count - 1
      /\ em!Sleep(t) => /\ emptysem'.asleep = emptysem.asleep \cup {t} /\ emptysem'.woken = emptysem.woken
                        /\ emptysem'.count = emptysem.count
      /\ em!Return(t) => /\ emptysem'.asleep = emptysem.asleep /\ emptysem'.woken = emptysem.woken \ {t}
                         /\ emptysem'.count = emptysem.count - 1
      /\ em!Timeout(t) => /\ emptysem'.asleep = emptysem.asleep \ {t} /\ emptysem'.woken = emptysem.woken
                          /\ emptysem'.count = emptysem.count
      /\ em!Reset => emptysem'.asleep = emptysem.asleep /\ emptysem'.woken = emptysem.woken
  BY DEF em!Take, em!Sleep, em!Return, em!Timeout, em!Reset
<1>5. em!Wake(t) => /\ emptysem'.asleep = emptysem.asleep \ {t} /\ emptysem'.woken = emptysem.woken \cup {t}
                    /\ emptysem'.count = emptysem.count
  BY DEF em!Wake
<1>6. /\ fu!Take => /\ fullsem'.asleep = fullsem.asleep /\ fullsem'.woken = fullsem.woken
                    /\ fullsem'.count = fullsem.count - 1
      /\ fu!Sleep(t) => /\ fullsem'.asleep = fullsem.asleep \cup {t} /\ fullsem'.woken = fullsem.woken
                        /\ fullsem'.count = fullsem.count
      /\ fu!Return(t) => /\ fullsem'.asleep = fullsem.asleep /\ fullsem'.woken = fullsem.woken \ {t}
                         /\ fullsem'.count = fullsem.count - 1
      /\ fu!Timeout(t) => /\ fullsem'.asleep = fullsem.asleep \ {t} /\ fullsem'.woken = fullsem.woken
                          /\ fullsem'.count = fullsem.count
      /\ fu!Reset => fullsem'.asleep = fullsem.asleep /\ fullsem'.woken = fullsem.woken
  BY DEF fu!Take, fu!Sleep, fu!Return, fu!Timeout, fu!Reset
<1>7. fu!Wake(t) => /\ fullsem'.asleep = fullsem.asleep \ {t} /\ fullsem'.woken = fullsem.woken \cup {t}
                    /\ fullsem'.count = fullsem.count
  BY DEF fu!Wake
<1> HIDE DEF TypeOK, em!TypeOK, fu!TypeOK
<1> QED BY <1>2, <1>3, <1>4, <1>5, <1>6, <1>7

LEMMA StepSleep == TypeOK /\ SleepInv /\ [Next]_vars => SleepInv'
<1> SUFFICES ASSUME TypeOK, SleepInv, [Next]_vars PROVE SleepInv'
  OBVIOUS
<1> DEFINE W(t) == /\ ~(t \in fullsem.asleep /\ t \in fullsem.woken) /\ ~(t \in emptysem.asleep /\ t \in emptysem.woken)
                   /\ t \in fullsem.asleep \cup fullsem.woken => t \in Readers /\ pc[t] = "asleep"
                   /\ t \in emptysem.asleep \cup emptysem.woken => t \in Writers /\ pc[t] = "asleep"
                   /\ ~spurious /\ t \in fullsem.woken /\ Readers = {t} => fullsem.count > 0
                   /\ ~spurious /\ t \in emptysem.woken /\ Writers = {t} => emptysem.count > 0
<1>0. /\ SleepInv <=> \A t \in Threads : W(t)
      /\ (TypeOK' => (SleepInv' <=> \A t \in Threads : W(t)'))
  BY DEF SleepInv, TypeOK, em!TypeOK, fu!TypeOK
<1>00. TypeOK'
  BY StepTypes
<1>a. Readers \cap Writers = {} /\ Threads = Readers \cup Writers /\ fullsem.count \in Int /\ emptysem.count \in Int
  BY ThreadAssumption DEF Threads, TypeOK, em!TypeOK, fu!TypeOK
<1>b. pc \in [Threads -> Places]
  BY DEF TypeOK, Places
<1>1. ASSUME NEW t \in Threads, NEW n, Read(t, n) \/ Write(t, n) PROVE SleepInv'
  <2>1. /\ UNCHANGED <<sems, spurious>>
        /\ Goto(t, "idle", "sem")
    BY <1>1 DEF Read, Write
  <2> QED BY <1>0, <1>00, <1>b, <2>1 DEF sems, Goto
<1>2. ASSUME NEW t \in Threads, WaitFull(t) PROVE SleepInv'
  <2>0. t \in Readers /\ UNCHANGED <<emptysem, spurious>>
    BY <1>2 DEF WaitFull
  <2>1. CASE fu!Take /\ Goto(t, "sem", "copy")
    <3>1. /\ fullsem'.asleep = fullsem.asleep /\ fullsem'.woken = fullsem.woken
      BY <2>1, SemaphoreSteps
    <3>2. t \notin fullsem.woken
      BY <1>0, <2>1 DEF Goto
    <3> QED BY <1>0, <1>00, <1>a, <1>b, <2>0, <2>1, <3>1, <3>2 DEF Goto
  <2>2. CASE fu!Sleep(t) /\ Goto(t, "sem", "asleep")
    <3>1. fullsem'.asleep = fullsem.asleep \cup {t} /\ fullsem'.woken = fullsem.woken /\ fullsem'.count = fullsem.count
      BY <2>2, SemaphoreSteps
    <3> QED BY <1>0, <1>00, <1>b, <2>0, <2>2, <3>1 DEF Goto
  <2>3. CASE fu!Return(t) /\ Goto(t, "asleep", "copy")
    <3>1. fullsem'.asleep = fullsem.asleep /\ fullsem'.woken = fullsem.woken \ {t}
      BY <2>3, SemaphoreSteps
    <3>2. t \notin fullsem.asleep
      BY <1>0, <2>3 DEF fu!Return
    <3> QED BY <1>0, <1>00, <1>a, <1>b, <2>0, <2>3, <3>1, <3>2 DEF Goto
  <2> QED BY <1>2, <2>1, <2>2, <2>3 DEF WaitFull
<1>3. ASSUME NEW t \in Threads, WaitEmpty(t) PROVE SleepInv'
  <2>0. t \in Writers /\ UNCHANGED <<fullsem, spurious>>
    BY <1>3 DEF WaitEmpty
  <2>1. CASE em!Take /\ Goto(t, "sem", "copy")
    <3>1. emptysem'.asleep = emptysem.asleep /\ emptysem'.woken = emptysem.woken
      BY <2>1, SemaphoreSteps
    <3>2. t \notin emptysem.woken
      BY <1>0, <2>1 DEF Goto
    <3> QED BY <1>0, <1>00, <1>a, <1>b, <2>0, <2>1, <3>1, <3>2 DEF Goto
  <2>2. CASE em!Sleep(t) /\ Goto(t, "sem", "asleep")
    <3>1. emptysem'.asleep = emptysem.asleep \cup {t} /\ emptysem'.woken = emptysem.woken /\ emptysem'.count = emptysem.count
      BY <2>2, SemaphoreSteps
    <3> QED BY <1>0, <1>00, <1>b, <2>0, <2>2, <3>1 DEF Goto
  <2>3. CASE em!Return(t) /\ Goto(t, "asleep", "copy")
    <3>1. emptysem'.asleep = emptysem.asleep /\ emptysem'.woken = emptysem.woken \ {t}
      BY <2>3, SemaphoreSteps
    <3>2. t \notin emptysem.asleep
      BY <1>0, <2>3 DEF em!Return
    <3> QED BY <1>0, <1>00, <1>a, <1>b, <2>0, <2>3, <3>1, <3>2 DEF Goto
  <2> QED BY <1>3, <2>1, <2>2, <2>3 DEF WaitEmpty
<1>4. ASSUME NEW t \in Threads, CopyOut(t) \/ CopyIn(t) PROVE SleepInv'
  <2>1. UNCHANGED <<sems, spurious>> /\ Goto(t, "copy", "give")
    BY <1>4 DEF CopyOut, CopyIn
  <2> QED BY <1>0, <1>00, <1>b, <2>1 DEF sems, Goto
<1>5. ASSUME NEW t \in Threads, GiveEmpty(t) PROVE SleepInv'
  <2>1. UNCHANGED <<fullsem, spurious>> /\ Goto(t, "give", "idle") /\ em!Give
    BY <1>5 DEF GiveEmpty, ghosts
  <2>2. /\ emptysem'.asleep \cup emptysem'.woken = emptysem.asleep \cup emptysem.woken
        /\ emptysem'.asleep \cap emptysem'.woken \subseteq emptysem.asleep \cap emptysem.woken
        /\ emptysem'.count > 0
    BY <2>1, SemaphoreSteps
  <2> QED BY <1>0, <1>00, <1>b, <2>1, <2>2 DEF Goto
<1>6. ASSUME NEW t \in Threads, GiveFull(t) PROVE SleepInv'
  <2>1. UNCHANGED <<emptysem, spurious>> /\ Goto(t, "give", "idle") /\ fu!Give
    BY <1>6 DEF GiveFull, ghosts
  <2>2. /\ fullsem'.asleep \cup fullsem'.woken = fullsem.asleep \cup fullsem.woken
        /\ fullsem'.asleep \cap fullsem'.woken \subseteq fullsem.asleep \cap fullsem.woken
        /\ fullsem'.count > 0
    BY <2>1, SemaphoreSteps
  <2> QED BY <1>0, <1>00, <1>b, <2>1, <2>2 DEF Goto
<1>7. ASSUME NEW t \in Threads, Timeout(t) PROVE SleepInv'
  <2>1. Goto(t, "asleep", "idle") /\ spurious' = spurious
    BY <1>7 DEF Timeout, ghosts
  <2>2. CASE t \in Readers /\ fu!Timeout(t) /\ UNCHANGED emptysem
    <3>1. t \in fullsem.asleep /\ fullsem'.asleep = fullsem.asleep \ {t} /\ fullsem'.woken = fullsem.woken
          /\ fullsem'.count = fullsem.count
      BY <2>2, SemaphoreSteps DEF fu!Timeout
    <3> QED BY <1>0, <1>00, <1>a, <1>b, <2>1, <2>2, <3>1 DEF Goto
  <2>3. CASE t \in Writers /\ em!Timeout(t) /\ UNCHANGED fullsem
    <3>1. t \in emptysem.asleep /\ emptysem'.asleep = emptysem.asleep \ {t} /\ emptysem'.woken = emptysem.woken
          /\ emptysem'.count = emptysem.count
      BY <2>3, SemaphoreSteps DEF em!Timeout
    <3> QED BY <1>0, <1>00, <1>a, <1>b, <2>1, <2>3, <3>1 DEF Goto
  <2> QED BY <1>7, <2>2, <2>3 DEF Timeout
<1>8. ASSUME NEW t \in Threads, WakeSpuriously(t) PROVE SleepInv'
  <2>1. spurious' /\ pc' = pc
    BY <1>8 DEF WakeSpuriously
  <2>2. CASE fu!Wake(t) /\ UNCHANGED emptysem
    <3>1. t \in fullsem.asleep /\ fullsem'.asleep = fullsem.asleep \ {t} /\ fullsem'.woken = fullsem.woken \cup {t}
      BY <2>2, SemaphoreSteps DEF fu!Wake
    <3> QED BY <1>0, <1>00, <2>1, <2>2, <3>1
  <2>3. CASE em!Wake(t) /\ UNCHANGED fullsem
    <3>1. t \in emptysem.asleep /\ emptysem'.asleep = emptysem.asleep \ {t} /\ emptysem'.woken = emptysem.woken \cup {t}
      BY <2>3, SemaphoreSteps DEF em!Wake
    <3> QED BY <1>0, <1>00, <2>1, <2>3, <3>1
  <2> QED BY <1>8, <2>2, <2>3 DEF WakeSpuriously
<1>9. ASSUME NEW t \in Threads, Abort(t) PROVE SleepInv'
  BY <1>9 DEF Abort, sems, SleepInv
<1>10. CASE Reset
  <2>1. (\A t \in Threads : pc[t] = "idle") /\ UNCHANGED <<pc, spurious>>
    BY <1>10 DEF Reset
  <2>2. /\ emptysem' = [emptysem EXCEPT !.count = BufCount] /\ fullsem' = [fullsem EXCEPT !.count = 0]
    BY <1>10 DEF Reset, em!Reset, fu!Reset
  <2>3. /\ emptysem'.asleep = emptysem.asleep /\ emptysem'.woken = emptysem.woken
        /\ fullsem'.asleep = fullsem.asleep /\ fullsem'.woken = fullsem.woken
    BY <2>2 DEF TypeOK, em!TypeOK, fu!TypeOK
  <2> QED BY <1>0, <1>00, <2>1, <2>3
<1>11. CASE UNCHANGED vars
  BY <1>11 DEF vars, sems, SleepInv
<1> QED
  BY <1>1, <1>2, <1>3, <1>4, <1>5, <1>6, <1>7, <1>8, <1>9, <1>10, <1>11 DEF Next, Run

\* A thread fails the assertion only on a semaphore that others wait for too.
LEMMA StepAbort ==
  TypeOK /\ SleepInv /\ AbortNeedsContention /\ [Next]_vars => AbortNeedsContention'
<1> SUFFICES ASSUME TypeOK, SleepInv, AbortNeedsContention, [Next]_vars PROVE AbortNeedsContention'
  OBVIOUS
<1>1. ASSUME NEW t \in Threads, Abort(t) PROVE AbortNeedsContention'
  <2>1. aborted' = {t} /\ spurious' = spurious
    BY <1>1 DEF Abort
  <2>2. \/ t \in fullsem.woken /\ fullsem.count = 0
        \/ t \in emptysem.woken /\ emptysem.count = 0
    <3>1. fu!ReturnFails(t) \/ em!ReturnFails(t)
      BY <1>1 DEF Abort
    <3> QED BY <3>1 DEF fu!ReturnFails, em!ReturnFails
  <2> QED BY <2>1, <2>2, ThreadAssumption DEF SleepInv, AbortNeedsContention
<1>2. ASSUME aborted' = aborted, spurious => spurious' PROVE AbortNeedsContention'
  BY <1>2 DEF AbortNeedsContention
<1>3. ASSUME NEW t \in Threads, NEW n, Read(t, n) \/ Write(t, n) PROVE AbortNeedsContention'
  BY <1>2, <1>3 DEF Read, Write
<1>4. ASSUME NEW t \in Threads,
             WaitFull(t) \/ CopyOut(t) \/ GiveEmpty(t) \/ WaitEmpty(t) \/ CopyIn(t) \/ GiveFull(t)
             \/ Timeout(t) \/ WakeSpuriously(t)
      PROVE  AbortNeedsContention'
  BY <1>2, <1>4 DEF WaitFull, CopyOut, GiveEmpty, WaitEmpty, CopyIn, GiveFull, Timeout, WakeSpuriously
<1>5. CASE Reset
  BY <1>2, <1>5 DEF Reset
<1>6. CASE UNCHANGED vars
  BY <1>2, <1>6 DEF vars
<1> QED BY <1>1, <1>3, <1>4, <1>5, <1>6 DEF Next, Run

\* The assertion in Semaphore::Wait, "the count should never be 0 here", fails
\* only for one of several threads that wait for the same semaphore, or after a
\* wakeup without a signal.
THEOREM AssertionFailsOnlyUnderContention == Spec => []AbortNeedsContention
<1>1. Init => TypeOK /\ SleepInv /\ AbortNeedsContention
  BY InitTypes, InitSleep
<1>2. TypeOK /\ SleepInv /\ AbortNeedsContention /\ [Next]_vars
        => (TypeOK /\ SleepInv /\ AbortNeedsContention)'
  BY StepTypes, StepSleep, StepAbort
<1> QED BY <1>1, <1>2, PTL DEF Spec

-----------------------------------------------------------------------------
(* The order of the messages.                                              *)

WriterCopies == At("copy", Writers)
WriterGives == At("give", Writers)
ReaderCopies == At("copy", Readers)
ReaderGives == At("give", Readers)

\* The buffer d places ahead of the reading position.
Ahead(d) == IF rdbufind + d >= BufCount THEN rdbufind + d - BufCount ELSE rdbufind + d

\* Messages put in and not taken out.
Waiting == sent - Len(received)

\* As long as no reader's buffer was too small the messages not yet received
\* lie in the ring in their order from the reading position to the writing
\* position, and the rest of the ring is empty.
RingInv ==
  ~short =>
    /\ received = [i \in 1..Len(received) |-> i]
    /\ Waiting \in 0..BufCount
    /\ Waiting = fullsem.count + WriterGives + ReaderCopies
    /\ Cardinality(Held) = Waiting
    /\ wrbufind = IF Waiting = BufCount THEN rdbufind ELSE Ahead(Waiting)
    /\ \A d \in 0..(BufCount - 1) :
         /\ d < Waiting => slot[Ahead(d)].id = Len(received) + 1 + d
         /\ d >= Waiting => slot[Ahead(d)] = Empty

\* How a thread that moves changes the numbers of calls at work.
LEMMA CallCounts ==
  ASSUME TypeOK, NEW t \in Threads, NEW from, NEW to \in Places, from # to, Goto(t, from, to)
  PROVE  /\ WriterCopies' = IF t \notin Writers THEN WriterCopies ELSE IF to = "copy" THEN WriterCopies + 1
                            ELSE IF from = "copy" THEN WriterCopies - 1 ELSE WriterCopies
         /\ WriterGives' = IF t \notin Writers THEN WriterGives ELSE IF to = "give" THEN WriterGives + 1
                           ELSE IF from = "give" THEN WriterGives - 1 ELSE WriterGives
         /\ ReaderCopies' = IF t \notin Readers THEN ReaderCopies ELSE IF to = "copy" THEN ReaderCopies + 1
                            ELSE IF from = "copy" THEN ReaderCopies - 1 ELSE ReaderCopies
BY ThreadMoves DEF WriterCopies, WriterGives, ReaderCopies

LEMMA CallCountTypes ==
  /\ WriterCopies \in Nat /\ WriterGives \in Nat /\ ReaderCopies \in Nat /\ ReaderGives \in Nat
  /\ \A t \in Writers : pc[t] = "copy" => WriterCopies >= 1
  /\ \A t \in Readers : pc[t] = "copy" => ReaderCopies >= 1
<1>1. WriterCopies \in Nat /\ WriterGives \in Nat /\ ReaderCopies \in Nat /\ ReaderGives \in Nat
  BY AtType DEF WriterCopies, WriterGives, ReaderCopies, ReaderGives
<1>2. ASSUME NEW S \in {Readers, Writers}, NEW t \in S, pc[t] = "copy" PROVE At("copy", S) # 0
  <2> DEFINE C == {u \in S : pc[u] = "copy"}
  <2>1. IsFiniteSet(C)
    BY ThreadAssumption, FS_Subset
  <2>2. t \in C
    BY <1>2
  <2>3. Cardinality(C) # 0
    BY <2>1, <2>2, FS_EmptySet
  <2> QED BY <2>3 DEF At
<1> QED BY <1>1, <1>2 DEF WriterCopies, ReaderCopies

\* Places ahead are places in the ring, and different ones.
LEMMA AheadPlaces ==
  ASSUME TypeOK
  PROVE  /\ \A d \in 0..(BufCount - 1) : Ahead(d) \in 0..(BufCount - 1)
         /\ \A d, e \in 0..(BufCount - 1) : Ahead(d) = Ahead(e) => d = e
         /\ Ahead(0) = rdbufind
BY CountAssumption DEF TypeOK, Ahead

LEMMA HeldFinite == TypeOK => IsFiniteSet(Held)
<1> SUFFICES ASSUME TypeOK PROVE IsFiniteSet(Held)
  OBVIOUS
<1>1. Held \subseteq 0..(BufCount - 1)
  BY DEF TypeOK, Held
<1>2. IsFiniteSet(0..(BufCount - 1))
  BY CountAssumption, FS_Interval
<1> QED BY <1>1, <1>2, FS_Subset

\* The numbers the proofs do arithmetic with.
LEMMA Numbers ==
  ASSUME TypeOK, BuffersCounted
  PROVE  /\ BufCount \in Nat /\ BufCount > 0 /\ CountMax \in Nat /\ BufCount <= CountMax
         /\ emptysem.count \in Nat /\ fullsem.count \in Nat
         /\ sent \in Nat /\ Len(received) \in Nat
         /\ rdbufind \in 0..(BufCount - 1) /\ wrbufind \in 0..(BufCount - 1)
         /\ emptysem.count + WriterCopies + WriterGives + fullsem.count + ReaderCopies + ReaderGives = BufCount
BY CountAssumption DEF TypeOK, em!TypeOK, fu!TypeOK, BuffersCounted, WriterCopies, WriterGives, ReaderCopies, ReaderGives

\* Arithmetic on the counts.
LEMMA Sums ==
  \A e, wc, wg, f, rc, rg, n \in Nat : e + wc + wg + f + rc + rg = n /\ wc >= 1 => f + wg + rc < n
OBVIOUS

\* A reader takes the message at the reading position, the oldest one.
LEMMA CopyOutRing ==
  ASSUME TypeOK, BuffersCounted, RingInv, NEW t \in Threads, CopyOut(t), ~short'
  PROVE  RingInv'
<1> DEFINE n == Len(received)
           N == BufCount
<1>0. /\ N \in Nat /\ N > 0 /\ n \in Nat /\ sent \in Nat /\ rdbufind \in 0..(N - 1) /\ wrbufind \in 0..(N - 1)
      /\ emptysem.count \in Nat /\ fullsem.count \in Nat
      /\ WriterCopies \in Nat /\ WriterGives \in Nat /\ ReaderCopies \in Nat /\ ReaderGives \in Nat
      /\ emptysem.count + WriterCopies + WriterGives + fullsem.count + ReaderCopies + ReaderGives = N
  BY Numbers, CallCountTypes
<1>1. t \in Readers /\ t \notin Writers /\ Goto(t, "copy", "give") /\ pc[t] = "copy"
      /\ UNCHANGED <<wrbufind, sems, sent>> /\ rdbufind' = NextBuf(rdbufind)
  BY ThreadAssumption DEF CopyOut, Goto
<1>2. ~short
  BY DEF CopyOut
<1>3. /\ received = [i \in 1..n |-> i]
      /\ Waiting \in 0..N
      /\ Waiting = fullsem.count + WriterGives + ReaderCopies
      /\ Cardinality(Held) = Waiting
      /\ wrbufind = IF Waiting = N THEN rdbufind ELSE Ahead(Waiting)
      /\ \A d \in 0..(N - 1) : /\ d < Waiting => slot[Ahead(d)].id = n + 1 + d
                               /\ d >= Waiting => slot[Ahead(d)] = Empty
  BY <1>2 DEF RingInv
<1>4. Waiting \in 1..N
  <2>1. ReaderCopies >= 1
    BY <1>1, CallCountTypes
  <2>2. Waiting = fullsem.count + WriterGives + ReaderCopies /\ Waiting \in 0..N
    BY <1>3
  <2>3. fullsem.count \in Nat /\ WriterGives \in Nat /\ ReaderCopies \in Nat
    BY <1>0
  <2> QED BY <1>0, <2>1, <2>2, <2>3
<1>5. slot[rdbufind].id = n + 1 /\ slot[rdbufind] # Empty
  <2>1. 0 \in 0..(N - 1) /\ Ahead(0) = rdbufind /\ n \in Nat
    BY AheadPlaces, Numbers
  <2> QED BY <1>3, <1>4, <2>1 DEF Empty
<1>6. slot' = [slot EXCEPT ![rdbufind] = Empty] /\ received' = Append(received, n + 1)
  BY <1>2, <1>5 DEF CopyOut
<1>7. received \in Seq(Nat) /\ n \in Nat
  BY DEF TypeOK
<1>8. Len(received') = n + 1 /\ received' = [i \in 1..(n + 1) |-> i]
  <2>1. Len(received') = n + 1 /\ DOMAIN received' = 1..(n + 1)
    BY <1>6, <1>7
  <2>2. \A i \in 1..(n + 1) : received'[i] = i
    BY <1>3, <1>6, <1>7
  <2>3. received' = [i \in DOMAIN received' |-> received'[i]]
    BY <1>6, <1>7
  <2> QED BY <2>1, <2>2, <2>3
<1>9. Waiting' = Waiting - 1
  BY <1>1, <1>7, <1>8, Numbers DEF Waiting
<1>10. /\ \A d \in 0..(N - 2) : Ahead(d)' = Ahead(d + 1)
       /\ Ahead(N - 1)' = rdbufind
  <2>1. rdbufind' = IF rdbufind + 1 >= N THEN 0 ELSE rdbufind + 1
    BY <1>1 DEF NextBuf
  <2>5. N \in Nat /\ N > 0 /\ rdbufind \in 0..(N - 1)
    BY <1>0
  <2>2. ASSUME NEW d \in 0..(N - 2) PROVE Ahead(d)' = Ahead(d + 1)
    <3>1. /\ Ahead(d)' = IF rdbufind' + d >= N THEN rdbufind' + d - N ELSE rdbufind' + d
          /\ Ahead(d + 1) = IF rdbufind + (d + 1) >= N THEN rdbufind + (d + 1) - N ELSE rdbufind + (d + 1)
      BY DEF Ahead
    <3>2. CASE rdbufind + 1 >= N
      BY <2>1, <2>5, <3>1, <3>2
    <3>3. CASE ~(rdbufind + 1 >= N)
      BY <2>1, <2>5, <3>1, <3>3
    <3> QED BY <3>2, <3>3
  <2>3. Ahead(N - 1)' = IF rdbufind' + (N - 1) >= N THEN rdbufind' + (N - 1) - N ELSE rdbufind' + (N - 1)
    BY DEF Ahead
  <2>4. Ahead(N - 1)' = rdbufind
    <3>1. CASE rdbufind + 1 >= N
      BY <2>1, <2>3, <2>5, <3>1
    <3>2. CASE ~(rdbufind + 1 >= N)
      BY <2>1, <2>3, <2>5, <3>2
    <3> QED BY <3>1, <3>2
  <2> QED BY <2>2, <2>4
<1>11. fullsem'.count + WriterGives' + ReaderCopies' = (fullsem.count + WriterGives + ReaderCopies) - 1
  <2>1. ReaderCopies' = ReaderCopies - 1 /\ WriterGives' = WriterGives
    BY <1>1, CallCounts DEF Places
  <2>2. fullsem' = fullsem
    BY <1>1 DEF sems
  <2>3. fullsem'.count = fullsem.count
    BY <2>2
  <2>4. fullsem.count + WriterGives + (ReaderCopies - 1) = (fullsem.count + WriterGives + ReaderCopies) - 1
    <3>1. fullsem.count \in Nat /\ WriterGives \in Nat /\ ReaderCopies \in Nat
      BY <1>0
    <3> QED BY <3>1
  <2> QED BY <2>1, <2>3, <2>4
<1>12. Cardinality(Held') = Waiting - 1
  <2>1. Held' = Held \ {rdbufind} /\ rdbufind \in Held
    BY <1>5, <1>6 DEF Held, TypeOK
  <2>2. Cardinality(Held \ {rdbufind}) = Cardinality(Held) - 1
    BY <2>1, HeldFinite, FS_RemoveElement
  <2> QED BY <1>3, <2>1, <2>2
<1>13. wrbufind' = IF Waiting' = N THEN rdbufind' ELSE Ahead(Waiting)'
  <2>1. Waiting' # N /\ Waiting - 1 \in 0..(N - 1)
    BY <1>0, <1>4, <1>9
  <2>2. CASE Waiting = N
    <3>1. Waiting' = N - 1
      BY <1>9, <2>2
    <3>2. Ahead(N - 1)' = IF rdbufind' + (N - 1) >= N THEN rdbufind' + (N - 1) - N ELSE rdbufind' + (N - 1)
      BY DEF Ahead
    <3>4. Ahead(Waiting)' = IF rdbufind' + (N - 1) >= N THEN rdbufind' + (N - 1) - N ELSE rdbufind' + (N - 1)
      BY <3>1 DEF Ahead
    <3>3. Ahead(Waiting)' = rdbufind
      BY <1>10, <3>2, <3>4
    <3> QED BY <1>1, <1>3, <2>1, <2>2, <3>3
  <2>3. CASE Waiting # N
    <3>1. Waiting - 1 \in 0..(N - 2) /\ Waiting - 1 + 1 = Waiting
      BY <1>0, <1>4, <2>3
    <3> DEFINE w == Waiting - 1
    <3>2. w \in 0..(N - 2) /\ w + 1 = Waiting /\ Waiting' = w
      BY <1>9, <3>1
    <3>4. Ahead(Waiting)' = IF rdbufind' + w >= N THEN rdbufind' + w - N ELSE rdbufind' + w
      BY <3>2 DEF Ahead
    <3>5. Ahead(Waiting) = IF rdbufind + Waiting >= N THEN rdbufind + Waiting - N ELSE rdbufind + Waiting
      BY DEF Ahead
    <3>6. rdbufind' = IF rdbufind + 1 >= N THEN 0 ELSE rdbufind + 1
      BY <1>1 DEF NextBuf
    <3>3. Ahead(Waiting)' = Ahead(Waiting)
      <4>1. CASE rdbufind + 1 >= N
        BY <1>0, <3>2, <3>4, <3>5, <3>6, <4>1
      <4>2. CASE ~(rdbufind + 1 >= N)
        <5>1. rdbufind' = rdbufind + 1 /\ rdbufind' + w = rdbufind + Waiting
          BY <1>0, <3>2, <3>6, <4>2
        <5>2. rdbufind' + w - N = rdbufind + Waiting - N
          BY <1>0, <3>2, <5>1
        <5> QED BY <3>4, <3>5, <5>1, <5>2
      <4> QED BY <4>1, <4>2
    <3> QED BY <1>1, <1>3, <2>1, <2>3, <3>3
  <2> QED BY <2>2, <2>3
<1>14. ASSUME NEW d \in 0..(N - 1)
       PROVE  /\ d < Waiting' => slot'[Ahead(d)'].id = n + 2 + d
              /\ d >= Waiting' => slot'[Ahead(d)'] = Empty
  <2>1. CASE d = N - 1
    <3>1. Ahead(d)' = rdbufind /\ ~(d < Waiting')
      BY <1>3, <1>9, <1>10, <2>1, Numbers
    <3> QED BY <1>6, <3>1 DEF TypeOK
  <2>2. CASE d # N - 1
    <3>1. d \in 0..(N - 2) /\ d + 1 \in 0..(N - 1) /\ 0 \in 0..(N - 1) /\ d + 1 # 0
      BY <2>2, Numbers
    <3>2. Ahead(d)' = Ahead(d + 1) /\ Ahead(d + 1) # rdbufind /\ Ahead(d + 1) \in 0..(N - 1)
      BY <1>10, <3>1, AheadPlaces
    <3>3. slot'[Ahead(d)'] = slot[Ahead(d + 1)]
      BY <1>6, <3>2 DEF TypeOK
    <3>4. /\ d + 1 < Waiting => slot[Ahead(d + 1)].id = n + 1 + (d + 1)
          /\ d + 1 >= Waiting => slot[Ahead(d + 1)] = Empty
      BY <1>3, <3>1
    <3>5. Waiting \in 0..N /\ Waiting' = Waiting - 1
      BY <1>3, <1>9
    <3>6. /\ n + 1 + (d + 1) = n + 2 + d
          /\ d < Waiting' => d + 1 < Waiting
          /\ d >= Waiting' => d + 1 >= Waiting
      BY <1>0, <3>5
    <3> QED BY <3>3, <3>4, <3>6
  <2> QED BY <2>1, <2>2
<1>15. ASSUME NEW d \in 0..(N - 1)
       PROVE  /\ d < Waiting' => slot'[Ahead(d)'].id = Len(received') + 1 + d
              /\ d >= Waiting' => slot'[Ahead(d)'] = Empty
  BY <1>7, <1>8, <1>14
<1>16. Waiting' \in 0..N
  BY <1>3, <1>4, <1>9, Numbers
<1>17. Waiting' = fullsem'.count + WriterGives' + ReaderCopies' /\ Cardinality(Held') = Waiting'
  <2>1. Waiting = fullsem.count + WriterGives + ReaderCopies
    BY <1>3
  <2>2. Waiting' = (fullsem.count + WriterGives + ReaderCopies) - 1
    BY <1>9, <2>1
  <2> QED BY <1>9, <1>11, <1>12, <2>2
<1>18. received' = [i \in 1..Len(received') |-> i]
  BY <1>8
<1> QED BY <1>13, <1>15, <1>16, <1>17, <1>18 DEF RingInv

\* A writer puts its message behind the youngest one.
LEMMA CopyInRing ==
  ASSUME TypeOK, BuffersCounted, RingInv, NEW t \in Threads, CopyIn(t), ~short'
  PROVE  RingInv'
<1> DEFINE n == Len(received)
           N == BufCount
<1>0. /\ N \in Nat /\ N > 0 /\ n \in Nat /\ sent \in Nat /\ rdbufind \in 0..(N - 1) /\ wrbufind \in 0..(N - 1)
      /\ emptysem.count \in Nat /\ fullsem.count \in Nat
      /\ WriterCopies \in Nat /\ WriterGives \in Nat /\ ReaderCopies \in Nat /\ ReaderGives \in Nat
      /\ emptysem.count + WriterCopies + WriterGives + fullsem.count + ReaderCopies + ReaderGives = N
  BY Numbers, CallCountTypes
<1>1. t \in Writers /\ t \notin Readers /\ Goto(t, "copy", "give") /\ pc[t] = "copy"
      /\ UNCHANGED <<rdbufind, sems, received, short>> /\ wrbufind' = NextBuf(wrbufind)
  BY ThreadAssumption DEF CopyIn, Goto
<1>3. /\ received = [i \in 1..n |-> i]
      /\ Waiting \in 0..N
      /\ Waiting = fullsem.count + WriterGives + ReaderCopies
      /\ Cardinality(Held) = Waiting
      /\ wrbufind = IF Waiting = N THEN rdbufind ELSE Ahead(Waiting)
      /\ \A d \in 0..(N - 1) : /\ d < Waiting => slot[Ahead(d)].id = n + 1 + d
                               /\ d >= Waiting => slot[Ahead(d)] = Empty
  BY <1>1 DEF RingInv
<1>4. Waiting \in 0..(N - 1)
  <2>1. WriterCopies >= 1
    BY <1>1, CallCountTypes
  <2>2. Waiting = fullsem.count + WriterGives + ReaderCopies /\ Waiting \in 0..N
    BY <1>3
  <2>3. fullsem.count + WriterGives + ReaderCopies < N
    BY <1>0, <2>1, Sums
  <2>4. Waiting < N
    BY <2>2, <2>3
  <2> QED BY <1>0, <2>2, <2>4
<1>5. wrbufind = Ahead(Waiting) /\ slot[wrbufind] = Empty
  BY <1>3, <1>4, Numbers
<1>6. sent' = sent + 1 /\ slot' = [slot EXCEPT ![wrbufind] = [id |-> sent + 1, len |-> size[t]]]
  BY <1>5 DEF CopyIn
<1>9. Waiting' = Waiting + 1
  BY <1>1, <1>6, Numbers DEF Waiting
<1>10. \A d \in 0..(N - 1) : Ahead(d)' = Ahead(d)
  BY <1>1 DEF Ahead
<1>11. fullsem'.count + WriterGives' + ReaderCopies' = fullsem.count + WriterGives + ReaderCopies + 1
  <2>1. ReaderCopies' = ReaderCopies /\ WriterGives' = WriterGives + 1
    BY <1>1, CallCounts DEF Places
  <2>2. fullsem' = fullsem
    BY <1>1 DEF sems
  <2>3. fullsem'.count = fullsem.count
    BY <2>2
  <2>4. fullsem.count + (WriterGives + 1) + ReaderCopies = fullsem.count + WriterGives + ReaderCopies + 1
    <3>1. fullsem.count \in Nat /\ WriterGives \in Nat /\ ReaderCopies \in Nat
      BY <1>0
    <3> QED BY <3>1
  <2> QED BY <2>1, <2>3, <2>4
<1>12. Cardinality(Held') = Waiting + 1
  <2>1. [id |-> sent + 1, len |-> size[t]] # Empty
    BY Numbers DEF Empty
  <2>2. Held' = Held \cup {wrbufind} /\ wrbufind \notin Held
    BY <1>5, <1>6, <2>1 DEF Held, TypeOK
  <2>3. Cardinality(Held \cup {wrbufind}) = Cardinality(Held) + 1
    BY <2>2, HeldFinite, FS_AddElement
  <2> QED BY <1>3, <2>2, <2>3
<1>13. wrbufind' = IF Waiting' = N THEN rdbufind' ELSE Ahead(Waiting)'
  <2>1. wrbufind' = IF wrbufind + 1 >= N THEN 0 ELSE wrbufind + 1
    BY <1>1 DEF NextBuf
  <2>2. wrbufind = IF rdbufind + Waiting >= N THEN rdbufind + Waiting - N ELSE rdbufind + Waiting
    BY <1>5 DEF Ahead
  <2>6. rdbufind' = rdbufind
    BY <1>1
  <2>3. /\ rdbufind' = rdbufind
        /\ Ahead(Waiting)' = IF rdbufind' + Waiting' >= N THEN rdbufind' + Waiting' - N ELSE rdbufind' + Waiting'
    BY <2>6 DEF Ahead
  <2>4. CASE Waiting + 1 = N
    BY <1>0, <1>4, <1>9, <2>1, <2>2, <2>3, <2>4
  <2>5. CASE Waiting + 1 # N
    <3>1. Ahead(Waiting)' = IF rdbufind + (Waiting + 1) >= N THEN rdbufind + (Waiting + 1) - N ELSE rdbufind + (Waiting + 1)
      BY <1>9, <2>3
    <3>2. wrbufind' = Ahead(Waiting)'
      BY <1>0, <1>4, <2>1, <2>2, <2>5, <3>1
    <3> QED BY <1>9, <2>5, <3>2
  <2> QED BY <2>4, <2>5
<1>14. ASSUME NEW d \in 0..(N - 1)
       PROVE  /\ d < Waiting' => slot'[Ahead(d)'].id = Len(received') + 1 + d
              /\ d >= Waiting' => slot'[Ahead(d)'] = Empty
  <2>1. CASE d = Waiting
    <3>1. slot'[Ahead(d)'].id = sent + 1
      BY <1>5, <1>6, <1>10, <2>1 DEF TypeOK
    <3> QED BY <1>1, <1>9, <2>1, <3>1, Numbers DEF Waiting
  <2>2. CASE d # Waiting
    <3>1. Ahead(d)' = Ahead(d) /\ Ahead(d) # wrbufind
      BY <1>4, <1>5, <1>10, <2>2, AheadPlaces
    <3>2. slot'[Ahead(d)'] = slot[Ahead(d)]
      BY <1>6, <3>1, AheadPlaces DEF TypeOK
    <3>3. /\ d < Waiting' => d < Waiting
          /\ d >= Waiting' => d >= Waiting
      BY <1>4, <1>9, <2>2, Numbers
    <3> QED BY <1>1, <1>3, <3>2, <3>3
  <2> QED BY <2>1, <2>2
<1>15. Waiting' \in 0..N
  BY <1>4, <1>9, Numbers
<1>16. Waiting' = fullsem'.count + WriterGives' + ReaderCopies' /\ Cardinality(Held') = Waiting'
  <2>1. Waiting = fullsem.count + WriterGives + ReaderCopies
    BY <1>3
  <2> QED BY <1>0, <1>9, <1>11, <1>12, <2>1
<1>17. received' = [i \in 1..Len(received') |-> i]
  BY <1>1, <1>3
<1> QED BY <1>13, <1>14, <1>15, <1>16, <1>17 DEF RingInv

\* A ring that was just initialised or reset.
LEMMA EmptyRing ==
  ASSUME slot = [i \in 0..(BufCount - 1) |-> Empty], wrbufind = 0, rdbufind = 0, fullsem.count = 0,
         sent = 0, received = <<>>, \A t \in Threads : pc[t] = "idle"
  PROVE  RingInv
<1>0. Len(received) = 0 /\ BufCount \in Nat /\ BufCount > 0
  BY CountAssumption
<1>1. BufCount \in Nat /\ BufCount > 0 /\ Len(received) = 0 /\ Waiting = 0
  BY <1>0 DEF Waiting
<1>2. Held = {} /\ Cardinality(Held) = 0
  BY FS_EmptySet DEF Held
<1>3. {t \in Readers : pc[t] = "copy"} = {} /\ {t \in Writers : pc[t] = "give"} = {}
  BY DEF Threads
<1>4. WriterGives = 0 /\ ReaderCopies = 0
  BY <1>3, FS_EmptySet DEF WriterGives, ReaderCopies, At
<1>5. \A d \in 0..(BufCount - 1) : Ahead(d) = d
  BY <1>1 DEF Ahead
<1>6. received = [i \in 1..Len(received) |-> i]
  BY <1>1
<1> QED BY <1>1, <1>2, <1>4, <1>5, <1>6 DEF RingInv

LEMMA StepRing == TypeOK /\ BuffersCounted /\ RingInv /\ [Next]_vars => RingInv'
<1> SUFFICES ASSUME TypeOK, BuffersCounted, RingInv, [Next]_vars PROVE RingInv'
  OBVIOUS
<1>0. /\ BufCount \in Nat /\ CountMax \in Nat /\ BufCount <= CountMax
      /\ emptysem.count \in Nat /\ fullsem.count \in Nat
      /\ WriterCopies \in Nat /\ WriterGives \in Nat /\ ReaderCopies \in Nat /\ ReaderGives \in Nat
      /\ emptysem.count + WriterCopies + WriterGives + fullsem.count + ReaderCopies + ReaderGives = BufCount
  BY Numbers, CallCountTypes
<1>a. ASSUME UNCHANGED <<ring, ghosts>>,
             fullsem'.count + WriterGives' + ReaderCopies' = fullsem.count + WriterGives + ReaderCopies
      PROVE  RingInv'
  <2>1. UNCHANGED <<Waiting, Held, Len(received)>> /\ \A d : Ahead(d)' = Ahead(d)
    BY <1>a DEF ring, ghosts, Waiting, Held, Ahead
  <2> QED BY <1>a, <2>1 DEF RingInv, ring, ghosts
<1>b. /\ Readers \subseteq Threads /\ Writers \subseteq Threads /\ Readers \cap Writers = {}
      /\ {"idle", "sem", "asleep", "copy", "give"} \subseteq Places
  BY ThreadAssumption DEF Threads, Places
<1>c. pc' = pc => WriterGives' = WriterGives /\ ReaderCopies' = ReaderCopies
  BY DEF WriterGives, ReaderCopies, At
<1>1. ASSUME NEW t \in Threads, NEW m, Read(t, m) \/ Write(t, m) PROVE RingInv'
  <2>1. Goto(t, "idle", "sem") /\ UNCHANGED <<sems, ring, ghosts>>
    BY <1>1 DEF Read, Write
  <2>2. ReaderCopies' = ReaderCopies /\ WriterGives' = WriterGives
    BY <1>b, <2>1, CallCounts
  <2> QED BY <1>a, <2>1, <2>2 DEF sems
<1>2. ASSUME NEW t \in Threads, WaitFull(t) PROVE RingInv'
  <2>1. t \in Readers /\ t \notin Writers /\ UNCHANGED <<ring, ghosts>>
    BY <1>b, <1>2 DEF WaitFull
  <2>2. CASE (fu!Take /\ Goto(t, "sem", "copy")) \/ (fu!Return(t) /\ Goto(t, "asleep", "copy"))
    <3>1. fullsem'.count = fullsem.count - 1
      BY <2>2, SemaphoreSteps
    <3>2. ReaderCopies' = ReaderCopies + 1 /\ WriterGives' = WriterGives
      BY <1>b, <2>1, <2>2, CallCounts
    <3>3. fullsem'.count + WriterGives' + ReaderCopies' = fullsem.count + WriterGives + ReaderCopies
      BY <1>0, <3>1, <3>2
    <3> QED BY <1>a, <2>1, <3>3
  <2>3. CASE fu!Sleep(t) /\ Goto(t, "sem", "asleep")
    <3>1. fullsem'.count = fullsem.count
      BY <2>3, SemaphoreSteps
    <3>2. ReaderCopies' = ReaderCopies /\ WriterGives' = WriterGives
      BY <1>b, <2>1, <2>3, CallCounts
    <3> QED BY <1>a, <2>1, <3>1, <3>2
  <2> QED BY <1>2, <2>2, <2>3 DEF WaitFull
<1>3. ASSUME NEW t \in Threads, WaitEmpty(t) \/ GiveEmpty(t) PROVE RingInv'
  <2>1. /\ UNCHANGED <<ring, ghosts, fullsem>>
        /\ \/ t \in Writers /\ (Goto(t, "sem", "copy") \/ Goto(t, "sem", "asleep") \/ Goto(t, "asleep", "copy"))
           \/ t \in Readers /\ Goto(t, "give", "idle")
    BY <1>3 DEF WaitEmpty, GiveEmpty
  <2>2. ReaderCopies' = ReaderCopies /\ WriterGives' = WriterGives
    BY <1>b, <2>1, CallCounts
  <2> QED BY <1>a, <2>1, <2>2
<1>4. ASSUME NEW t \in Threads, GiveFull(t) PROVE RingInv'
  <2>1. t \in Writers /\ t \notin Readers /\ UNCHANGED <<ring, ghosts>> /\ Goto(t, "give", "idle") /\ fu!Give
    BY <1>b, <1>4 DEF GiveFull
  <2>2. ReaderCopies' = ReaderCopies /\ WriterGives' = WriterGives - 1
    BY <1>b, <2>1, CallCounts
  <2>3. WriterGives >= 1
    <3>1. WriterGives' \in Nat
      BY AtType DEF WriterGives
    <3> QED BY <2>2, <3>1, CallCountTypes
  <2>4. fullsem'.count = fullsem.count + 1
    <3>1. fullsem.count < CountMax
      BY <1>0, <2>3
    <3> QED BY <2>1, <3>1, Raises
  <2>5. fullsem'.count + WriterGives' + ReaderCopies' = fullsem.count + WriterGives + ReaderCopies
    BY <1>0, <2>2, <2>4
  <2> QED BY <1>a, <2>1, <2>5
<1>5. ASSUME NEW t \in Threads, CopyOut(t) PROVE RingInv'
  <2>1. CASE short'
    BY <2>1 DEF RingInv
  <2> QED BY <1>5, <2>1, CopyOutRing
<1>6. ASSUME NEW t \in Threads, CopyIn(t) PROVE RingInv'
  <2>1. CASE short'
    BY <2>1 DEF RingInv
  <2> QED BY <1>6, <2>1, CopyInRing
<1>7. ASSUME NEW t \in Threads, Timeout(t) PROVE RingInv'
  <2>1. UNCHANGED <<ring, ghosts>> /\ Goto(t, "asleep", "idle")
    BY <1>7 DEF Timeout
  <2>2. fullsem'.count = fullsem.count
    BY <1>7, SemaphoreSteps DEF Timeout
  <2>3. ReaderCopies' = ReaderCopies /\ WriterGives' = WriterGives
    BY <1>b, <2>1, CallCounts
  <2> QED BY <1>a, <2>1, <2>2, <2>3
<1>8. ASSUME NEW t \in Threads, WakeSpuriously(t) \/ Abort(t) PROVE RingInv'
  <2>1. UNCHANGED <<ring, ghosts, pc>>
    BY <1>8 DEF WakeSpuriously, Abort
  <2>2. fullsem'.count = fullsem.count
    BY <1>8, SemaphoreSteps DEF WakeSpuriously, Abort, sems
  <2> QED BY <1>a, <1>c, <2>1, <2>2
<1>9. CASE Reset
  <2>1. (slot = [i \in 0..(BufCount - 1) |-> Empty] /\ wrbufind = 0 /\ rdbufind = 0
         /\ sent = 0 /\ received = <<>> /\ \A t \in Threads : pc[t] = "idle")'
    BY <1>9 DEF Reset
  <2>2. fullsem'.count = 0
    BY <1>9 DEF Reset, fu!Reset, TypeOK, fu!TypeOK
  <2>11. received' = <<>>
    BY <1>9 DEF Reset
  <2>10. Len(received') = 0 /\ BufCount \in Nat /\ BufCount > 0
    BY <2>11, CountAssumption
  <2>12. sent' = 0
    BY <1>9 DEF Reset
  <2>3. BufCount \in Nat /\ BufCount > 0 /\ Len(received') = 0 /\ Waiting' = 0
    BY <2>10, <2>12 DEF Waiting
  <2>4. Held' = {} /\ Cardinality(Held') = 0
    BY <2>1, FS_EmptySet DEF Held
  <2>5. {t \in Readers : pc'[t] = "copy"} = {} /\ {t \in Writers : pc'[t] = "give"} = {}
    BY <2>1 DEF Threads
  <2>6. WriterGives' = 0 /\ ReaderCopies' = 0
    BY <2>5, FS_EmptySet DEF WriterGives, ReaderCopies, At
  <2>7. \A d \in 0..(BufCount - 1) : Ahead(d)' = d
    BY <2>1, <2>3 DEF Ahead
  <2>8. received' = [i \in 1..Len(received') |-> i]
    BY <2>1, <2>3
  <2> QED BY <2>1, <2>2, <2>3, <2>4, <2>6, <2>7, <2>8 DEF RingInv
<1>10. CASE UNCHANGED vars
  BY <1>10, <1>a, <1>c DEF vars, sems
<1> QED BY <1>1, <1>2, <1>3, <1>4, <1>5, <1>6, <1>7, <1>8, <1>9, <1>10 DEF Next, Run

\* As long as no reader's buffer was too small, messages come out in the order
\* in which they were put in, and whoever has taken a semaphore finds what it
\* stands for: a reader a message, a writer an empty buffer.
THEOREM MessagesComeOutInOrder == Spec => []InOrder
<1>1. Init => TypeOK /\ BuffersCounted /\ RingInv
  BY InitTypes, InitCounted, EmptyRing DEF Init, fu!Init
<1>2. TypeOK /\ BuffersCounted /\ RingInv /\ [Next]_vars => (TypeOK /\ BuffersCounted /\ RingInv)'
  BY StepTypes, StepCounted, StepRing
<1>3. TypeOK /\ BuffersCounted /\ RingInv => InOrder
  <2> SUFFICES ASSUME TypeOK, BuffersCounted, RingInv, ~short PROVE InOrder
    BY DEF InOrder
  <2>1. /\ received = [i \in 1..Len(received) |-> i]
        /\ Waiting \in 0..BufCount
        /\ Waiting = fullsem.count + WriterGives + ReaderCopies
        /\ Cardinality(Held) = Waiting
        /\ wrbufind = IF Waiting = BufCount THEN rdbufind ELSE Ahead(Waiting)
        /\ \A d \in 0..(BufCount - 1) : /\ d < Waiting => slot[Ahead(d)].id = Len(received) + 1 + d
                                        /\ d >= Waiting => slot[Ahead(d)] = Empty
    BY DEF RingInv
  <2>0. /\ BufCount \in Nat /\ BufCount > 0 /\ Len(received) \in Nat
        /\ emptysem.count \in Nat /\ fullsem.count \in Nat
        /\ WriterCopies \in Nat /\ WriterGives \in Nat /\ ReaderCopies \in Nat /\ ReaderGives \in Nat
        /\ emptysem.count + WriterCopies + WriterGives + fullsem.count + ReaderCopies + ReaderGives = BufCount
    BY Numbers, CallCountTypes
  <2>2. ASSUME NEW t \in Readers, pc[t] = "copy" PROVE slot[rdbufind].id = Len(received) + 1
    <3>1. Waiting > 0 /\ 0 \in 0..(BufCount - 1) /\ Ahead(0) = rdbufind /\ Len(received) \in Nat
      <4>1. ReaderCopies >= 1
        BY <2>2, CallCountTypes
      <4>2. Waiting = fullsem.count + WriterGives + ReaderCopies
        BY <2>1
      <4>3. Ahead(0) = rdbufind
        BY AheadPlaces
      <4>4. BufCount \in Nat /\ BufCount > 0 /\ fullsem.count \in Nat /\ WriterGives \in Nat /\ ReaderCopies \in Nat
        BY <2>0
      <4>5. fullsem.count + WriterGives + ReaderCopies > 0 /\ 0 \in 0..(BufCount - 1)
        BY <4>1, <4>4
      <4> QED BY <2>0, <4>2, <4>3, <4>5
    <3> QED BY <2>1, <3>1
  <2>3. ASSUME NEW t \in Writers, pc[t] = "copy" PROVE slot[wrbufind] = Empty
    <3>1. Waiting \in 0..(BufCount - 1) /\ Waiting # BufCount
      <4>1. WriterCopies >= 1
        BY <2>3, CallCountTypes
      <4>2. Waiting = fullsem.count + WriterGives + ReaderCopies /\ Waiting \in 0..BufCount
        BY <2>1
      <4>3. fullsem.count + WriterGives + ReaderCopies < BufCount
        BY <2>0, <4>1, Sums
      <4>4. Waiting < BufCount
        BY <4>2, <4>3
      <4>5. BufCount \in Nat /\ Waiting \in 0..BufCount
        BY <2>0, <4>2
      <4> QED BY <4>4, <4>5
    <3> QED BY <2>1, <3>1
  <2> QED BY <2>1, <2>2, <2>3 DEF InOrder, Waiting, WriterGives, ReaderCopies
<1> QED BY <1>1, <1>2, <1>3, PTL DEF Spec
=============================================================================
