---------------------------- MODULE HCState_proofs ----------------------------
(***************************************************************************)
(* What the state file holds after saves that overlap                      *)
(* (OverlappingSavesLeaveTheState), and the type of the parameters'        *)
(* elements whatever is loaded (TypeCorrect), proved for any parameters,   *)
(* values and size of the streams' buffers, and any number of saves, loads *)
(* and crashes.                                                            *)
(*                                                                         *)
(* A saver has flushed a part of its text.  The file has what the saver    *)
(* that opened it last has flushed, or the text of another at the same     *)
(* place.                                                                  *)
(***************************************************************************)
EXTENDS HCState, SequenceTheorems, WellFoundedInduction, TLAPS

-----------------------------------------------------------------------------
(* Recursion over the places of a sequence.                                *)

LEMMA Induction ==
  ASSUME NEW n \in Nat, NEW T, 0 \in T, \A i \in 1..n : i - 1 \in T => i \in T
  PROVE  \A i \in 0..n : i \in T
<1> DEFINE F == (0..n) \ T
<1>1. SUFFICES ASSUME F # {} PROVE FALSE
  OBVIOUS
<1>2. F \subseteq Nat
  OBVIOUS
<1>3. PICK m \in F : \A k \in F : ~(<<k, m>> \in OpToRel(<, Nat))
  <2> HIDE DEF F
  <2> QED BY <1>1, <1>2, NatLessThanWellFounded, WFMin
<1>4. m \in 1..n /\ m \notin T /\ m - 1 \in 0..n /\ m - 1 \in Nat /\ m - 1 < m
  OBVIOUS
<1>5. m - 1 \in T
  <2>1. <<m - 1, m>> \in OpToRel(<, Nat)
    BY <1>4 DEF OpToRel
  <2>2. m - 1 \notin F
    <3> HIDE DEF F
    <3> QED BY <1>3, <2>1
  <2> QED BY <1>4, <2>2
<1> QED BY <1>4, <1>5

\* A function that is given at 0, and at every further number from the one before, exists.
IsRecursion(f, n, S, first, step) ==
  f \in [0..n -> S] /\ f[0] = first /\ \A i \in 1..n : f[i] = step[i][f[i - 1]]

LEMMA Recursion ==
  ASSUME NEW n \in Nat, NEW S, NEW first \in S, NEW step \in [1..n -> [S -> S]]
  PROVE  \E f : IsRecursion(f, n, S, first, step)
<1> DEFINE Is(f, k) == f \in [0..k -> S] /\ f[0] = first /\ \A i \in 1..k : f[i] = step[i][f[i - 1]]
           T == {k \in 0..n : \E f : Is(f, k)}
<1>1. 0 \in T
  <2>1. Is([i \in 0..0 |-> first], 0)
    OBVIOUS
  <2> HIDE DEF Is
  <2> QED BY <2>1
<1>2. ASSUME NEW k \in 1..n, k - 1 \in T PROVE k \in T
  <2>1. PICK g : Is(g, k - 1)
    BY <1>2
  <2> DEFINE h == [i \in 0..k |-> IF i = k THEN step[k][g[k - 1]] ELSE g[i]]
  <2>2. g[k - 1] \in S /\ step[k][g[k - 1]] \in S /\ \A i \in 0..(k - 1) : g[i] \in S
    BY <2>1
  <2>3. h \in [0..k -> S]
    BY <2>2
  <2>4. h[0] = first
    BY <2>1
  <2>5. ASSUME NEW i \in 1..k PROVE h[i] = step[i][h[i - 1]]
    <3>1. CASE i = k
      BY <3>1
    <3>2. CASE i # k
      <4>1. i \in 1..(k - 1) /\ i \in 0..k /\ i - 1 \in 0..k /\ i - 1 # k
        BY <3>2
      <4>2. g[i] = step[i][g[i - 1]]
        BY <2>1, <4>1
      <4> QED BY <3>2, <4>1, <4>2
    <3> QED BY <3>1, <3>2
  <2>6. Is(h, k)
    <3> HIDE DEF h
    <3> QED BY <2>3, <2>4, <2>5
  <2> HIDE DEF Is
  <2> QED BY <2>6
<1>3. n \in T
  <2> HIDE DEF T
  <2>1. n \in 0..n
    OBVIOUS
  <2> QED BY <1>1, <1>2, <2>1, Induction
<1>4. PICK f : Is(f, n)
  BY <1>3
<1>5. IsRecursion(f, n, S, first, step)
  BY <1>4 DEF IsRecursion
<1> QED BY <1>5

-----------------------------------------------------------------------------
(* Sequences one after the other.                                          *)

Joined(seqs) == CHOOSE f : f = [i \in 1..Len(seqs) |-> IF i = 1 THEN seqs[i] ELSE f[i - 1] \o seqs[i]]

LEMMA JoinedOnce ==
  ASSUME NEW U, NEW seqs \in Seq(Seq(U))
  PROVE  /\ Joined(seqs) \in [1..Len(seqs) -> Seq(U)]
         /\ Len(seqs) # 0 => Joined(seqs)[1] = seqs[1]
         /\ \A i \in 2..Len(seqs) : Joined(seqs)[i] = Joined(seqs)[i - 1] \o seqs[i]
<1> DEFINE n == Len(seqs)
           S == Seq(U)
           step == [i \in 1..n |-> [a \in S |-> a \o seqs[i]]]
           Def(f) == f = [i \in 1..n |-> IF i = 1 THEN seqs[i] ELSE f[i - 1] \o seqs[i]]
<1>1. n \in Nat /\ \A i \in 1..n : seqs[i] \in Seq(U)
  OBVIOUS
<1>2. <<>> \in S /\ step \in [1..n -> [S -> S]]
  BY <1>1
<1>3. PICK f : f \in [0..n -> S] /\ f[0] = <<>> /\ \A i \in 1..n : f[i] = step[i][f[i - 1]]
  <2> DEFINE first == <<>>
  <2> HIDE DEF n, S, step, first
  <2>1. n \in Nat /\ first \in S /\ step \in [1..n -> [S -> S]]
    BY <1>1, <1>2 DEF first
  <2>2. PICK f : IsRecursion(f, n, S, first, step)
    BY <2>1, Recursion, Zenon
  <2> QED BY <2>2 DEF first, IsRecursion
<1>4. ASSUME NEW i \in 1..n PROVE f[i - 1] \in S /\ f[i] = f[i - 1] \o seqs[i]
  <2>1. i - 1 \in 0..n
    BY <1>1
  <2>2. f[i - 1] \in S
    <3> HIDE DEF n, S
    <3> QED BY <1>3, <2>1
  <2>3. step[i][f[i - 1]] = f[i - 1] \o seqs[i]
    <3> HIDE DEF n, S
    <3> QED BY <2>2
  <2> QED BY <1>3, <2>2, <2>3
<1> DEFINE g == [i \in 1..n |-> f[i]]
<1>5. Def(g)
  <2>1. ASSUME NEW i \in 1..n PROVE g[i] = IF i = 1 THEN seqs[i] ELSE g[i - 1] \o seqs[i]
    <3>1. CASE i = 1
      <4>1. f[1] = <<>> \o seqs[1]
        <5>1. i - 1 = 0
          BY <3>1
        <5>2. f[i] = f[i - 1] \o seqs[i]
          BY <1>4
        <5>3. f[0] = <<>>
          BY <1>3
        <5> QED BY <3>1, <5>1, <5>2, <5>3
      <4>2. <<>> \o seqs[1] = seqs[1]
        BY <1>1, <3>1
      <4> QED BY <3>1, <4>1, <4>2
    <3>2. CASE i # 1
      <4>1. i - 1 \in 1..n
        BY <1>1, <3>2
      <4>2. g[i] = f[i] /\ g[i - 1] = f[i - 1]
        BY <4>1
      <4>3. f[i] = f[i - 1] \o seqs[i]
        BY <1>4
      <4> HIDE DEF g
      <4> QED BY <3>2, <4>2, <4>3
    <3> QED BY <3>1, <3>2
  <2> DEFINE h == [i \in 1..n |-> IF i = 1 THEN seqs[i] ELSE g[i - 1] \o seqs[i]]
  <2>2. g = h
    <3>1. \A i \in 1..n : g[i] = h[i]
      BY <2>1
    <3> QED BY <3>1
  <2> QED BY <2>2
<1> DEFINE J == Joined(seqs)
<1>6. Def(J)
  <2>1. \E x : Def(x)
    BY <1>5
  <2>2. J = CHOOSE x : Def(x)
    BY DEF Joined
  <2> HIDE DEF Def, J
  <2> QED BY <2>1, <2>2
<1> HIDE DEF J
<1>7. DOMAIN J = 1..n /\ J = [i \in 1..n |-> J[i]]
  BY <1>6
<1>8. \A i \in 1..n : J[i] = IF i = 1 THEN seqs[i] ELSE J[i - 1] \o seqs[i]
  BY <1>6
<1> DEFINE T == {i \in 0..n : i = 0 \/ J[i] \in Seq(U)}
<1>9. ASSUME NEW i \in 1..n, i - 1 \in T PROVE i \in T
  <2>1. CASE i = 1
    BY <1>1, <1>8, <2>1
  <2>2. CASE i # 1
    <3>1. J[i - 1] \in Seq(U) /\ seqs[i] \in Seq(U)
      BY <1>1, <1>9, <2>2
    <3>2. J[i] = J[i - 1] \o seqs[i]
      BY <1>8, <2>2
    <3>3. J[i - 1] \o seqs[i] \in Seq(U)
      BY <3>1
    <3>4. J[i] \in Seq(U)
      BY <3>2, <3>3
    <3>5. i \in 0..n
      BY <1>1
    <3> HIDE DEF n
    <3> QED BY <3>4, <3>5
  <2> QED BY <2>1, <2>2
<1>10. \A i \in 0..n : i \in T
  <2>1. 0 \in T
    BY <1>1
  <2> HIDE DEF T, n
  <2> QED BY <1>1, <1>9, <2>1, Induction
<1>11. \A i \in 1..n : J[i] \in Seq(U)
  BY <1>10
<1>12. J \in [1..n -> Seq(U)]
  BY <1>7, <1>11
<1>13. n # 0 => J[1] = seqs[1]
  <2>1. n # 0 => 1 \in 1..n
    BY <1>1
  <2> QED BY <1>8, <2>1
<1>14. ASSUME NEW i \in 2..n PROVE J[i] = J[i - 1] \o seqs[i]
  <2>1. i \in 1..n /\ i # 1
    BY <1>1
  <2> QED BY <1>8, <2>1
<1> QED BY <1>12, <1>13, <1>14 DEF J

LEMMA FlattenIsJoined ==
  ASSUME NEW seqs
  PROVE  FlattenSeq(seqs) = IF Len(seqs) = 0 THEN seqs ELSE Joined(seqs)[Len(seqs)]
BY DEF FlattenSeq, Joined

LEMMA FlattenType ==
  ASSUME NEW U, NEW seqs \in Seq(Seq(U))
  PROVE  FlattenSeq(seqs) \in Seq(U)
<1>1. CASE Len(seqs) = 0
  <2>1. seqs = <<>>
    BY <1>1
  <2>2. FlattenSeq(seqs) = seqs
    BY <1>1, FlattenIsJoined
  <2>3. <<>> \in Seq(U)
    OBVIOUS
  <2>4. seqs \in Seq(U)
    BY <2>1, <2>3, Zenon
  <2> QED BY <2>2, <2>4, Zenon
<1>2. CASE Len(seqs) # 0
  <2>1. Len(seqs) \in 1..Len(seqs)
    BY <1>2
  <2>2. Joined(seqs)[Len(seqs)] \in Seq(U)
    BY <2>1, JoinedOnce
  <2>3. FlattenSeq(seqs) = Joined(seqs)[Len(seqs)]
    BY <1>2, FlattenIsJoined
  <2> QED BY <2>2, <2>3, Zenon
<1> QED BY <1>1, <1>2, Zenon

LEMMA FlattenAppend ==
  ASSUME NEW U, NEW seqs \in Seq(Seq(U)), NEW s \in Seq(U)
  PROVE  FlattenSeq(Append(seqs, s)) = FlattenSeq(seqs) \o s
<1> DEFINE n == Len(seqs)
           t == Append(seqs, s)
           A == Joined(seqs)
           B == Joined(t)
<1>1. n \in Nat /\ t \in Seq(Seq(U)) /\ Len(t) = n + 1 /\ t[n + 1] = s /\ \A i \in 1..n : t[i] = seqs[i]
  OBVIOUS
<1>2. /\ n # 0 => A[1] = seqs[1]
      /\ \A i \in 2..n : A[i] = A[i - 1] \o seqs[i]
  BY JoinedOnce
<1>3. B[1] = t[1] /\ \A i \in 2..(n + 1) : B[i] = B[i - 1] \o t[i]
  <2> HIDE DEF t
  <2>1. Len(t) # 0
    BY <1>1
  <2> QED BY <1>1, <2>1, JoinedOnce
<1> HIDE DEF n, t, A, B
<1> DEFINE T == {i \in 0..n : i = 0 \/ A[i] = B[i]}
<1>4. ASSUME NEW i \in 1..n, i - 1 \in T PROVE i \in T
  <2>1. CASE i = 1
    BY <1>1, <1>2, <1>3, <2>1
  <2>2. CASE i # 1
    <3>1. A[i - 1] = B[i - 1] /\ i \in 2..n /\ i \in 2..(n + 1)
      BY <1>1, <1>4, <2>2
    <3>2. A[i] = B[i]
      BY <1>1, <1>2, <1>3, <3>1
    <3> QED BY <3>2
  <2> QED BY <2>1, <2>2
<1>5. \A i \in 0..n : i \in T
  <2>1. 0 \in T
    BY <1>1
  <2> HIDE DEF T
  <2> QED BY <1>1, <1>4, <2>1, Induction
<1>6. CASE n = 0
  <2>1. FlattenSeq(seqs) = <<>>
    BY <1>6, FlattenIsJoined DEF n
  <2>2. FlattenSeq(t) = B[1]
    <3>1. Len(t) = 1
      BY <1>1, <1>6
    <3>2. Len(t) # 0
      BY <3>1
    <3>3. FlattenSeq(t) = Joined(t)[Len(t)]
      BY <3>2, FlattenIsJoined, Zenon
    <3> QED BY <3>1, <3>3 DEF B
  <2>4. B[1] = s
    BY <1>1, <1>3, <1>6
  <2>3. <<>> \o s = s
    OBVIOUS
  <2> QED BY <2>1, <2>2, <2>3, <2>4 DEF t
<1>7. CASE n # 0
  <2>1. n \in 0..n /\ n + 1 \in 2..(n + 1)
    BY <1>1, <1>7
  <2>2. A[n] = B[n]
    BY <1>5, <1>7, <2>1
  <2>3. B[n + 1] = B[n] \o s
    <3>1. (n + 1) - 1 = n
      BY <1>1
    <3>2. B[n + 1] = B[(n + 1) - 1] \o t[n + 1]
      BY <1>3, <2>1
    <3> QED BY <1>1, <3>1, <3>2
  <2>4. FlattenSeq(seqs) = A[n]
    BY <1>7, FlattenIsJoined DEF n, A
  <2>5. FlattenSeq(t) = B[n + 1]
    BY <1>1, FlattenIsJoined DEF B
  <2> QED BY <2>2, <2>3, <2>4, <2>5 DEF t
<1> QED BY <1>6, <1>7

-----------------------------------------------------------------------------
(* Sequences of any symbols.                                               *)

LEMMA IsSequenceIntro ==
  ASSUME NEW U, NEW s \in Seq(U)
  PROVE  IsSequence(s)
<1>1. s \in [1..Len(s) -> ToSet(s)] /\ Len(s) \in Nat
  BY DEF ToSet
<1> QED BY <1>1 DEF IsSequence

LEMMA IsSequenceElim ==
  ASSUME NEW s, IsSequence(s)
  PROVE  \E U : s \in Seq(U)
BY DEF IsSequence

LEMMA IsSequenceIn ==
  ASSUME NEW s, IsSequence(s)
  PROVE  s \in Seq(ToSet(s)) /\ Len(s) \in Nat /\ DOMAIN s = 1..Len(s) /\ ToSet(s) = {s[i] : i \in 1..Len(s)}
<1>1. s \in Seq(ToSet(s))
  BY DEF IsSequence
<1>2. Len(s) \in Nat /\ DOMAIN s = 1..Len(s)
  <2> DEFINE U == ToSet(s)
  <2>1. s \in Seq(U)
    BY <1>1
  <2> HIDE DEF U
  <2> QED BY <2>1
<1>3. ToSet(s) = {s[i] : i \in 1..Len(s)}
  BY <1>2 DEF ToSet
<1> QED BY <1>1, <1>2, <1>3

\* Two sequences are sequences over one set.
LEMMA Together ==
  ASSUME NEW s, NEW t, IsSequence(s), IsSequence(t)
  PROVE  \E U : s \in Seq(U) /\ t \in Seq(U)
<1> DEFINE A == ToSet(s)
           B == ToSet(t)
<1>1. s \in Seq(A) /\ t \in Seq(B)
  BY DEF IsSequence
<1> HIDE DEF A, B
<1>2. s \in Seq(A \cup B)
  <2>1. s \in [1..Len(s) -> A \cup B] /\ Len(s) \in Nat
    BY <1>1
  <2> QED BY <2>1
<1>3. t \in Seq(A \cup B)
  <2>1. t \in [1..Len(t) -> A \cup B] /\ Len(t) \in Nat
    BY <1>1
  <2> QED BY <2>1
<1> QED BY <1>2, <1>3

LEMMA ConcatIs ==
  ASSUME NEW s, NEW t, IsSequence(s), IsSequence(t)
  PROVE  IsSequence(s \o t)
<1>1. PICK U : s \in Seq(U) /\ t \in Seq(U)
  BY Together
<1>2. s \o t \in Seq(U)
  BY <1>1
<1> QED BY <1>2, IsSequenceIntro

LEMMA AppendIs ==
  ASSUME NEW s, NEW x, IsSequence(s)
  PROVE  IsSequence(Append(s, x))
<1> DEFINE U == ToSet(s) \cup {x}
<1>1. s \in Seq(U) /\ x \in U
  <2>1. s \in [1..Len(s) -> U] /\ Len(s) \in Nat
    BY IsSequenceIn
  <2> QED BY <2>1
<1> HIDE DEF U
<1>2. Append(s, x) \in Seq(U)
  BY <1>1
<1> QED BY <1>2, IsSequenceIntro

LEMMA SubSeqIs ==
  ASSUME NEW s, IsSequence(s), NEW a \in Int, NEW b \in Int, a >= 1, b <= Len(s)
  PROVE  IsSequence(SubSeq(s, a, b))
<1>1. PICK U : s \in Seq(U)
  BY IsSequenceElim
<1>2. SubSeq(s, a, b) \in Seq(U)
  BY <1>1
<1> QED BY <1>2, IsSequenceIntro

LEMMA TupleIs ==
  ASSUME NEW a, NEW b, NEW c, NEW d, NEW e
  PROVE  /\ IsSequence(<<>>) /\ IsSequence(<<a>>) /\ IsSequence(<<a, b>>)
         /\ IsSequence(<<a, b, c>>) /\ IsSequence(<<a, b, c, d, e>>)
<1>1. <<>> \in Seq({a})
  OBVIOUS
<1>2. <<a>> \in Seq({a})
  OBVIOUS
<1>3. <<a, b>> \in Seq({a, b})
  OBVIOUS
<1>4. <<a, b, c>> \in Seq({a, b, c})
  OBVIOUS
<1>5. <<a, b, c, d, e>> \in Seq({a, b, c, d, e})
  OBVIOUS
<1> QED BY <1>1, <1>2, <1>3, <1>4, <1>5, IsSequenceIntro

\* A sequence of sequences is one over some set.
LEMMA FlattenIs ==
  ASSUME NEW seqs, IsSequence(seqs), \A i \in 1..Len(seqs) : IsSequence(seqs[i])
  PROVE  \E U : seqs \in Seq(Seq(U))
<1> DEFINE n == Len(seqs)
           U == UNION {ToSet(seqs[i]) : i \in 1..n}
<1>1. n \in Nat /\ DOMAIN seqs = 1..n
  BY IsSequenceIn
<1>2. ASSUME NEW i \in 1..n PROVE seqs[i] \in Seq(U)
  <2> DEFINE s == seqs[i]
  <2>1. IsSequence(s)
    OBVIOUS
  <2>2. ToSet(s) \subseteq U
    OBVIOUS
  <2> HIDE DEF s, U, n
  <2>3. Len(s) \in Nat /\ s \in Seq(ToSet(s))
    BY <2>1, IsSequenceIn, Zenon
  <2> DEFINE A == ToSet(s)
  <2>5. s \in Seq(A) /\ A \subseteq U
    BY <2>2, <2>3
  <2> HIDE DEF A
  <2>6. s \in [1..Len(s) -> U]
    BY <2>5
  <2>7. s \in Seq(U)
    BY <2>3, <2>6
  <2> QED BY <2>7 DEF s
<1> HIDE DEF U
<1>3. seqs = [i \in 1..n |-> seqs[i]]
  <2> DEFINE A == ToSet(seqs)
  <2>1. seqs \in Seq(A)
    BY DEF IsSequence
  <2> HIDE DEF A
  <2> QED BY <2>1
<1>4. seqs \in [1..n -> Seq(U)]
  <2> DEFINE V == Seq(U)
  <2> HIDE DEF V, n
  <2> QED BY <1>2, <1>3 DEF V
<1>5. seqs \in Seq(Seq(U))
  BY <1>1, <1>4
<1> QED BY <1>5

-----------------------------------------------------------------------------
(* What the console reads: the tokens of a line are sequences, and so are  *)
(* the pieces of a token.                                                  *)

Reading(U) == [toks : Seq(Seq(U)), tok : Seq(U), lit : BOOLEAN]
NoToken == [toks |-> <<>>, tok |-> <<>>, lit |-> FALSE]
Read(line) ==
  CHOOSE f : f = [n \in 0..Len(line) |-> IF n = 0 THEN NoToken ELSE NextChar(f[n - 1], line[n])]

LEMMA TokenizeIsRead ==
  ASSUME NEW line
  PROVE  Tokenize(line) = Push(Read(line)[Len(line)].toks, Read(line)[Len(line)].tok)
BY DEF Tokenize, Read, NoToken

LEMMA PushType ==
  ASSUME NEW U, NEW toks \in Seq(Seq(U)), NEW tok \in Seq(U)
  PROVE  Push(toks, tok) \in Seq(Seq(U))
<1> DEFINE V == Seq(U)
<1>1. toks \in Seq(V) /\ tok \in V
  OBVIOUS
<1> HIDE DEF V
<1>2. Push(toks, tok) \in Seq(V)
  BY <1>1 DEF Push
<1> QED BY <1>2 DEF V

LEMMA NextCharType ==
  ASSUME NEW U, NEW a \in Reading(U), NEW c \in U
  PROVE  NextChar(a, c) \in Reading(U)
<1>1. a.toks \in Seq(Seq(U)) /\ a.tok \in Seq(U) /\ a.lit \in BOOLEAN
  BY DEF Reading
<1>2. Push(a.toks, a.tok) \in Seq(Seq(U))
  BY <1>1, PushType
<1>3. Append(Push(a.toks, a.tok), <<c>>) \in Seq(Seq(U))
  <2> DEFINE V == Seq(U)
             s == Push(a.toks, a.tok)
             t == <<c>>
  <2>1. s \in Seq(V) /\ t \in V
    BY <1>2
  <2> HIDE DEF V, s, t
  <2>2. Append(s, t) \in Seq(V)
    BY <2>1
  <2> QED BY <2>2 DEF V, s, t
<1>4. Append(a.tok, c) \in Seq(U) /\ <<>> \in Seq(U)
  BY <1>1
<1> DEFINE quoted == [toks |-> Append(Push(a.toks, a.tok), <<c>>), tok |-> <<>>,
                      lit |-> IF c = Quote THEN ~a.lit ELSE a.lit]
           ended == [a EXCEPT !.toks = Push(@, a.tok), !.tok = <<>>]
           more == [a EXCEPT !.tok = Append(@, c)]
<1>5. quoted \in Reading(U)
  <2>1. (IF c = Quote THEN ~a.lit ELSE a.lit) \in BOOLEAN
    BY <1>1
  <2> QED BY <1>3, <1>4, <2>1, Zenon DEF Reading
<1>6. ended \in Reading(U)
  <2> DEFINE V == Seq(U)
             W == Seq(V)
             x == Push(a.toks, a.tok)
             y == <<>>
  <2>1. a \in [toks : W, tok : V, lit : BOOLEAN] /\ x \in W /\ y \in V
    BY <1>2, <1>4 DEF Reading
  <2>2. ended = [a EXCEPT !.toks = x, !.tok = y]
    OBVIOUS
  <2> HIDE DEF V, W, x, y, ended
  <2>3. [a EXCEPT !.toks = x, !.tok = y] \in [toks : W, tok : V, lit : BOOLEAN]
    BY <2>1
  <2>4. ended \in [toks : W, tok : V, lit : BOOLEAN]
    BY <2>2, <2>3, Zenon
  <2> QED BY <2>4 DEF Reading, V, W
<1>7. more \in Reading(U)
  <2> DEFINE V == Seq(U)
             W == Seq(V)
             x == Append(a.tok, c)
  <2>1. a \in [toks : W, tok : V, lit : BOOLEAN] /\ x \in V
    BY <1>4 DEF Reading
  <2>2. more = [a EXCEPT !.tok = x]
    OBVIOUS
  <2> HIDE DEF V, W, x, more
  <2>3. [a EXCEPT !.tok = x] \in [toks : W, tok : V, lit : BOOLEAN]
    BY <2>1
  <2>4. more \in [toks : W, tok : V, lit : BOOLEAN]
    BY <2>2, <2>3, Zenon
  <2> QED BY <2>4 DEF Reading, V, W
<1>8. NextChar(a, c) \in {quoted, ended, more}
  BY Zenon DEF NextChar
<1> HIDE DEF quoted, ended, more
<1> QED BY <1>5, <1>6, <1>7, <1>8, Zenon

LEMMA TokenizeType ==
  ASSUME NEW U, NEW line \in Seq(U)
  PROVE  Tokenize(line) \in Seq(Seq(U))
<1> DEFINE n == Len(line)
           S == Reading(U)
           step == [i \in 1..n |-> [a \in S |-> NextChar(a, line[i])]]
           Def(f) == f = [i \in 0..n |-> IF i = 0 THEN NoToken ELSE NextChar(f[i - 1], line[i])]
           R == Read(line)
<1>1. n \in Nat /\ \A i \in 1..n : line[i] \in U
  OBVIOUS
<1>2. NoToken \in S
  <2>1. <<>> \in Seq(Seq(U)) /\ <<>> \in Seq(U)
    OBVIOUS
  <2> QED BY <2>1, Zenon DEF Reading, NoToken
<1> HIDE DEF n
<1>3. \A i \in 1..n : \A a \in S : NextChar(a, line[i]) \in S
  BY <1>1, NextCharType, Zenon
<1> HIDE DEF S
<1>4. step \in [1..n -> [S -> S]]
  BY <1>3
<1>5. \A i \in 1..n : \A a \in S : step[i][a] = NextChar(a, line[i])
  OBVIOUS
<1> HIDE DEF step
<1>6. PICK f : IsRecursion(f, n, S, NoToken, step)
  BY <1>1, <1>2, <1>4, Recursion, Zenon
<1>7. f \in [0..n -> S] /\ f[0] = NoToken /\ \A i \in 1..n : f[i] = step[i][f[i - 1]]
  BY <1>6 DEF IsRecursion
<1>8. ASSUME NEW i \in 0..n PROVE f[i] = IF i = 0 THEN NoToken ELSE NextChar(f[i - 1], line[i])
  <2>1. CASE i = 0
    BY <1>7, <2>1
  <2>2. CASE i # 0
    <3>1. i \in 1..n /\ i - 1 \in 0..n
      BY <1>1, <2>2
    <3>2. f[i - 1] \in S
      BY <1>7, <3>1
    <3> QED BY <1>5, <1>7, <2>2, <3>1, <3>2, Zenon
  <2> QED BY <2>1, <2>2
<1>9. Def(f)
  BY <1>7, <1>8
<1>10. Def(R)
  <2>1. R = CHOOSE g : Def(g)
    BY DEF Read, n
  <2> HIDE DEF Def, R
  <2> QED BY <1>9, <2>1
<1> HIDE DEF R
<1>11. \A i \in 0..n : R[i] = IF i = 0 THEN NoToken ELSE NextChar(R[i - 1], line[i])
  BY <1>10
<1> DEFINE T == {i \in 0..n : R[i] \in S}
<1>12. 0 \in T
  <2>1. 0 \in 0..n
    BY <1>1
  <2> QED BY <1>2, <1>11, <2>1
<1>13. ASSUME NEW i \in 1..n, i - 1 \in T PROVE i \in T
  <2>1. i \in 0..n /\ i # 0
    BY <1>1
  <2>2. R[i] = NextChar(R[i - 1], line[i])
    BY <1>11, <2>1
  <2>3. R[i - 1] \in S
    BY <1>13
  <2>4. R[i] \in S
    BY <1>3, <2>2, <2>3, Zenon
  <2> QED BY <2>1, <2>4
<1>14. n \in T
  <2> HIDE DEF T
  <2>1. n \in 0..n
    BY <1>1
  <2>2. \A i \in 0..n : i \in T
    BY <1>1, <1>12, <1>13, Induction
  <2> QED BY <2>1, <2>2
<1>15. R[n] \in Reading(U)
  BY <1>14 DEF S
<1>16. R[n].toks \in Seq(Seq(U)) /\ R[n].tok \in Seq(U)
  BY <1>15 DEF Reading
<1>17. Push(R[n].toks, R[n].tok) \in Seq(Seq(U))
  BY <1>16, PushType, Zenon
<1> QED BY <1>17, TokenizeIsRead DEF R, n

Cutting(U) == [done : Seq(Seq(U)), cur : Seq(U)]
NoPiece == [done |-> <<>>, cur |-> <<>>]
Cut(tok) ==
  CHOOSE f : f = [n \in 0..Len(tok) |-> IF n = 0 THEN NoPiece ELSE StrTok(f[n - 1], tok[n])]

LEMMA PiecesAreCut ==
  ASSUME NEW tok
  PROVE  LET all == Cut(tok)[Len(tok)]
         IN  Pieces(tok) = IF all.cur = <<>> THEN all.done ELSE Append(all.done, all.cur)
BY DEF Pieces, Cut, NoPiece

LEMMA StrTokType ==
  ASSUME NEW U, NEW a \in Cutting(U), NEW c \in U
  PROVE  StrTok(a, c) \in Cutting(U)
<1> DEFINE V == Seq(U)
<1>1. a.done \in Seq(V) /\ a.cur \in V
  BY DEF Cutting
<1>2. Append(a.cur, c) \in V /\ <<>> \in V
  BY <1>1
<1> DEFINE next == [done |-> Append(a.done, a.cur), cur |-> <<>>]
           more == [a EXCEPT !.cur = Append(@, c)]
<1>4. more \in Cutting(U)
  <2> DEFINE W == Seq(V)
             x == Append(a.cur, c)
  <2>1. a \in [done : W, cur : V] /\ x \in V
    BY <1>2 DEF Cutting
  <2>2. more = [a EXCEPT !.cur = x]
    OBVIOUS
  <2> HIDE DEF V, W, x, more
  <2>3. [a EXCEPT !.cur = x] \in [done : W, cur : V]
    BY <2>1
  <2>4. more \in [done : W, cur : V]
    BY <2>2, <2>3, Zenon
  <2> QED BY <2>4 DEF Cutting, V, W
<1>5. next \in Cutting(U)
  <2>1. Append(a.done, a.cur) \in Seq(V)
    <3> HIDE DEF V
    <3> QED BY <1>1
  <2> QED BY <1>2, <2>1, Zenon DEF Cutting
<1>6. StrTok(a, c) \in {next, a, more}
  BY DEF StrTok
<1> HIDE DEF next, more
<1> QED BY <1>4, <1>5, <1>6, Zenon

LEMMA PiecesType ==
  ASSUME NEW U, NEW tok \in Seq(U)
  PROVE  Pieces(tok) \in Seq(Seq(U))
<1> DEFINE n == Len(tok)
           S == Cutting(U)
           step == [i \in 1..n |-> [a \in S |-> StrTok(a, tok[i])]]
           Def(f) == f = [i \in 0..n |-> IF i = 0 THEN NoPiece ELSE StrTok(f[i - 1], tok[i])]
           R == Cut(tok)
<1>1. n \in Nat /\ \A i \in 1..n : tok[i] \in U
  OBVIOUS
<1>2. NoPiece \in S
  <2>1. <<>> \in Seq(Seq(U)) /\ <<>> \in Seq(U)
    OBVIOUS
  <2> QED BY <2>1, Zenon DEF Cutting, NoPiece
<1> HIDE DEF n
<1>3. \A i \in 1..n : \A a \in S : StrTok(a, tok[i]) \in S
  BY <1>1, StrTokType, Zenon
<1> HIDE DEF S
<1>4. step \in [1..n -> [S -> S]]
  BY <1>3
<1>5. \A i \in 1..n : \A a \in S : step[i][a] = StrTok(a, tok[i])
  OBVIOUS
<1> HIDE DEF step
<1>6. PICK f : IsRecursion(f, n, S, NoPiece, step)
  BY <1>1, <1>2, <1>4, Recursion, Zenon
<1>7. f \in [0..n -> S] /\ f[0] = NoPiece /\ \A i \in 1..n : f[i] = step[i][f[i - 1]]
  BY <1>6 DEF IsRecursion
<1>8. ASSUME NEW i \in 0..n PROVE f[i] = IF i = 0 THEN NoPiece ELSE StrTok(f[i - 1], tok[i])
  <2>1. CASE i = 0
    BY <1>7, <2>1
  <2>2. CASE i # 0
    <3>1. i \in 1..n /\ i - 1 \in 0..n
      BY <1>1, <2>2
    <3>2. f[i - 1] \in S
      BY <1>7, <3>1
    <3> QED BY <1>5, <1>7, <2>2, <3>1, <3>2, Zenon
  <2> QED BY <2>1, <2>2
<1>9. Def(f)
  BY <1>7, <1>8
<1>10. Def(R)
  <2>1. R = CHOOSE g : Def(g)
    BY DEF Cut, n
  <2> HIDE DEF Def, R
  <2> QED BY <1>9, <2>1
<1> HIDE DEF R
<1>11. \A i \in 0..n : R[i] = IF i = 0 THEN NoPiece ELSE StrTok(R[i - 1], tok[i])
  BY <1>10
<1> DEFINE T == {i \in 0..n : R[i] \in S}
<1>12. 0 \in T
  <2>1. 0 \in 0..n
    BY <1>1
  <2> QED BY <1>2, <1>11, <2>1
<1>13. ASSUME NEW i \in 1..n, i - 1 \in T PROVE i \in T
  <2>1. i \in 0..n /\ i # 0
    BY <1>1
  <2>2. R[i] = StrTok(R[i - 1], tok[i])
    BY <1>11, <2>1
  <2>3. R[i - 1] \in S
    BY <1>13
  <2>4. R[i] \in S
    BY <1>3, <2>2, <2>3, Zenon
  <2> QED BY <2>1, <2>4
<1>14. n \in T
  <2> HIDE DEF T
  <2>1. n \in 0..n
    BY <1>1
  <2>2. \A i \in 0..n : i \in T
    BY <1>1, <1>12, <1>13, Induction
  <2> QED BY <2>1, <2>2
<1>15. R[n] \in Cutting(U)
  BY <1>14 DEF S
<1>16. R[n].done \in Seq(Seq(U)) /\ R[n].cur \in Seq(U)
  BY <1>15 DEF Cutting
<1> DEFINE V == Seq(U)
<1>17. R[n].done \in Seq(V) /\ R[n].cur \in V
  BY <1>16
<1>18. Append(R[n].done, R[n].cur) \in Seq(V)
  <2> HIDE DEF V
  <2> QED BY <1>17
<1>19. Pieces(tok) = IF R[n].cur = <<>> THEN R[n].done ELSE Append(R[n].done, R[n].cur)
  BY PiecesAreCut DEF R, n
<1> HIDE DEF V
<1>20. Pieces(tok) \in Seq(V)
  BY <1>17, <1>18, <1>19, Zenon
<1> QED BY <1>20 DEF V

-----------------------------------------------------------------------------
(* What a save prints is text, and the text of a line more is that of the  *)
(* lines before, followed by its own.                                      *)

LEMMA FunctionIs ==
  ASSUME NEW n \in Nat, NEW f, f = [i \in 1..n |-> f[i]]
  PROVE  IsSequence(f) /\ Len(f) = n
<1> DEFINE U == {f[i] : i \in 1..n}
<1>1. f \in [1..n -> U]
  <2>1. \A i \in 1..n : f[i] \in U
    OBVIOUS
  <2> HIDE DEF U
  <2> QED BY <2>1
<1> HIDE DEF U
<1>2. f \in Seq(U) /\ Len(f) = n
  BY <1>1
<1> QED BY <1>2, IsSequenceIntro

LEMMA NumeralIs ==
  ASSUME NEW n
  PROVE  IsSequence(Numeral(n))
<1>1. \A a, b : IsSequence(<<a>>) /\ IsSequence(<<a, b>>)
  BY TupleIs
<1> QED BY <1>1, Zenon DEF Numeral

LEMMA FlattenIsSequence ==
  ASSUME NEW seqs, IsSequence(seqs), \A i \in 1..Len(seqs) : IsSequence(seqs[i])
  PROVE  IsSequence(FlattenSeq(seqs))
<1>1. PICK U : seqs \in Seq(Seq(U))
  BY FlattenIs
<1>2. FlattenSeq(seqs) \in Seq(U)
  BY <1>1, FlattenType
<1> QED BY <1>2, IsSequenceIntro

LEMMA ArrayTextIs ==
  ASSUME NEW p, NEW v, IsSequence(v)
  PROVE  IsSequence(ArrayText(p, v))
<1> DEFINE n == Len(v)
           seqs == [i \in 1..n |-> (IF i = 1 THEN <<>> ELSE <<",">>) \o (IF v[i] < 0 THEN <<"f">> ELSE Numeral(v[i]))]
<1>1. n \in Nat /\ DOMAIN v = 1..n
  BY IsSequenceIn
<1>2. ASSUME NEW i \in 1..n PROVE IsSequence(seqs[i])
  <2> DEFINE a == IF i = 1 THEN <<>> ELSE <<",">>
             b == IF v[i] < 0 THEN <<"f">> ELSE Numeral(v[i])
  <2>1. IsSequence(a)
    BY TupleIs, Zenon
  <2>2. IsSequence(b)
    BY TupleIs, NumeralIs, Zenon
  <2>3. seqs[i] = a \o b
    OBVIOUS
  <2> HIDE DEF a, b, seqs
  <2>4. IsSequence(a \o b)
    BY <2>1, <2>2, ConcatIs
  <2> QED BY <2>3, <2>4, Zenon
<1>3. ArrayText(p, v) = FlattenSeq(seqs)
  BY <1>1 DEF ArrayText
<1>4. seqs = [i \in 1..n |-> seqs[i]]
  OBVIOUS
<1> HIDE DEF seqs, n
<1>5. IsSequence(seqs) /\ Len(seqs) = n
  BY <1>1, <1>4, FunctionIs
<1>6. \A i \in 1..Len(seqs) : IsSequence(seqs[i])
  BY <1>2, <1>5, Zenon
<1>7. IsSequence(FlattenSeq(seqs))
  BY <1>5, <1>6, FlattenIsSequence
<1> QED BY <1>3, <1>7, Zenon

LEMMA TextIs ==
  ASSUME NEW p, NEW v, p.kind \in Kinds, IsValue(p, v)
  PROVE  IsSequence(Text(p, v)) /\ IsSequence(BoolText(p, v))
<1>1. IsSequence(IntText(p, v))
  <2>1. \A a, b, c : IsSequence(<<a, b, c>>)
    BY TupleIs
  <2> QED BY <2>1, NumeralIs, Zenon DEF IntText
<1>2. IsSequence(BoolText(p, v))
  <2>1. \A a, b, c : IsSequence(<<a, b, c>>) /\ IsSequence(<<a>>)
    BY TupleIs
  <2> QED BY <2>1, Zenon DEF BoolText
<1>3. IsSequence(FloatText(p, v))
  BY NumeralIs, Zenon DEF FloatText
<1>4. IsSequence(VecText(p, v))
  <2> DEFINE a == Numeral(v[1])
             b == <<",", " ">>
             c == Numeral(v[2])
  <2>1. IsSequence(a) /\ IsSequence(b) /\ IsSequence(c)
    BY NumeralIs, TupleIs, Zenon
  <2>2. VecText(p, v) = (a \o b) \o c
    BY Zenon DEF VecText
  <2> HIDE DEF a, b, c
  <2>3. IsSequence(a \o b)
    BY <2>1, ConcatIs
  <2>4. IsSequence((a \o b) \o c)
    BY <2>1, <2>3, ConcatIs
  <2> QED BY <2>2, <2>4, Zenon
<1>5. p.kind = "string" => IsSequence(StringText(p, v))
  <2> DEFINE q == <<Quote>>
  <2>1. IsSequence(q)
    BY TupleIs, Zenon
  <2>2. StringText(p, v) = (q \o v) \o q
    BY Zenon DEF StringText
  <2>3. p.kind = "string" => IsSequence(v)
    BY DEF IsValue
  <2> HIDE DEF q
  <2>4. p.kind = "string" => IsSequence(q \o v)
    BY <2>1, <2>3, ConcatIs
  <2>5. p.kind = "string" => IsSequence((q \o v) \o q)
    BY <2>1, <2>4, ConcatIs
  <2> QED BY <2>2, <2>5, Zenon
<1>6. p.kind = "array" => IsSequence(ArrayText(p, v))
  <2>1. p.kind = "array" => IsSequence(v)
    BY DEF IsValue
  <2> QED BY <2>1, ArrayTextIs
<1>7. IsSequence(Text(p, v))
  <2>1. Text(p, v) = CASE p.kind = "int" -> IntText(p, v) [] p.kind = "bool" -> BoolText(p, v)
                       [] p.kind = "float" -> FloatText(p, v) [] p.kind = "vec" -> VecText(p, v)
                       [] p.kind = "string" -> StringText(p, v) [] p.kind = "array" -> ArrayText(p, v)
    BY DEF Text
  <2> DEFINE t == Text(p, v)
  <2>2. (p.kind = "int" => t = IntText(p, v)) /\ (p.kind = "bool" => t = BoolText(p, v))
    BY DEF Text
  <2>3. (p.kind = "float" => t = FloatText(p, v)) /\ (p.kind = "vec" => t = VecText(p, v))
    BY DEF Text
  <2>4. (p.kind = "string" => t = StringText(p, v)) /\ (p.kind = "array" => t = ArrayText(p, v))
    BY DEF Text
  <2> HIDE DEF t
  <2>5. IsSequence(t)
    <3>1. p.kind = "int" \/ p.kind = "bool" \/ p.kind = "float" \/ p.kind = "vec" \/ p.kind = "string" \/ p.kind = "array"
      BY DEF Kinds
    <3> QED BY <1>1, <1>2, <1>3, <1>4, <1>5, <1>6, <2>2, <2>3, <2>4, <3>1, Zenon
  <2> QED BY <2>5 DEF t
<1> QED BY <1>2, <1>7

LEMMA IndexIs ==
  ASSUME NEW p, NEW e
  PROVE  IsSequence(Index(p, e))
<1> DEFINE a == <<"[">>
           b == Numeral(e)
           c == <<"]">>
           d == <<"[", Quote, p.eids[e], Quote, "]">>
<1>1. IsSequence(a) /\ IsSequence(b) /\ IsSequence(c) /\ IsSequence(d)
  BY NumeralIs, TupleIs, Zenon
<1>2. Index(p, e) = IF e \in DOMAIN p.eids THEN d ELSE (a \o b) \o c
  BY Zenon DEF Index
<1> HIDE DEF a, b, c, d
<1>3. IsSequence(a \o b)
  BY <1>1, ConcatIs
<1>4. IsSequence((a \o b) \o c)
  BY <1>1, <1>3, ConcatIs
<1> QED BY <1>1, <1>2, <1>4, Zenon

LEMMA LineIs ==
  ASSUME NEW p, NEW e, NEW v, IsParam(p), IsValue(p, v)
  PROVE  IsSequence(Line(p, e, v))
<1> DEFINE nl == <<NL>>
           t == Text(p, v)
           b == BoolText(p, v)
           i == Index(p, e)
           name == <<p.name>>
           is == <<"=">>
           set == <<p.name, "=">>
           add == <<p.name, "<">>
<1>1. IsSequence(t) /\ IsSequence(b) /\ IsSequence(i)
  <2>1. p.kind \in Kinds
    BY DEF IsParam
  <2> QED BY <2>1, TextIs, IndexIs
<1>2. IsSequence(nl) /\ IsSequence(name) /\ IsSequence(is) /\ IsSequence(set) /\ IsSequence(add)
  BY TupleIs, Zenon
<1>3. /\ ScalarLine(p, v) = (set \o t) \o nl
      /\ TableLine(p, e, v) = (((name \o i) \o is) \o t) \o nl
      /\ BoolTableLine(p, e, v) = (((name \o i) \o is) \o b) \o nl
      /\ ListLine(p, v) = (add \o t) \o nl
  BY Zenon DEF ScalarLine, TableLine, BoolTableLine, ListLine
<1> HIDE DEF nl, t, b, i, name, is, set, add
<1>4. IsSequence(set \o t) /\ IsSequence(add \o t) /\ IsSequence(name \o i)
  BY <1>1, <1>2, ConcatIs
<1>5. IsSequence((name \o i) \o is)
  BY <1>2, <1>4, ConcatIs
<1>6. IsSequence(((name \o i) \o is) \o t) /\ IsSequence(((name \o i) \o is) \o b)
  BY <1>1, <1>5, ConcatIs
<1>7. /\ IsSequence((set \o t) \o nl) /\ IsSequence((((name \o i) \o is) \o t) \o nl)
      /\ IsSequence((((name \o i) \o is) \o b) \o nl) /\ IsSequence((add \o t) \o nl)
  BY <1>2, <1>4, <1>6, ConcatIs
<1>8. IsSequence(ScalarLine(p, v)) /\ IsSequence(TableLine(p, e, v)) /\ IsSequence(BoolTableLine(p, e, v))
      /\ IsSequence(ListLine(p, v))
  BY <1>3, <1>7, Zenon
<1> DEFINE L == Line(p, e, v)
<1>9. p.shape = "scalar" => L = ScalarLine(p, v)
  BY DEF Line
<1>10. p.shape = "table" => L = IF p.kind = "bool" THEN BoolTableLine(p, e, v) ELSE TableLine(p, e, v)
  BY DEF Line
<1>11. p.shape = "list" => L = ListLine(p, v)
  BY DEF Line
<1>12. p.shape = "scalar" \/ p.shape = "table" \/ p.shape = "list"
  BY DEF IsParam
<1> HIDE DEF L
<1>13. IsSequence(L)
  BY <1>8, <1>9, <1>10, <1>11, <1>12, Zenon
<1> QED BY <1>13 DEF L

\* The lines a saver has printed.
IsLine(prog, l) == l.p \in 1..Len(prog) /\ IsValue(prog[l.p], l.v)
IsLines(prog, lines) == IsSequence(lines) /\ \A k \in 1..Len(lines) : IsLine(prog, lines[k])
LineText(prog, l) == Line(prog[l.p], l.e, l.v)
TextFor(prog, lines) == FlattenSeq([i \in DOMAIN lines |-> Line(prog[lines[i].p], lines[i].e, lines[i].v)])

LEMMA ProgramType ==
  ASSUME NEW prog \in Programs
  PROVE  IsSequence(prog) /\ Len(prog) \in Nat /\ \A i \in 1..Len(prog) : IsParam(prog[i])
<1>1. IsSequence(prog) /\ \A p \in ToSet(prog) : IsParam(p)
  BY ProgramsAssumption
<1>2. Len(prog) \in Nat /\ ToSet(prog) = {prog[i] : i \in 1..Len(prog)}
  BY <1>1, IsSequenceIn
<1> QED BY <1>1, <1>2

LEMMA LineTextIs ==
  ASSUME NEW prog \in Programs, NEW l, IsLine(prog, l)
  PROVE  IsSequence(LineText(prog, l))
<1>1. IsParam(prog[l.p]) /\ IsValue(prog[l.p], l.v)
  BY ProgramType DEF IsLine
<1> QED BY <1>1, LineIs DEF LineText

LEMMA TextsIs ==
  ASSUME NEW prog \in Programs, NEW lines, IsLines(prog, lines)
  PROVE  LET texts == [i \in 1..Len(lines) |-> LineText(prog, lines[i])]
         IN  /\ IsSequence(texts) /\ Len(texts) = Len(lines)
             /\ \A i \in 1..Len(texts) : IsSequence(texts[i])
             /\ TextFor(prog, lines) = FlattenSeq(texts)
<1> DEFINE n == Len(lines)
           texts == [i \in 1..n |-> LineText(prog, lines[i])]
<1>1. n \in Nat /\ DOMAIN lines = 1..n
  BY IsSequenceIn DEF IsLines
<1>2. TextFor(prog, lines) = FlattenSeq(texts)
  BY <1>1 DEF TextFor, LineText
<1>3. \A i \in 1..n : texts[i] = LineText(prog, lines[i])
  OBVIOUS
<1>4. texts = [i \in 1..n |-> texts[i]]
  OBVIOUS
<1> HIDE DEF texts
<1>5. IsSequence(texts) /\ Len(texts) = n
  <2> HIDE DEF n
  <2> QED BY <1>1, <1>4, FunctionIs
<1>6. \A i \in 1..n : IsSequence(texts[i])
  <2>1. \A i \in 1..n : IsLine(prog, lines[i])
    BY DEF IsLines
  <2> HIDE DEF n
  <2> QED BY <1>3, <2>1, LineTextIs
<1>7. IsSequence(texts) /\ Len(texts) = Len(lines) /\ (\A i \in 1..Len(texts) : IsSequence(texts[i]))
      /\ TextFor(prog, lines) = FlattenSeq(texts)
  BY <1>2, <1>5, <1>6
<1> QED BY <1>7 DEF texts

LEMMA TextOfType ==
  ASSUME NEW prog \in Programs, NEW lines, IsLines(prog, lines)
  PROVE  IsSequence(TextFor(prog, lines))
<1> DEFINE texts == [i \in 1..Len(lines) |-> LineText(prog, lines[i])]
<1>1. IsSequence(texts) /\ (\A i \in 1..Len(texts) : IsSequence(texts[i])) /\ TextFor(prog, lines) = FlattenSeq(texts)
  BY TextsIs
<1> HIDE DEF texts
<1> QED BY <1>1, FlattenIsSequence, Zenon

LEMMA TextOfNothing ==
  ASSUME NEW prog
  PROVE  TextFor(prog, <<>>) = <<>>
<1> DEFINE texts == [i \in DOMAIN <<>> |-> Line(prog[(<<>>)[i].p], (<<>>)[i].e, (<<>>)[i].v)]
<1>1. TextFor(prog, <<>>) = FlattenSeq(texts)
  BY DEF TextFor
<1>2. texts = <<>>
  OBVIOUS
<1>3. Len(<<>>) = 0
  OBVIOUS
<1>4. FlattenSeq(<<>>) = <<>>
  BY <1>3, FlattenIsJoined, Zenon
<1> HIDE DEF texts
<1> QED BY <1>1, <1>2, <1>4, Zenon

LEMMA TextOfAppend ==
  ASSUME NEW prog \in Programs, NEW lines, IsLines(prog, lines), NEW l, IsLine(prog, l)
  PROVE  IsLines(prog, Append(lines, l)) /\ TextFor(prog, Append(lines, l)) = TextFor(prog, lines) \o LineText(prog, l)
<1> DEFINE n == Len(lines)
           more == Append(lines, l)
           A == [i \in 1..n |-> LineText(prog, lines[i])]
           B == [i \in 1..Len(more) |-> LineText(prog, more[i])]
           t == LineText(prog, l)
<1>1. n \in Nat /\ IsSequence(lines) /\ \A k \in 1..n : IsLine(prog, lines[k])
  BY IsSequenceIn DEF IsLines
<1>2. Len(more) = n + 1 /\ more[n + 1] = l /\ \A k \in 1..n : more[k] = lines[k]
  <2>1. PICK U : lines \in Seq(U)
    BY <1>1, IsSequenceElim
  <2> QED BY <2>1
<1>3. IsLines(prog, more)
  <2>1. IsSequence(more)
    BY <1>1, AppendIs
  <2>2. ASSUME NEW k \in 1..Len(more) PROVE IsLine(prog, more[k])
    <3> HIDE DEF n, more
    <3>1. k \in 1..n \/ k = n + 1
      BY <1>1, <1>2
    <3> QED BY <1>1, <1>2, <3>1
  <2> QED BY <2>1, <2>2 DEF IsLines
<1>4. /\ IsSequence(A) /\ Len(A) = n /\ \A i \in 1..Len(A) : IsSequence(A[i])
      /\ TextFor(prog, lines) = FlattenSeq(A)
  BY TextsIs
<1>5. TextFor(prog, more) = FlattenSeq(B)
  <2> HIDE DEF more
  <2> QED BY <1>3, TextsIs
<1>6. IsSequence(t)
  BY LineTextIs
<1>7. \A i \in 1..n : A[i] = LineText(prog, lines[i])
  OBVIOUS
<1> HIDE DEF A
<1>8. PICK U : A \in Seq(Seq(U)) /\ t \in Seq(U)
  <2> DEFINE C == Append(A, t)
  <2>1. IsSequence(C)
    BY <1>4, AppendIs
  <2>2. Len(C) = n + 1 /\ C[n + 1] = t /\ \A k \in 1..n : C[k] = A[k]
    <3>1. PICK V : A \in Seq(V)
      BY <1>4, IsSequenceElim
    <3> HIDE DEF n
    <3> QED BY <3>1, <1>4
  <2>3. ASSUME NEW i \in 1..Len(C) PROVE IsSequence(C[i])
    <3> HIDE DEF C, n, t
    <3>1. i \in 1..n \/ i = n + 1
      BY <1>1, <2>2
    <3> QED BY <1>4, <1>6, <2>2, <3>1
  <2> HIDE DEF C
  <2>4. PICK U : C \in Seq(Seq(U))
    BY <2>1, <2>3, FlattenIs
  <2>5. t \in Seq(U)
    <3>1. n + 1 \in 1..Len(C)
      BY <1>1, <2>2
    <3> QED BY <2>2, <2>4, <3>1
  <2>6. A \in Seq(Seq(U))
    <3> DEFINE V == Seq(U)
    <3>1. \A k \in 1..n : C[k] \in V
      <4>1. \A k \in 1..n : k \in 1..Len(C)
        BY <1>1, <2>2
      <4> QED BY <2>4, <4>1
    <3>2. DOMAIN A = 1..n /\ A = [k \in 1..n |-> A[k]]
      <4>1. PICK W : A \in Seq(W)
        BY <1>4, IsSequenceElim
      <4> QED BY <1>4, <4>1
    <3> HIDE DEF V, n
    <3>3. A \in [1..n -> V]
      BY <2>2, <3>1, <3>2
    <3>4. A \in Seq(V)
      BY <1>1, <3>3
    <3> QED BY <3>4 DEF V
  <2> QED BY <2>5, <2>6
<1>9. B = Append(A, t)
  <2> DEFINE V == Seq(U)
             C == Append(A, t)
  <2>1. A \in Seq(V) /\ t \in V
    BY <1>8
  <2> HIDE DEF V, t, n, more
  <2>2. C \in Seq(V) /\ Len(C) = n + 1 /\ C[n + 1] = t /\ \A k \in 1..n : C[k] = A[k]
    BY <1>4, <2>1
  <2>3. \A i \in 1..(n + 1) : B[i] = LineText(prog, more[i])
    BY <1>2
  <2>4. B = [i \in 1..(n + 1) |-> B[i]]
    BY <1>2
  <2> HIDE DEF B, C
  <2>5. C = [i \in 1..(n + 1) |-> C[i]]
    BY <2>2
  <2>6. ASSUME NEW i \in 1..(n + 1) PROVE B[i] = C[i]
    <3>1. CASE i = n + 1
      <4>1. B[i] = LineText(prog, l)
        BY <1>2, <2>3, <3>1
      <4> QED BY <2>2, <3>1, <4>1 DEF t
    <3>2. CASE i # n + 1
      <4>1. i \in 1..n
        BY <1>1, <3>2
      <4> QED BY <1>2, <1>7, <2>2, <2>3, <4>1
    <3> QED BY <3>1, <3>2
  <2>7. B = C
    BY <2>4, <2>5, <2>6
  <2> QED BY <2>7 DEF C
<1>10. FlattenSeq(Append(A, t)) = FlattenSeq(A) \o t
  <2> HIDE DEF t
  <2> QED BY <1>8, FlattenAppend
<1> HIDE DEF B, more, t
<1>11. TextFor(prog, more) = TextFor(prog, lines) \o t
  BY <1>4, <1>5, <1>9, <1>10, Zenon
<1> QED BY <1>3, <1>11 DEF more, t

-----------------------------------------------------------------------------
(* The elements of a parameter keep their type whatever is read or set.    *)

Elements(p, w) ==
  /\ IsSequence(w) /\ Len(w) <= p.size /\ (p.shape # "list" => Len(w) = p.size)
  /\ \A k \in 1..Len(w) : IsValue(p, w[k])

LEMMA ArrayRead ==
  ASSUME NEW p, NEW tok, IsSequence(tok), NEW v \in ArraySetStr(p, tok)
  PROVE  IsSequence(v)
<1>1. PICK U : tok \in Seq(U)
  BY IsSequenceElim
<1> DEFINE ps == Pieces(tok)
           V == Seq(U)
<1>2. ps \in Seq(V)
  BY <1>1, PiecesType
<1> DEFINE f == [i \in DOMAIN ps |-> CHOOSE n \in StringConvert(ps[i]) : TRUE]
<1>3. v = f
  BY Zenon DEF ArraySetStr
<1> HIDE DEF ps, V
<1>4. Len(ps) \in Nat /\ DOMAIN ps = 1..Len(ps)
  BY <1>2
<1>5. f = [i \in 1..Len(ps) |-> f[i]]
  BY <1>4
<1> DEFINE n == Len(ps)
<1> HIDE DEF f, n
<1>6. IsSequence(f)
  BY <1>4, <1>5, FunctionIs DEF n
<1> QED BY <1>3, <1>6, Zenon

LEMMA SetStrValue ==
  ASSUME NEW p, NEW tok, IsSequence(tok), NEW v \in SetStr(p, tok)
  PROVE  IsValue(p, v)
<1>1. CASE p.kind = "string"
  <2>1. v \in StringSetStr(p, tok)
    BY <1>1 DEF SetStr
  <2>2. v = tok
    BY <2>1 DEF StringSetStr
  <2> QED BY <2>2 DEF IsValue
<1>2. CASE p.kind = "array"
  <2>1. v \in ArraySetStr(p, tok)
    BY <1>2 DEF SetStr
  <2>2. IsSequence(v)
    BY <2>1, ArrayRead
  <2> QED BY <2>2 DEF IsValue
<1>3. CASE p.kind \notin {"string", "array"}
  BY <1>3 DEF IsValue
<1> QED BY <1>1, <1>2, <1>3

LEMMA SetStrLitValue ==
  ASSUME NEW p, NEW tok, IsSequence(tok), NEW v \in SetStrLit(p, tok)
  PROVE  IsValue(p, v)
<1>1. CASE p.kind \in {"string", "array"}
  <2>1. v \in SetStr(p, tok)
    BY <1>1 DEF SetStrLit
  <2> QED BY <2>1, SetStrValue
<1>2. CASE p.kind \notin {"string", "array"}
  BY <1>2 DEF IsValue
<1> QED BY <1>1, <1>2

LEMMA TblValue ==
  ASSUME NEW p, NEW e, NEW tok, IsSequence(tok), NEW v, v \in SetStrTbl(p, e, tok) \/ v \in SetStrLitTbl(p, e, tok)
  PROVE  IsValue(p, v)
<1>1. CASE p.kind = "bool"
  BY <1>1 DEF IsValue
<1>2. CASE p.kind # "bool" /\ v \in SetStrTbl(p, e, tok)
  <2>1. v \in SetStr(p, tok)
    BY <1>2, Zenon DEF SetStrTbl, IntSetStrTbl
  <2> QED BY <2>1, SetStrValue
<1>3. CASE v \in SetStrLitTbl(p, e, tok)
  <2>1. v \in SetStrLit(p, tok)
    BY <1>3, Zenon DEF SetStrLitTbl
  <2> QED BY <2>1, SetStrLitValue
<1> QED BY <1>1, <1>2, <1>3

\* The tokens of a command are sequences.
IsTokens(toks) == \A k \in 1..Len(toks) : IsSequence(toks[k])

LEMMA SetCmdValue ==
  ASSUME NEW p, NEW toks, IsTokens(toks), NEW v \in SetCmd(p, toks)
  PROVE  IsValue(p, v)
<1> DEFINE A == Matches(toks, <<"_", "=", "_">>)
           B == Matches(toks, <<"_", "=", Quote, Quote>>)
           C == Matches(toks, <<"_", "=", Quote, "_", Quote>>)
<1>1. (A => 3 \in 1..Len(toks)) /\ (C => 4 \in 1..Len(toks))
  <2>1. (A => Len(toks) = 3) /\ (C => Len(toks) = 5)
    BY DEF Matches
  <2> HIDE DEF A, B, C
  <2>2. \A m : (m = 3 => 3 \in 1..m) /\ (m = 5 => 4 \in 1..m)
    OBVIOUS
  <2> QED BY <2>1, <2>2, Zenon
<1>2. SetCmd(p, toks) = CASE A -> SetStr(p, toks[3]) [] B -> SetStrLit(p, <<>>) [] C -> SetStrLit(p, toks[4])
                          [] OTHER -> {}
  BY DEF SetCmd
<1> HIDE DEF A, B, C
<1>3. \/ A /\ v \in SetStr(p, toks[3])
      \/ v \in SetStrLit(p, <<>>)
      \/ C /\ v \in SetStrLit(p, toks[4])
  BY <1>2
<1>4. CASE A /\ v \in SetStr(p, toks[3])
  <2>1. IsSequence(toks[3])
    BY <1>1, <1>4 DEF IsTokens
  <2> QED BY <1>4, <2>1, SetStrValue
<1>5. CASE v \in SetStrLit(p, <<>>)
  <2>1. IsSequence(<<>>)
    BY TupleIs
  <2> QED BY <1>5, <2>1, SetStrLitValue
<1>6. CASE C /\ v \in SetStrLit(p, toks[4])
  <2>1. IsSequence(toks[4])
    BY <1>1, <1>6 DEF IsTokens
  <2> QED BY <1>6, <2>1, SetStrLitValue
<1> QED BY <1>3, <1>4, <1>5, <1>6

LEMMA AddCmdValue ==
  ASSUME NEW p, NEW toks, IsTokens(toks), NEW v \in AddCmd(p, toks)
  PROVE  IsValue(p, v)
<1> DEFINE A == Matches(toks, <<"_", "<", "_">>)
           B == Matches(toks, <<"_", "<", Quote, Quote>>)
           C == Matches(toks, <<"_", "<", Quote, "_", Quote>>)
<1>1. (A => 3 \in 1..Len(toks)) /\ (C => 4 \in 1..Len(toks))
  <2>1. (A => Len(toks) = 3) /\ (C => Len(toks) = 5)
    BY DEF Matches
  <2> HIDE DEF A, B, C
  <2>2. \A m : (m = 3 => 3 \in 1..m) /\ (m = 5 => 4 \in 1..m)
    OBVIOUS
  <2> QED BY <2>1, <2>2, Zenon
<1>2. AddCmd(p, toks) = CASE A -> SetStr(p, toks[3]) [] B -> SetStrLit(p, <<>>) [] C -> SetStrLit(p, toks[4])
                          [] OTHER -> {}
  BY DEF AddCmd, AddStr, AddStrLit
<1> HIDE DEF A, B, C
<1>3. \/ A /\ v \in SetStr(p, toks[3])
      \/ v \in SetStrLit(p, <<>>)
      \/ C /\ v \in SetStrLit(p, toks[4])
  BY <1>2
<1>4. CASE A /\ v \in SetStr(p, toks[3])
  <2>1. IsSequence(toks[3])
    BY <1>1, <1>4 DEF IsTokens
  <2> QED BY <1>4, <2>1, SetStrValue
<1>5. CASE v \in SetStrLit(p, <<>>)
  <2>1. IsSequence(<<>>)
    BY TupleIs
  <2> QED BY <1>5, <2>1, SetStrLitValue
<1>6. CASE C /\ v \in SetStrLit(p, toks[4])
  <2>1. IsSequence(toks[4])
    BY <1>1, <1>6 DEF IsTokens
  <2> QED BY <1>6, <2>1, SetStrLitValue
<1> QED BY <1>3, <1>4, <1>5, <1>6

LEMMA TableCmdValue ==
  ASSUME NEW p, NEW toks, IsTokens(toks), NEW s \in TableCmd(p, toks)
  PROVE  IsValue(p, s[2])
<1> DEFINE I == <<"_", "[", "_", "]", "=">>
           E == <<"_", "[", Quote, "_", Quote, "]", "=">>
           Tbl(N, tok) == UNION {{e} \X SetStrTbl(p, e, tok) : e \in N}
           LitTbl(N, tok) == UNION {{e} \X SetStrLitTbl(p, e, tok) : e \in N}
           N3 == StringConvert(toks[3])
           N4 == EIDStrToNum(p, toks[4])
           A == Matches(toks, I \o <<"_">>)
           B == Matches(toks, I \o <<Quote, Quote>>)
           C == Matches(toks, I \o <<Quote, "_", Quote>>)
           F == Matches(toks, E \o <<"_">>)
           G == Matches(toks, E \o <<Quote, Quote>>)
           H == Matches(toks, E \o <<Quote, "_", Quote>>)
<1>1. (A => Len(toks) = 6) /\ (C => Len(toks) = 8)
  <2>1. Len(I \o <<"_">>) = 6 /\ Len(I \o <<Quote, "_", Quote>>) = 8
    OBVIOUS
  <2> HIDE DEF I
  <2> QED BY <2>1 DEF Matches
<1>2. (F => Len(toks) = 8) /\ (H => Len(toks) = 10)
  <2>1. Len(E \o <<"_">>) = 8 /\ Len(E \o <<Quote, "_", Quote>>) = 10
    OBVIOUS
  <2> HIDE DEF E
  <2> QED BY <2>1 DEF Matches
<1>3. TableCmd(p, toks) =
        CASE A -> Tbl(N3, toks[6]) [] B -> LitTbl(N3, <<>>) [] C -> LitTbl(N3, toks[7])
          [] F -> Tbl(N4, toks[8]) [] G -> Tbl(N4, <<>>) [] H -> LitTbl(N4, toks[9]) [] OTHER -> {}
  BY DEF TableCmd
<1>4. ASSUME NEW N, NEW tok, IsSequence(tok), s \in Tbl(N, tok) PROVE IsValue(p, s[2])
  <2>1. PICK e \in N : s \in {e} \X SetStrTbl(p, e, tok)
    BY <1>4
  <2>2. s[2] \in SetStrTbl(p, e, tok)
    BY <2>1
  <2> QED BY <1>4, <2>2, TblValue
<1>5. ASSUME NEW N, NEW tok, IsSequence(tok), s \in LitTbl(N, tok) PROVE IsValue(p, s[2])
  <2>1. PICK e \in N : s \in {e} \X SetStrLitTbl(p, e, tok)
    BY <1>5
  <2>2. s[2] \in SetStrLitTbl(p, e, tok)
    BY <2>1
  <2> QED BY <1>5, <2>2, TblValue
<1> HIDE DEF A, B, C, F, G, H, N3, N4, Tbl, LitTbl
<1>6. \/ A /\ s \in Tbl(N3, toks[6])
      \/ s \in LitTbl(N3, <<>>)
      \/ C /\ s \in LitTbl(N3, toks[7])
      \/ F /\ s \in Tbl(N4, toks[8])
      \/ s \in Tbl(N4, <<>>)
      \/ H /\ s \in LitTbl(N4, toks[9])
  BY <1>3
<1>7. (A => IsSequence(toks[6])) /\ (C => IsSequence(toks[7])) /\ (F => IsSequence(toks[8]))
      /\ (H => IsSequence(toks[9]))
  BY <1>1, <1>2 DEF IsTokens
<1>8. IsSequence(<<>>)
  BY TupleIs
<1> QED BY <1>4, <1>5, <1>6, <1>7, <1>8, Zenon

LEMMA ListAddElements ==
  ASSUME NEW p, NEW w, NEW v, IsParam(p), p.shape = "list", Elements(p, w), IsValue(p, v)
  PROVE  Elements(p, ListAdd(p, w, v))
<1> DEFINE n == Len(w)
           more == Append(w, v)
<1>1. IsSequence(w) /\ n \in Nat /\ n <= p.size /\ p.size \in Nat
  BY IsSequenceIn DEF Elements, IsParam
<1>2. Len(more) = n + 1 /\ more[n + 1] = v /\ \A k \in 1..n : more[k] = w[k]
  <2>1. PICK U : w \in Seq(U)
    BY <1>1, IsSequenceElim
  <2> QED BY <2>1
<1>3. \A k \in 1..n : IsValue(p, w[k])
  BY DEF Elements
<1>4. ASSUME n < p.size PROVE Elements(p, more)
  <2>1. IsSequence(more)
    BY <1>1, AppendIs
  <2> HIDE DEF n, more
  <2>2. Len(more) <= p.size
    BY <1>1, <1>2, <1>4
  <2>3. ASSUME NEW k \in 1..Len(more) PROVE IsValue(p, more[k])
    <3>1. k \in 1..n \/ k = n + 1
      BY <1>1, <1>2
    <3> QED BY <1>2, <1>3, <3>1
  <2> QED BY <2>1, <2>2, <2>3 DEF Elements
<1>5. ListAdd(p, w, v) = IF n >= p.size \/ v \in ToSet(w) THEN w ELSE more
  BY DEF ListAdd
<1>6. CASE n >= p.size \/ v \in ToSet(w)
  BY <1>5, <1>6, Zenon
<1>7. CASE ~(n >= p.size \/ v \in ToSet(w))
  <2>1. n < p.size
    BY <1>1, <1>7
  <2>2. Elements(p, more)
    BY <1>4, <2>1
  <2> QED BY <1>5, <1>7, <2>2, Zenon
<1> QED BY <1>6, <1>7

\* An element more or less, in a table of the same length.
LEMMA SameLength ==
  ASSUME NEW p, NEW w, Elements(p, w), NEW u, u = [k \in DOMAIN w |-> u[k]],
         \A k \in 1..Len(w) : IsValue(p, u[k])
  PROVE  Elements(p, u)
<1> DEFINE n == Len(w)
<1>1. IsSequence(w) /\ n \in Nat /\ DOMAIN w = 1..n
  BY IsSequenceIn DEF Elements
<1>2. u = [k \in 1..n |-> u[k]]
  BY <1>1
<1>3. \A k \in 1..n : IsValue(p, u[k])
  OBVIOUS
<1>5. n <= p.size /\ (p.shape # "list" => n = p.size)
  BY DEF Elements
<1> HIDE DEF n
<1>4. IsSequence(u) /\ Len(u) = n
  BY <1>1, <1>2, FunctionIs
<1> QED BY <1>3, <1>4, <1>5 DEF Elements

LEMMA ResultElements ==
  ASSUME NEW i, IsParam(params[i]), NEW toks, IsTokens(toks), NEW had, Elements(params[i], had)
  PROVE  Elements(params[i], Result(i, toks, had))
<1> DEFINE p == params[i]
           sets == SetCmd(p, toks)
           adds == AddCmd(p, toks)
           tbl == TableCmd(p, toks)
           res == Result(i, toks, had)
<1>1. CASE p.shape = "scalar"
  <2> DEFINE v == CHOOSE v \in sets : TRUE
  <2>1. res = IF sets = {} THEN had ELSE <<v>>
    BY <1>1 DEF Result
  <2>2. ASSUME sets # {} PROVE Elements(p, <<v>>)
    <3>1. v \in sets
      BY <2>2
    <3> HIDE DEF v
    <3>2. IsValue(p, v)
      BY <3>1, SetCmdValue
    <3>3. IsSequence(<<v>>) /\ Len(<<v>>) = 1 /\ (<<v>>)[1] = v
      BY TupleIs
    <3>4. p.size = 1
      BY <1>1 DEF IsParam
    <3> HIDE DEF p
    <3> DEFINE t == <<v>>
    <3> HIDE DEF t
    <3>5. IsSequence(t) /\ Len(t) = 1 /\ t[1] = v
      BY <3>3 DEF t
    <3>6. Elements(p, t)
      BY <3>2, <3>4, <3>5 DEF Elements
    <3> QED BY <3>6 DEF t
  <2> HIDE DEF res, v, sets, p
  <2>3. Elements(p, res)
    <3>1. Elements(p, had)
      BY DEF p
    <3> QED BY <2>1, <2>2, <3>1, Zenon
  <2> QED BY <2>3 DEF p, res
<1>2. CASE p.shape = "list"
  <2> DEFINE v == CHOOSE v \in adds : TRUE
  <2>1. res = IF adds = {} THEN had ELSE ListAdd(p, had, v)
    BY <1>2 DEF Result
  <2>2. ASSUME adds # {} PROVE Elements(p, ListAdd(p, had, v))
    <3>1. v \in adds
      BY <2>2
    <3> HIDE DEF v
    <3>2. IsValue(p, v)
      BY <3>1, AddCmdValue
    <3> QED BY <1>2, <3>2, ListAddElements
  <2> HIDE DEF res, v, adds, p
  <2>3. Elements(p, res)
    <3>1. Elements(p, had)
      BY DEF p
    <3> QED BY <2>1, <2>2, <3>1, Zenon
  <2> QED BY <2>3 DEF p, res
<1>3. CASE p.shape = "table"
  <2>1. res = [k \in DOMAIN had |-> IF \E s \in tbl : s[1] + 1 = k THEN (CHOOSE s \in tbl : s[1] + 1 = k)[2] ELSE had[k]]
    BY <1>3 DEF Result
  <2>2. IsSequence(had) /\ DOMAIN had = 1..Len(had) /\ \A k \in 1..Len(had) : IsValue(p, had[k])
    BY IsSequenceIn DEF Elements
  <2>3. ASSUME NEW k \in 1..Len(had) PROVE IsValue(p, res[k])
    <3> DEFINE Q(s) == s \in tbl /\ s[1] + 1 = k
               c == CHOOSE s \in tbl : s[1] + 1 = k
    <3>1. res[k] = IF \E s \in tbl : s[1] + 1 = k THEN c[2] ELSE had[k]
      BY <2>1, <2>2, Zenon
    <3>2. CASE \E s \in tbl : s[1] + 1 = k
      <4>1. c \in tbl
        BY <3>2, Zenon
      <4> HIDE DEF c
      <4>2. IsValue(p, c[2])
        BY <4>1, TableCmdValue
      <4> QED BY <3>1, <3>2, <4>2, Zenon
    <3>3. CASE ~\E s \in tbl : s[1] + 1 = k
      BY <2>2, <3>1, <3>3, Zenon
    <3> QED BY <3>2, <3>3
  <2>4. res = [k \in DOMAIN had |-> res[k]]
    BY <2>1, Zenon
  <2> HIDE DEF res
  <2>5. Elements(p, res)
    BY <2>3, <2>4, SameLength
  <2> QED BY <2>5 DEF res
<1>4. p.shape = "scalar" \/ p.shape = "table" \/ p.shape = "list"
  BY DEF IsParam
<1> QED BY <1>1, <1>2, <1>3, <1>4

LEMMA RemoveElements ==
  ASSUME NEW p, NEW w, IsParam(p), p.shape = "list", Elements(p, w), NEW k \in DOMAIN w
  PROVE  Elements(p, RemoveAt(w, k))
<1> DEFINE n == Len(w)
           u == RemoveAt(w, k)
<1>1. IsSequence(w) /\ n \in Nat /\ n <= p.size /\ p.size \in Nat /\ k \in 1..n
  BY IsSequenceIn DEF Elements, IsParam
<1>2. PICK U : w \in Seq(U)
  BY <1>1, IsSequenceElim
<1> DEFINE a == SubSeq(w, 1, k - 1)
           b == SubSeq(w, k + 1, n)
<1>3. a \in Seq(U) /\ Len(a) = k - 1 /\ \A j \in 1..(k - 1) : a[j] = w[j]
  BY <1>1, <1>2
<1>4. b \in Seq(U) /\ Len(b) = n - k /\ \A j \in 1..(n - k) : b[j] = w[j + k]
  BY <1>1, <1>2
<1>5. u = a \o b
  BY DEF RemoveAt
<1>6. \A j \in 1..n : IsValue(p, w[j])
  BY DEF Elements
<1> HIDE DEF a, b, n, u
<1>7. u \in Seq(U) /\ Len(u) = n - 1
  <2>1. u \in Seq(U) /\ Len(u) = Len(a) + Len(b)
    <3>1. a \in Seq(U) /\ b \in Seq(U)
      BY <1>3, <1>4
    <3>2. a \o b \in Seq(U)
      BY <3>1
    <3>3. Len(a \o b) = Len(a) + Len(b)
      BY <3>1
    <3> QED BY <1>5, <3>2, <3>3, Zenon
  <2>2. Len(a) + Len(b) = n - 1
    BY <1>1, <1>3, <1>4
  <2> QED BY <2>1, <2>2
<1>8. ASSUME NEW j \in 1..(n - 1) PROVE IsValue(p, u[j])
  <2>1. CASE j <= k - 1
    <3>2. j \in 1..(k - 1) /\ j \in 1..n
      BY <1>1, <2>1
    <3>3. (a \o b)[j] = a[j]
      <4>1. a \in Seq(U) /\ b \in Seq(U) /\ j \in 1..Len(a)
        BY <1>3, <1>4, <3>2
      <4> QED BY <4>1
    <3>1. u[j] = w[j] /\ j \in 1..n
      BY <1>3, <1>5, <3>2, <3>3
    <3> QED BY <1>6, <3>1
  <2>2. CASE j > k - 1
    <3>3. j - (k - 1) \in 1..(n - k) /\ j \in 1..(Len(a) + Len(b)) /\ j > Len(a)
      BY <1>1, <1>3, <1>4, <2>2
    <3>4. (a \o b)[j] = b[j - Len(a)]
      <4>1. a \in Seq(U) /\ b \in Seq(U)
        BY <1>3, <1>4
      <4> QED BY <3>3, <4>1
    <3>1. u[j] = b[j - (k - 1)] /\ j - (k - 1) \in 1..(n - k)
      BY <1>3, <1>5, <3>3, <3>4
    <3>2. b[j - (k - 1)] = w[(j - (k - 1)) + k] /\ (j - (k - 1)) + k \in 1..n
      BY <1>1, <1>4, <3>1
    <3> QED BY <1>6, <3>1, <3>2
  <2> QED BY <1>1, <2>1, <2>2
<1>9. IsSequence(u)
  BY <1>7, IsSequenceIntro
<1>10. Len(u) <= p.size /\ \A j \in 1..Len(u) : IsValue(p, u[j])
  BY <1>1, <1>7, <1>8
<1>11. Elements(p, u)
  BY <1>9, <1>10 DEF Elements
<1> QED BY <1>11 DEF u

-----------------------------------------------------------------------------
(* A stream's buffer is the end of the text printed, and the file holds,   *)
(* place by place, what one of the savers has flushed.                     *)

LEMMA WholeBlocks ==
  ASSUME NEW n \in Nat
  PROVE  (n \div Block) * Block \in 0..n /\ n - (n \div Block) * Block < Block
<1> DEFINE q == n \div Block
           r == n % Block
<1>1. Block \in Nat /\ Block > 0
  BY BlockAssumption
<1>2. n = Block * q + r /\ r \in 0..(Block - 1) /\ q \in Nat
  BY <1>1
<1>3. q * Block \in Nat /\ q * Block = Block * q
  BY <1>1, <1>2
<1> DEFINE k == q * Block
<1>4. k \in Nat /\ n = k + r /\ r \in 0..(Block - 1)
  BY <1>2, <1>3
<1> HIDE DEF q, r, k
<1>5. k \in 0..n /\ n - k < Block
  BY <1>1, <1>4
<1> QED BY <1>5 DEF k, q

\* The text that follows place off.
After(text, off) == SubSeq(text, off + 1, Len(text))

LEMMA AfterIs ==
  ASSUME NEW text, IsSequence(text), NEW off \in 0..Len(text)
  PROVE  /\ IsSequence(After(text, off)) /\ Len(After(text, off)) = Len(text) - off
         /\ \A j \in 1..(Len(text) - off) : After(text, off)[j] = text[off + j]
<1> DEFINE n == Len(text)
           t == After(text, off)
<1>1. n \in Nat
  BY IsSequenceIn
<1>2. t = [j \in 1..(1 + n - (off + 1)) |-> text[j + (off + 1) - 1]]
  BY DEF After
<1> HIDE DEF n, t
<1>3. 1 + n - (off + 1) = n - off /\ n - off \in Nat
  BY <1>1 DEF n
<1> DEFINE m == n - off
<1>4. t = [j \in 1..m |-> text[j + (off + 1) - 1]]
  BY <1>2, <1>3
<1>5. \A j \in 1..m : j + (off + 1) - 1 = off + j
  BY <1>1 DEF n
<1>6. \A j \in 1..m : t[j] = text[off + j]
  BY <1>4, <1>5
<1>7. t = [j \in 1..m |-> t[j]]
  BY <1>4
<1>8. m \in Nat
  BY <1>3
<1> HIDE DEF m
<1>9. IsSequence(t) /\ Len(t) = m
  BY <1>7, <1>8, FunctionIs
<1> QED BY <1>6, <1>9 DEF t, m, n

LEMMA SameSequence ==
  ASSUME NEW s, NEW t, IsSequence(s), IsSequence(t), Len(s) = Len(t), \A j \in 1..Len(s) : s[j] = t[j]
  PROVE  s = t
<1>1. PICK U : s \in Seq(U) /\ t \in Seq(U)
  BY Together
<1> QED BY <1>1

\* A line more is at the end of the buffer and of the text.
LEMMA PrintedLine ==
  ASSUME NEW text, NEW line, IsSequence(text), IsSequence(line), NEW off \in 0..Len(text)
  PROVE  LET more == text \o line
         IN  /\ IsSequence(more) /\ off \in 0..Len(more)
             /\ After(text, off) \o line = After(more, off)
             /\ \A j \in 1..off : more[j] = text[j]
<1> DEFINE more == text \o line
           n == Len(text)
           m == Len(line)
           b == After(text, off)
           c == After(more, off)
<1>1. n \in Nat /\ m \in Nat
  BY IsSequenceIn
<1>2. PICK U : text \in Seq(U) /\ line \in Seq(U)
  BY Together
<1>3. more \in Seq(U) /\ Len(more) = n + m
  BY <1>2
<1>4. \A j \in 1..(n + m) : more[j] = IF j <= n THEN text[j] ELSE line[j - n]
  BY <1>2
<1>5. IsSequence(more)
  BY <1>3, IsSequenceIntro
<1> HIDE DEF more
<1>6. off \in Nat /\ off <= n
  BY <1>1
<1>7. IsSequence(b) /\ Len(b) = n - off /\ \A j \in 1..(n - off) : b[j] = text[off + j]
  BY AfterIs
<1>8. off \in 0..Len(more)
  BY <1>1, <1>3, <1>6
<1>9. IsSequence(c) /\ Len(c) = (n + m) - off /\ \A j \in 1..((n + m) - off) : c[j] = more[off + j]
  <2>1. IsSequence(c) /\ Len(c) = Len(more) - off /\ \A j \in 1..(Len(more) - off) : c[j] = more[off + j]
    BY <1>5, <1>8, AfterIs
  <2> HIDE DEF c, n, m
  <2> QED BY <1>3, <2>1
<1> HIDE DEF b, c
<1>10. PICK V : b \in Seq(V) /\ line \in Seq(V)
  BY <1>7, Together
<1> DEFINE d == b \o line
<1>11. IsSequence(d)
  BY <1>7, ConcatIs
<1>12. Len(d) = Len(b) + m /\ \A j \in 1..(Len(b) + m) : d[j] = IF j <= Len(b) THEN b[j] ELSE line[j - Len(b)]
  BY <1>10
<1> HIDE DEF d, n, m
<1>13. Len(d) = Len(c)
  BY <1>1, <1>6, <1>7, <1>9, <1>12
<1>14. ASSUME NEW j \in 1..Len(d) PROVE d[j] = c[j]
  <2>1. j \in Nat /\ j \in 1..((n + m) - off) /\ j \in 1..(Len(b) + m) /\ off + j \in 1..(n + m)
    BY <1>1, <1>6, <1>7, <1>12
  <2>2. c[j] = more[off + j]
    BY <1>9, <2>1
  <2>3. CASE j <= n - off
    <3>1. off + j <= n /\ j \in 1..(n - off)
      BY <1>1, <1>6, <2>1, <2>3
    <3>2. d[j] = b[j] /\ b[j] = text[off + j]
      BY <1>7, <1>12, <2>1, <2>3, <3>1
    <3>3. more[off + j] = text[off + j]
      BY <1>4, <2>1, <3>1
    <3> QED BY <2>2, <3>2, <3>3
  <2>4. CASE ~(j <= n - off)
    <3>1. ~(off + j <= n) /\ (off + j) - n = j - (n - off)
      BY <1>1, <1>6, <2>1, <2>4
    <3>2. d[j] = line[j - (n - off)]
      BY <1>7, <1>12, <2>1, <2>4
    <3>3. more[off + j] = line[(off + j) - n]
      BY <1>4, <2>1, <3>1
    <3> QED BY <2>2, <3>1, <3>2, <3>3
  <2> QED BY <2>3, <2>4
<1>15. d = c
  BY <1>9, <1>11, <1>13, <1>14, SameSequence
<1>16. ASSUME NEW j \in 1..off PROVE more[j] = text[j]
  <2>1. j \in 1..(n + m) /\ j <= n
    BY <1>1, <1>6
  <2> QED BY <1>4, <2>1
<1> QED BY <1>5, <1>8, <1>15, <1>16 DEF more, b, c, d

\* What is flushed is the next of the text, and what is left what follows.
LEMMA FlushedBlocks ==
  ASSUME NEW text, IsSequence(text), NEW off \in 0..Len(text), NEW k \in 0..(Len(text) - off)
  PROVE  LET buf == After(text, off)
             out == SubSeq(buf, 1, k)
         IN  /\ IsSequence(out) /\ Len(out) = k
             /\ \A j \in 1..k : out[j] = text[off + j]
             /\ SubSeq(buf, k + 1, Len(buf)) = After(text, off + k)
             /\ off + k \in 0..Len(text)
<1> DEFINE n == Len(text)
           b == After(text, off)
           out == SubSeq(b, 1, k)
           left == SubSeq(b, k + 1, Len(b))
           c == After(text, off + k)
<1>1. n \in Nat
  BY IsSequenceIn
<1>2. IsSequence(b) /\ Len(b) = n - off /\ \A j \in 1..(n - off) : b[j] = text[off + j]
  BY AfterIs
<1>3. off \in Nat /\ k \in Nat /\ off + k \in 0..n /\ k <= n - off
  BY <1>1
<1>4. IsSequence(c) /\ Len(c) = n - (off + k) /\ \A j \in 1..(n - (off + k)) : c[j] = text[(off + k) + j]
  BY <1>3, AfterIs
<1> HIDE DEF b, c, n
<1>5. PICK U : b \in Seq(U)
  BY <1>2, IsSequenceElim
<1>6. out \in Seq(U) /\ Len(out) = k /\ \A j \in 1..k : out[j] = b[j]
  BY <1>1, <1>2, <1>3, <1>5
<1>7. IsSequence(left) /\ Len(left) = Len(b) - k /\ \A j \in 1..(Len(b) - k) : left[j] = b[k + j]
  <2>1. k \in 0..Len(b)
    BY <1>1, <1>2, <1>3
  <2> DEFINE a == After(b, k)
  <2>2. left = a
    BY DEF After
  <2>3. IsSequence(a) /\ Len(a) = Len(b) - k /\ \A j \in 1..(Len(b) - k) : a[j] = b[k + j]
    BY <1>2, <2>1, AfterIs
  <2> HIDE DEF left, a
  <2> QED BY <2>2, <2>3, Zenon
<1>8. IsSequence(out)
  BY <1>6, IsSequenceIntro
<1> HIDE DEF out, left
<1>9. ASSUME NEW j \in 1..k PROVE out[j] = text[off + j]
  <2>1. j \in 1..(n - off)
    BY <1>1, <1>3
  <2> QED BY <1>2, <1>6, <2>1
<1>10. Len(left) = Len(c)
  BY <1>1, <1>2, <1>3, <1>4, <1>7
<1>11. ASSUME NEW j \in 1..Len(left) PROVE left[j] = c[j]
  <2>1. j \in 1..(Len(b) - k) /\ k + j \in 1..(n - off) /\ j \in 1..(n - (off + k)) /\ off + (k + j) = (off + k) + j
    BY <1>1, <1>2, <1>3, <1>7
  <2>2. left[j] = b[k + j] /\ b[k + j] = text[off + (k + j)] /\ c[j] = text[(off + k) + j]
    BY <1>2, <1>4, <1>7, <2>1
  <2> QED BY <2>1, <2>2
<1>12. left = c
  BY <1>4, <1>7, <1>10, <1>11, SameSequence
<1> QED BY <1>3, <1>6, <1>8, <1>9, <1>12 DEF b, out, left, c, n

\* f is a file to which the savers sv have flushed the first done[s] symbols of their texts: one of them has all of
\* its own there, or another's at the same place, and the file is as long as what one has flushed.
Holds(f, sv, text, done) ==
  /\ sv = {} => f = <<>>
  /\ sv # {} => \E l \in sv : /\ done[l] <= Len(f)
                              /\ \A j \in 1..done[l] : \E s \in sv : j <= done[s] /\ f[j] = text[s][j]
  /\ f # <<>> => \E s \in sv : Len(f) <= done[s]

LEMMA HoldsEmptied ==
  ASSUME NEW sv, NEW s \in sv, NEW text, NEW done, done[s] = 0
  PROVE  Holds(<<>>, sv, text, done)
<1>1. done[s] <= Len(<<>>) /\ 1..done[s] = {}
  OBVIOUS
<1>2. \E l \in sv : /\ done[l] <= Len(<<>>)
                    /\ \A j \in 1..done[l] : \E r \in sv : j <= done[r] /\ (<<>>)[j] = text[r][j]
  BY <1>1
<1> QED BY <1>2 DEF Holds

LEMMA HoldsReprinted ==
  ASSUME NEW f, NEW sv, NEW text, NEW done, NEW text1, Holds(f, sv, text, done),
         \A s \in sv : \A j \in 1..done[s] : text1[s][j] = text[s][j], \A s \in sv : done[s] \in Nat
  PROVE  Holds(f, sv, text1, done)
<1>1. ASSUME sv # {}
      PROVE  \E l \in sv : /\ done[l] <= Len(f)
                           /\ \A j \in 1..done[l] : \E s \in sv : j <= done[s] /\ f[j] = text1[s][j]
  <2>1. PICK l \in sv : /\ done[l] <= Len(f)
                        /\ \A j \in 1..done[l] : \E s \in sv : j <= done[s] /\ f[j] = text[s][j]
    BY <1>1 DEF Holds
  <2>2. ASSUME NEW j \in 1..done[l] PROVE \E s \in sv : j <= done[s] /\ f[j] = text1[s][j]
    <3>1. PICK s \in sv : j <= done[s] /\ f[j] = text[s][j]
      BY <2>1
    <3>2. j \in 1..done[s]
      BY <3>1
    <3>3. f[j] = text1[s][j]
      BY <3>1, <3>2
    <3> QED BY <3>1, <3>3
  <2> QED BY <2>1, <2>2
<1> QED BY <1>1 DEF Holds

LEMMA WriteAtIs ==
  ASSUME NEW f, IsSequence(f), NEW off \in Nat, NEW out, IsSequence(out)
  PROVE  LET g == WriteAt(f, off, out)
             m == Len(out)
         IN  /\ IsSequence(g) /\ Len(g) \in Nat
             /\ Len(g) = IF off + m > Len(f) THEN off + m ELSE Len(f)
             /\ \A j \in 1..Len(g) : /\ j > off /\ j <= off + m => g[j] = out[j - off]
                                     /\ ~(j > off /\ j <= off + m) /\ j <= Len(f) => g[j] = f[j]
<1> DEFINE g == WriteAt(f, off, out)
           m == Len(out)
           n == IF off + m > Len(f) THEN off + m ELSE Len(f)
<1>1. Len(f) \in Nat /\ m \in Nat
  BY IsSequenceIn
<1>2. n \in Nat
  BY <1>1
<1>3. g = [i \in 1..n |-> IF i > off /\ i <= off + m THEN out[i - off] ELSE IF i <= Len(f) THEN f[i] ELSE "NUL"]
  BY Zenon DEF WriteAt
<1> HIDE DEF g
<1>4. g = [i \in 1..n |-> g[i]]
  BY <1>3, Zenon
<1>5. IsSequence(g) /\ Len(g) = n
  <2> HIDE DEF n
  <2> QED BY <1>2, <1>4, FunctionIs
<1>6. \A j \in 1..n : /\ j > off /\ j <= off + m => g[j] = out[j - off]
                      /\ ~(j > off /\ j <= off + m) /\ j <= Len(f) => g[j] = f[j]
  <2> HIDE DEF n, m
  <2> QED BY <1>3, Zenon
<1>7. /\ IsSequence(g) /\ Len(g) \in Nat /\ Len(g) = n
      /\ \A j \in 1..Len(g) : /\ j > off /\ j <= off + m => g[j] = out[j - off]
                              /\ ~(j > off /\ j <= off + m) /\ j <= Len(f) => g[j] = f[j]
  <2> HIDE DEF n
  <2> QED BY <1>2, <1>5, <1>6, Zenon
<1> QED BY <1>7 DEF g

LEMMA HoldsWritten ==
  ASSUME NEW f, IsSequence(f), NEW sv, NEW text, NEW done, Holds(f, sv, text, done), NEW s \in sv,
         \A r \in sv : done[r] \in Nat,
         NEW out, IsSequence(out), out # <<>>, NEW done1,
         done1[s] = done[s] + Len(out), \A r \in sv : r # s => done1[r] = done[r],
         \A j \in 1..Len(out) : out[j] = text[s][done[s] + j]
  PROVE  Holds(WriteAt(f, done[s], out), sv, text, done1)
<1> DEFINE off == done[s]
           m == Len(out)
           n == Len(f)
           g == WriteAt(f, off, out)
<1>1. n \in Nat /\ m \in Nat /\ off \in Nat
  BY IsSequenceIn
<1>2. m > 0
  <2>1. PICK U : out \in Seq(U)
    BY IsSequenceElim
  <2> QED BY <2>1
<1>3. /\ IsSequence(g) /\ Len(g) \in Nat
      /\ Len(g) = IF off + m > n THEN off + m ELSE n
      /\ \A j \in 1..Len(g) : /\ j > off /\ j <= off + m => g[j] = out[j - off]
                              /\ ~(j > off /\ j <= off + m) /\ j <= n => g[j] = f[j]
  BY <1>1, WriteAtIs
<1>4. done1[s] = off + m
  OBVIOUS
<1> HIDE DEF g, off, m, n
<1> DEFINE k == Len(g)
<1>5. k \in Nat /\ k >= off + m /\ k >= n
  BY <1>1, <1>3
<1> HIDE DEF k
<1>6. ASSUME NEW j \in Nat, j > off, j <= off + m PROVE g[j] = text[s][j]
  <2>1. j \in 1..k /\ j - off \in 1..m /\ off + (j - off) = j
    BY <1>1, <1>5, <1>6
  <2>2. g[j] = out[j - off]
    BY <1>3, <1>6, <2>1 DEF k
  <2>3. out[j - off] = text[s][off + (j - off)]
    BY <2>1 DEF m, off
  <2> QED BY <2>1, <2>2, <2>3
<1>7. PICK l \in sv : /\ done[l] <= n
                      /\ \A j \in 1..done[l] : \E r \in sv : j <= done[r] /\ f[j] = text[r][j]
  <2>1. sv # {}
    OBVIOUS
  <2> QED BY <2>1 DEF Holds, n
<1>8. ASSUME NEW j \in 1..done[l] PROVE \E r \in sv : j <= done1[r] /\ g[j] = text[r][j]
  <2>1. done[l] \in Nat
    OBVIOUS
  <2>2. j \in Nat /\ j <= n /\ j \in 1..k
    BY <1>1, <1>5, <1>7, <2>1
  <2>3. CASE j > off /\ j <= off + m
    BY <1>4, <1>6, <2>2, <2>3
  <2>4. CASE ~(j > off /\ j <= off + m)
    <3>1. g[j] = f[j]
      BY <1>3, <2>2, <2>4 DEF k
    <3>2. PICK r \in sv : j <= done[r] /\ f[j] = text[r][j]
      BY <1>7
    <3>3. j <= done1[r]
      <4>1. CASE r = s
        <5>1. j <= off
          BY <3>2, <4>1 DEF off
        <5> QED BY <1>1, <1>4, <2>2, <4>1, <5>1
      <4>2. CASE r # s
        BY <3>2, <4>2
      <4> QED BY <4>1, <4>2
    <3> QED BY <3>1, <3>2, <3>3
  <2> QED BY <2>3, <2>4
<1>9. /\ done1[l] <= k
      /\ \A j \in 1..done1[l] : \E r \in sv : j <= done1[r] /\ g[j] = text[r][j]
  <2>1. CASE l = s
    <3>1. done1[l] = off + m /\ done1[l] <= k /\ done[l] = off
      BY <1>4, <1>5, <2>1 DEF off
    <3>2. ASSUME NEW j \in 1..(off + m) PROVE \E r \in sv : j <= done1[r] /\ g[j] = text[r][j]
      <4>1. CASE j > off
        <5>1. j \in Nat /\ j <= off + m
          BY <1>1
        <5>2. g[j] = text[s][j]
          BY <1>6, <4>1, <5>1
        <5> QED BY <1>4, <5>1, <5>2
      <4>2. CASE ~(j > off)
        <5>1. j \in 1..done[l]
          BY <1>1, <3>1, <4>2
        <5> QED BY <1>8, <5>1
      <4> QED BY <4>1, <4>2
    <3> QED BY <3>1, <3>2
  <2>2. CASE l # s
    <3>1. done1[l] = done[l]
      BY <2>2
    <3>2. done1[l] <= k
      <4>1. done[l] \in Nat
        OBVIOUS
      <4> QED BY <1>1, <1>5, <1>7, <3>1, <4>1
    <3> QED BY <1>8, <3>1, <3>2
  <2> QED BY <2>1, <2>2
<1>10. \E r \in sv : k <= done1[r]
  <2>1. CASE off + m > n
    <3>1. k = off + m
      BY <1>3, <2>1 DEF k
    <3> QED BY <1>1, <1>4, <3>1
  <2>2. CASE ~(off + m > n)
    <3>1. k = n /\ n > 0 /\ off < n
      BY <1>1, <1>2, <1>3, <2>2 DEF k
    <3>2. f # <<>>
      <4>1. Len(<<>>) = 0
        OBVIOUS
      <4> QED BY <3>1, <4>1 DEF n
    <3>3. PICK r \in sv : n <= done[r]
      BY <3>2 DEF Holds, n
    <3>4. r # s
      <4>1. done[r] \in Nat
        OBVIOUS
      <4>2. done[r] # off
        BY <1>1, <3>1, <3>3, <4>1
      <4> QED BY <4>2 DEF off
    <3> QED BY <3>1, <3>3, <3>4
  <2> QED BY <2>1, <2>2
<1>11. sv # {}
  OBVIOUS
<1>12. Holds(g, sv, text, done1)
  BY <1>9, <1>10, <1>11 DEF Holds, k
<1> QED BY <1>12 DEF g, off

\* Once all is flushed, and the texts are the same, the file is that text.
LEMMA HoldsAll ==
  ASSUME NEW f, IsSequence(f), NEW sv, sv # {}, NEW text, NEW done, Holds(f, sv, text, done),
         NEW t, IsSequence(t), \A s \in sv : text[s] = t /\ done[s] = Len(t)
  PROVE  f = t
<1>1. Len(f) \in Nat /\ Len(t) \in Nat
  BY IsSequenceIn
<1>2. PICK l \in sv : /\ done[l] <= Len(f)
                      /\ \A j \in 1..done[l] : \E s \in sv : j <= done[s] /\ f[j] = text[s][j]
  BY DEF Holds
<1>3. Len(t) <= Len(f) /\ \A j \in 1..Len(t) : f[j] = t[j]
  BY <1>2
<1>4. Len(f) <= Len(t)
  <2>1. CASE f = <<>>
    <3>1. Len(f) = 0
      BY <2>1
    <3> QED BY <1>1, <3>1
  <2>2. CASE f # <<>>
    BY <2>2 DEF Holds
  <2> QED BY <2>1, <2>2
<1>5. Len(f) = Len(t)
  BY <1>1, <1>3, <1>4
<1> QED BY <1>3, <1>5, SameSequence

-----------------------------------------------------------------------------
(* The inductive invariant.                                                *)

TextsOf(prog, printed) == [s \in Savers |-> TextFor(prog, printed[s])]
FlushedOf(saves, texts) == [s \in Savers |-> IF saves[s].pc = "printing" THEN saves[s].off ELSE Len(texts[s])]

IsSaver(c, text) ==
  /\ c.pc \in {"idle", "printing"} /\ c.e \in Nat /\ Len(c.buf) < Block
  /\ c.pc = "printing" => c.off \in 0..Len(text) /\ c.buf = After(text, c.off)

ValuesOK == val = [i \in PIds |-> val[i]] /\ \A i \in PIds : Elements(params[i], val[i])
ShownOK == shown = [s \in Savers |-> shown[s]] /\ \A s \in Savers : IsLines(params, shown[s])
SaversOK == /\ save = [s \in Savers |-> save[s]] /\ part \subseteq Savers
            /\ \A s \in Savers : IsSaver(save[s], TextFor(params, shown[s])) /\ (save[s].pc = "printing" => s \in part)
LoadOK == /\ load = [pc |-> load.pc, off |-> load.off, before |-> load.before, quiet |-> load.quiet]
          /\ load.pc \in {"idle", "loading", "done"} /\ load.off \in Nat
FileOK == /\ IsSequence(file)
          /\ whole => Holds(file, part, TextsOf(params, shown), FlushedOf(save, TextsOf(params, shown)))
StateInv == params \in Programs /\ ValuesOK /\ ShownOK /\ SaversOK /\ LoadOK /\ FileOK

LEMMA Minimum ==
  ASSUME NEW F, F \subseteq Nat, F # {}
  PROVE  \E i \in F : \A j \in F : i <= j
<1>1. PICK m \in F : \A k \in F : ~(<<k, m>> \in OpToRel(<, Nat))
  BY NatLessThanWellFounded, WFMin
<1>2. ASSUME NEW k \in F PROVE m <= k
  <2>1. ~(k < m)
    BY <1>1 DEF OpToRel
  <2> QED BY <2>1
<1> QED BY <1>2

LEMMA FirstValues ==
  ASSUME params \in Programs
  PROVE  Default = [i \in PIds |-> Default[i]] /\ \A i \in PIds : Elements(params[i], Default[i])
<1>1. ASSUME NEW i \in PIds PROVE Elements(params[i], Default[i])
  <2> DEFINE p == params[i]
             w == p.init
  <2>1. IsParam(p)
    BY ProgramType DEF PIds
  <2>2. Default[i] = w
    BY DEF Default
  <2> HIDE DEF p
  <2>3. IsSequence(w) /\ Len(w) <= p.size /\ (p.shape # "list" => Len(w) = p.size)
        /\ \A v \in p.dom \cup ToSet(w) : IsValue(p, v)
    BY <2>1 DEF IsParam
  <2>4. \A k \in 1..Len(w) : w[k] \in ToSet(w)
    <3>1. ToSet(w) = {w[k] : k \in 1..Len(w)}
      BY <2>3, IsSequenceIn
    <3> QED BY <3>1
  <2>5. Elements(p, w)
    BY <2>3, <2>4 DEF Elements
  <2> QED BY <2>2, <2>5 DEF p
<1> QED BY <1>1 DEF Default

LEMMA SetCellValues ==
  ASSUME StateInv, NEW i \in PIds, NEW v \in params[i].dom, NEW e,
         e \in 0..(params[i].size - 1) \/ params[i].shape = "list", SetCell(i, e, v), UNCHANGED params
  PROVE  ValuesOK'
<1> DEFINE p == params[i]
           w == val[i]
           u == IF p.shape = "list" THEN ListAdd(p, w, v) ELSE [w EXCEPT ![e + 1] = v]
<1>1. val = [k \in PIds |-> val[k]] /\ \A k \in PIds : Elements(params[k], val[k])
  BY DEF StateInv, ValuesOK
<1>2. IsParam(p) /\ IsValue(p, v) /\ Elements(p, w)
  <2>1. IsParam(p)
    BY ProgramType DEF StateInv, PIds
  <2>2. IsValue(p, v)
    BY <2>1 DEF IsParam
  <2> QED BY <1>1, <2>1, <2>2
<1>3. val' = [val EXCEPT ![i] = u]
  BY DEF SetCell
<1>4. Elements(p, u)
  <2>1. CASE p.shape = "list"
    <3>1. Elements(p, ListAdd(p, w, v))
      BY <1>2, <2>1, ListAddElements
    <3> QED BY <2>1, <3>1, Zenon
  <2>2. CASE p.shape # "list"
    <3> DEFINE x == [w EXCEPT ![e + 1] = v]
    <3>1. \A k \in 1..Len(w) : IsValue(p, w[k])
      BY <1>2 DEF Elements
    <3>2. DOMAIN w = 1..Len(w)
      BY <1>2, IsSequenceIn DEF Elements
    <3>3. x = [k \in DOMAIN w |-> x[k]]
      BY Zenon
    <3>4. \A k \in 1..Len(w) : x[k] = v \/ x[k] = w[k]
      <4> HIDE DEF w, p
      <4> QED BY <3>2
    <3> HIDE DEF x, w, p
    <3>5. \A k \in 1..Len(w) : IsValue(p, x[k])
      BY <1>2, <3>1, <3>4, Zenon
    <3>6. Elements(p, x)
      BY <1>2, <3>3, <3>5, SameLength
    <3> QED BY <2>2, <3>6 DEF x
  <2> QED BY <2>1, <2>2
<1> HIDE DEF u
<1>5. val' = [k \in PIds |-> IF k = i THEN u ELSE val[k]]
  BY <1>1, <1>3
<1>6. \A k \in PIds : Elements(params[k], val'[k])
  BY <1>1, <1>4, <1>5
<1>7. PIds' = PIds
  BY DEF PIds
<1> QED BY <1>5, <1>6, <1>7 DEF ValuesOK

LEMMA SubCellValues ==
  ASSUME StateInv, NEW i \in PIds, NEW v, SubCell(i, v), UNCHANGED params
  PROVE  ValuesOK'
<1> DEFINE p == params[i]
           w == val[i]
<1>1. val = [k \in PIds |-> val[k]] /\ \A k \in PIds : Elements(params[k], val[k])
  BY DEF StateInv, ValuesOK
<1>2. IsParam(p) /\ Elements(p, w) /\ p.shape = "list"
  <2>1. IsParam(p)
    BY ProgramType DEF StateInv, PIds
  <2> QED BY <1>1, <2>1 DEF SubCell
<1>3. PICK n \in DOMAIN w : val' = [val EXCEPT ![i] = RemoveAt(w, n)]
  BY DEF SubCell
<1> DEFINE u == RemoveAt(w, n)
<1>4. Elements(p, u)
  BY <1>2, RemoveElements
<1> HIDE DEF u
<1>5. val' = [k \in PIds |-> IF k = i THEN u ELSE val[k]]
  BY <1>1, <1>3 DEF u
<1>6. \A k \in PIds : Elements(params[k], val'[k])
  BY <1>1, <1>4, <1>5
<1>7. PIds' = PIds
  BY DEF PIds
<1> QED BY <1>5, <1>6, <1>7 DEF ValuesOK

LEMMA ExecuteValues ==
  ASSUME StateInv, NEW toks, IsTokens(toks)
  PROVE  LET vals == Execute(val, toks)
         IN  vals = [i \in PIds |-> vals[i]] /\ \A i \in PIds : Elements(params[i], vals[i])
<1> DEFINE vals == Execute(val, toks)
<1>1. \A i \in PIds : Elements(params[i], val[i])
  BY DEF StateInv, ValuesOK
<1>2. \A i \in PIds : IsParam(params[i])
  BY ProgramType DEF StateInv, PIds
<1>3. vals = [i \in PIds |-> IF toks # <<>> /\ toks[1] = <<params[i].name>> THEN Result(i, toks, val[i]) ELSE val[i]]
  BY DEF Execute
<1> HIDE DEF vals
<1>4. ASSUME NEW i \in PIds PROVE Elements(params[i], vals[i])
  <2>1. Elements(params[i], Result(i, toks, val[i]))
    BY <1>1, <1>2, ResultElements
  <2>2. vals[i] = IF toks # <<>> /\ toks[1] = <<params[i].name>> THEN Result(i, toks, val[i]) ELSE val[i]
    BY <1>3, Zenon
  <2> QED BY <1>1, <2>1, <2>2, Zenon
<1>5. vals = [i \in PIds |-> vals[i]]
  BY <1>3, Zenon
<1> QED BY <1>4, <1>5 DEF vals

LEMMA LoadLineStep ==
  ASSUME StateInv, LoadLine, UNCHANGED params
  PROVE  ValuesOK' /\ LoadOK'
<1> DEFINE rest == SubSeq(file, load.off + 1, Len(file))
           ends == {i \in DOMAIN rest : rest[i] = NL}
           len == IF ends = {} THEN Len(rest) ELSE (CHOOSE i \in ends : \A j \in ends : i <= j) - 1
           line == SubSeq(rest, 1, len)
           toks == Tokenize(line)
<1>1. IsSequence(file) /\ load.off \in Nat
  BY DEF StateInv, FileOK, LoadOK
<1>2. val' = Execute(val, toks)
  BY DEF LoadLine
<1>3. load' = [load EXCEPT !.pc = IF ends = {} THEN "done" ELSE "loading", !.off = @ + len + 1]
  BY DEF LoadLine
<1>4. IsSequence(rest)
  <2>1. Len(file) \in Nat /\ load.off + 1 >= 1
    BY <1>1, IsSequenceIn
  <2> QED BY <1>1, <2>1, SubSeqIs
<1> HIDE DEF rest
<1>5. Len(rest) \in Nat /\ DOMAIN rest = 1..Len(rest)
  BY <1>4, IsSequenceIn
<1>6. len \in Nat /\ len <= Len(rest)
  <2>1. CASE ends = {}
    BY <1>5, <2>1
  <2>2. CASE ends # {}
    <3> DEFINE c == CHOOSE i \in ends : \A j \in ends : i <= j
    <3>1. ends \subseteq Nat
      BY <1>5
    <3>2. ends \subseteq 1..Len(rest)
      BY <1>5
    <3> HIDE DEF ends
    <3>3. c \in ends
      <4>1. \E i \in ends : \A j \in ends : i <= j
        BY <2>2, <3>1, Minimum
      <4> QED BY <4>1, Zenon
    <3> HIDE DEF c
    <3>4. c \in 1..Len(rest)
      BY <3>2, <3>3
    <3>5. c - 1 \in Nat /\ c - 1 <= Len(rest)
      BY <1>5, <3>4
    <3> QED BY <2>2, <3>5 DEF c
  <2> QED BY <2>1, <2>2
<1> HIDE DEF len, ends
<1>7. IsSequence(line)
  BY <1>4, <1>5, <1>6, SubSeqIs
<1> HIDE DEF line
<1>8. PICK U : line \in Seq(U)
  BY <1>7, IsSequenceElim
<1>9. IsTokens(toks)
  <2> DEFINE V == Seq(U)
  <2>1. toks \in Seq(V)
    BY <1>8, TokenizeType
  <2> HIDE DEF toks, V
  <2>2. \A k \in 1..Len(toks) : toks[k] \in V
    BY <2>1
  <2> QED BY <2>2, IsSequenceIntro DEF IsTokens, V
<1> HIDE DEF toks
<1>10. ValuesOK'
  <2> DEFINE vals == Execute(val, toks)
  <2>1. vals = [i \in PIds |-> vals[i]] /\ \A i \in PIds : Elements(params[i], vals[i])
    BY <1>9, ExecuteValues
  <2> HIDE DEF vals
  <2>2. val' = vals
    BY <1>2 DEF vals
  <2>3. PIds' = PIds
    BY DEF PIds
  <2> QED BY <2>1, <2>2, <2>3 DEF ValuesOK
<1>11. LoadOK'
  <2> DEFINE pc == IF ends = {} THEN "done" ELSE "loading"
             off == load.off + len + 1
  <2>1. load = [pc |-> load.pc, off |-> load.off, before |-> load.before, quiet |-> load.quiet]
    BY DEF StateInv, LoadOK
  <2>2. off \in Nat /\ pc \in {"idle", "loading", "done"}
    BY <1>1, <1>6
  <2>3. load' = [load EXCEPT !.pc = pc, !.off = off]
    BY <1>3
  <2> HIDE DEF pc, off
  <2>4. load' = [pc |-> pc, off |-> off, before |-> load.before, quiet |-> load.quiet]
    BY <2>1, <2>3
  <2> QED BY <2>2, <2>4 DEF LoadOK
<1> QED BY <1>10, <1>11

LEMMA DisturbedLoad ==
  ASSUME StateInv, Disturbed
  PROVE  LoadOK'
<1>1. load = [pc |-> load.pc, off |-> load.off, before |-> load.before, quiet |-> load.quiet]
      /\ load.pc \in {"idle", "loading", "done"} /\ load.off \in Nat
  BY DEF StateInv, LoadOK
<1>2. load' = [load EXCEPT !.quiet = FALSE]
  BY DEF Disturbed
<1>3. load' = [pc |-> load.pc, off |-> load.off, before |-> load.before, quiet |-> FALSE]
  BY <1>1, <1>2
<1> QED BY <1>1, <1>3 DEF LoadOK

\* What the savers have flushed is a number of symbols.
LEMMA FlushedType ==
  ASSUME StateInv
  PROVE  LET D == FlushedOf(save, TextsOf(params, shown))
         IN  \A r \in Savers : D[r] \in Nat
<1> DEFINE T == TextsOf(params, shown)
           D == FlushedOf(save, T)
<1>1. ASSUME NEW r \in Savers PROVE D[r] \in Nat
  <2> DEFINE t == TextFor(params, shown[r])
  <2>1. T[r] = t
    BY DEF TextsOf
  <2>2. D[r] = IF save[r].pc = "printing" THEN save[r].off ELSE Len(T[r])
    BY DEF FlushedOf
  <2>3. IsSequence(t)
    BY TextOfType DEF StateInv, ShownOK
  <2>4. Len(t) \in Nat
    BY <2>3, IsSequenceIn
  <2>5. save[r].pc = "printing" => save[r].off \in 0..Len(t)
    BY DEF StateInv, SaversOK, IsSaver
  <2> HIDE DEF D, T, t
  <2> QED BY <2>1, <2>2, <2>4, <2>5
<1> QED BY <1>1

\* One saver's step: its lines and its place in the file change, and the file if it flushes.
LEMMA OneSaver ==
  ASSUME StateInv, NEW s \in Savers, s \in part, save[s].pc = "printing",
         NEW lines, IsLines(params, lines), NEW c, IsSaver(c, TextFor(params, lines)),
         NEW out, IsSequence(out),
         \A j \in 1..save[s].off : TextFor(params, lines)[j] = TextFor(params, shown[s])[j],
         \A j \in 1..Len(out) : out[j] = TextFor(params, lines)[save[s].off + j],
         save[s].off + Len(out) = IF c.pc = "printing" THEN c.off ELSE Len(TextFor(params, lines)),
         shown' = [shown EXCEPT ![s] = lines], save' = [save EXCEPT ![s] = c],
         file' = IF out = <<>> THEN file ELSE WriteAt(file, save[s].off, out),
         UNCHANGED <<params, part, whole>>
  PROVE  ShownOK' /\ SaversOK' /\ FileOK'
<1> DEFINE t == TextFor(params, lines)
           T == TextsOf(params, shown)
           D == FlushedOf(save, T)
           T1 == TextsOf(params, shown')
           D1 == FlushedOf(save', T1)
           off == save[s].off
<1>1. shown = [r \in Savers |-> shown[r]] /\ \A r \in Savers : IsLines(params, shown[r])
  BY DEF StateInv, ShownOK
<1>2. save = [r \in Savers |-> save[r]] /\ part \subseteq Savers
      /\ \A r \in Savers : IsSaver(save[r], TextFor(params, shown[r])) /\ (save[r].pc = "printing" => r \in part)
  BY DEF StateInv, SaversOK
<1>3. shown' = [r \in Savers |-> IF r = s THEN lines ELSE shown[r]]
  BY <1>1
<1>4. save' = [r \in Savers |-> IF r = s THEN c ELSE save[r]]
  BY <1>2
<1>5. ShownOK'
  <2>1. \A r \in Savers : IsLines(params, shown'[r])
    BY <1>1, <1>3
  <2> QED BY <1>3, <2>1 DEF ShownOK
<1>6. SaversOK'
  <2>1. ASSUME NEW r \in Savers
        PROVE  IsSaver(save'[r], TextFor(params, shown'[r])) /\ (save'[r].pc = "printing" => r \in part)
    <3>1. CASE r = s
      BY <1>3, <1>4, <3>1
    <3>2. CASE r # s
      BY <1>2, <1>3, <1>4, <3>2
    <3> QED BY <3>1, <3>2
  <2> QED BY <1>2, <1>4, <2>1 DEF SaversOK
<1>7. IsSequence(file) /\ (whole => Holds(file, part, T, D))
  BY DEF StateInv, FileOK
<1>8. \A r \in Savers : D[r] \in Nat
  BY FlushedType
<1>9. T1[s] = t /\ T[s] = TextFor(params, shown[s]) /\ \A r \in Savers : r # s => T1[r] = T[r]
  BY <1>3 DEF TextsOf
<1>10. D[s] = off /\ D1[s] = off + Len(out) /\ \A r \in Savers : r # s => D1[r] = D[r]
  <2>1. D[s] = off
    BY DEF FlushedOf
  <2>2. D1[s] = IF save'[s].pc = "printing" THEN save'[s].off ELSE Len(T1[s])
    BY DEF FlushedOf
  <2>3. D1[s] = IF c.pc = "printing" THEN c.off ELSE Len(t)
    <3> HIDE DEF D1, T1, t
    <3>1. save'[s] = c
      BY <1>4
    <3> QED BY <1>9, <2>2, <3>1
  <2>4. ASSUME NEW r \in Savers, r # s PROVE D1[r] = D[r]
    <3>1. save'[r] = save[r] /\ T1[r] = T[r]
      BY <1>4, <1>9, <2>4
    <3>2. D1[r] = IF save'[r].pc = "printing" THEN save'[r].off ELSE Len(T1[r])
      BY DEF FlushedOf
    <3>3. D[r] = IF save[r].pc = "printing" THEN save[r].off ELSE Len(T[r])
      BY DEF FlushedOf
    <3> HIDE DEF D1, D, T1, T
    <3> QED BY <3>1, <3>2, <3>3
  <2> QED BY <2>1, <2>3, <2>4
<1>11. off \in Nat
  BY <1>8, <1>10
<1>12. IsSequence(file')
  <2>1. IsSequence(WriteAt(file, off, out))
    BY <1>7, <1>11, WriteAtIs
  <2> QED BY <1>7, <2>1
<1>13. D1 = [r \in Savers |-> D1[r]] /\ D = [r \in Savers |-> D[r]]
  BY DEF FlushedOf
<1>14. \A j \in 1..off : T1[s][j] = T[s][j]
  BY <1>9
<1>15. \A j \in 1..Len(out) : out[j] = T1[s][off + j]
  BY <1>9
<1>16. file' = IF out = <<>> THEN file ELSE WriteAt(file, off, out)
  OBVIOUS
<1> HIDE DEF T, T1, D, D1, off, t
<1>17. ASSUME whole PROVE Holds(file', part, T1, D1)
  <2>1. Holds(file, part, T1, D)
    <3>1. \A r \in part : \A j \in 1..D[r] : T1[r][j] = T[r][j]
      BY <1>2, <1>9, <1>10, <1>14
    <3>2. \A r \in part : D[r] \in Nat
      BY <1>2, <1>8
    <3>3. Holds(file, part, T, D)
      BY <1>7, <1>17
    <3> QED BY <3>1, <3>2, <3>3, HoldsReprinted
  <2>2. CASE out = <<>>
    <3>1. D1[s] = D[s]
      <4>1. Len(out) = 0
        BY <2>2
      <4> QED BY <1>10, <1>11, <4>1
    <3>2. D1 = D
      <4>1. \A r \in Savers : D1[r] = D[r]
        BY <1>10, <3>1
      <4> QED BY <1>13, <4>1
    <3> QED BY <1>16, <2>1, <2>2, <3>2
  <2>3. CASE out # <<>>
    <3>1. \A r \in part : D[r] \in Nat
      BY <1>2, <1>8
    <3>2. D1[s] = D[s] + Len(out) /\ \A r \in part : r # s => D1[r] = D[r]
      BY <1>2, <1>10
    <3>3. \A j \in 1..Len(out) : out[j] = T1[s][D[s] + j]
      BY <1>10, <1>15
    <3>4. Holds(WriteAt(file, D[s], out), part, T1, D1)
      BY <1>7, <2>1, <2>3, <3>1, <3>2, <3>3, HoldsWritten
    <3> QED BY <1>10, <1>16, <2>3, <3>4
  <2> QED BY <2>2, <2>3
<1>18. FileOK'
  BY <1>12, <1>17 DEF FileOK, T1, D1
<1> QED BY <1>5, <1>6, <1>18

LEMMA PrintElementStep ==
  ASSUME StateInv, NEW s \in Savers, PrintElement(s), UNCHANGED params
  PROVE  ShownOK' /\ SaversOK' /\ FileOK'
<1> DEFINE c == save[s]
           p == params[c.p]
           w == val[c.p]
           text == TextFor(params, shown[s])
           l == [p |-> c.p, e |-> c.e, v |-> w[c.e + 1]]
           none == ~p.savable \/ c.e >= Len(w)
<1>1. c.pc = "printing" /\ c.p \in PIds /\ UNCHANGED <<part, whole>>
  BY DEF PrintElement
<1>2. PICK fails \in BOOLEAN :
         LET skip == none \/ fails
             buf == IF skip THEN c.buf ELSE c.buf \o Line(p, c.e, w[c.e + 1])
             out == SubSeq(buf, 1, (Len(buf) \div Block) * Block)
             last == c.e + 1 >= p.size \/ ~p.savable \/ (skip /\ p.shape = "list")
         IN  /\ save' = [save EXCEPT ![s] = [pc |-> "printing", p |-> IF last THEN c.p + 1 ELSE c.p,
                                             e |-> IF last THEN 0 ELSE c.e + 1,
                                             buf |-> SubSeq(buf, Len(out) + 1, Len(buf)),
                                             off |-> c.off + Len(out)]]
             /\ file' = IF out = <<>> THEN file ELSE WriteAt(file, c.off, out)
             /\ shown' = IF skip THEN shown ELSE [shown EXCEPT ![s] = Append(@, l)]
  BY ZenonT(30) DEF PrintElement
<1> DEFINE skip == none \/ fails
           buf == IF skip THEN c.buf ELSE c.buf \o LineText(params, l)
           k == (Len(buf) \div Block) * Block
           out == SubSeq(buf, 1, k)
           last == c.e + 1 >= p.size \/ ~p.savable \/ (skip /\ p.shape = "list")
           left == SubSeq(buf, Len(out) + 1, Len(buf))
           next == [pc |-> "printing", p |-> IF last THEN c.p + 1 ELSE c.p,
                    e |-> IF last THEN 0 ELSE c.e + 1, buf |-> left, off |-> c.off + Len(out)]
           lines == IF skip THEN shown[s] ELSE Append(shown[s], l)
           text1 == TextFor(params, lines)
<1>3. LineText(params, l) = Line(p, c.e, w[c.e + 1])
  BY DEF LineText
<1>4. save' = [save EXCEPT ![s] = next]
  BY <1>2, <1>3
<1>5. file' = IF out = <<>> THEN file ELSE WriteAt(file, c.off, out)
  <2> DEFINE text0 == IF skip THEN c.buf ELSE c.buf \o Line(p, c.e, w[c.e + 1])
             out0 == SubSeq(text0, 1, (Len(text0) \div Block) * Block)
  <2>1. file' = IF out0 = <<>> THEN file ELSE WriteAt(file, c.off, out0)
    BY <1>2
  <2>2. text0 = buf
    BY <1>3, Zenon
  <2> HIDE DEF text0, buf
  <2>3. out0 = out
    BY <2>2, Zenon
  <2> HIDE DEF out0, out
  <2> QED BY <2>1, <2>3, Zenon
<1>6. shown = [r \in Savers |-> shown[r]] /\ IsLines(params, shown[s])
  BY DEF StateInv, ShownOK
<1>7. shown' = [shown EXCEPT ![s] = lines]
  <2>1. CASE skip
    <3>1. shown' = shown
      BY <1>2, <2>1
    <3>2. [shown EXCEPT ![s] = shown[s]] = shown
      BY <1>6
    <3>3. lines = shown[s]
      BY <2>1
    <3> HIDE DEF lines
    <3> QED BY <3>1, <3>2, <3>3, Zenon
  <2>2. CASE ~skip
    <3>1. shown' = [shown EXCEPT ![s] = Append(shown[s], l)]
      BY <1>2, <2>2
    <3> QED BY <2>2, <3>1
  <2> QED BY <2>1, <2>2
<1>8. params \in Programs /\ c.e \in Nat /\ Len(c.buf) < Block /\ s \in part
      /\ c.off \in 0..Len(text) /\ c.buf = After(text, c.off)
  BY <1>1 DEF StateInv, SaversOK, IsSaver
<1>9. ASSUME ~skip PROVE IsLine(params, l)
  <2>1. Elements(p, w)
    BY <1>1 DEF StateInv, ValuesOK
  <2>2. Len(w) \in Nat /\ \A n \in 1..Len(w) : IsValue(p, w[n])
    BY <2>1, IsSequenceIn DEF Elements
  <2>3. ~(c.e >= Len(w))
    BY <1>9
  <2> HIDE DEF p, w, c
  <2>4. c.e + 1 \in 1..Len(w)
    BY <1>8, <2>2, <2>3
  <2>5. IsValue(p, w[c.e + 1])
    BY <2>2, <2>4
  <2>6. l.p = c.p /\ l.v = w[c.e + 1]
    OBVIOUS
  <2> HIDE DEF l
  <2> QED BY <1>1, <2>5, <2>6 DEF IsLine, p, PIds
<1>10. IsSequence(text)
  BY <1>6, <1>8, TextOfType
<1> HIDE DEF l, none, text, p, w, c
<1>11. /\ IsLines(params, lines) /\ IsSequence(text1) /\ c.off \in 0..Len(text1) /\ buf = After(text1, c.off)
       /\ \A j \in 1..c.off : text1[j] = text[j]
  <2>1. CASE skip
    <3>1. lines = shown[s] /\ buf = c.buf
      BY <2>1
    <3>2. text1 = text
      BY <3>1 DEF text
    <3> HIDE DEF lines, buf, text1
    <3> QED BY <1>6, <1>8, <1>10, <3>1, <3>2, Zenon
  <2>2. CASE ~skip
    <3> DEFINE line == LineText(params, l)
               more == Append(shown[s], l)
    <3>1. lines = more /\ buf = c.buf \o line
      BY <2>2
    <3>2. IsLine(params, l)
      BY <1>9, <2>2
    <3>3. IsSequence(line)
      BY <1>8, <3>2, LineTextIs
    <3>4. IsLines(params, more) /\ TextFor(params, more) = text \o line
      BY <1>6, <1>8, <3>2, TextOfAppend DEF text
    <3>5. text1 = text \o line
      BY <3>1, <3>4
    <3> HIDE DEF lines, buf, text1, line, more
    <3>6. /\ IsSequence(text \o line) /\ c.off \in 0..Len(text \o line)
          /\ After(text, c.off) \o line = After(text \o line, c.off)
          /\ \A j \in 1..c.off : (text \o line)[j] = text[j]
      BY <1>8, <1>10, <3>3, PrintedLine
    <3> QED BY <1>8, <3>1, <3>4, <3>5, <3>6, Zenon
  <2> QED BY <2>1, <2>2
<1> HIDE DEF buf, lines, text1
<1>12. Len(buf) = Len(text1) - c.off /\ Len(text1) \in Nat
  BY <1>11, AfterIs, IsSequenceIn
<1>13. Len(buf) \in Nat
  BY <1>11, <1>12
<1>14. k \in 0..Len(buf) /\ Len(buf) - k < Block
  BY <1>13, WholeBlocks
<1> HIDE DEF k
<1>15. k \in 0..(Len(text1) - c.off)
  BY <1>12, <1>14
<1>16. /\ IsSequence(out) /\ Len(out) = k /\ \A j \in 1..k : out[j] = text1[c.off + j]
       /\ SubSeq(buf, k + 1, Len(buf)) = After(text1, c.off + k) /\ c.off + k \in 0..Len(text1)
  BY <1>11, <1>15, FlushedBlocks
<1> HIDE DEF out
<1>17. left = After(text1, c.off + k)
  BY <1>16
<1>18. Len(left) < Block
  <2>1. Len(After(text1, c.off + k)) = Len(text1) - (c.off + k)
    BY <1>11, <1>16, AfterIs
  <2>2. Len(left) = Len(text1) - (c.off + k)
    BY <1>17, <2>1, Zenon
  <2> HIDE DEF left
  <2>3. Len(text1) - (c.off + k) = Len(buf) - k
    BY <1>11, <1>12, <1>14
  <2> QED BY <1>14, <2>2, <2>3
<1> HIDE DEF left, last
<1>19. next.pc = "printing" /\ next.buf = left /\ next.off = c.off + k /\ next.e \in Nat
  BY <1>8, <1>16
<1> HIDE DEF next
<1>20. IsSaver(next, text1)
  BY <1>16, <1>17, <1>18, <1>19 DEF IsSaver
<1>21. c.off + Len(out) = IF next.pc = "printing" THEN next.off ELSE Len(text1)
  BY <1>16, <1>19
<1>22. \A j \in 1..Len(out) : out[j] = text1[c.off + j]
  BY <1>16
<1> QED BY <1>1, <1>4, <1>5, <1>7, <1>8, <1>11, <1>16, <1>20, <1>21, <1>22, OneSaver DEF c, text, text1

LEMMA SaveCloseStep ==
  ASSUME StateInv, NEW s \in Savers, SaveClose(s), UNCHANGED params
  PROVE  ShownOK' /\ SaversOK' /\ FileOK'
<1> DEFINE c == save[s]
           lines == shown[s]
           text == TextFor(params, lines)
           out == c.buf
<1>1. c.pc = "printing" /\ UNCHANGED <<part, whole, shown>> /\ save' = [save EXCEPT ![s] = Idle]
      /\ file' = IF out = <<>> THEN file ELSE WriteAt(file, c.off, out)
  BY DEF SaveClose
<1>2. params \in Programs /\ s \in part /\ c.off \in 0..Len(text) /\ out = After(text, c.off)
  BY <1>1 DEF StateInv, SaversOK, IsSaver
<1>3. shown = [r \in Savers |-> shown[r]] /\ IsLines(params, lines)
  BY DEF StateInv, ShownOK
<1>4. IsSequence(text)
  BY <1>2, <1>3, TextOfType
<1>5. shown' = [shown EXCEPT ![s] = lines]
  BY <1>1, <1>3
<1>6. Idle.pc = "idle" /\ Idle.e \in Nat /\ Len(Idle.buf) = 0
  BY DEF Idle
<1>7. IsSaver(Idle, text)
  BY <1>6, BlockAssumption DEF IsSaver
<1>8. Len(text) \in Nat
  BY <1>4, IsSequenceIn
<1> HIDE DEF c, out, text, lines
<1>9. IsSequence(out) /\ Len(out) = Len(text) - c.off /\ \A j \in 1..(Len(text) - c.off) : out[j] = text[c.off + j]
  <2> DEFINE rest == After(text, c.off)
  <2>1. IsSequence(rest) /\ Len(rest) = Len(text) - c.off
        /\ \A j \in 1..(Len(text) - c.off) : rest[j] = text[c.off + j]
    BY <1>2, <1>4, AfterIs
  <2> HIDE DEF rest
  <2>2. out = rest
    BY <1>2 DEF rest
  <2> QED BY <2>1, <2>2
<1>10. c.off + Len(out) = IF Idle.pc = "printing" THEN Idle.off ELSE Len(text)
  BY <1>2, <1>6, <1>8, <1>9
<1>11. \A j \in 1..Len(out) : out[j] = text[c.off + j]
  BY <1>9
<1>12. \A j \in 1..c.off : text[j] = TextFor(params, shown[s])[j]
  BY DEF text, lines
<1> QED BY <1>1, <1>2, <1>3, <1>5, <1>7, <1>9, <1>10, <1>11, <1>12, OneSaver DEF c, text

LEMMA SaveOpenStep ==
  ASSUME StateInv, NEW s \in Savers, SaveOpen(s), UNCHANGED params
  PROVE  ShownOK' /\ SaversOK' /\ FileOK'
<1> DEFINE open == {r \in Savers : save[r].pc = "printing"}
           begun == [Idle EXCEPT !.pc = "printing"]
<1>1. /\ save' = [save EXCEPT ![s] = begun] /\ file' = <<>> /\ shown' = [shown EXCEPT ![s] = <<>>]
      /\ part' = {s} \cup (IF open = {} THEN {} ELSE part)
  BY DEF SaveOpen, Opened
<1>2. shown = [r \in Savers |-> shown[r]] /\ \A r \in Savers : IsLines(params, shown[r])
  BY DEF StateInv, ShownOK
<1>3. save = [r \in Savers |-> save[r]] /\ part \subseteq Savers
      /\ \A r \in Savers : IsSaver(save[r], TextFor(params, shown[r])) /\ (save[r].pc = "printing" => r \in part)
  BY DEF StateInv, SaversOK
<1>4. shown' = [r \in Savers |-> IF r = s THEN <<>> ELSE shown[r]]
  BY <1>1, <1>2
<1>5. save' = [r \in Savers |-> IF r = s THEN begun ELSE save[r]]
  BY <1>1, <1>3
<1>6. begun.pc = "printing" /\ begun.e = 0 /\ begun.buf = <<>> /\ begun.off = 0
  BY DEF Idle
<1> HIDE DEF begun
<1>7. TextFor(params, <<>>) = <<>>
  BY TextOfNothing
<1>8. IsSaver(begun, <<>>)
  <2>1. After(<<>>, 0) = <<>> /\ Len(<<>>) = 0
    BY DEF After
  <2>2. 0 \in 0..0 /\ 0 \in Nat /\ 0 < Block
    BY BlockAssumption
  <2> QED BY <1>6, <2>1, <2>2 DEF IsSaver
<1>9. IsLines(params, <<>>)
  <2>1. IsSequence(<<>>)
    BY TupleIs
  <2>2. 1..Len(<<>>) = {}
    OBVIOUS
  <2> QED BY <2>1, <2>2 DEF IsLines
<1>10. ShownOK'
  <2>1. \A r \in Savers : IsLines(params, shown'[r])
    BY <1>2, <1>4, <1>9
  <2> QED BY <1>4, <2>1 DEF ShownOK
<1>11. SaversOK'
  <2>1. ASSUME NEW r \in Savers
        PROVE  IsSaver(save'[r], TextFor(params, shown'[r])) /\ (save'[r].pc = "printing" => r \in part')
    <3>1. CASE r = s
      BY <1>1, <1>4, <1>5, <1>7, <1>8, <3>1
    <3>2. CASE r # s
      <4>1. save'[r] = save[r] /\ shown'[r] = shown[r]
        BY <1>4, <1>5, <3>2
      <4>2. save[r].pc = "printing" => r \in part'
        <5>1. save[r].pc = "printing" => open # {}
          OBVIOUS
        <5> QED BY <1>1, <1>3, <5>1
      <4> QED BY <1>3, <4>1, <4>2
    <3> QED BY <3>1, <3>2
  <2>2. part' \subseteq Savers
    BY <1>1, <1>3
  <2> QED BY <1>5, <2>1, <2>2 DEF SaversOK
<1>12. FileOK'
  <2> DEFINE T1 == TextsOf(params, shown')
             D1 == FlushedOf(save', T1)
  <2>1. D1[s] = 0
    <3>1. D1[s] = IF save'[s].pc = "printing" THEN save'[s].off ELSE Len(T1[s])
      BY DEF FlushedOf
    <3>2. save'[s] = begun
      BY <1>5
    <3> HIDE DEF D1, T1
    <3> QED BY <1>6, <3>1, <3>2
  <2>2. s \in part'
    BY <1>1
  <2> HIDE DEF T1, D1
  <2>3. Holds(<<>>, part', T1, D1)
    BY <2>1, <2>2, HoldsEmptied
  <2>4. IsSequence(<<>>)
    BY TupleIs
  <2> QED BY <1>1, <2>3, <2>4 DEF FileOK, T1, D1
<1> QED BY <1>10, <1>11, <1>12

LEMMA CrashStep ==
  ASSUME StateInv, Crash, UNCHANGED params
  PROVE  ValuesOK' /\ ShownOK' /\ SaversOK' /\ LoadOK' /\ FileOK'
<1>1. /\ val' = Default /\ save' = [s \in Savers |-> Idle] /\ whole' = (whole /\ Quiet)
      /\ load' = [pc |-> "loading", off |-> 0, before |-> Default, quiet |-> TRUE]
      /\ UNCHANGED <<file, shown, part>>
  BY DEF Crash
<1>2. ValuesOK'
  <2>1. Default = [i \in PIds |-> Default[i]] /\ \A i \in PIds : Elements(params[i], Default[i])
    BY FirstValues DEF StateInv
  <2>2. PIds' = PIds
    BY DEF PIds
  <2> QED BY <1>1, <2>1, <2>2 DEF ValuesOK
<1>3. ShownOK'
  BY <1>1 DEF StateInv, ShownOK
<1>4. SaversOK'
  <2>1. Idle.pc = "idle" /\ Idle.e \in Nat /\ Len(Idle.buf) = 0
    BY DEF Idle
  <2>2. \A t : IsSaver(Idle, t)
    BY <2>1, BlockAssumption DEF IsSaver
  <2>3. part \subseteq Savers
    BY DEF StateInv, SaversOK
  <2> QED BY <1>1, <2>1, <2>2, <2>3 DEF SaversOK
<1>5. LoadOK'
  BY <1>1 DEF LoadOK
<1>6. FileOK'
  <2> DEFINE T == TextsOf(params, shown)
             D == FlushedOf(save, T)
             D1 == FlushedOf(save', T)
  <2>1. IsSequence(file) /\ (whole => Holds(file, part, T, D))
    BY DEF StateInv, FileOK
  <2>2. Quiet => D1 = D
    <3>1. Idle.pc # "printing"
      BY DEF Idle
    <3>2. \A r \in Savers : save'[r].pc # "printing"
      BY <1>1, <3>1
    <3>3. Quiet => \A r \in Savers : save[r].pc # "printing"
      BY DEF Quiet
    <3> QED BY <3>2, <3>3, Zenon DEF FlushedOf
  <2>3. whole' => Holds(file, part, T, D1)
    <3> HIDE DEF T, D, D1
    <3> QED BY <1>1, <2>1, <2>2
  <2> QED BY <1>1, <2>1, <2>3 DEF FileOK
<1> QED BY <1>2, <1>3, <1>4, <1>5, <1>6

LEMMA StateInvInit ==
  ASSUME Init
  PROVE  StateInv
<1>1. /\ params \in Programs /\ val = Default /\ file = <<>> /\ save = [s \in Savers |-> Idle] /\ load = NoLoad
      /\ shown = [s \in Savers |-> <<>>] /\ part = {}
  BY DEF Init
<1>2. ValuesOK
  <2>1. Default = [i \in PIds |-> Default[i]] /\ \A i \in PIds : Elements(params[i], Default[i])
    BY <1>1, FirstValues
  <2> QED BY <1>1, <2>1 DEF ValuesOK
<1>3. IsSequence(<<>>)
  BY TupleIs
<1>4. ShownOK
  <2>1. 1..Len(<<>>) = {}
    OBVIOUS
  <2>2. IsLines(params, <<>>)
    BY <1>3, <2>1 DEF IsLines
  <2> QED BY <1>1, <2>2 DEF ShownOK
<1>5. SaversOK
  <2>1. Idle.pc = "idle" /\ Idle.e \in Nat /\ Len(Idle.buf) = 0
    BY DEF Idle
  <2>2. \A t : IsSaver(Idle, t)
    BY <2>1, BlockAssumption DEF IsSaver
  <2> QED BY <1>1, <2>1, <2>2 DEF SaversOK
<1>6. LoadOK
  BY <1>1 DEF LoadOK, NoLoad
<1>7. FileOK
  BY <1>1, <1>3 DEF FileOK, Holds
<1> QED BY <1>1, <1>2, <1>4, <1>5, <1>6, <1>7 DEF StateInv

LEMMA SavesUndisturbed ==
  ASSUME StateInv, UNCHANGED <<params, file, save, shown, part, whole>>
  PROVE  ShownOK' /\ SaversOK' /\ FileOK'
<1>1. ShownOK'
  BY DEF StateInv, ShownOK
<1>2. SaversOK'
  BY DEF StateInv, SaversOK
<1>3. FileOK'
  BY DEF StateInv, FileOK
<1> QED BY <1>1, <1>2, <1>3

LEMMA ValuesUndisturbed ==
  ASSUME StateInv, UNCHANGED <<params, val>>
  PROVE  ValuesOK'
BY DEF StateInv, ValuesOK, PIds

LEMMA LoadUndisturbed ==
  ASSUME StateInv, UNCHANGED load
  PROVE  LoadOK'
BY DEF StateInv, LoadOK

LEMMA StateInvNext ==
  ASSUME StateInv, [Next]_vars
  PROVE  StateInv'
<1>1. UNCHANGED params
  BY DEF Next, vars
<1>2. (params \in Programs)'
  BY <1>1 DEF StateInv
<1>3. ASSUME NEW i \in PIds, NEW v \in params[i].dom, NEW e,
             e \in 0..(params[i].size - 1) \/ params[i].shape = "list", SetCell(i, e, v)
      PROVE  StateInv'
  <2>1. UNCHANGED <<file, save, shown, part, whole>> /\ Disturbed
    BY <1>3 DEF SetCell
  <2>2. ValuesOK'
    BY <1>1, <1>3, SetCellValues
  <2>3. LoadOK'
    BY <2>1, DisturbedLoad
  <2>4. ShownOK' /\ SaversOK' /\ FileOK'
    BY <1>1, <2>1, SavesUndisturbed
  <2> QED BY <1>2, <2>2, <2>3, <2>4 DEF StateInv
<1>4. ASSUME NEW i \in PIds, NEW v, SubCell(i, v)
      PROVE  StateInv'
  <2>1. UNCHANGED <<file, save, shown, part, whole>> /\ Disturbed
    BY <1>4 DEF SubCell
  <2>2. ValuesOK'
    BY <1>1, <1>4, SubCellValues
  <2>3. LoadOK'
    BY <2>1, DisturbedLoad
  <2>4. ShownOK' /\ SaversOK' /\ FileOK'
    BY <1>1, <2>1, SavesUndisturbed
  <2> QED BY <1>2, <2>2, <2>3, <2>4 DEF StateInv
<1>5. ASSUME NEW s \in Savers, SaveOpen(s)
      PROVE  StateInv'
  <2>1. UNCHANGED val /\ Disturbed
    BY <1>5 DEF SaveOpen
  <2>2. ValuesOK'
    BY <1>1, <2>1, ValuesUndisturbed
  <2>3. LoadOK'
    BY <2>1, DisturbedLoad
  <2>4. ShownOK' /\ SaversOK' /\ FileOK'
    BY <1>1, <1>5, SaveOpenStep
  <2> QED BY <1>2, <2>2, <2>3, <2>4 DEF StateInv
<1>6. ASSUME NEW s \in Savers, PrintElement(s)
      PROVE  StateInv'
  <2>1. UNCHANGED <<val, load>>
    BY <1>6 DEF PrintElement
  <2>2. ValuesOK'
    BY <1>1, <2>1, ValuesUndisturbed
  <2>3. LoadOK'
    BY <2>1, LoadUndisturbed
  <2>4. ShownOK' /\ SaversOK' /\ FileOK'
    BY <1>1, <1>6, PrintElementStep
  <2> QED BY <1>2, <2>2, <2>3, <2>4 DEF StateInv
<1>7. ASSUME NEW s \in Savers, SaveClose(s)
      PROVE  StateInv'
  <2>1. UNCHANGED <<val, load>>
    BY <1>7 DEF SaveClose
  <2>2. ValuesOK'
    BY <1>1, <2>1, ValuesUndisturbed
  <2>3. LoadOK'
    BY <2>1, LoadUndisturbed
  <2>4. ShownOK' /\ SaversOK' /\ FileOK'
    BY <1>1, <1>7, SaveCloseStep
  <2> QED BY <1>2, <2>2, <2>3, <2>4 DEF StateInv
<1>8. ASSUME LoadOpen PROVE StateInv'
  <2>1. UNCHANGED <<val, file, save, shown, part, whole>>
        /\ load' = [pc |-> "loading", off |-> 0, before |-> val, quiet |-> Quiet]
    BY <1>8 DEF LoadOpen
  <2>2. ValuesOK'
    BY <1>1, <2>1, ValuesUndisturbed
  <2>3. LoadOK'
    BY <2>1 DEF LoadOK
  <2>4. ShownOK' /\ SaversOK' /\ FileOK'
    BY <1>1, <2>1, SavesUndisturbed
  <2> QED BY <1>2, <2>2, <2>3, <2>4 DEF StateInv
<1>9. ASSUME LoadLine PROVE StateInv'
  <2>1. UNCHANGED <<file, save, shown, part, whole>>
    BY <1>9 DEF LoadLine
  <2>2. ValuesOK' /\ LoadOK'
    BY <1>1, <1>9, LoadLineStep
  <2>3. ShownOK' /\ SaversOK' /\ FileOK'
    BY <1>1, <2>1, SavesUndisturbed
  <2> QED BY <1>2, <2>2, <2>3 DEF StateInv
<1>10. ASSUME Crash PROVE StateInv'
  <2>1. ValuesOK' /\ ShownOK' /\ SaversOK' /\ LoadOK' /\ FileOK'
    BY <1>1, <1>10, CrashStep
  <2> QED BY <1>2, <2>1 DEF StateInv
<1>11. ASSUME UNCHANGED vars PROVE StateInv'
  <2>1. UNCHANGED <<params, val, file, save, load, shown, part, whole>>
    BY <1>11 DEF vars
  <2>2. ValuesOK'
    BY <2>1, ValuesUndisturbed
  <2>3. LoadOK'
    BY <2>1, LoadUndisturbed
  <2>4. ShownOK' /\ SaversOK' /\ FileOK'
    BY <2>1, SavesUndisturbed
  <2> QED BY <1>2, <2>2, <2>3, <2>4 DEF StateInv
<1>12. CASE Next
  <2>1. \/ \E i \in PIds : \E v \in params[i].dom :
             \/ \E e \in 0..(params[i].size - 1) : SetCell(i, e, v)
             \/ params[i].shape = "list" /\ SetCell(i, 0, v)
             \/ SubCell(i, v)
        \/ \E s \in Savers : SaveOpen(s) \/ PrintElement(s) \/ SaveClose(s)
        \/ LoadOpen \/ LoadLine \/ Crash
    BY <1>12, Zenon DEF Next
  <2> QED BY <1>3, <1>4, <1>5, <1>6, <1>7, <1>8, <1>9, <1>10, <2>1, Zenon
<1> QED BY <1>11, <1>12

\* What the elements of the parameters, the savers' progress and that of the load may be, whatever the file says: a
\* list has no more elements than its size and a table just that many, and a stream keeps less than a block back.
THEOREM TypeCorrect == Spec => []TypeOK
<1>1. StateInv => TypeOK
  <2>1. ASSUME StateInv, NEW i \in PIds
        PROVE  Len(val[i]) <= params[i].size /\ (params[i].shape # "list" => Len(val[i]) = params[i].size)
    BY <2>1 DEF StateInv, ValuesOK, Elements
  <2>2. ASSUME StateInv, NEW s \in Savers
        PROVE  save[s].pc \in {"idle", "printing"} /\ save[s].e \in Nat /\ Len(save[s].buf) < Block
    BY <2>2 DEF StateInv, SaversOK, IsSaver
  <2>3. StateInv => load.pc \in {"idle", "loading", "done"} /\ part \subseteq Savers
    BY DEF StateInv, LoadOK, SaversOK
  <2> QED BY <2>1, <2>2, <2>3 DEF TypeOK
<1> QED BY <1>1, StateInvInit, StateInvNext, PTL DEF Spec

\* Two savers each open default.state, which empties it under the other, and write at their own places: once both
\* have closed it, it is the whole state, if the two printed the same.
THEOREM OverlappingSavesLeaveTheState == Spec => []OverlappingSavesAgree
<1>1. ASSUME StateInv, Quiet, whole, Agree PROVE file = TextOf(Shown)
  <2> DEFINE T == TextsOf(params, shown)
             D == FlushedOf(save, T)
  <2>1. IsSequence(file) /\ Holds(file, part, T, D) /\ params \in Programs /\ part \subseteq Savers
    BY <1>1 DEF StateInv, FileOK, SaversOK
  <2>2. TextOf(Shown) = TextFor(params, Shown)
    BY Zenon DEF TextOf, TextFor
  <2>3. CASE part = {}
    <3>1. Shown = <<>>
      BY <2>3 DEF Shown
    <3>2. file = <<>>
      BY <2>1, <2>3 DEF Holds
    <3> QED BY <2>2, <3>1, <3>2, TextOfNothing, Zenon
  <2>4. CASE part # {}
    <3> DEFINE one == CHOOSE s \in part : TRUE
               t == TextFor(params, shown[one])
    <3>1. one \in part
      BY <2>4, Zenon
    <3>2. Shown = shown[one]
      BY <2>4 DEF Shown
    <3> HIDE DEF one
    <3>3. IsSequence(t)
      BY <1>1, <2>1, <3>1, TextOfType DEF StateInv, ShownOK
    <3>4. ASSUME NEW s \in part PROVE T[s] = t /\ D[s] = Len(t)
      <4>1. s \in Savers /\ shown[s] = shown[one] /\ save[s].pc = "idle"
        BY <1>1, <2>1, <3>1, <3>4 DEF Agree, Quiet
      <4>2. T[s] = t
        BY <4>1 DEF TextsOf
      <4>3. D[s] = IF save[s].pc = "printing" THEN save[s].off ELSE Len(T[s])
        BY <4>1 DEF FlushedOf
      <4> HIDE DEF T, D, t
      <4> QED BY <4>1, <4>2, <4>3
    <3> HIDE DEF T, D, t
    <3>5. file = t
      BY <2>1, <2>4, <3>3, <3>4, HoldsAll
    <3> QED BY <2>2, <3>2, <3>5, Zenon DEF t
  <2> QED BY <2>3, <2>4
<1>2. StateInv => OverlappingSavesAgree
  BY <1>1, Zenon DEF OverlappingSavesAgree
<1> QED BY <1>2, StateInvInit, StateInvNext, PTL DEF Spec

===============================================================================
