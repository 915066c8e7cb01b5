--------------------------- MODULE TCPDevice_proofs ---------------------------
(***************************************************************************)
(* What comes out of the framer over a connection that breaks, proved for  *)
(* frames of any bytes, buffers of any size and any number of frames,      *)
(* connections and breaks.                                                 *)
(*                                                                         *)
(* Every byte on its way has a place in a frame that was written.  The     *)
(* places of the bytes of a connection are in order, and a frame that was  *)
(* cut off is followed by the first place of another.  So the reader,      *)
(* which knows nothing of places, has a part of one frame that ends at the *)
(* place of the last byte it read.                                         *)
(***************************************************************************)
EXTENDS TCPDevice, SequenceTheorems, WellFoundedInduction, TLAPS

-----------------------------------------------------------------------------
(* The bytes of a frame.                                                   *)

LEMMA Smallest ==
  ASSUME NEW T, T \subseteq Nat, T # {}
  PROVE  \E n \in T : \A m \in T : n <= m
<1>1. PICK n \in T : \A m \in T : ~(<<m, n>> \in OpToRel(<, Nat))
  BY NatLessThanWellFounded, WFMin
<1>2. ASSUME NEW m \in T PROVE n <= m
  <2>1. m \in Nat /\ n \in Nat
    OBVIOUS
  <2>2. ~(m < n)
    <3>1. m < n => <<m, n>> \in OpToRel(<, Nat)
      BY <2>1 DEF OpToRel
    <3> QED BY <1>1, <3>1
  <2> QED BY <2>1, <2>2
<1> QED BY <1>2

LEMMA StuffedBytes ==
  ASSUME NEW ch \in Bytes
  PROVE  /\ Stuffed(ch) \in Seq(Bytes)
         /\ ch \in {END, ESC} => Len(Stuffed(ch)) = 2 /\ Stuffed(ch)[1] = ESC
         /\ ch = END => Stuffed(ch)[2] = ESC_END
         /\ ch = ESC => Stuffed(ch)[2] = ESC_ESC
         /\ ch \notin {END, ESC} => Len(Stuffed(ch)) = 1 /\ Stuffed(ch)[1] = ch
<1>1. END \in Bytes /\ ESC \in Bytes /\ ESC_END \in Bytes /\ ESC_ESC \in Bytes /\ END # ESC
  BY BytesAssumption DEF END, ESC
<1>2. CASE ch = END
  <2>1. Stuffed(ch) = <<ESC, ESC_END>>
    BY <1>1, <1>2 DEF Stuffed
  <2> QED BY <1>1, <1>2, <2>1
<1>3. CASE ch = ESC
  <2>1. Stuffed(ch) = <<ESC, ESC_ESC>>
    BY <1>1, <1>3 DEF Stuffed
  <2> QED BY <1>1, <1>3, <2>1
<1>4. CASE ch \notin {END, ESC}
  <2>1. Stuffed(ch) = <<ch>>
    BY <1>4 DEF Stuffed
  <2> QED BY <1>1, <1>4, <2>1
<1> QED BY <1>2, <1>3, <1>4

\* The function in Stuffing exists.
LEMMA StuffingDefined ==
  ASSUME NEW frame \in Seq(Bytes)
  PROVE  /\ Stuffing(frame)[0] = <<>>
         /\ \A i \in 1..Len(frame) : Stuffing(frame)[i] = Stuffing(frame)[i - 1] \o Stuffed(frame[i])
         /\ \A i \in 0..Len(frame) : Stuffing(frame)[i] \in Seq(Bytes)
<1> DEFINE N == Len(frame)
           IsStuffing(g, n) == /\ g \in [0..n -> Seq(Bytes)] /\ g[0] = <<>>
                               /\ \A i \in 1..n : g[i] = g[i - 1] \o Stuffed(frame[i])
           Def(f) == f = [i \in 0..N |-> IF i = 0 THEN <<>> ELSE f[i - 1] \o Stuffed(frame[i])]
<1>0. N \in Nat /\ \A i \in 1..N : Stuffed(frame[i]) \in Seq(Bytes)
  BY StuffedBytes
<1>1. \E g : IsStuffing(g, N)
  <2> DEFINE T == {n \in 0..N : ~\E g : IsStuffing(g, n)}
  <2>0. N \in 0..N
    BY <1>0
  <2>1. SUFFICES T = {}
    <3> HIDE DEF IsStuffing, N
    <3> QED BY <2>0
  <2>2. SUFFICES ASSUME T # {} PROVE FALSE
    OBVIOUS
  <2>3. PICK n \in T : \A m \in T : n <= m
    <3>1. T \subseteq 0..N
      OBVIOUS
    <3> HIDE DEF T
    <3>2. T \subseteq Nat
      BY <3>1
    <3> QED BY <2>2, <3>2, Smallest
  <2>4. n \in 0..N /\ ~\E g : IsStuffing(g, n)
    OBVIOUS
  <2>5. n # 0
    <3> DEFINE g0 == [i \in 0..0 |-> <<>>]
    <3>1. g0 \in [0..0 -> Seq(Bytes)] /\ g0[0] = <<>> /\ 1..0 = {}
      OBVIOUS
    <3>2. IsStuffing(g0, 0)
      BY <3>1
    <3> QED BY <2>4, <3>2
  <2>6. n - 1 \in 0..N /\ n - 1 \notin T
    <3>1. n - 1 \in 0..N /\ ~(n <= n - 1)
      BY <1>0, <2>4, <2>5
    <3> HIDE DEF T
    <3> QED BY <2>3, <3>1
  <2>7. PICK g : IsStuffing(g, n - 1)
    BY <2>6
  <2> DEFINE h == [i \in 0..n |-> IF i = n THEN g[n - 1] \o Stuffed(frame[n]) ELSE g[i]]
  <2>8. h \in [0..n -> Seq(Bytes)]
    <3>1. n \in 1..N /\ n - 1 \in 0..(n - 1)
      BY <1>0, <2>4, <2>5
    <3>2. g[n - 1] \in Seq(Bytes) /\ Stuffed(frame[n]) \in Seq(Bytes)
      BY <1>0, <2>7, <3>1
    <3>3. g[n - 1] \o Stuffed(frame[n]) \in Seq(Bytes)
      BY <3>2, ConcatProperties
    <3>4. \A i \in 0..n : i # n => i \in 0..(n - 1)
      BY <3>1
    <3> QED BY <2>7, <3>3, <3>4
  <2>9. h[0] = <<>>
    BY <2>4, <2>5, <2>7
  <2>10. ASSUME NEW i \in 1..n PROVE h[i] = h[i - 1] \o Stuffed(frame[i])
    <3>1. CASE i = n
      BY <2>4, <2>5, <3>1, SMTT(30)
    <3>2. CASE i # n
      <4>1. i \in 1..(n - 1) /\ i \in 0..n /\ i - 1 \in 0..n /\ i - 1 # n
        BY <2>4, <2>5, <3>2
      <4>2. g[i] = g[i - 1] \o Stuffed(frame[i])
        BY <2>7, <4>1
      <4> QED BY <3>2, <4>1, <4>2
    <3> QED BY <3>1, <3>2
  <2>11. IsStuffing(h, n)
    <3> HIDE DEF h
    <3> QED BY <2>8, <2>9, <2>10
  <2> QED BY <2>4, <2>11
<1>2. PICK g : IsStuffing(g, N)
  BY <1>1
<1>3. Def(g)
  <2>1. g = [i \in 0..N |-> g[i]]
    BY <1>2
  <2>2. ASSUME NEW i \in 0..N PROVE g[i] = IF i = 0 THEN <<>> ELSE g[i - 1] \o Stuffed(frame[i])
    <3>1. i = 0 \/ i \in 1..N
      BY <1>0
    <3>2. g[0] = <<>> /\ \A k \in 1..N : g[k] = g[k - 1] \o Stuffed(frame[k])
      BY <1>2, Zenon
    <3>3. i \in 1..N => i # 0
      BY <1>0
    <3> HIDE DEF N
    <3> QED BY <3>1, <3>2, <3>3
  <2> QED BY <2>1, <2>2
<1> DEFINE S == Stuffing(frame)
<1>4. Def(S)
  <2> DEFINE f == CHOOSE f : Def(f)
  <2>1. Def(f)
    <3>1. \E x : Def(x)
      BY <1>3
    <3> HIDE DEF Def
    <3> QED BY <3>1
  <2>2. S = f
    BY DEF Stuffing
  <2> HIDE DEF f, S
  <2> QED BY <2>1, <2>2
<1> HIDE DEF S
<1>5. S[0] = <<>> /\ \A i \in 1..N : S[i] = S[i - 1] \o Stuffed(frame[i])
  <2>1. S = [i \in 0..N |-> IF i = 0 THEN <<>> ELSE S[i - 1] \o Stuffed(frame[i])]
    BY <1>4
  <2> HIDE DEF N
  <2>2. 0 \in 0..N /\ \A i \in 1..N : i \in 0..N /\ i # 0
    BY <1>0
  <2>3. \A i \in 0..N : S[i] = IF i = 0 THEN <<>> ELSE S[i - 1] \o Stuffed(frame[i])
    BY <2>1
  <2> QED BY <2>2, <2>3
<1>6. \A i \in 0..N : S[i] \in Seq(Bytes)
  <2> DEFINE T == {i \in 0..N : S[i] \notin Seq(Bytes)}
  <2>1. SUFFICES ASSUME T # {} PROVE FALSE
    OBVIOUS
  <2>2. PICK n \in T : \A m \in T : n <= m
    <3>1. T \subseteq Nat
      BY <1>0
    <3> HIDE DEF T
    <3> QED BY <2>1, <3>1, Smallest
  <2>3. n # 0 /\ n \in 1..N /\ n - 1 \in 0..N
    <3>1. <<>> \in Seq(Bytes)
      OBVIOUS
    <3>2. n \in 0..N /\ n # 0
      BY <1>5, <2>2, <3>1
    <3> HIDE DEF N
    <3> QED BY <1>0, <3>2
  <2>4. S[n - 1] \in Seq(Bytes)
    <3>1. ~(n <= n - 1)
      BY <1>0, <2>3
    <3>2. n - 1 \notin T
      <4> HIDE DEF T
      <4> QED BY <2>2, <3>1
    <3> QED BY <2>3, <3>2
  <2>5. S[n] = S[n - 1] \o Stuffed(frame[n]) /\ Stuffed(frame[n]) \in Seq(Bytes)
    BY <1>0, <1>5, <2>3
  <2>6. S[n] \in Seq(Bytes)
    BY <2>4, <2>5, ConcatProperties
  <2> QED BY <2>2, <2>6
<1> QED BY <1>5, <1>6 DEF S

-----------------------------------------------------------------------------
(* Places.  The place of a byte is the number j of its frame among the     *)
(* frames fs, the place k in that, 0 for the END before it and one more    *)
(* than its length for the END after it, and which byte e it is of those   *)
(* that stand for one.                                                     *)

Places == [j : Nat, k : Nat, e : {1, 2}]
Place(j, k, e) == [j |-> j, k |-> k, e |-> e]

Inner(fs, l) == l.k \in 1..Len(fs[l.j])
Escaped(fs, l) == Inner(fs, l) /\ fs[l.j][l.k] \in {END, ESC}
Within(fs, l) ==
    /\ l \in Places /\ l.j \in 1..Len(fs) /\ l.k \in 0..(Len(fs[l.j]) + 1)
    /\ l.e = 2 => Escaped(fs, l)
ByteAt(fs, l) == IF Inner(fs, l) THEN Stuffed(fs[l.j][l.k])[l.e] ELSE END

After(fs, l, m) ==
    /\ Within(fs, l) /\ m.j = l.j
    /\ IF l.e = 1 /\ Escaped(fs, l) THEN m.k = l.k /\ m.e = 2 ELSE m.k = l.k + 1 /\ m.e = 1
AtEnd(fs, l) == l.j = 0 \/ l.k = Len(fs[l.j]) + 1

\* What may come after a byte: the next of its frame, or the first of another; while it is calm only of the next,
\* and when this one is whole.
Follows(fs, calm, l, m) ==
    \/ After(fs, l, m)
    \/ m.k = 0 /\ (calm => AtEnd(fs, l) /\ m.j = l.j + 1)

\* The bytes have the places lab.
Marked(fs, calm, bytes, lab) ==
    /\ lab \in Seq(Places) /\ Len(lab) = Len(bytes)
    /\ \A i \in 1..Len(bytes) : Within(fs, lab[i]) /\ bytes[i] = ByteAt(fs, lab[i])
    /\ \A i \in 2..Len(bytes) : Follows(fs, calm, lab[i - 1], lab[i])

LEMMA MarkedNone == \A fs : \A calm \in BOOLEAN : Marked(fs, calm, <<>>, <<>>)
BY DEF Marked

LEMMA MarkedTail ==
  ASSUME NEW fs, NEW calm \in BOOLEAN, NEW bytes \in Seq(Bytes), bytes # <<>>,
         NEW lab, Marked(fs, calm, bytes, lab)
  PROVE  /\ Marked(fs, calm, Tail(bytes), Tail(lab))
         /\ Tail(bytes) # <<>> => Follows(fs, calm, lab[1], Tail(lab)[1])
<1> DEFINE n == Len(bytes)
           W(i) == Within(fs, lab[i]) /\ bytes[i] = ByteAt(fs, lab[i])
           F(i) == Follows(fs, calm, lab[i - 1], lab[i])
<1>1. lab \in Seq(Places) /\ Len(lab) = n /\ n \in Nat \ {0} /\ lab # <<>>
  BY DEF Marked
<1>2. (\A i \in 1..n : W(i)) /\ (\A i \in 2..n : F(i))
  BY DEF Marked
<1>3. /\ Tail(bytes) \in Seq(Bytes) /\ Len(Tail(bytes)) = n - 1
      /\ Tail(lab) \in Seq(Places) /\ Len(Tail(lab)) = n - 1
  BY <1>1
<1>4. \A i \in 1..(n - 1) : Tail(bytes)[i] = bytes[i + 1] /\ Tail(lab)[i] = lab[i + 1]
  BY <1>1
<1>5. ASSUME NEW i \in 1..(n - 1) PROVE Within(fs, Tail(lab)[i]) /\ Tail(bytes)[i] = ByteAt(fs, Tail(lab)[i])
  <2>1. i + 1 \in 1..n
    BY <1>1
  <2>2. W(i + 1)
    BY <1>2, <2>1
  <2> QED BY <1>4, <2>2
<1>6. ASSUME NEW i \in 2..(n - 1) PROVE Follows(fs, calm, Tail(lab)[i - 1], Tail(lab)[i])
  <2>1. i + 1 \in 2..n /\ i - 1 \in 1..(n - 1) /\ i \in 1..(n - 1) /\ (i - 1) + 1 = (i + 1) - 1
    BY <1>1
  <2>2. F(i + 1)
    BY <1>2, <2>1
  <2>3. Tail(lab)[i - 1] = lab[(i - 1) + 1] /\ Tail(lab)[i] = lab[i + 1]
    BY <1>4, <2>1
  <2> QED BY <2>1, <2>2, <2>3
<1>7. Marked(fs, calm, Tail(bytes), Tail(lab))
  BY <1>3, <1>5, <1>6 DEF Marked
<1>8. ASSUME Tail(bytes) # <<>> PROVE Follows(fs, calm, lab[1], Tail(lab)[1])
  <2>1. 2 \in 2..n /\ 1 \in 1..(n - 1) /\ 2 - 1 = 1
    BY <1>1, <1>3, <1>8
  <2>2. Follows(fs, calm, lab[2 - 1], lab[2])
    BY <1>2, <2>1
  <2>3. Tail(lab)[1] = lab[1 + 1]
    BY <1>4, <2>1, Zenon
  <2>4. 1 + 1 = 2
    OBVIOUS
  <2>5. Tail(lab)[1] = lab[2]
    BY <2>3, <2>4, Zenon
  <2> QED BY <2>1, <2>2, <2>5
<1> QED BY <1>7, <1>8

LEMMA MarkedPart ==
  ASSUME NEW fs, NEW calm \in BOOLEAN, NEW bytes \in Seq(Bytes), NEW m \in 0..Len(bytes),
         NEW lab, Marked(fs, calm, bytes, lab)
  PROVE  /\ Marked(fs, calm, SubSeq(bytes, 1, m), SubSeq(lab, 1, m))
         /\ SubSeq(bytes, 1, m) # <<>> => bytes # <<>> /\ SubSeq(lab, 1, m)[1] = lab[1]
<1> DEFINE n == Len(bytes)
<1>1. lab \in Seq(Places) /\ Len(lab) = n /\ n \in Nat
  BY DEF Marked
<1>2. /\ \A i \in 1..n : Within(fs, lab[i]) /\ bytes[i] = ByteAt(fs, lab[i])
      /\ \A i \in 2..n : Follows(fs, calm, lab[i - 1], lab[i])
  BY DEF Marked
<1>3. /\ SubSeq(bytes, 1, m) \in Seq(Bytes) /\ Len(SubSeq(bytes, 1, m)) = m
      /\ SubSeq(lab, 1, m) \in Seq(Places) /\ Len(SubSeq(lab, 1, m)) = m
      /\ \A i \in 1..m : SubSeq(bytes, 1, m)[i] = bytes[i] /\ SubSeq(lab, 1, m)[i] = lab[i]
  BY <1>1
<1>4. (\A i \in 1..m : i \in 1..n) /\ (\A i \in 2..m : i \in 2..n /\ i \in 1..m /\ i - 1 \in 1..m)
  BY <1>1
<1>5. Marked(fs, calm, SubSeq(bytes, 1, m), SubSeq(lab, 1, m))
  BY <1>2, <1>3, <1>4 DEF Marked
<1>6. ASSUME SubSeq(bytes, 1, m) # <<>> PROVE bytes # <<>> /\ SubSeq(lab, 1, m)[1] = lab[1]
  <2>1. m # 0
    BY <1>6
  <2>2. 1 \in 1..m /\ n # 0
    BY <1>1, <2>1
  <2> QED BY <1>3, <2>2
<1> QED BY <1>5, <1>6

LEMMA MarkedConcat ==
  ASSUME NEW fs, NEW calm \in BOOLEAN, NEW a \in Seq(Bytes), NEW b \in Seq(Bytes),
         NEW la, Marked(fs, calm, a, la), NEW lb, Marked(fs, calm, b, lb),
         a # <<>> /\ b # <<>> => Follows(fs, calm, la[Len(la)], lb[1])
  PROVE  Marked(fs, calm, a \o b, la \o lb)
<1> DEFINE n == Len(a)
           m == Len(b)
<1>1. n \in Nat /\ m \in Nat /\ la \in Seq(Places) /\ lb \in Seq(Places) /\ Len(la) = n /\ Len(lb) = m
  BY DEF Marked
<1>2. /\ \A i \in 1..n : Within(fs, la[i]) /\ a[i] = ByteAt(fs, la[i])
      /\ \A i \in 2..n : Follows(fs, calm, la[i - 1], la[i])
  BY DEF Marked
<1>3. /\ \A i \in 1..m : Within(fs, lb[i]) /\ b[i] = ByteAt(fs, lb[i])
      /\ \A i \in 2..m : Follows(fs, calm, lb[i - 1], lb[i])
  BY DEF Marked
<1>4. /\ Len(a \o b) = n + m /\ la \o lb \in Seq(Places) /\ Len(la \o lb) = n + m
      /\ \A i \in 1..(n + m) : (a \o b)[i] = IF i <= n THEN a[i] ELSE b[i - n]
      /\ \A i \in 1..(n + m) : (la \o lb)[i] = IF i <= n THEN la[i] ELSE lb[i - n]
  <2>1. Len(a \o b) = n + m /\ \A i \in 1..(n + m) : (a \o b)[i] = IF i <= n THEN a[i] ELSE b[i - n]
    BY ConcatProperties
  <2>2. /\ la \o lb \in Seq(Places) /\ Len(la \o lb) = Len(la) + Len(lb)
        /\ \A i \in 1..(Len(la) + Len(lb)) : (la \o lb)[i] = IF i <= Len(la) THEN la[i] ELSE lb[i - Len(la)]
    BY <1>1, ConcatProperties
  <2> QED BY <1>1, <2>1, <2>2
<1>5. ASSUME NEW i \in 1..(n + m)
      PROVE  Within(fs, (la \o lb)[i]) /\ (a \o b)[i] = ByteAt(fs, (la \o lb)[i])
  <2>1. CASE i <= n
    <3>1. i \in 1..n
      BY <1>1, <2>1
    <3> QED BY <1>2, <1>4, <2>1, <3>1
  <2>2. CASE ~(i <= n)
    <3>1. i - n \in 1..m
      BY <1>1, <2>2
    <3> QED BY <1>3, <1>4, <2>2, <3>1
  <2> QED BY <2>1, <2>2
<1>6. ASSUME NEW i \in 2..(n + m)
      PROVE  Follows(fs, calm, (la \o lb)[i - 1], (la \o lb)[i])
  <2>0. i \in 1..(n + m) /\ i - 1 \in 1..(n + m)
    BY <1>1
  <2>1. CASE i <= n
    <3>1. i \in 2..n /\ i - 1 <= n
      BY <1>1, <2>1
    <3> QED BY <1>2, <1>4, <2>0, <2>1, <3>1
  <2>2. CASE i = n + 1
    <3>1. n # 0 /\ m # 0 /\ i - 1 = n /\ i - n = 1 /\ ~(i <= n)
      BY <1>1, <2>2
    <3>2. Follows(fs, calm, la[n], lb[1])
      BY <1>1, <3>1
    <3>3. (la \o lb)[i - 1] = la[n]
      BY <1>1, <1>4, <2>0, <3>1
    <3>4. (la \o lb)[i] = lb[1]
      BY <1>1, <1>4, <2>0, <3>1
    <3> QED BY <3>2, <3>3, <3>4
  <2>3. CASE i > n + 1
    <3>1. i - n \in 2..m /\ ~(i <= n) /\ ~(i - 1 <= n) /\ (i - 1) - n = (i - n) - 1
      BY <1>1, <2>3
    <3> QED BY <1>3, <1>4, <2>0, <3>1
  <2> QED BY <1>1, <2>1, <2>2, <2>3, SMTT(30)
<1> QED BY <1>4, <1>5, <1>6 DEF Marked

\* Frames that are added to the others change no place.
LEMMA PlacesKept ==
  ASSUME NEW fs \in Seq(Seq(Bytes)), NEW f \in Seq(Bytes), NEW l \in Places
  PROVE  /\ Append(fs, f) \in Seq(Seq(Bytes))
         /\ Within(fs, l) => /\ Within(Append(fs, f), l)
                             /\ ByteAt(Append(fs, f), l) = ByteAt(fs, l)
                             /\ Escaped(Append(fs, f), l) <=> Escaped(fs, l)
                             /\ AtEnd(Append(fs, f), l) <=> AtEnd(fs, l)
<1>1. /\ Append(fs, f) \in Seq(Seq(Bytes)) /\ Len(Append(fs, f)) = Len(fs) + 1 /\ Len(fs) \in Nat
      /\ \A j \in 1..Len(fs) : Append(fs, f)[j] = fs[j]
  OBVIOUS
<1>2. ASSUME Within(fs, l)
      PROVE  l.j \in 1..Len(fs) /\ l.j \in 1..(Len(fs) + 1) /\ Append(fs, f)[l.j] = fs[l.j]
  BY <1>1, <1>2 DEF Within
<1>3. Within(fs, l) => (Inner(Append(fs, f), l) <=> Inner(fs, l))
  BY <1>2, Zenon DEF Inner
<1>4. Within(fs, l) => (Escaped(Append(fs, f), l) <=> Escaped(fs, l))
  BY <1>2, <1>3, Zenon DEF Escaped
<1>5. Within(fs, l) => Within(Append(fs, f), l)
  BY <1>1, <1>2, <1>4 DEF Within
<1>6. Within(fs, l) => ByteAt(Append(fs, f), l) = ByteAt(fs, l)
  BY <1>2, <1>3, Zenon DEF ByteAt
<1>7. Within(fs, l) => (AtEnd(Append(fs, f), l) <=> AtEnd(fs, l))
  BY <1>2, Zenon DEF AtEnd
<1> QED BY <1>1, <1>4, <1>5, <1>6, <1>7

LEMMA FollowsKept ==
  ASSUME NEW fs \in Seq(Seq(Bytes)), NEW f \in Seq(Bytes), NEW l \in Places, l.j = 0 \/ Within(fs, l), NEW m \in Places,
         NEW calm \in BOOLEAN, Follows(fs, calm, l, m)
  PROVE  Follows(Append(fs, f), calm, l, m)
<1>1. After(fs, l, m) => After(Append(fs, f), l, m)
  <2>1. Within(fs, l) => Within(Append(fs, f), l) /\ (Escaped(Append(fs, f), l) <=> Escaped(fs, l))
    BY PlacesKept
  <2> QED BY <2>1 DEF After
<1>2. AtEnd(fs, l) => AtEnd(Append(fs, f), l)
  BY PlacesKept DEF AtEnd
<1> QED BY <1>1, <1>2 DEF Follows

LEMMA MarkedKept ==
  ASSUME NEW fs \in Seq(Seq(Bytes)), NEW f \in Seq(Bytes), NEW calm \in BOOLEAN, NEW bytes, Len(bytes) \in Nat, NEW lab,
         Marked(fs, calm, bytes, lab)
  PROVE  Marked(Append(fs, f), calm, bytes, lab)
<1>1. lab \in Seq(Places) /\ Len(lab) = Len(bytes) /\ \A i \in 1..Len(bytes) : lab[i] \in Places
  BY DEF Marked
<1>2. ASSUME NEW i \in 1..Len(bytes)
      PROVE  Within(Append(fs, f), lab[i]) /\ bytes[i] = ByteAt(Append(fs, f), lab[i])
  <2>1. Within(fs, lab[i]) /\ bytes[i] = ByteAt(fs, lab[i]) /\ lab[i] \in Places
    BY <1>1 DEF Marked
  <2> QED BY <2>1, PlacesKept
<1>3. ASSUME NEW i \in 2..Len(bytes)
      PROVE  Follows(Append(fs, f), calm, lab[i - 1], lab[i])
  <2>1. i - 1 \in 1..Len(bytes) /\ i \in 1..Len(bytes)
    OBVIOUS
  <2>2. Within(fs, lab[i - 1]) /\ Follows(fs, calm, lab[i - 1], lab[i])
    BY <2>1 DEF Marked
  <2>3. lab[i - 1] \in Places /\ lab[i] \in Places
    BY <1>1, <2>1
  <2> QED BY <2>2, <2>3, FollowsKept
<1> QED BY <1>1, <1>2, <1>3 DEF Marked

LEMMA OnePlace ==
  ASSUME NEW fs, NEW b, NEW l \in Places, Within(fs, l), b = ByteAt(fs, l)
  PROVE  Marked(fs, TRUE, <<b>>, <<l>>)
<1>1. Len(<<b>>) = 1 /\ <<b>>[1] = b /\ <<l>> \in Seq(Places) /\ Len(<<l>>) = 1 /\ <<l>>[1] = l /\ 2..1 = {}
  OBVIOUS
<1>2. \A i \in 1..1 : i = 1
  OBVIOUS
<1> QED BY <1>1, <1>2 DEF Marked

LEMMA PairOf ==
  ASSUME NEW s \in Seq(Bytes), Len(s) = 2
  PROVE  s = <<s[1]>> \o <<s[2]>> /\ <<s[1]>> \in Seq(Bytes) /\ <<s[2]>> \in Seq(Bytes)
<1>1. s[1] \in Bytes /\ s[2] \in Bytes
  <2>1. 1 \in 1..Len(s) /\ 2 \in 1..Len(s)
    OBVIOUS
  <2> QED BY <2>1, ElementOfSeq
<1>2. /\ <<s[1]>> \o <<s[2]>> \in Seq(Bytes) /\ Len(<<s[1]>> \o <<s[2]>>) = 2
      /\ (<<s[1]>> \o <<s[2]>>)[1] = s[1] /\ (<<s[1]>> \o <<s[2]>>)[2] = s[2]
  BY <1>1
<1>3. ASSUME NEW i \in 1..2 PROVE s[i] = (<<s[1]>> \o <<s[2]>>)[i]
  <2>1. i = 1 \/ i = 2
    OBVIOUS
  <2> QED BY <1>2, <2>1, Zenon
<1>4. s = <<s[1]>> \o <<s[2]>>
  BY <1>2, <1>3, SeqEqual
<1> QED BY <1>1, <1>4

LEMMA Associative ==
  \A a, b, c \in Seq(Bytes) : a \o (b \o c) = (a \o b) \o c
<1> SUFFICES ASSUME NEW a \in Seq(Bytes), NEW b \in Seq(Bytes), NEW c \in Seq(Bytes)
             PROVE  a \o (b \o c) = (a \o b) \o c
  OBVIOUS
<1>1. (a \o b) \o c = a \o (b \o c)
  BY ConcatAssociative, SMTT(30)
<1> QED BY <1>1

\* The bytes of an encoded frame have its places, all of them and in order.
LEMMA EncodeMarked ==
  ASSUME NEW fs \in Seq(Seq(Bytes)), NEW j \in 1..Len(fs)
  PROVE  /\ Encode(fs[j]) \in Seq(Bytes) /\ Encode(fs[j]) # <<>>
         /\ \E lab : /\ Marked(fs, TRUE, Encode(fs[j]), lab)
                     /\ lab[1] = Place(j, 0, 1) /\ lab[Len(lab)] = Place(j, Len(fs[j]) + 1, 1)
<1> DEFINE f == fs[j]
           N == Len(f)
           Pre(n) == <<END>> \o Stuffing(f)[n]
           Last1(n, l) == l \in Places /\ Within(fs, l) /\ l.j = j /\ l.k = n /\ (l.e = 1 => ~Escaped(fs, l))
           Claim(n) == \E lab : /\ Marked(fs, TRUE, Pre(n), lab) /\ lab[1] = Place(j, 0, 1)
                                /\ Last1(n, lab[Len(lab)])
<1>0. f \in Seq(Bytes) /\ N \in Nat /\ j \in Nat
  BY ElementOfSeq
<1>1. \A n \in 0..N : Pre(n) \in Seq(Bytes) /\ Pre(n) # <<>> /\ Len(Pre(n)) \in Nat \ {0}
  <2>1. <<END>> \in Seq(Bytes)
    BY BytesAssumption
  <2>2. \A n \in 0..N : Stuffing(f)[n] \in Seq(Bytes)
    BY <1>0, StuffingDefined
  <2>3. ASSUME NEW s \in Seq(Bytes) PROVE <<END>> \o s \in Seq(Bytes) /\ Len(<<END>> \o s) = 1 + Len(s)
    BY <2>1
  <2>4. ASSUME NEW s \in Seq(Bytes) PROVE <<END>> \o s # <<>> /\ Len(<<END>> \o s) \in Nat \ {0}
    BY <2>3
  <2> QED BY <2>2, <2>3, <2>4
<1>2. /\ \A k \in 0..(N + 1) : Place(j, k, 1) \in Places /\ Place(j, k, 2) \in Places
      /\ \A k \in 0..(N + 1) : Within(fs, Place(j, k, 1))
      /\ \A k \in 1..N : f[k] \in {END, ESC} => Within(fs, Place(j, k, 2))
  BY <1>0 DEF Place, Places, Within, Escaped, Inner
<1>3. /\ ByteAt(fs, Place(j, 0, 1)) = END /\ ByteAt(fs, Place(j, N + 1, 1)) = END
      /\ \A k \in 1..N : ByteAt(fs, Place(j, k, 1)) = Stuffed(f[k])[1] /\ ByteAt(fs, Place(j, k, 2)) = Stuffed(f[k])[2]
  BY <1>0 DEF Place, ByteAt, Inner
<1>4. Claim(0)
  <2>1. Pre(0) = <<END>>
    <3>1. Stuffing(f)[0] = <<>>
      BY <1>0, StuffingDefined, Zenon
    <3>3. <<END>> \in Seq(Bytes)
      BY BytesAssumption
    <3>2. <<END>> \o <<>> = <<END>>
      BY <3>3, ConcatEmptySeq
    <3> QED BY <3>1, <3>2
  <2>2. 0 \in 0..(N + 1)
    BY <1>0
  <2>3. Marked(fs, TRUE, Pre(0), <<Place(j, 0, 1)>>)
    BY <1>2, <1>3, <2>1, <2>2, OnePlace
  <2>4. Last1(0, Place(j, 0, 1))
    <3>1. Place(j, 0, 1).j = j /\ Place(j, 0, 1).k = 0 /\ Place(j, 0, 1).e = 1
      BY DEF Place
    <3>2. ~Escaped(fs, Place(j, 0, 1))
      BY <3>1 DEF Escaped, Inner
    <3> QED BY <1>2, <2>2, <3>1, <3>2
  <2>5. <<Place(j, 0, 1)>>[1] = Place(j, 0, 1) /\ Len(<<Place(j, 0, 1)>>) = 1
    OBVIOUS
  <2> HIDE DEF Last1, Pre
  <2> QED BY <2>3, <2>4, <2>5
<1>5. ASSUME NEW n \in 1..N, Claim(n - 1) PROVE Claim(n)
  <2> DEFINE ch == f[n]
             A == Pre(n - 1)
             B == Stuffed(ch)
  <2>0. n \in 0..N /\ n - 1 \in 0..N /\ n \in 0..(N + 1) /\ ch \in Bytes
    BY <1>0
  <2>1. Pre(n) = A \o B /\ A \in Seq(Bytes) /\ B \in Seq(Bytes) /\ A # <<>>
    <3>1. Stuffing(f)[n] = Stuffing(f)[n - 1] \o B /\ Stuffing(f)[n - 1] \in Seq(Bytes)
      BY <1>0, <2>0, StuffingDefined
    <3>2. <<END>> \in Seq(Bytes) /\ B \in Seq(Bytes)
      BY <2>0, BytesAssumption, StuffedBytes, SMTT(30)
    <3> HIDE DEF B
    <3>3. <<END>> \o (Stuffing(f)[n - 1] \o B) = (<<END>> \o Stuffing(f)[n - 1]) \o B
      BY <3>1, <3>2, Associative, Zenon
    <3> QED BY <1>1, <2>0, <3>1, <3>2, <3>3
  <2>2. PICK la : Marked(fs, TRUE, A, la) /\ la[1] = Place(j, 0, 1) /\ Last1(n - 1, la[Len(la)])
    BY <1>5
  <2>3. Place(j, n, 1).j = j /\ Place(j, n, 1).k = n /\ Place(j, n, 1).e = 1
        /\ Place(j, n, 2).j = j /\ Place(j, n, 2).k = n /\ Place(j, n, 2).e = 2
    BY DEF Place
  <2>4. Follows(fs, TRUE, la[Len(la)], Place(j, n, 1))
    <3>1. /\ Within(fs, la[Len(la)]) /\ la[Len(la)].j = j /\ la[Len(la)].k = n - 1
          /\ ~(la[Len(la)].e = 1 /\ Escaped(fs, la[Len(la)]))
      BY <2>2
    <3>2. n = (n - 1) + 1
      BY <2>0
    <3> QED BY <2>3, <3>1, <3>2 DEF Follows, After
  <2>5. la \in Seq(Places) /\ Len(la) \in Nat \ {0}
    BY <1>1, <2>0, <2>2 DEF Marked
  <2>6. \E lb : /\ Marked(fs, TRUE, B, lb) /\ lb[1] = Place(j, n, 1) /\ Len(lb) \in Nat \ {0} /\ lb \in Seq(Places)
                /\ Last1(n, lb[Len(lb)])
    <3>1. CASE ch \notin {END, ESC}
      <4>1. B = <<ch>> /\ Stuffed(ch)[1] = ch
        BY <2>0, <3>1, StuffedBytes
      <4>2. Marked(fs, TRUE, B, <<Place(j, n, 1)>>)
        BY <1>2, <1>3, <2>0, <4>1, OnePlace
      <4>3. Last1(n, Place(j, n, 1))
        BY <1>2, <2>0, <2>3, <3>1 DEF Escaped
      <4> DEFINE lb == <<Place(j, n, 1)>>
      <4>4. lb[1] = Place(j, n, 1) /\ Len(lb) = 1 /\ lb \in Seq(Places)
        BY <1>2, <2>0
      <4>5. Marked(fs, TRUE, B, lb)
        BY <4>2
      <4> HIDE DEF Last1, B, lb
      <4>6. Last1(n, lb[Len(lb)])
        BY <4>3, <4>4
      <4>7. Len(lb) \in Nat \ {0}
        BY <4>4
      <4> QED BY <4>4, <4>5, <4>6, <4>7, Zenon
    <3>2. CASE ch \in {END, ESC}
      <4> DEFINE p == Place(j, n, 1)
                 q == Place(j, n, 2)
      <4>1. Len(B) = 2 /\ B \in Seq(Bytes)
        BY <2>0, <3>2, StuffedBytes
      <4>2. B = <<B[1]>> \o <<B[2]>> /\ <<B[1]>> \in Seq(Bytes) /\ <<B[2]>> \in Seq(Bytes)
        <5> HIDE DEF B
        <5> QED BY <4>1, PairOf
      <4>3. p \in Places /\ q \in Places /\ Within(fs, p) /\ Within(fs, q)
        BY <1>2, <2>0, <3>2
      <4>4. B[1] = ByteAt(fs, p) /\ B[2] = ByteAt(fs, q)
        BY <1>3
      <4>5. Marked(fs, TRUE, <<B[1]>>, <<p>>) /\ Marked(fs, TRUE, <<B[2]>>, <<q>>)
        <5> HIDE DEF B, p, q
        <5> QED BY <4>3, <4>4, OnePlace
      <4>6. Escaped(fs, p) /\ Escaped(fs, q)
        BY <2>0, <2>3, <3>2 DEF Escaped, Inner
      <4>7. Follows(fs, TRUE, p, q)
        BY <2>3, <4>3, <4>6 DEF Follows, After
      <4>8. Marked(fs, TRUE, B, <<p>> \o <<q>>)
        <5>1. <<p>>[Len(<<p>>)] = p /\ <<q>>[1] = q
          OBVIOUS
        <5> HIDE DEF p, q, B
        <5>2. Marked(fs, TRUE, <<B[1]>> \o <<B[2]>>, <<p>> \o <<q>>)
          BY <4>2, <4>5, <4>7, <5>1, MarkedConcat
        <5> QED BY <4>2, <5>2
      <4> DEFINE lb == <<p>> \o <<q>>
      <4>9. lb[1] = p /\ Len(lb) = 2 /\ lb \in Seq(Places) /\ lb[2] = q
        <5> HIDE DEF p, q
        <5> QED BY <4>3
      <4>10. Last1(n, q)
        BY <2>3, <4>3
      <4>11. Marked(fs, TRUE, B, lb)
        BY <4>8
      <4> HIDE DEF Last1, B, q, lb
      <4>12. Last1(n, lb[Len(lb)])
        BY <4>9, <4>10
      <4>13. Len(lb) \in Nat \ {0} /\ lb[1] = Place(j, n, 1)
        BY <4>9
      <4> QED BY <4>9, <4>11, <4>12, <4>13, Zenon
    <3> QED BY <3>1, <3>2
  <2>7. PICK lb : /\ Marked(fs, TRUE, B, lb) /\ lb[1] = Place(j, n, 1) /\ Len(lb) \in Nat \ {0} /\ lb \in Seq(Places)
                  /\ Last1(n, lb[Len(lb)])
    BY <2>6
  <2> HIDE DEF Last1
  <2>8. Marked(fs, TRUE, Pre(n), la \o lb)
    <3> HIDE DEF Pre, B
    <3> QED BY <2>1, <2>2, <2>4, <2>7, MarkedConcat
  <2>9. (la \o lb)[1] = la[1] /\ (la \o lb)[Len(la \o lb)] = lb[Len(lb)]
    BY <2>5, <2>7
  <2> HIDE DEF Pre
  <2> QED BY <2>2, <2>7, <2>8, <2>9
<1>6. Claim(N)
  <2> HIDE DEF Claim
  <2> DEFINE T == {n \in 0..N : ~Claim(n)}
  <2>1. SUFFICES ASSUME T # {} PROVE FALSE
    BY <1>0
  <2>2. PICK n \in T : \A m \in T : n <= m
    <3>1. T \subseteq Nat
      BY <1>0
    <3> HIDE DEF T
    <3> QED BY <2>1, <3>1, Smallest
  <2>3. n \in 1..N /\ n - 1 \in 0..N
    BY <1>0, <1>4
  <2>4. ~(n <= n - 1)
    BY <2>3
  <2>5. Claim(n - 1)
    BY <2>2, <2>3, <2>4
  <2> QED BY <1>5, <2>2, <2>3, <2>5
<1>7. PICK la : Marked(fs, TRUE, Pre(N), la) /\ la[1] = Place(j, 0, 1) /\ Last1(N, la[Len(la)])
  BY <1>6
<1> DEFINE E == Place(j, N + 1, 1)
<1>8. Encode(f) = Pre(N) \o <<END>>
  BY DEF Encode
<1>9. N \in 0..N /\ N + 1 \in 0..(N + 1)
  BY <1>0
<1>10. la \in Seq(Places) /\ Len(la) \in Nat \ {0} /\ E \in Places
  BY <1>1, <1>2, <1>7, <1>9 DEF Marked
<1>11. Marked(fs, TRUE, <<END>>, <<E>>)
  BY <1>2, <1>3, <1>9, <1>10, OnePlace
<1>12. Follows(fs, TRUE, la[Len(la)], E)
  <2>1. Within(fs, la[Len(la)]) /\ la[Len(la)].j = j /\ la[Len(la)].k = N /\ ~(la[Len(la)].e = 1 /\ Escaped(fs, la[Len(la)]))
    BY <1>7
  <2>2. E.j = j /\ E.k = N + 1 /\ E.e = 1
    BY DEF Place
  <2> HIDE DEF E
  <2> QED BY <2>1, <2>2 DEF Follows, After
<1> HIDE DEF Pre, Last1, Claim, E
<1>13. Pre(N) \in Seq(Bytes) /\ <<END>> \in Seq(Bytes) /\ Pre(N) # <<>> /\ Len(Pre(N)) \in Nat \ {0}
  BY <1>1, <1>9, BytesAssumption
<1>14. Marked(fs, TRUE, Pre(N) \o <<END>>, la \o <<E>>)
  <2>1. <<E>>[1] = E
    OBVIOUS
  <2> QED BY <1>7, <1>11, <1>12, <1>13, <2>1, MarkedConcat
<1>15. (la \o <<E>>)[1] = la[1] /\ (la \o <<E>>)[Len(la \o <<E>>)] = E
  BY <1>10
<1>16. Pre(N) \o <<END>> \in Seq(Bytes) /\ Pre(N) \o <<END>> # <<>>
  BY <1>13
<1> QED BY <1>7, <1>8, <1>14, <1>15, <1>16 DEF E

-----------------------------------------------------------------------------
(* What the reader has of a frame.                                         *)

Having == [escape : BOOLEAN, buf : Seq(Bytes)]

\* The last byte was at place l, and the buffer is a part of its frame that ends there.
Reach(s, l) == IF s.escape THEN l.k - 1 ELSE l.k
Part(f, calm, buf, n) == \E m \in 1..n : buf = SubSeq(f, m, n) /\ (calm => m = 1)
Has(fs, calm, s, l) ==
    /\ l \in Places /\ (l.j = 0 \/ Within(fs, l))
    /\ s.escape <=> (l.j # 0 /\ l.e = 1 /\ Escaped(fs, l))
    /\ \/ s.buf = <<>> /\ (calm => AtEnd(fs, l) \/ Reach(s, l) = 0)
       \/ /\ l.j # 0 /\ Reach(s, l) \in 1..Len(fs[l.j])
          /\ Part(fs[l.j], calm, s.buf, Reach(s, l))

LEMMA Decoding ==
  ASSUME NEW s \in Having, NEW ch \in Bytes
  PROVE  /\ ch = END => Decode(s, ch) = IF s.escape THEN Empty ELSE s
         /\ ~s.escape /\ ch = ESC => Decode(s, ch).escape = TRUE /\ Decode(s, ch).buf = s.buf
         /\ ~s.escape /\ ch \notin {END, ESC} =>
               Decode(s, ch) = IF Len(s.buf) >= MaxLen THEN Empty ELSE Buffered(s, ch)
         /\ s.escape /\ ch = ESC_END => Decode(s, ch) = IF Len(s.buf) >= MaxLen THEN Empty ELSE Buffered(s, END)
         /\ s.escape /\ ch = ESC_ESC => Decode(s, ch) = IF Len(s.buf) >= MaxLen THEN Empty ELSE Buffered(s, ESC)
<1>1. /\ END # ESC /\ END # ESC_END /\ END # ESC_ESC /\ ESC_END # ESC_ESC
      /\ Len(s.buf) \in Nat /\ MaxLen \in Nat /\ s.escape \in BOOLEAN
  BY RoomAssumption DEF Having, END, ESC, ESC_END, ESC_ESC
<1>2. Len(s.buf) >= MaxLen \/ Len(s.buf) < MaxLen
  BY <1>1
<1>3. ~(Len(s.buf) >= MaxLen /\ Len(s.buf) < MaxLen)
  BY <1>1
<1>4. [s EXCEPT !.escape = TRUE].escape = TRUE /\ [s EXCEPT !.escape = TRUE].buf = s.buf
  BY DEF Having
<1>5. CASE ~s.escape
  BY <1>1, <1>4, <1>5 DEF Decode
<1>6. CASE s.escape
  BY <1>1, <1>2, <1>3, <1>6 DEF Decode
<1> QED BY <1>1, <1>5, <1>6

LEMMA PartOfOne ==
  ASSUME NEW f \in Seq(Bytes), NEW k \in 1..Len(f)
  PROVE  SubSeq(f, k, k) = <<f[k]>> /\ f[k] \in Bytes
<1>1. f[k] \in Bytes
  BY ElementOfSeq
<1>2. SubSeq(f, k, k) \in Seq(Bytes) /\ Len(SubSeq(f, k, k)) = 1 /\ SubSeq(f, k, k)[1] = f[k]
  OBVIOUS
<1>3. <<f[k]>> \in Seq(Bytes) /\ Len(<<f[k]>>) = 1 /\ <<f[k]>>[1] = f[k]
  BY <1>1
<1>4. \A i \in 1..1 : SubSeq(f, k, k)[i] = <<f[k]>>[i]
  BY <1>2, <1>3
<1> QED BY <1>1, <1>2, <1>3, <1>4, SeqEqual

LEMMA PartNotEmpty ==
  ASSUME NEW f \in Seq(Bytes), NEW calm \in BOOLEAN, NEW n \in 1..Len(f), NEW buf, Part(f, calm, buf, n)
  PROVE  buf # <<>>
<1>1. PICK m \in 1..n : buf = SubSeq(f, m, n)
  BY DEF Part
<1>2. Len(SubSeq(f, m, n)) = n - m + 1
  OBVIOUS
<1>3. Len(buf) # 0
  BY <1>1, <1>2
<1> QED BY <1>3

LEMMA Extended ==
  ASSUME NEW f \in Seq(Bytes), NEW k \in 1..Len(f), NEW buf \in Seq(Bytes), NEW calm \in BOOLEAN,
         \/ buf = <<>> /\ (calm => k = 1)
         \/ k - 1 \in 1..Len(f) /\ Part(f, calm, buf, k - 1)
  PROVE  /\ Part(f, calm, Append(buf, f[k]), k)
         /\ calm => Len(buf) = k - 1
<1>1. CASE buf = <<>> /\ (calm => k = 1)
  <2>1. f[k] \in Bytes
    OBVIOUS
  <2>2. Append(buf, f[k]) = <<f[k]>> /\ SubSeq(f, k, k) = <<f[k]>>
    <3>4. SubSeq(f, k, k) = <<f[k]>>
      BY PartOfOne
    <3>5. Append(<<>>, f[k]) = <<f[k]>>
      BY <2>1
    <3> QED BY <1>1, <3>4, <3>5
  <2>3. calm => Len(buf) = k - 1
    BY <1>1
  <2>4. k \in 1..k
    OBVIOUS
  <2> QED BY <1>1, <2>2, <2>3, <2>4 DEF Part
<1>2. CASE k - 1 \in 1..Len(f) /\ Part(f, calm, buf, k - 1)
  <2>1. PICK m \in 1..(k - 1) : buf = SubSeq(f, m, k - 1) /\ (calm => m = 1)
    BY <1>2 DEF Part
  <2>2. m \in 1..k /\ m \in 1..Len(f) /\ k \in m..Len(f) /\ m <= k - 1 /\ m \in Nat /\ k \in Nat
    OBVIOUS
  <2>3. Append(SubSeq(f, m, k - 1), f[k]) = SubSeq(f, m, k)
    <3>1. \A i \in 1..(k - m) : f[m + i - 1] \in Bytes
      BY <2>2
    <3>2. Len(SubSeq(f, m, k - 1)) = k - m /\ Len(SubSeq(f, m, k)) = k - m + 1 /\ f[k] \in Bytes
      BY <2>2
    <3>3. /\ SubSeq(f, m, k - 1) \in Seq(Bytes) /\ SubSeq(f, m, k) \in Seq(Bytes)
          /\ \A i \in 1..(k - m) : SubSeq(f, m, k - 1)[i] = f[m + i - 1]
          /\ \A i \in 1..(k - m + 1) : SubSeq(f, m, k)[i] = f[m + i - 1]
      BY <2>2
    <3> DEFINE A == Append(SubSeq(f, m, k - 1), f[k])
    <3>4. A \in Seq(Bytes) /\ Len(A) = k - m + 1 /\ A[k - m + 1] = f[k]
          /\ \A i \in 1..(k - m) : A[i] = SubSeq(f, m, k - 1)[i]
      BY <2>2, <3>2, <3>3, AppendProperties
    <3> HIDE DEF A
    <3>5. ASSUME NEW i \in 1..(k - m + 1) PROVE A[i] = SubSeq(f, m, k)[i]
      <4>1. CASE i = k - m + 1
        <5>1. m + i - 1 = k
          BY <2>2, <4>1
        <5> QED BY <3>3, <3>4, <4>1, <5>1
      <4>2. CASE i # k - m + 1
        <5>1. i \in 1..(k - m)
          BY <2>2, <4>2
        <5> QED BY <3>3, <3>4, <5>1
      <4> QED BY <4>1, <4>2
    <3>6. A = SubSeq(f, m, k)
      BY <3>2, <3>3, <3>4, <3>5, SeqEqual
    <3> QED BY <3>6 DEF A
  <2>4. calm => Len(buf) = k - 1
    BY <2>1, <2>2
  <2> QED BY <2>1, <2>2, <2>3, <2>4 DEF Part
<1> QED BY <1>1, <1>2

\* A byte that ends a frame ends a part of one, while it is calm a whole one; any other extends what there is, or
\* ends it without a frame.
LEMMA ByteTaken ==
  ASSUME NEW fs \in Seq(Seq(Bytes)), NEW calm \in BOOLEAN, NEW s \in Having,
         NEW l, Has(fs, calm, s, l), NEW m \in Places, Within(fs, m), Follows(fs, calm, l, m),
         \A j \in 1..Len(fs) : fs[j] # <<>> /\ (calm => Len(fs[j]) <= MaxLen)
  PROVE  /\ EndsFrame(s, ByteAt(fs, m)) =>
               /\ Has(fs, calm, Empty, m)
               /\ \E j \in 1..Len(fs) : \E n \in 1..Len(fs[j]) : Part(fs[j], calm, s.buf, n)
               /\ calm => l.j = m.j /\ m.k = Len(fs[m.j]) + 1 /\ s.buf = fs[m.j] /\ ~AtEnd(fs, l)
         /\ ~EndsFrame(s, ByteAt(fs, m)) =>
               /\ Has(fs, calm, Decode(s, ByteAt(fs, m)), m)
               /\ calm => ~AtEnd(fs, m)
<1> DEFINE b == ByteAt(fs, m)
           f == fs[m.j]
<1>0. /\ f \in Seq(Bytes) /\ Len(f) \in Nat \ {0} /\ m.j \in 1..Len(fs) /\ m.j \in Nat /\ m.j # 0 /\ m.k \in Nat /\ m.e \in {1, 2}
      /\ m.k \in 0..(Len(f) + 1) /\ m \in Places
  <2>1. m.j \in 1..Len(fs) /\ m.k \in Nat /\ m.e \in {1, 2} /\ m.j \in Nat
    BY DEF Within, Places
  <2>2. f \in Seq(Bytes)
    BY <2>1, ElementOfSeq
  <2>3. f # <<>>
    BY <2>1
  <2>4. Len(f) \in Nat \ {0}
    <3> HIDE DEF f
    <3> QED BY <2>2, <2>3
  <2> QED BY <2>1, <2>2, <2>4 DEF Within
<1>1. /\ s.escape \in BOOLEAN /\ s.buf \in Seq(Bytes) /\ l \in Places /\ l.j \in Nat /\ l.k \in Nat /\ l.e \in {1, 2}
      /\ Len(s.buf) \in Nat /\ MaxLen \in Nat
  BY RoomAssumption DEF Having, Has, Places
<1>2. /\ l.j = 0 \/ Within(fs, l)
      /\ s.escape <=> (l.j # 0 /\ l.e = 1 /\ Escaped(fs, l))
      /\ \/ s.buf = <<>> /\ (calm => AtEnd(fs, l) \/ Reach(s, l) = 0)
         \/ l.j # 0 /\ Reach(s, l) \in 1..Len(fs[l.j]) /\ Part(fs[l.j], calm, s.buf, Reach(s, l))
  BY DEF Has
<1>3. \A x \in Places : Escaped(fs, x) => x.k \in 1..Len(fs[x.j])
  BY DEF Escaped, Inner
<1>4. Empty.escape = FALSE /\ Empty.buf = <<>>
  BY DEF Empty
<1>5. b \in Bytes
  <2>1. Inner(fs, m) => f[m.k] \in Bytes /\ m.k \in 1..Len(f)
    BY <1>0 DEF Inner
  <2>2. CASE Inner(fs, m) /\ m.e = 1
    <3>1. Stuffed(f[m.k]) \in Seq(Bytes) /\ 1 \in 1..Len(Stuffed(f[m.k]))
      <4>1. f[m.k] \in Bytes
        BY <2>1, <2>2
      <4>2. Len(Stuffed(f[m.k])) = 1 \/ Len(Stuffed(f[m.k])) = 2
        BY <4>1, StuffedBytes
      <4>3. Stuffed(f[m.k]) \in Seq(Bytes)
        BY <4>1, StuffedBytes
      <4>4. 1 \in 1..1 /\ 1 \in 1..2
        OBVIOUS
      <4> QED BY <4>2, <4>3, <4>4, Zenon
    <3>2. Stuffed(f[m.k])[1] \in Bytes
      BY <3>1, ElementOfSeq
    <3> QED BY <2>2, <3>2 DEF ByteAt
  <2>3. CASE Inner(fs, m) /\ m.e = 2
    <3>1. f[m.k] \in {END, ESC}
      BY <2>3 DEF Within, Escaped
    <3>2. Stuffed(f[m.k]) \in Seq(Bytes) /\ 2 \in 1..Len(Stuffed(f[m.k]))
      BY <2>1, <2>3, <3>1, StuffedBytes
    <3>3. Stuffed(f[m.k])[2] \in Bytes
      BY <3>2, ElementOfSeq
    <3> QED BY <2>3, <3>3 DEF ByteAt
  <2>4. CASE ~Inner(fs, m)
    BY <2>4, BytesAssumption DEF ByteAt
  <2> QED BY <1>0, <2>2, <2>3, <2>4
<1>6. END # ESC /\ END # ESC_END /\ END # ESC_ESC /\ ESC # ESC_END /\ ESC # ESC_ESC
  BY DEF END, ESC, ESC_END, ESC_ESC
<1>7. EndsFrame(s, b) <=> ~s.escape /\ b = END /\ s.buf # <<>>
  BY DEF EndsFrame
\* The first byte of a frame.
<1>8. CASE m.k = 0
  <2>1. b = END
    BY <1>0, <1>8 DEF ByteAt, Inner
  <2>2. ~After(fs, l, m)
    BY <1>1, <1>3, <1>8 DEF After
  <2>3. calm => AtEnd(fs, l) /\ m.j = l.j + 1
    BY <2>2 DEF Follows
  <2>4. ~Escaped(fs, m)
    BY <1>0, <1>3, <1>8
  <2>5. ~AtEnd(fs, m)
    BY <1>0, <1>8 DEF AtEnd
  <2>6. ASSUME NEW r, r.escape = FALSE, r.buf = <<>> PROVE Has(fs, calm, r, m)
    BY <1>0, <1>8, <2>4, <2>6 DEF Has, Reach
  <2>7. CASE EndsFrame(s, b)
    <3>1. ~s.escape /\ s.buf # <<>>
      BY <1>7, <2>7
    <3>2. l.j # 0 /\ l.k \in 1..Len(fs[l.j]) /\ Part(fs[l.j], calm, s.buf, l.k)
      BY <1>2, <3>1 DEF Reach
    <3>3. Within(fs, l) /\ l.j \in 1..Len(fs)
      BY <1>2, <3>2 DEF Within
    <3>4. ~AtEnd(fs, l)
      BY <3>2 DEF AtEnd
    <3>5. ~calm
      BY <2>3, <3>4
    <3>6. Has(fs, calm, Empty, m)
      BY <1>4, <2>6
    <3> QED BY <2>7, <3>2, <3>3, <3>5, <3>6
  <2>8. CASE ~EndsFrame(s, b)
    <3>1. Decode(s, b) = IF s.escape THEN Empty ELSE s
      BY <1>5, <2>1, Decoding
    <3>2. Decode(s, b).escape = FALSE /\ Decode(s, b).buf = <<>>
      BY <1>1, <1>4, <1>7, <2>1, <2>8, <3>1
    <3>3. Has(fs, calm, Decode(s, b), m)
      BY <2>6, <3>2
    <3> QED BY <2>5, <2>8, <3>3
  <2> QED BY <2>7, <2>8
<1>9. CASE m.k # 0
  <2>1. After(fs, l, m)
    BY <1>9 DEF Follows
  <2>2. Within(fs, l) /\ m.j = l.j /\ l.j # 0 /\ fs[l.j] = f /\ l.k \in 0..(Len(f) + 1)
    BY <1>0, <2>1 DEF After, Within
  <2>3. s.escape <=> (l.e = 1 /\ Escaped(fs, l))
    BY <1>2, <2>2
  <2>4. IF s.escape THEN m.k = l.k /\ m.e = 2 ELSE m.k = l.k + 1 /\ m.e = 1
    BY <2>1, <2>3 DEF After
  <2>5. AtEnd(fs, m) <=> m.k = Len(f) + 1
    BY <1>0 DEF AtEnd
  \* The last.
  <2>6. CASE m.k = Len(f) + 1
    <3>1. ~s.escape
      BY <1>0, <1>1, <1>3, <2>2, <2>3, <2>4, <2>6
    <3>2. l.k = Len(f) /\ Reach(s, l) = Len(f)
      BY <1>0, <1>1, <2>4, <2>6, <3>1, SMTT(30) DEF Reach
    <3>3. b = END
      BY <1>0, <2>6 DEF ByteAt, Inner
    <3>4. ~Escaped(fs, m)
      BY <1>0, <1>3, <2>6
    <3>5. ASSUME NEW r, r.escape = FALSE, r.buf = <<>> PROVE Has(fs, calm, r, m)
      BY <1>0, <2>5, <2>6, <3>4, <3>5 DEF Has
    <3>6. ~AtEnd(fs, l)
      BY <1>0, <2>2, <3>2 DEF AtEnd
    <3>7. CASE EndsFrame(s, b)
      <4>1. s.buf # <<>>
        BY <1>7, <3>7
      <4>2. Len(f) \in 1..Len(f) /\ Part(f, calm, s.buf, Len(f))
        BY <1>2, <2>2, <3>2, <4>1
      <4>3. calm => s.buf = f
        BY <1>0, <4>2 DEF Part
      <4>4. Has(fs, calm, Empty, m)
        BY <1>4, <3>5
      <4> QED BY <1>0, <2>2, <2>6, <3>6, <3>7, <4>2, <4>3, <4>4
    <3>8. CASE ~EndsFrame(s, b)
      <4>1. s.buf = <<>>
        BY <1>7, <3>1, <3>3, <3>8
      <4>2. Decode(s, b) = s
        BY <1>5, <3>1, <3>3, Decoding
      <4>3. Has(fs, calm, Decode(s, b), m)
        BY <1>1, <3>1, <3>5, <4>1, <4>2
      <4>4. calm => Reach(s, l) = 0
        <5>1. ~(Reach(s, l) \in 1..Len(f) /\ Part(f, calm, s.buf, Reach(s, l)))
          <6> HIDE DEF f
          <6> QED BY <1>0, <4>1, PartNotEmpty
        <5> QED BY <1>2, <2>2, <3>6, <5>1, Zenon
      <4>5. ~calm
        BY <1>0, <3>2, <4>4
      <4> QED BY <3>8, <4>3, <4>5
    <3> QED BY <3>7, <3>8
  <2>7. CASE m.k # Len(f) + 1
    <3>1. m.k \in 1..Len(f) /\ Inner(fs, m) /\ ~AtEnd(fs, m)
      <4>1. m.k \in 1..Len(f)
        BY <1>0, <1>9, <2>7
      <4>2. Inner(fs, m)
        BY <4>1 DEF Inner
      <4> QED BY <2>5, <2>7, <4>1, <4>2
    <3> DEFINE ch == f[m.k]
    <3>2. ch \in Bytes /\ (Escaped(fs, m) <=> ch \in {END, ESC}) /\ b = Stuffed(ch)[m.e]
      BY <1>0, <3>1 DEF Escaped, ByteAt
    <3>3. ~AtEnd(fs, l)
      BY <1>0, <1>1, <2>2, <2>4, <3>1 DEF AtEnd
    <3>4. /\ s.buf = <<>> => (calm => Reach(s, l) = 0)
          /\ s.buf # <<>> => Reach(s, l) \in 1..Len(f) /\ Part(f, calm, s.buf, Reach(s, l))
      <4>1. \/ s.buf = <<>> /\ (calm => Reach(s, l) = 0)
            \/ Reach(s, l) \in 1..Len(f) /\ Part(f, calm, s.buf, Reach(s, l))
        BY <1>2, <2>2, <3>3, Zenon
      <4>2. Part(f, calm, s.buf, Reach(s, l)) /\ Reach(s, l) \in 1..Len(f) => s.buf # <<>>
        <5> HIDE DEF f
        <5> QED BY <1>0, PartNotEmpty
      <4> QED BY <4>1, <4>2, Zenon
    <3>5. ~(Reach(s, l) = 0 /\ Reach(s, l) \in 1..Len(f))
      OBVIOUS
    \* The byte that is buffered, or for which there is no room.
    <3>6. ASSUME Reach(s, l) = m.k - 1, NEW c, c = ch, ~EndsFrame(s, b), m.e = 1 => ~Escaped(fs, m),
                 Decode(s, b) = IF Len(s.buf) >= MaxLen THEN Empty ELSE Buffered(s, c)
          PROVE  Has(fs, calm, Decode(s, b), m)
      <4>1. \/ s.buf = <<>> /\ (calm => m.k = 1)
            \/ m.k - 1 \in 1..Len(f) /\ Part(f, calm, s.buf, m.k - 1)
        BY <1>0, <3>4, <3>6
      <4>2. Part(f, calm, Append(s.buf, ch), m.k) /\ (calm => Len(s.buf) = m.k - 1)
        <5>1. m.k \in 1..Len(f) /\ f \in Seq(Bytes) /\ s.buf \in Seq(Bytes)
          BY <1>0, <1>1, <3>1
        <5> HIDE DEF f
        <5> QED BY <4>1, <5>1, Extended
      <4>3. ~(m.j # 0 /\ m.e = 1 /\ Escaped(fs, m))
        BY <3>6
      <4>4. CASE Len(s.buf) >= MaxLen
        <5>1. ~calm
          <6>1. calm => Len(f) <= MaxLen
            BY <1>0
          <6> QED BY <1>0, <1>1, <3>1, <4>2, <4>4, <6>1
        <5>2. Decode(s, b) = Empty
          BY <3>6, <4>4
        <5> QED BY <1>0, <1>4, <4>3, <5>1, <5>2 DEF Has
      <4>5. CASE ~(Len(s.buf) >= MaxLen)
        <5>1. Decode(s, b).escape = FALSE /\ Decode(s, b).buf = Append(s.buf, ch)
          BY <3>6, <4>5 DEF Buffered
        <5>2. Reach(Decode(s, b), m) = m.k
          BY <5>1 DEF Reach
        <5> QED BY <1>0, <3>1, <4>2, <4>3, <5>1, <5>2 DEF Has
      <4> QED BY <4>4, <4>5
    <3>7. CASE ~s.escape /\ ch \notin {END, ESC}
      <4>1. m.e = 1 /\ m.k = l.k + 1 /\ b = ch
        BY <2>4, <3>2, <3>7, StuffedBytes
      <4>2. Reach(s, l) = m.k - 1 /\ ~EndsFrame(s, b) /\ ~Escaped(fs, m)
        <5>1. ~EndsFrame(s, b)
          BY <1>7, <3>7, <4>1, Zenon
        <5>2. Reach(s, l) = l.k
          BY <3>7 DEF Reach
        <5>3. l.k = m.k - 1
          BY <1>1, <4>1
        <5> QED BY <3>2, <3>7, <5>1, <5>2, <5>3, Zenon
      <4>3. Decode(s, b) = IF Len(s.buf) >= MaxLen THEN Empty ELSE Buffered(s, ch)
        BY <3>2, <3>7, <4>1, Decoding
      <4>4. Has(fs, calm, Decode(s, b), m)
        BY <3>6, <4>2, <4>3
      <4> QED BY <3>1, <4>2, <4>4
    <3>8. CASE ~s.escape /\ ch \in {END, ESC}
      <4>1. m.e = 1 /\ m.k = l.k + 1 /\ b = ESC
        BY <2>4, <3>2, <3>8, StuffedBytes
      <4>2. Reach(s, l) = m.k - 1 /\ ~EndsFrame(s, b) /\ Escaped(fs, m)
        <5>1. ~EndsFrame(s, b)
          BY <1>6, <1>7, <4>1, Zenon
        <5>2. Reach(s, l) = l.k
          BY <3>8 DEF Reach
        <5> QED BY <1>1, <3>2, <3>8, <4>1, <5>1, <5>2, SMTT(30)
      <4>4. Decode(s, b).escape = TRUE /\ Decode(s, b).buf = s.buf
        BY <1>5, <3>8, <4>1, Decoding
      <4>5. Reach(Decode(s, b), m) = Reach(s, l)
        BY <4>2, <4>4 DEF Reach
      <4>6. \/ s.buf = <<>> /\ (calm => AtEnd(fs, m) \/ Reach(Decode(s, b), m) = 0)
            \/ Reach(Decode(s, b), m) \in 1..Len(f) /\ Part(f, calm, s.buf, Reach(Decode(s, b), m))
        BY <3>4, <4>5
      <4>7. Has(fs, calm, Decode(s, b), m)
        BY <1>0, <4>1, <4>2, <4>4, <4>6 DEF Has
      <4> QED BY <3>1, <4>2, <4>7
    <3>9. CASE s.escape
      <4>1. m.e = 2 /\ m.k = l.k /\ Reach(s, l) = m.k - 1 /\ ch \in {END, ESC}
        BY <2>2, <2>3, <2>4, <3>9 DEF Reach, Escaped
      <4>2. ~EndsFrame(s, b)
        BY <1>7, <3>9
      <4>3. Decode(s, b) = IF Len(s.buf) >= MaxLen THEN Empty ELSE Buffered(s, ch)
        <5>1. CASE ch = END
          <6>1. b = ESC_END
            BY <3>2, <4>1, <5>1, StuffedBytes
          <6> QED BY <1>5, <3>9, <5>1, <6>1, Decoding
        <5>2. CASE ch = ESC
          <6>1. b = ESC_ESC
            BY <3>2, <4>1, <5>2, StuffedBytes
          <6> QED BY <1>5, <3>9, <5>2, <6>1, Decoding
        <5> QED BY <4>1, <5>1, <5>2
      <4>4. Has(fs, calm, Decode(s, b), m)
        BY <3>6, <4>1, <4>2, <4>3
      <4> QED BY <3>1, <4>2, <4>4
    <3> QED BY <1>1, <3>7, <3>8, <3>9
  <2> QED BY <2>6, <2>7
<1> QED BY <1>8, <1>9

-----------------------------------------------------------------------------
(* What is on its way to a reader.                                         *)

\* The bytes of a connection, after a byte at place l if it is the connection that was from.
Continues(fs, l, same, bytes) ==
    \E lab : /\ Marked(fs, FALSE, bytes, lab)
             /\ bytes # <<>> => IF same THEN Follows(fs, FALSE, l, lab[1]) ELSE lab[1].k = 0

\* Of connections cs the reader reads from number o, and then only from later ones.
Flowing(fs, s, o, cs, box) ==
    \E l : /\ Has(fs, FALSE, s, l)
           /\ \A c \in 1..Len(cs) : c >= o => Continues(fs, l, c = o, cs[c][box])

LEMMA Calmer ==
  ASSUME NEW fs, NEW bytes, NEW lab, Marked(fs, TRUE, bytes, lab)
  PROVE  Marked(fs, FALSE, bytes, lab)
<1>1. \A l, m : Follows(fs, TRUE, l, m) => Follows(fs, FALSE, l, m)
  BY DEF Follows
<1> QED BY <1>1 DEF Marked

LEMMA ContinuesNone == \A fs, l : \A same \in BOOLEAN : Continues(fs, l, same, <<>>)
BY MarkedNone DEF Continues

LEMMA ContinuesOn ==
  ASSUME NEW fs, NEW l, NEW m, NEW bytes, Continues(fs, l, FALSE, bytes), NEW same \in BOOLEAN
  PROVE  Continues(fs, m, same, bytes)
<1>1. \A x : x.k = 0 => Follows(fs, FALSE, m, x)
  BY DEF Follows
<1> QED BY <1>1 DEF Continues

LEMMA ContinuesKept ==
  ASSUME NEW fs \in Seq(Seq(Bytes)), NEW f \in Seq(Bytes), NEW l \in Places, l.j = 0 \/ Within(fs, l),
         NEW bytes \in Seq(Bytes), NEW same \in BOOLEAN, Continues(fs, l, same, bytes)
  PROVE  Continues(Append(fs, f), l, same, bytes)
<1>1. PICK lab : /\ Marked(fs, FALSE, bytes, lab)
                 /\ bytes # <<>> => IF same THEN Follows(fs, FALSE, l, lab[1]) ELSE lab[1].k = 0
  BY DEF Continues
<1>2. Len(bytes) \in Nat /\ (bytes # <<>> => 1 \in 1..Len(bytes))
  OBVIOUS
<1>3. bytes # <<>> => lab[1] \in Places
  BY <1>1, <1>2 DEF Marked
<1>4. Marked(Append(fs, f), FALSE, bytes, lab)
  BY <1>1, <1>2, MarkedKept
<1>5. bytes # <<>> /\ same => Follows(Append(fs, f), FALSE, l, lab[1])
  BY <1>1, <1>3, FollowsKept
<1> QED BY <1>1, <1>4, <1>5 DEF Continues

LEMMA ContinuesCut ==
  ASSUME NEW fs, NEW l, NEW same \in BOOLEAN, NEW bytes \in Seq(Bytes), Continues(fs, l, same, bytes),
         NEW m \in 0..Len(bytes)
  PROVE  Continues(fs, l, same, SubSeq(bytes, 1, m))
<1>1. PICK lab : /\ Marked(fs, FALSE, bytes, lab)
                 /\ bytes # <<>> => IF same THEN Follows(fs, FALSE, l, lab[1]) ELSE lab[1].k = 0
  BY DEF Continues
<1>2. /\ Marked(fs, FALSE, SubSeq(bytes, 1, m), SubSeq(lab, 1, m))
      /\ SubSeq(bytes, 1, m) # <<>> => bytes # <<>> /\ SubSeq(lab, 1, m)[1] = lab[1]
  <2>1. Marked(fs, FALSE, bytes, lab)
    BY <1>1
  <2> DEFINE calm == FALSE
  <2>2. Marked(fs, calm, bytes, lab) /\ calm \in BOOLEAN
    BY <2>1
  <2> HIDE DEF calm
  <2>3. /\ Marked(fs, calm, SubSeq(bytes, 1, m), SubSeq(lab, 1, m))
        /\ SubSeq(bytes, 1, m) # <<>> => bytes # <<>> /\ SubSeq(lab, 1, m)[1] = lab[1]
    BY <2>2, MarkedPart
  <2> QED BY <2>3 DEF calm
<1> QED BY <1>1, <1>2 DEF Continues

LEMMA ContinuesWritten ==
  ASSUME NEW fs \in Seq(Seq(Bytes)), NEW j \in 1..Len(fs), NEW l, NEW same \in BOOLEAN,
         NEW bytes \in Seq(Bytes), Continues(fs, l, same, bytes)
  PROVE  Continues(fs, l, same, bytes \o Encode(fs[j]))
<1>1. PICK lab : /\ Marked(fs, FALSE, bytes, lab)
                 /\ bytes # <<>> => IF same THEN Follows(fs, FALSE, l, lab[1]) ELSE lab[1].k = 0
  BY DEF Continues
<1> DEFINE E == Encode(fs[j])
<1>2. E \in Seq(Bytes) /\ E # <<>>
  BY EncodeMarked
<1>3. PICK le : Marked(fs, TRUE, E, le) /\ le[1] = Place(j, 0, 1)
  BY EncodeMarked
<1>4. le[1].k = 0
  BY <1>3 DEF Place
<1> HIDE DEF E
<1>5. Marked(fs, FALSE, E, le)
  BY <1>3, Calmer
<1>6. \A x : Follows(fs, FALSE, x, le[1])
  BY <1>4 DEF Follows
<1>7. Marked(fs, FALSE, bytes \o E, lab \o le)
  BY <1>1, <1>2, <1>5, <1>6, MarkedConcat
<1>8. lab \in Seq(Places) /\ Len(lab) = Len(bytes) /\ le \in Seq(Places) /\ Len(le) = Len(E)
  BY <1>1, <1>5 DEF Marked
<1>9. CASE bytes = <<>>
  <2>1. (lab \o le)[1] = le[1]
    BY <1>2, <1>8, <1>9
  <2> QED BY <1>4, <1>6, <1>7, <2>1 DEF E, Continues
<1>10. CASE bytes # <<>>
  <2>1. (lab \o le)[1] = lab[1]
    BY <1>2, <1>8, <1>10
  <2> QED BY <1>1, <1>7, <1>10, <2>1 DEF E, Continues
<1> QED BY <1>9, <1>10

LEMMA ContinuesRead ==
  ASSUME NEW fs \in Seq(Seq(Bytes)), \A j \in 1..Len(fs) : fs[j] # <<>>,
         NEW s \in Having, NEW l, Has(fs, FALSE, s, l),
         NEW bytes \in Seq(Bytes), bytes # <<>>, Continues(fs, l, TRUE, bytes)
  PROVE  \E m : /\ Continues(fs, m, TRUE, Tail(bytes))
                /\ EndsFrame(s, Head(bytes)) =>
                      /\ Has(fs, FALSE, Empty, m)
                      /\ \E j \in 1..Len(fs) : \E n \in 1..Len(fs[j]) : Part(fs[j], FALSE, s.buf, n)
                /\ ~EndsFrame(s, Head(bytes)) => Has(fs, FALSE, Decode(s, Head(bytes)), m)
<1>1. PICK lab : Marked(fs, FALSE, bytes, lab) /\ Follows(fs, FALSE, l, lab[1])
  BY DEF Continues
<1>2. 1 \in 1..Len(bytes) /\ Head(bytes) = bytes[1]
  OBVIOUS
<1>3. lab[1] \in Places /\ Within(fs, lab[1]) /\ Head(bytes) = ByteAt(fs, lab[1])
  BY <1>1, <1>2 DEF Marked
<1>4. Continues(fs, lab[1], TRUE, Tail(bytes))
  BY <1>1, MarkedTail DEF Continues
<1>5. /\ EndsFrame(s, Head(bytes)) =>
            /\ Has(fs, FALSE, Empty, lab[1])
            /\ \E j \in 1..Len(fs) : \E n \in 1..Len(fs[j]) : Part(fs[j], FALSE, s.buf, n)
      /\ ~EndsFrame(s, Head(bytes)) => Has(fs, FALSE, Decode(s, Head(bytes)), lab[1])
  <2>1. \A j \in 1..Len(fs) : fs[j] # <<>> /\ (FALSE => Len(fs[j]) <= MaxLen)
    OBVIOUS
  <2> QED BY <1>1, <1>3, <2>1, ByteTaken, ZenonT(30)
<1> QED BY <1>4, <1>5

LEMMA HasKept ==
  ASSUME NEW fs \in Seq(Seq(Bytes)), NEW f \in Seq(Bytes), NEW calm \in BOOLEAN, NEW s, NEW l, Has(fs, calm, s, l)
  PROVE  Has(Append(fs, f), calm, s, l)
<1>1. l \in Places /\ (l.j = 0 \/ Within(fs, l))
  BY DEF Has
<1>2. CASE l.j = 0
  BY <1>2 DEF Has, AtEnd
<1>3. CASE l.j # 0
  <2>1. /\ Within(fs, l) /\ Within(Append(fs, f), l) /\ (Escaped(Append(fs, f), l) <=> Escaped(fs, l))
        /\ (AtEnd(Append(fs, f), l) <=> AtEnd(fs, l))
    BY <1>1, <1>3, PlacesKept
  <2>2. Append(fs, f)[l.j] = fs[l.j]
    BY <2>1 DEF Within
  <2> QED BY <1>1, <2>1, <2>2, Zenon DEF Has
<1> QED BY <1>2, <1>3

-----------------------------------------------------------------------------
(* The devices and their threads.                                          *)

Connection == [ok : BOOLEAN, up : Seq(Bytes), down : Seq(Bytes)]
Where == {"idle", "begin", "call", "in", "failed", "connect"}
Reader(d) == IF d = "client" THEN "reader" ELSE "control"
Writer(d) == IF d = "client" THEN "caller" ELSE "control"

TypeInv ==
    /\ conns \in Seq(Connection) /\ accepted \in 0..Len(conns)
    /\ cur \in [Devices -> 0..Len(conns)] /\ mutex \in [Devices -> Threads \cup {"none"}]
    /\ pc \in [Threads -> Where] /\ on \in [Threads -> 0..Len(conns)]
    /\ rx \in [Threads -> Having] /\ out \in [Threads -> Seq(Bytes)]
    /\ sent \in [Devices -> Seq(Seq(Bytes))] /\ got \in [Devices -> Seq(Seq(Bytes))]
    /\ breaks \in Nat

\* What a thread does at the device.
ThreadInv ==
    /\ \A t \in Threads : Len(rx[t].buf) <= MaxLen /\ (pc[t] = "connect" <=> mutex[Dev(t)] = t)
    /\ \A t \in Threads : pc[t] = "in" => on[t] # 0 /\ out[t] = <<>>
    /\ pc["caller"] # "idle" => out["caller"] # <<>>
    /\ pc["caller"] = "idle" => out["caller"] = <<>>
    /\ out["reader"] = <<>>

\* A thread reads from no connection that is earlier than the one it read from.
OrderInv ==
    /\ cur["server"] <= accepted /\ on["control"] <= accepted
    /\ \A t \in Threads : cur[Dev(t)] = 0 \/ on[t] <= cur[Dev(t)]

\* What is being written is the frame that was given to the device last.
WriteInv ==
    /\ \A d \in Devices : \A j \in 1..Len(sent[d]) : sent[d][j] # <<>>
    /\ \A d \in Devices : out[Writer(d)] # <<>> =>
          Len(sent[d]) # 0 /\ out[Writer(d)] = Encode(sent[d][Len(sent[d])])

LEMMA Names ==
  /\ Threads = {"reader", "caller", "control"} /\ Devices = {"client", "server"}
  /\ \A t \in Threads : Dev(t) \in Devices
  /\ Dev("reader") = "client" /\ Dev("caller") = "client" /\ Dev("control") = "server"
  /\ \A d \in Devices : Peer(d) \in Devices /\ Peer(Peer(d)) = d /\ Reader(d) \in Threads /\ Writer(d) \in Threads
                        /\ Dev(Reader(d)) = d /\ Dev(Writer(d)) = d /\ Inbox(d) \in {"up", "down"}
  /\ Peer("client") = "server" /\ Peer("server") = "client"
  /\ Inbox("client") = "down" /\ Inbox("server") = "up"
  /\ Reader("client") = "reader" /\ Reader("server") = "control" /\ Writer("client") = "caller" /\ Writer("server") = "control"
BY DEF Threads, Devices, Dev, Peer, Reader, Writer, Inbox

LEMMA DecodedType ==
  ASSUME NEW s \in Having, Len(s.buf) <= MaxLen, NEW ch \in Bytes
  PROVE  Decode(s, ch) \in Having /\ Len(Decode(s, ch).buf) <= MaxLen
<1>1. s.escape \in BOOLEAN /\ s.buf \in Seq(Bytes) /\ Len(s.buf) \in Nat /\ MaxLen \in Nat
  BY RoomAssumption DEF Having
<1>2. Empty \in Having /\ Len(Empty.buf) <= MaxLen
  BY <1>1 DEF Empty, Having
<1>3. ASSUME NEW c \in Bytes, ~(Len(s.buf) >= MaxLen)
      PROVE  Buffered(s, c) \in Having /\ Len(Buffered(s, c).buf) <= MaxLen
  <2>1. Append(s.buf, c) \in Seq(Bytes) /\ Len(Append(s.buf, c)) = Len(s.buf) + 1
    BY <1>1
  <2>2. Buffered(s, c).buf = Append(s.buf, c)
    BY DEF Buffered
  <2>3. Buffered(s, c) \in Having
    BY <2>1 DEF Buffered, Having
  <2> QED BY <1>1, <1>3, <2>1, <2>2, <2>3
<1>4. END \in Bytes /\ ESC \in Bytes
  BY BytesAssumption
<1>5. CASE ch = END
  BY <1>2, <1>5, Decoding
<1>6. CASE ~s.escape /\ ch = ESC
  <2>1. Decode(s, ch) = [s EXCEPT !.escape = TRUE]
    BY <1>6 DEF Decode, END, ESC
  <2>2. Decode(s, ch) \in Having
    BY <2>1 DEF Having
  <2>3. Decode(s, ch).buf = s.buf
    BY <1>6, Decoding
  <2> QED BY <2>2, <2>3
<1>7. CASE ~s.escape /\ ch \notin {END, ESC}
  BY <1>2, <1>3, <1>7, Decoding
<1>8. CASE s.escape /\ ch = ESC_END
  BY <1>2, <1>3, <1>4, <1>8, Decoding
<1>9. CASE s.escape /\ ch = ESC_ESC
  BY <1>2, <1>3, <1>4, <1>9, Decoding
<1>10. CASE s.escape /\ ch \notin {ESC_END, ESC_ESC}
  <2>1. Decode(s, ch) = Empty
    <3>1. Len(s.buf) >= MaxLen \/ Len(s.buf) < MaxLen
      BY <1>1
    <3> QED BY <1>10, <3>1 DEF Decode
  <2> QED BY <1>2, <2>1
<1> QED BY <1>1, <1>5, <1>6, <1>7, <1>8, <1>9, <1>10

LEMMA EncodedType ==
  ASSUME NEW f \in Seq(Bytes)
  PROVE  Encode(f) \in Seq(Bytes) /\ Encode(f) # <<>>
<1>1. <<f>> \in Seq(Seq(Bytes)) /\ 1 \in 1..Len(<<f>>) /\ <<f>>[1] = f
  OBVIOUS
<1> QED BY <1>1, EncodeMarked

\* The connections cs, of which c has other bytes in one direction.
Boxed(cs, c, box, bytes) == [cs EXCEPT ![c][box] = bytes]

\* ds are the connections cs but for those bytes.
Changed(cs, ds, c, box, bytes) ==
    /\ Len(ds) = Len(cs) /\ ds[c][box] = bytes
    /\ \A e \in 1..Len(cs) : \A b \in {"up", "down"} : e # c \/ b # box => ds[e][b] = cs[e][b]

LEMMA Rebox ==
  ASSUME NEW cs \in Seq(Connection), NEW c \in 1..Len(cs), NEW box \in {"up", "down"}, NEW bytes \in Seq(Bytes)
  PROVE  LET ds == Boxed(cs, c, box, bytes) IN
         /\ ds \in Seq(Connection) /\ Len(ds) = Len(cs)
         /\ \A e \in 1..Len(cs) : ds[e].ok = cs[e].ok
         /\ Changed(cs, ds, c, box, bytes)
<1>1. cs[c] \in Connection
  BY ElementOfSeq
<1> DEFINE x == [cs[c] EXCEPT ![box] = bytes]
           ds == Boxed(cs, c, box, bytes)
<1>0. ds = [cs EXCEPT ![c] = x]
  BY DEF Boxed
<1> HIDE DEF ds
<1>2. CASE box = "up"
  <2>1. x \in Connection /\ x[box] = bytes /\ x.ok = cs[c].ok /\ x["down"] = cs[c]["down"]
    BY <1>1, <1>2 DEF Connection
  <2> HIDE DEF x
  <2>2. ds \in Seq(Connection) /\ Len(ds) = Len(cs) /\ ds[c] = x /\ \A e \in 1..Len(cs) : e # c => ds[e] = cs[e]
    BY <1>0, <2>1
  <2>3. \A b \in {"up", "down"} : b # box => b = "down"
    BY <1>2
  <2>4. \A e \in 1..Len(cs) : ds[e].ok = cs[e].ok
    BY <2>1, <2>2
  <2>5. \A e \in 1..Len(cs) : \A b \in {"up", "down"} : e # c \/ b # box => ds[e][b] = cs[e][b]
    BY <2>1, <2>2, <2>3, Zenon
  <2> QED BY <2>1, <2>2, <2>4, <2>5 DEF ds, Changed
<1>3. CASE box = "down"
  <2>1. x \in Connection /\ x[box] = bytes /\ x.ok = cs[c].ok /\ x["up"] = cs[c]["up"]
    BY <1>1, <1>3 DEF Connection
  <2> HIDE DEF x
  <2>2. ds \in Seq(Connection) /\ Len(ds) = Len(cs) /\ ds[c] = x /\ \A e \in 1..Len(cs) : e # c => ds[e] = cs[e]
    BY <1>0, <2>1
  <2>3. \A b \in {"up", "down"} : b # box => b = "up"
    BY <1>3
  <2>4. \A e \in 1..Len(cs) : ds[e].ok = cs[e].ok
    BY <2>1, <2>2
  <2>5. \A e \in 1..Len(cs) : \A b \in {"up", "down"} : e # c \/ b # box => ds[e][b] = cs[e][b]
    BY <2>1, <2>2, <2>3, Zenon
  <2> QED BY <2>1, <2>2, <2>4, <2>5 DEF ds, Changed
<1> QED BY <1>2, <1>3

LEMMA NewConnection ==
  LET x == [ok |-> TRUE, up |-> <<>>, down |-> <<>>]
  IN  x \in Connection /\ x.ok = TRUE /\ \A b \in {"up", "down"} : x[b] = <<>>
BY DEF Connection

LEMMA BoxType ==
  ASSUME NEW cs \in Seq(Connection), NEW c \in 1..Len(cs), NEW b \in {"up", "down"}
  PROVE  cs[c][b] \in Seq(Bytes) /\ cs[c] \in Connection
<1>1. cs[c] \in Connection
  BY ElementOfSeq
<1> QED BY <1>1 DEF Connection

LEMMA InitFirst == Init => TypeInv /\ ThreadInv /\ OrderInv /\ WriteInv
<1> SUFFICES ASSUME Init PROVE TypeInv /\ ThreadInv /\ OrderInv /\ WriteInv
  OBVIOUS
<1>1. Empty \in Having /\ Empty.buf = <<>> /\ Len(<<>>) = 0 /\ <<>> \in Seq(Bytes) /\ <<>> \in Seq(Seq(Bytes)) /\ <<>> \in Seq(Connection)
  BY DEF Empty, Having
<1>2. \A t \in Threads : rx[t] = Empty /\ out[t] = <<>> /\ on[t] = 0 /\ pc[t] = IF t = "caller" THEN "idle" ELSE "begin"
  BY DEF Init
<1>3. \A d \in Devices : sent[d] = <<>> /\ cur[d] = 0 /\ mutex[d] = "none"
  BY DEF Init
<1>4. MaxLen \in Nat
  BY RoomAssumption
<1>5. TypeInv
  BY <1>1, Names DEF Init, TypeInv, Where
<1>6. ThreadInv
  <2>1. \A t \in Threads : Len(rx[t].buf) <= MaxLen
    BY <1>1, <1>2, <1>4
  <2>2. \A t \in Threads : mutex[Dev(t)] = "none" /\ pc[t] # "connect" /\ pc[t] # "in" /\ t # "none"
    BY <1>2, <1>3, Names
  <2> QED BY <1>2, <2>1, <2>2, Names DEF ThreadInv
<1>7. OrderInv
  <2>1. on["control"] = 0 /\ cur["server"] = 0 /\ \A t \in Threads : cur[Dev(t)] = 0
    BY <1>2, <1>3, Names
  <2> QED BY <1>5, <2>1 DEF OrderInv, TypeInv
<1>8. WriteInv
  BY <1>1, <1>2, <1>3, Names DEF WriteInv
<1> QED BY <1>5, <1>6, <1>7, <1>8

LEMMA TypeStep ==
  ASSUME TypeInv, ThreadInv, WriteInv, [Next]_vars
  PROVE  TypeInv'
<1>0. /\ conns \in Seq(Connection) /\ accepted \in 0..Len(conns)
      /\ cur \in [Devices -> 0..Len(conns)] /\ mutex \in [Devices -> Threads \cup {"none"}]
      /\ pc \in [Threads -> Where] /\ on \in [Threads -> 0..Len(conns)]
      /\ rx \in [Threads -> Having] /\ out \in [Threads -> Seq(Bytes)]
      /\ sent \in [Devices -> Seq(Seq(Bytes))] /\ got \in [Devices -> Seq(Seq(Bytes))]
      /\ breaks \in Nat /\ Len(conns) \in Nat
  BY DEF TypeInv
<1>a. \A p \in Where, t \in Threads : [pc EXCEPT ![t] = p] \in [Threads -> Where]
  BY <1>0
<1>b. \A d \in Devices, c \in 0..Len(conns) : [cur EXCEPT ![d] = c] \in [Devices -> 0..Len(conns)]
  BY <1>0
<1>c. \A d \in Devices, t \in Threads \cup {"none"} : [mutex EXCEPT ![d] = t] \in [Devices -> Threads \cup {"none"}]
  BY <1>0
<1>w. "idle" \in Where /\ "begin" \in Where /\ "call" \in Where /\ "in" \in Where /\ "failed" \in Where /\ "connect" \in Where
  BY DEF Where
<1>1. ASSUME NEW f \in Frames, Begin(f) PROVE TypeInv'
  <2>1. f \in Seq(Bytes) /\ Encode(f) \in Seq(Bytes)
    BY FramesAssumption, EncodedType
  <2>2. sent' \in [Devices -> Seq(Seq(Bytes))] /\ out' \in [Threads -> Seq(Bytes)] /\ pc' \in [Threads -> Where]
    BY <1>0, <1>1, <1>a, <1>w, <2>1, Names, SMTT(30) DEF Begin, Goto
  <2> QED BY <1>0, <1>1, <2>2 DEF Begin, TypeInv
<1>2. ASSUME NEW t \in Threads, GetConnection(t) PROVE TypeInv'
  <2>1. pc' \in [Threads -> Where] /\ mutex' \in [Devices -> Threads \cup {"none"}]
    BY <1>0, <1>2, <1>a, <1>c, <1>w, Names DEF GetConnection, Goto, Take
  <2> QED BY <1>0, <1>2, <2>1 DEF GetConnection, frameVars, TypeInv
<1>3. ASSUME NEW t \in Threads, CloseConnection(t) PROVE TypeInv'
  <2>1. pc' \in [Threads -> Where] /\ mutex' \in [Devices -> Threads \cup {"none"}] /\ cur' \in [Devices -> 0..Len(conns)]
    BY <1>0, <1>3, <1>a, <1>b, <1>c, <1>w, Names, SMTT(30) DEF CloseConnection, Goto, Take
  <2> QED BY <1>0, <1>3, <2>1 DEF CloseConnection, frameVars, TypeInv
<1>4. ASSUME NEW t \in Threads, Connect(t) PROVE TypeInv'
  <2>1. pc' \in [Threads -> Where] /\ mutex' \in [Devices -> Threads \cup {"none"}]
    BY <1>0, <1>4, <1>a, <1>c, <1>w, Names DEF Connect, Goto, Give
  <2>2. conns' \in Seq(Connection) /\ Len(conns') = Len(conns) + 1
    BY <1>0, <1>4, NewConnection DEF Connect
  <2>3. \A c \in 0..Len(conns) : c \in 0..Len(conns')
    BY <1>0, <2>2
  <2>4. accepted' \in 0..Len(conns') /\ on' \in [Threads -> 0..Len(conns')]
    BY <1>0, <1>4, <2>3 DEF Connect
  <2>5. cur' \in [Devices -> 0..Len(conns')]
    <3>1. Len(conns) + 1 \in 0..Len(conns') /\ \A d \in Devices : cur[d] \in 0..Len(conns')
      BY <1>0, <2>2, <2>3
    <3> QED BY <1>0, <1>4, <3>1 DEF Connect
  <2> QED BY <1>0, <1>4, <2>1, <2>2, <2>4, <2>5 DEF Connect, frameVars, TypeInv
<1>5. ASSUME NEW t \in Threads, Accept(t) PROVE TypeInv'
  <2>1. pc' \in [Threads -> Where] /\ mutex' \in [Devices -> Threads \cup {"none"}]
    BY <1>0, <1>5, <1>a, <1>c, <1>w, Names DEF Accept, Goto, Give
  <2>2. accepted + 1 \in 0..Len(conns)
    BY <1>0, <1>5 DEF Accept
  <2>3. cur' \in [Devices -> 0..Len(conns)] /\ accepted' \in 0..Len(conns)
    BY <1>0, <1>5, <1>b, <2>2, Names DEF Accept
  <2> QED BY <1>0, <1>5, <2>1, <2>3 DEF Accept, frameVars, TypeInv
<1>6. ASSUME NEW t \in Threads, NoSocket(t) PROVE TypeInv'
  <2>1. pc' \in [Threads -> Where]
    BY <1>6, <1>a, <1>w DEF NoSocket, Goto
  <2> QED BY <1>0, <1>6, <2>1 DEF NoSocket, frameVars, TypeInv
<1>7. ASSUME NEW t \in Threads, Read(t) PROVE TypeInv'
  <2>1. pc' \in [Threads -> Where]
    BY <1>7, <1>a, <1>w DEF Read, Goto
  <2>2. on' \in [Threads -> 0..Len(conns)]
    BY <1>0, <1>7, Names DEF Read
  <2> QED BY <1>0, <1>7, <2>1, <2>2 DEF Read, frameVars, TypeInv
<1>8. ASSUME NEW t \in Threads, ReadByte(t) PROVE TypeInv'
  <2> DEFINE box == Inbox(Dev(t))
             bytes == conns[on[t]][box]
             ends == EndsFrame(rx[t], Head(bytes))
  <2>1. pc' \in [Threads -> Where]
    BY <1>8, <1>a, <1>w DEF ReadByte, Goto
  <2>2. on[t] \in 1..Len(conns) /\ box \in {"up", "down"} /\ Dev(t) \in Devices
    <3>1. on[t] \in 0..Len(conns) /\ on[t] # 0
      BY <1>0, <1>8 DEF ReadByte, ThreadInv
    <3> QED BY <1>0, <3>1, Names, SMTT(30)
  <2>3. bytes \in Seq(Bytes) /\ bytes # <<>>
    BY <1>0, <1>8, <2>2, BoxType DEF ReadByte
  <2>4. Head(bytes) \in Bytes /\ Tail(bytes) \in Seq(Bytes)
    <3> HIDE DEF bytes
    <3> QED BY <2>3
  <2>5. conns' \in Seq(Connection) /\ Len(conns') = Len(conns)
    <3>1. conns' = Boxed(conns, on[t], box, Tail(bytes))
      BY <1>8 DEF ReadByte, Boxed
    <3> HIDE DEF bytes, box
    <3> QED BY <1>0, <2>2, <2>4, <3>1, Rebox
  <2>6. rx[t] \in Having /\ Len(rx[t].buf) <= MaxLen /\ rx[t].buf \in Seq(Bytes)
    BY <1>0 DEF ThreadInv, Having
  <2>7. Decode(rx[t], Head(bytes)) \in Having
    BY <2>4, <2>6, DecodedType
  <2>8. Empty \in Having
    BY DEF Empty, Having
  <2>9. rx' \in [Threads -> Having]
    <3>1. rx' = [rx EXCEPT ![t] = IF ends THEN Empty ELSE Decode(rx[t], Head(bytes))]
      BY <1>8 DEF ReadByte
    <3> HIDE DEF ends, bytes
    <3> QED BY <1>0, <2>7, <2>8, <3>1
  <2>10. got' \in [Devices -> Seq(Seq(Bytes))]
    <3>1. got' = IF ends THEN [got EXCEPT ![Dev(t)] = Append(@, rx[t].buf)] ELSE got
      BY <1>8 DEF ReadByte
    <3> HIDE DEF ends
    <3> QED BY <1>0, <2>2, <2>6, <3>1
  <2>11. Encode(rx[t].buf) \in Seq(Bytes)
    BY <2>6, EncodedType
  <2>12. out' \in [Threads -> Seq(Bytes)] /\ sent' \in [Devices -> Seq(Seq(Bytes))]
    <3>1. \/ out' = [out EXCEPT ![t] = Encode(rx[t].buf)] /\ sent' = [sent EXCEPT !["server"] = Append(@, rx[t].buf)]
          \/ out' = out /\ sent' = sent
      BY <1>8 DEF ReadByte
    <3>2. \A b \in Seq(Bytes) : /\ [out EXCEPT ![t] = b] \in [Threads -> Seq(Bytes)]
                               /\ [sent EXCEPT !["server"] = Append(@, b)] \in [Devices -> Seq(Seq(Bytes))]
      BY <1>0, Names
    <3> QED BY <1>0, <2>6, <2>11, <3>1, <3>2, Zenon
  <2> HIDE DEF ends, bytes, box
  <2>13. accepted' = accepted /\ cur' = cur /\ mutex' = mutex /\ on' = on /\ breaks' = breaks
    BY <1>8 DEF ReadByte
  <2> QED BY <1>0, <2>1, <2>5, <2>9, <2>10, <2>12, <2>13 DEF TypeInv
<1>9. ASSUME NEW t \in Threads, ReadFails(t) PROVE TypeInv'
  <2>1. pc' \in [Threads -> Where]
    BY <1>9, <1>a, <1>w DEF ReadFails, Goto
  <2> QED BY <1>0, <1>9, <2>1 DEF ReadFails, frameVars, TypeInv
<1>10. ASSUME NEW t \in Threads, Write(t) PROVE TypeInv'
  <2> DEFINE c == cur[Dev(t)]
             box == Inbox(Peer(Dev(t)))
  <2>1. pc' \in [Threads -> Where]
    BY <1>10, <1>a, <1>w DEF Write, Goto
  <2>2. out' \in [Threads -> Seq(Bytes)]
    <3>1. <<>> \in Seq(Bytes)
      OBVIOUS
    <3>2. out' = out \/ out' = [out EXCEPT ![t] = <<>>]
      BY <1>10 DEF Write
    <3>3. \A b \in Seq(Bytes) : [out EXCEPT ![t] = b] \in [Threads -> Seq(Bytes)]
      BY <1>0
    <3> QED BY <1>0, <3>1, <3>2, <3>3, Zenon
  <2>3. c \in 1..Len(conns) /\ box \in {"up", "down"}
    <3>1. c \in 0..Len(conns) /\ c # 0
      BY <1>0, <1>10, Names DEF Write
    <3> QED BY <1>0, <3>1, Names, SMTT(30)
  <2>4. conns' \in Seq(Connection) /\ Len(conns') = Len(conns)
    <3>1. conns' = conns \/ conns' = Boxed(conns, c, box, conns[c][box] \o out[t])
      BY <1>10 DEF Write, Boxed
    <3>2. conns[c][box] \in Seq(Bytes) /\ out[t] \in Seq(Bytes)
      BY <1>0, <2>3, BoxType
    <3>3. conns[c][box] \o out[t] \in Seq(Bytes)
      BY <3>2, ConcatProperties
    <3> DEFINE y == conns[c][box] \o out[t]
    <3>4. y \in Seq(Bytes) /\ conns \in Seq(Connection)
      BY <1>0, <3>3
    <3> HIDE DEF c, box, y
    <3>5. Boxed(conns, c, box, y) \in Seq(Connection) /\ Len(Boxed(conns, c, box, y)) = Len(conns)
      BY <2>3, <3>4, Rebox, Zenon
    <3> QED BY <3>1, <3>4, <3>5 DEF y
  <2>5. accepted' = accepted /\ cur' = cur /\ mutex' = mutex /\ on' = on /\ rx' = rx /\ sent' = sent /\ got' = got /\ breaks' = breaks
    BY <1>10 DEF Write
  <2> QED BY <1>0, <2>1, <2>2, <2>4, <2>5 DEF TypeInv
<1>11. ASSUME NEW c \in DOMAIN conns, Break(c) PROVE TypeInv'
  <2>1. c \in 1..Len(conns)
    BY <1>0
  <2>2. conns[c].up \in Seq(Bytes) /\ conns[c].down \in Seq(Bytes)
    BY <1>0, <2>1, BoxType DEF Connection
  <2>3. PICK m \in 0..Len(conns[c].up), n \in 0..Len(conns[c].down) :
           conns' = [conns EXCEPT ![c] = [ok |-> FALSE, up |-> SubSeq(conns[c].up, 1, m), down |-> SubSeq(conns[c].down, 1, n)]]
    BY <1>11 DEF Break
  <2>4. SubSeq(conns[c].up, 1, m) \in Seq(Bytes) /\ SubSeq(conns[c].down, 1, n) \in Seq(Bytes)
    BY <2>2
  <2> DEFINE x == [ok |-> FALSE, up |-> SubSeq(conns[c].up, 1, m), down |-> SubSeq(conns[c].down, 1, n)]
  <2>5. x \in Connection /\ conns' = [conns EXCEPT ![c] = x]
    BY <2>3, <2>4 DEF Connection
  <2> HIDE DEF x
  <2>6. conns' \in Seq(Connection) /\ Len(conns') = Len(conns)
    BY <1>0, <2>1, <2>5
  <2>7. breaks' \in Nat
    BY <1>0, <1>11 DEF Break
  <2> QED BY <1>0, <1>11, <2>6, <2>7 DEF Break, TypeInv
<1>12. CASE UNCHANGED vars
  BY <1>0, <1>12 DEF vars, TypeInv
<1> QED BY <1>1, <1>2, <1>3, <1>4, <1>5, <1>6, <1>7, <1>8, <1>9, <1>10, <1>11, <1>12 DEF Next, Run

\* The steps of a thread, by what it has at hand.
LEMMA Moved ==
  ASSUME TypeInv, NEW t \in Threads, NEW p, Goto(t, p)
  PROVE  \A u \in Threads : pc'[u] = IF u = t THEN p ELSE pc[u]
BY DEF TypeInv, Goto

LEMMA MutexKept ==
  ASSUME TypeInv, ThreadInv, NEW t \in Threads, NEW p, Goto(t, p),
         \/ UNCHANGED mutex /\ p # "connect" /\ pc[t] # "connect"
         \/ Take(t) /\ p = "connect" /\ mutex[Dev(t)] = "none"
         \/ Give(t) /\ p # "connect" /\ pc[t] = "connect"
  PROVE  \A u \in Threads : pc'[u] = "connect" <=> mutex'[Dev(u)] = u
<1>1. \A u \in Threads : pc'[u] = IF u = t THEN p ELSE pc[u]
  BY Moved
<1>2. \A u \in Threads : u # "none" /\ Dev(u) \in Devices /\ (pc[u] = "connect" <=> mutex[Dev(u)] = u)
  BY Names DEF ThreadInv
<1>3. CASE UNCHANGED mutex /\ p # "connect" /\ pc[t] # "connect"
  BY <1>1, <1>2, <1>3
<1>4. CASE Take(t) /\ p = "connect" /\ mutex[Dev(t)] = "none"
  <2>1. \A d \in Devices : mutex'[d] = IF d = Dev(t) THEN t ELSE mutex[d]
    BY <1>4, Names DEF Take, TypeInv
  <2> QED BY <1>1, <1>2, <1>4, <2>1
<1>5. CASE Give(t) /\ p # "connect" /\ pc[t] = "connect"
  <2>1. \A d \in Devices : mutex'[d] = IF d = Dev(t) THEN "none" ELSE mutex[d]
    BY <1>5, Names DEF Give, TypeInv
  <2> QED BY <1>1, <1>2, <1>5, <2>1
<1> QED BY <1>3, <1>4, <1>5

LEMMA ThreadStep ==
  ASSUME TypeInv, ThreadInv, WriteInv, [Next]_vars
  PROVE  ThreadInv'
<1> DEFINE Room == \A t \in Threads : Len(rx[t].buf) <= MaxLen
           Held == \A t \in Threads : pc[t] = "connect" <=> mutex[Dev(t)] = t
           Ins == \A t \in Threads : pc[t] = "in" => on[t] # 0 /\ out[t] = <<>>
           Idle == pc["caller"] = "idle" <=> out["caller"] = <<>>
           Mute == out["reader"] = <<>>
<1>0. /\ ThreadInv <=> Room /\ Held /\ Ins /\ Idle /\ Mute
      /\ (Room /\ Held /\ Ins /\ Idle /\ Mute)' => ThreadInv'
  BY DEF ThreadInv
<1>t. "reader" \in Threads /\ "caller" \in Threads /\ "control" \in Threads
  BY Names
\* A step that moves a thread and does nothing to what it reads or writes.
<1>s. ASSUME NEW t \in Threads, NEW p, p \notin {"idle", "in"}, pc[t] # "idle", Goto(t, p),
             UNCHANGED <<on, rx, out>>, Held'
      PROVE  ThreadInv'
  <2>1. \A u \in Threads : pc'[u] = IF u = t THEN p ELSE pc[u]
    BY <1>s, Moved
  <2>2. Room'
    BY <1>0, <1>s
  <2>3. Ins'
    BY <1>0, <1>s, <2>1
  <2>4. Idle' /\ Mute'
    BY <1>0, <1>s, <1>t, <2>1
  <2> QED BY <1>0, <1>s, <2>2, <2>3, <2>4
<1>1. ASSUME NEW f \in Frames, Begin(f) PROVE ThreadInv'
  <2>1. f \in Seq(Bytes) /\ Encode(f) # <<>>
    BY FramesAssumption, EncodedType
  <2>2. Goto("caller", "begin") /\ pc["caller"] = "idle" /\ UNCHANGED <<rx, on, mutex>>
    BY <1>1 DEF Begin
  <2>3. out'["caller"] # <<>> /\ \A u \in Threads : u # "caller" => out'[u] = out[u]
    BY <1>1, <1>t, <2>1 DEF Begin, TypeInv
  <2>4. \A u \in Threads : pc'[u] = IF u = "caller" THEN "begin" ELSE pc[u]
    BY <1>t, <2>2, Moved
  <2>5. Held'
    <3>1. "begin" # "connect" /\ pc["caller"] # "connect"
      BY <2>2
    <3> QED BY <1>t, <2>2, <3>1, MutexKept
  <2>6. Room' /\ Ins'
    BY <1>0, <2>2, <2>3, <2>4
  <2>7. Idle' /\ Mute'
    BY <1>0, <1>t, <2>3, <2>4
  <2> QED BY <1>0, <2>5, <2>6, <2>7
<1>2. ASSUME NEW t \in Threads, GetConnection(t) PROVE ThreadInv'
  <2>1. /\ pc[t] = "begin" /\ mutex[Dev(t)] = "none" /\ UNCHANGED <<on, rx, out>>
        /\ \/ Goto(t, "call") /\ UNCHANGED mutex
           \/ Goto(t, "connect") /\ Take(t)
    BY <1>2 DEF GetConnection, frameVars
  <2>2. CASE Goto(t, "call") /\ UNCHANGED mutex
    <3>1. Held'
      BY <2>1, <2>2, MutexKept
    <3> QED BY <1>s, <2>1, <2>2, <3>1
  <2>3. CASE Goto(t, "connect") /\ Take(t)
    <3>1. Held'
      BY <2>1, <2>3, MutexKept
    <3> QED BY <1>s, <2>1, <2>3, <3>1
  <2> QED BY <2>1, <2>2, <2>3
<1>3. ASSUME NEW t \in Threads, CloseConnection(t) PROVE ThreadInv'
  <2>1. /\ pc[t] = "failed" /\ mutex[Dev(t)] = "none" /\ UNCHANGED <<on, rx, out>> /\ Goto(t, "connect") /\ Take(t)
    BY <1>3 DEF CloseConnection, frameVars
  <2>2. Held'
    BY <2>1, MutexKept
  <2> QED BY <1>s, <2>1, <2>2
<1>4. ASSUME NEW t \in Threads, Connect(t) \/ Accept(t) PROVE ThreadInv'
  <2>1. /\ pc[t] = "connect" /\ UNCHANGED <<on, rx, out>> /\ Goto(t, "call") /\ Give(t)
    BY <1>4 DEF Connect, Accept, frameVars
  <2>2. Held'
    BY <2>1, MutexKept
  <2> QED BY <1>s, <2>1, <2>2
<1>5. ASSUME NEW t \in Threads, NoSocket(t) \/ ReadFails(t) PROVE ThreadInv'
  <2>1. /\ pc[t] \in {"call", "in"} /\ UNCHANGED <<on, rx, out, mutex>> /\ Goto(t, "failed")
    BY <1>5 DEF NoSocket, ReadFails, frameVars
  <2>2. Held'
    BY <2>1, MutexKept
  <2> QED BY <1>s, <2>1, <2>2
<1>6. ASSUME NEW t \in Threads, Read(t) PROVE ThreadInv'
  <2>1. /\ pc[t] = "call" /\ out[t] = <<>> /\ cur[Dev(t)] # 0 /\ UNCHANGED <<rx, out, mutex>> /\ Goto(t, "in")
    BY <1>6 DEF Read, frameVars
  <2>2. Held'
    BY <2>1, MutexKept
  <2>3. on'[t] # 0 /\ \A u \in Threads : u # t => on'[u] = on[u]
    BY <1>6, <2>1 DEF Read, TypeInv
  <2>4. \A u \in Threads : pc'[u] = IF u = t THEN "in" ELSE pc[u]
    BY <2>1, Moved
  <2>5. Room' /\ Ins'
    BY <1>0, <2>1, <2>3, <2>4
  <2>6. Idle' /\ Mute'
    BY <1>0, <1>t, <2>1, <2>4
  <2> QED BY <1>0, <2>2, <2>5, <2>6
<1>7. ASSUME NEW t \in Threads, ReadByte(t) PROVE ThreadInv'
  <2> DEFINE box == Inbox(Dev(t))
             bytes == conns[on[t]][box]
             ends == EndsFrame(rx[t], Head(bytes))
  <2>1. /\ pc[t] = "in" /\ bytes # <<>> /\ UNCHANGED <<on, mutex>> /\ Goto(t, "begin")
        /\ rx' = [rx EXCEPT ![t] = IF ends THEN Empty ELSE Decode(@, Head(bytes))]
        /\ \/ ends /\ t = "control" /\ out' = [out EXCEPT ![t] = Encode(rx[t].buf)]
           \/ out' = out
    BY <1>7 DEF ReadByte
  <2>2. t # "caller"
    BY <1>0, <2>1
  <2>3. Head(bytes) \in Bytes
    <3>1. on[t] \in 1..Len(conns) /\ box \in {"up", "down"}
      <4>1. on[t] \in 0..Len(conns) /\ on[t] # 0 /\ Len(conns) \in Nat
        BY <1>0, <2>1 DEF TypeInv
      <4> QED BY <4>1, Names
    <3>2. conns \in Seq(Connection)
      BY DEF TypeInv
    <3>3. bytes \in Seq(Bytes)
      BY <3>1, <3>2, BoxType
    <3> HIDE DEF bytes
    <3> QED BY <2>1, <3>3
  <2>4. rx[t] \in Having /\ Len(rx[t].buf) <= MaxLen
    BY <1>0 DEF TypeInv
  <2>5. Len(Decode(rx[t], Head(bytes)).buf) <= MaxLen
    BY <2>3, <2>4, DecodedType
  <2>6. Len(Empty.buf) <= MaxLen
    BY RoomAssumption DEF Empty
  <2>7. Room'
    <3>1. \A u \in Threads : rx'[u] = IF u = t THEN IF ends THEN Empty ELSE Decode(rx[t], Head(bytes)) ELSE rx[u]
      BY <2>1 DEF TypeInv
    <3> HIDE DEF ends, bytes
    <3> QED BY <1>0, <2>5, <2>6, <3>1
  <2>8. \A u \in Threads : pc'[u] = IF u = t THEN "begin" ELSE pc[u]
    BY <2>1, Moved
  <2>9. Held'
    BY <2>1, MutexKept
  <2>10. \A u \in Threads : u # "control" \/ u # t => out'[u] = out[u]
    BY <2>1 DEF TypeInv
  <2>11. Ins'
    BY <1>0, <2>1, <2>8, <2>10
  <2>12. Idle' /\ Mute'
    BY <1>0, <1>t, <2>2, <2>8, <2>10
  <2> QED BY <1>0, <2>7, <2>9, <2>11, <2>12
<1>8. ASSUME NEW t \in Threads, Write(t) PROVE ThreadInv'
  <2>1. /\ pc[t] = "call" /\ out[t] # <<>> /\ UNCHANGED <<on, mutex, rx>>
        /\ \/ out' = [out EXCEPT ![t] = <<>>] /\ Goto(t, IF t = "caller" THEN "idle" ELSE "begin")
           \/ UNCHANGED out /\ Goto(t, "failed")
    BY <1>8 DEF Write
  <2>2. CASE out' = [out EXCEPT ![t] = <<>>] /\ Goto(t, IF t = "caller" THEN "idle" ELSE "begin")
    <3>1. \A u \in Threads : out'[u] = IF u = t THEN <<>> ELSE out[u]
      BY <2>2 DEF TypeInv
    <3> DEFINE p == IF t = "caller" THEN "idle" ELSE "begin"
    <3>2. Goto(t, p) /\ p \in {"idle", "begin"} /\ (p = "idle" <=> t = "caller")
      BY <2>2
    <3> HIDE DEF p
    <3>3. \A u \in Threads : pc'[u] = IF u = t THEN p ELSE pc[u]
      BY <3>2, Moved
    <3>4. Held'
      BY <2>1, <3>2, MutexKept
    <3>5. Room' /\ Ins'
      BY <1>0, <2>1, <3>1, <3>2, <3>3
    <3>6. Idle' /\ Mute'
      BY <1>0, <1>t, <2>1, <3>1, <3>2, <3>3
    <3> QED BY <1>0, <3>4, <3>5, <3>6
  <2>3. CASE UNCHANGED out /\ Goto(t, "failed")
    <3>1. Held'
      BY <2>1, <2>3, MutexKept
    <3> QED BY <1>s, <2>1, <2>3, <3>1
  <2> QED BY <2>1, <2>2, <2>3
<1>9. ASSUME NEW c \in DOMAIN conns, Break(c) PROVE ThreadInv'
  BY <1>9 DEF Break, ThreadInv
<1>10. CASE UNCHANGED vars
  BY <1>10 DEF vars, ThreadInv
<1> QED BY <1>1, <1>2, <1>3, <1>4, <1>5, <1>6, <1>7, <1>8, <1>9, <1>10 DEF Next, Run

LEMMA OrderStep ==
  ASSUME TypeInv, ThreadInv, OrderInv, [Next]_vars
  PROVE  OrderInv'
<1>0. /\ Len(conns) \in Nat /\ accepted \in 0..Len(conns) /\ \A d \in Devices : cur[d] \in 0..Len(conns)
      /\ \A t \in Threads : on[t] \in 0..Len(conns) /\ Dev(t) \in Devices
      /\ cur["server"] <= accepted /\ on["control"] <= accepted
      /\ \A t \in Threads : cur[Dev(t)] = 0 \/ on[t] <= cur[Dev(t)]
  BY Names DEF TypeInv, OrderInv
<1>1. ASSUME UNCHANGED <<accepted, cur, on>> PROVE OrderInv'
  BY <1>1 DEF OrderInv
<1>2. ASSUME NEW t \in Threads, CloseConnection(t) PROVE OrderInv'
  <2>1. UNCHANGED <<accepted, on>> /\ cur' = [cur EXCEPT ![Dev(t)] = 0]
    BY <1>2 DEF CloseConnection
  <2>2. \A d \in Devices : cur'[d] = IF d = Dev(t) THEN 0 ELSE cur[d]
    BY <2>1 DEF TypeInv
  <2>3. cur'["server"] <= accepted'
    BY <1>0, <2>1, <2>2, Names
  <2>4. \A u \in Threads : cur'[Dev(u)] = 0 \/ on'[u] <= cur'[Dev(u)]
    BY <1>0, <2>1, <2>2
  <2> QED BY <1>0, <2>1, <2>3, <2>4 DEF OrderInv
<1>3. ASSUME NEW t \in Threads, Connect(t) PROVE OrderInv'
  <2>1. UNCHANGED <<accepted, on>> /\ cur' = [cur EXCEPT !["client"] = Len(conns) + 1]
    BY <1>3 DEF Connect
  <2>2. \A d \in Devices : cur'[d] = IF d = "client" THEN Len(conns) + 1 ELSE cur[d]
    BY <2>1 DEF TypeInv
  <2>3. cur'["server"] <= accepted'
    BY <1>0, <2>1, <2>2, Names
  <2>4. \A u \in Threads : cur'[Dev(u)] = 0 \/ on'[u] <= cur'[Dev(u)]
    BY <1>0, <2>1, <2>2
  <2> QED BY <1>0, <2>1, <2>3, <2>4 DEF OrderInv
<1>4. ASSUME NEW t \in Threads, Accept(t) PROVE OrderInv'
  <2>1. UNCHANGED on /\ accepted' = accepted + 1 /\ cur' = [cur EXCEPT !["server"] = accepted + 1] /\ t = "control"
    BY <1>4, Names DEF Accept
  <2>2. \A d \in Devices : cur'[d] = IF d = "server" THEN accepted + 1 ELSE cur[d]
    BY <2>1 DEF TypeInv
  <2>3. cur'["server"] <= accepted' /\ on'["control"] <= accepted'
    BY <1>0, <2>1, <2>2, Names
  <2>4. ASSUME NEW u \in Threads PROVE cur'[Dev(u)] = 0 \/ on'[u] <= cur'[Dev(u)]
    <3>1. CASE u = "control"
      BY <1>0, <2>1, <2>2, <3>1, Names
    <3>2. CASE u # "control"
      <4>1. Dev(u) # "server"
        BY <3>2, Names
      <4> QED BY <1>0, <2>1, <2>2, <4>1
    <3> QED BY <3>1, <3>2
  <2> QED BY <2>3, <2>4 DEF OrderInv
<1>5. ASSUME NEW t \in Threads, Read(t) PROVE OrderInv'
  <2>1. UNCHANGED <<accepted, cur>> /\ on' = [on EXCEPT ![t] = cur[Dev(t)]]
    BY <1>5 DEF Read
  <2>2. \A u \in Threads : on'[u] = IF u = t THEN cur[Dev(t)] ELSE on[u]
    BY <2>1 DEF TypeInv
  <2>3. on'["control"] <= accepted'
    <3>1. on'["control"] = on["control"] \/ on'["control"] = cur["server"]
      BY <2>2, Names
    <3> QED BY <1>0, <2>1, <3>1
  <2>4. \A u \in Threads : cur'[Dev(u)] = 0 \/ on'[u] <= cur'[Dev(u)]
    BY <1>0, <2>1, <2>2
  <2> QED BY <1>0, <2>1, <2>3, <2>4 DEF OrderInv
<1>6. ASSUME NEW f \in Frames, Begin(f) PROVE OrderInv'
  BY <1>1, <1>6 DEF Begin
<1>7. ASSUME NEW t \in Threads, GetConnection(t) \/ NoSocket(t) \/ ReadByte(t) \/ ReadFails(t) \/ Write(t) PROVE OrderInv'
  <2>1. UNCHANGED <<accepted, cur, on>>
    BY <1>7 DEF GetConnection, NoSocket, ReadByte, ReadFails, Write
  <2> QED BY <1>1, <2>1
<1>8. ASSUME NEW c \in DOMAIN conns, Break(c) PROVE OrderInv'
  BY <1>1, <1>8 DEF Break
<1>9. CASE UNCHANGED vars
  BY <1>1, <1>9 DEF vars
<1> QED BY <1>2, <1>3, <1>4, <1>5, <1>6, <1>7, <1>8, <1>9 DEF Next, Run

\* A frame that is given to a device and begins to be written.
Given(d, f) ==
    /\ sent' = [sent EXCEPT ![d] = Append(@, f)]
    /\ out' = [out EXCEPT ![Writer(d)] = Encode(f)]

\* What a step does to the frames that were given: none is added, or one that is not empty, which is written next.
LEMMA Giving ==
  ASSUME TypeInv, ThreadInv, [Next]_vars
  PROVE  \/ sent' = sent /\ \A t \in Threads : out'[t] = out[t] \/ out'[t] = <<>>
         \/ \E d \in Devices, f \in Seq(Bytes) : f # <<>> /\ Given(d, f)
<1> DEFINE Goal == \/ sent' = sent /\ \A t \in Threads : out'[t] = out[t] \/ out'[t] = <<>>
                   \/ \E d \in Devices, f \in Seq(Bytes) : f # <<>> /\ Given(d, f)
<1>1. ASSUME NEW f \in Frames, Begin(f) PROVE Goal
  <2>1. Given("client", f) /\ f \in Seq(Bytes) /\ f # <<>> /\ "client" \in Devices
    BY <1>1, FramesAssumption, Names DEF Begin, Given
  <2> QED BY <2>1, Zenon
<1>2. ASSUME NEW t \in Threads, ReadByte(t) PROVE Goal
  <2> DEFINE ends == EndsFrame(rx[t], Head(conns[on[t]][Inbox(Dev(t))]))
  <2>1. \/ /\ ends /\ t = "control" /\ out' = [out EXCEPT ![t] = Encode(rx[t].buf)]
           /\ sent' = [sent EXCEPT !["server"] = Append(@, rx[t].buf)]
        \/ /\ out' = out /\ sent' = sent
    BY <1>2 DEF ReadByte
  <2>2. ends => rx[t].buf # <<>>
    BY DEF EndsFrame
  <2>3. rx[t].buf \in Seq(Bytes)
    BY DEF TypeInv, Having
  <2> HIDE DEF ends
  <2>4. CASE ends /\ t = "control" /\ out' = [out EXCEPT ![t] = Encode(rx[t].buf)]
             /\ sent' = [sent EXCEPT !["server"] = Append(@, rx[t].buf)]
    <3>1. Given("server", rx[t].buf) /\ "server" \in Devices
      BY <2>4, Names DEF Given
    <3> QED BY <2>2, <2>3, <2>4, <3>1, Zenon
  <2>5. CASE out' = out /\ sent' = sent
    BY <2>5
  <2> QED BY <2>1, <2>4, <2>5
<1>3. ASSUME NEW t \in Threads, Write(t) PROVE Goal
  <2>1. sent' = sent /\ (out' = out \/ out' = [out EXCEPT ![t] = <<>>])
    BY <1>3 DEF Write
  <2>2. \A u \in Threads : out'[u] = out[u] \/ out'[u] = <<>>
    BY <2>1 DEF TypeInv
  <2> QED BY <2>1, <2>2
<1>4. ASSUME UNCHANGED <<out, sent>> PROVE Goal
  BY <1>4
<1> HIDE DEF Goal
<1>5. ASSUME NEW t \in Threads,
             GetConnection(t) \/ CloseConnection(t) \/ Connect(t) \/ Accept(t) \/ NoSocket(t) \/ Read(t) \/ ReadFails(t)
      PROVE  Goal
  <2>1. UNCHANGED <<out, sent>>
    BY <1>5 DEF GetConnection, CloseConnection, Connect, Accept, NoSocket, Read, ReadFails, frameVars
  <2> QED BY <1>4, <2>1
<1>6. ASSUME NEW c \in DOMAIN conns, Break(c) PROVE Goal
  BY <1>4, <1>6 DEF Break
<1>7. ASSUME UNCHANGED vars PROVE Goal
  BY <1>4, <1>7 DEF vars
<1>8. Goal
  BY <1>1, <1>2, <1>3, <1>5, <1>6, <1>7 DEF Next, Run
<1> QED BY <1>8 DEF Goal

\* Frames added to those of one device.
LEMMA Added ==
  ASSUME TypeInv, NEW d \in Devices, NEW f \in Seq(Bytes), Given(d, f)
  PROVE  /\ \A e \in Devices : sent'[e] = IF e = d THEN Append(sent[d], f) ELSE sent[e]
         /\ \A t \in Threads : out'[t] = IF t = Writer(d) THEN Encode(f) ELSE out[t]
         /\ Len(Append(sent[d], f)) = Len(sent[d]) + 1 /\ Len(sent[d]) \in Nat
         /\ \A j \in 1..Len(sent[d]) : Append(sent[d], f)[j] = sent[d][j]
         /\ Append(sent[d], f)[Len(sent[d]) + 1] = f
<1>1. sent[d] \in Seq(Seq(Bytes))
  BY DEF TypeInv
<1>2. /\ Len(Append(sent[d], f)) = Len(sent[d]) + 1 /\ Len(sent[d]) \in Nat
      /\ \A j \in 1..Len(sent[d]) : Append(sent[d], f)[j] = sent[d][j]
      /\ Append(sent[d], f)[Len(sent[d]) + 1] = f
  BY <1>1
<1>3. \A e \in Devices : sent'[e] = IF e = d THEN Append(sent[d], f) ELSE sent[e]
  BY DEF Given, TypeInv
<1>4. \A t \in Threads : out'[t] = IF t = Writer(d) THEN Encode(f) ELSE out[t]
  BY DEF Given, TypeInv
<1> QED BY <1>2, <1>3, <1>4

LEMMA WriteStep ==
  ASSUME TypeInv, ThreadInv, WriteInv, [Next]_vars
  PROVE  WriteInv'
<1>0. /\ \A d \in Devices : \A j \in 1..Len(sent[d]) : sent[d][j] # <<>>
      /\ \A d \in Devices : out[Writer(d)] # <<>> =>
            Len(sent[d]) # 0 /\ out[Writer(d)] = Encode(sent[d][Len(sent[d])])
      /\ \A d \in Devices : Writer(d) \in Threads
  BY Names DEF WriteInv
<1>1. CASE sent' = sent /\ \A t \in Threads : out'[t] = out[t] \/ out'[t] = <<>>
  BY <1>0, <1>1 DEF WriteInv
<1>2. ASSUME NEW d \in Devices, NEW f \in Seq(Bytes), f # <<>>, Given(d, f) PROVE WriteInv'
  <2>1. /\ \A e \in Devices : sent'[e] = IF e = d THEN Append(sent[d], f) ELSE sent[e]
        /\ \A t \in Threads : out'[t] = IF t = Writer(d) THEN Encode(f) ELSE out[t]
        /\ Len(Append(sent[d], f)) = Len(sent[d]) + 1 /\ Len(sent[d]) \in Nat
        /\ \A j \in 1..Len(sent[d]) : Append(sent[d], f)[j] = sent[d][j]
        /\ Append(sent[d], f)[Len(sent[d]) + 1] = f
    BY <1>2, Added
  <2>2. \A e \in Devices : e # d => Writer(e) # Writer(d)
    BY Names
  <2>3. ASSUME NEW e \in Devices, NEW j \in 1..Len(sent'[e]) PROVE sent'[e][j] # <<>>
    <3>1. CASE e = d
      <4>0. Len(sent'[e]) = Len(sent[d]) + 1 /\ Len(sent[d]) \in Nat
        BY <2>1, <3>1, Zenon
      <4>1. j \in 1..Len(sent[d]) \/ j = Len(sent[d]) + 1
        BY <4>0
      <4> QED BY <1>0, <1>2, <2>1, <3>1, <4>1
    <3>2. CASE e # d
      BY <1>0, <2>1, <3>2
    <3> QED BY <3>1, <3>2
  <2>4. ASSUME NEW e \in Devices, out'[Writer(e)] # <<>>
        PROVE  Len(sent'[e]) # 0 /\ out'[Writer(e)] = Encode(sent'[e][Len(sent'[e])])
    <3>1. CASE e = d
      <4>1. sent'[e] = Append(sent[d], f) /\ out'[Writer(e)] = Encode(f) /\ Len(sent'[e]) = Len(sent[d]) + 1
        BY <1>0, <2>1, <3>1
      <4> QED BY <2>1, <4>1
    <3>2. CASE e # d
      BY <1>0, <2>1, <2>2, <2>4, <3>2
    <3> QED BY <3>1, <3>2
  <2> QED BY <2>3, <2>4 DEF WriteInv
<1> QED BY <1>1, <1>2, Giving

-----------------------------------------------------------------------------
(* What is read is of one frame.                                           *)

\* How the bytes on their way may change, but for those that are read.
Grown(fs, a, b) ==
    \/ b = a
    \/ \E m \in 0..Len(a) : b = SubSeq(a, 1, m)
    \/ \E j \in 1..Len(fs) : b = a \o Encode(fs[j])

GotOf(fs, gs) == \A k \in 1..Len(gs) : \E j \in 1..Len(fs) : \E n \in 1..Len(fs[j]) : Part(fs[j], FALSE, gs[k], n)

FlowInv == \A e \in Devices : Flowing(sent[Peer(e)], rx[Reader(e)], on[Reader(e)], conns, Inbox(e))
GotInv == \A e \in Devices : GotOf(sent[Peer(e)], got[e])

LEMMA HasPlace ==
  ASSUME NEW fs, NEW calm, NEW s, NEW l, Has(fs, calm, s, l)
  PROVE  l \in Places /\ (l.j = 0 \/ Within(fs, l))
BY DEF Has

LEMMA FlowingKept ==
  ASSUME NEW fs \in Seq(Seq(Bytes)), NEW f \in Seq(Bytes), NEW s, NEW o, NEW cs \in Seq(Connection),
         NEW box \in {"up", "down"}, Flowing(fs, s, o, cs, box)
  PROVE  Flowing(Append(fs, f), s, o, cs, box)
<1>1. PICK l : /\ Has(fs, FALSE, s, l)
               /\ \A c \in 1..Len(cs) : c >= o => Continues(fs, l, c = o, cs[c][box])
  BY DEF Flowing
<1>2. l \in Places /\ (l.j = 0 \/ Within(fs, l))
  BY <1>1, HasPlace
<1>3. Has(Append(fs, f), FALSE, s, l)
  BY <1>1, HasKept
<1>4. ASSUME NEW c \in 1..Len(cs), c >= o PROVE Continues(Append(fs, f), l, c = o, cs[c][box])
  <2>1. cs[c][box] \in Seq(Bytes)
    BY BoxType
  <2> DEFINE same == c = o
  <2>2. same \in BOOLEAN /\ Continues(fs, l, same, cs[c][box])
    BY <1>1, <1>4
  <2> HIDE DEF same
  <2>3. Continues(Append(fs, f), l, same, cs[c][box])
    BY <1>2, <2>1, <2>2, ContinuesKept, Zenon
  <2> QED BY <2>3 DEF same
<1> QED BY <1>3, <1>4 DEF Flowing

LEMMA FlowingOn ==
  ASSUME NEW fs, NEW s, NEW o \in Nat, NEW p \in Nat, o <= p, NEW cs \in Seq(Connection), NEW box,
         Flowing(fs, s, o, cs, box)
  PROVE  Flowing(fs, s, p, cs, box)
<1>1. PICK l : /\ Has(fs, FALSE, s, l)
               /\ \A c \in 1..Len(cs) : c >= o => Continues(fs, l, c = o, cs[c][box])
  BY DEF Flowing
<1>2. ASSUME NEW c \in 1..Len(cs), c >= p PROVE Continues(fs, l, c = p, cs[c][box])
  <2>1. c >= o
    BY <1>2
  <2>2. CASE o = p
    BY <1>1, <2>1, <2>2
  <2>3. CASE o # p
    <3>1. c # o
      BY <1>2, <2>3
    <3>2. Continues(fs, l, FALSE, cs[c][box])
      BY <1>1, <2>1, <3>1
    <3> DEFINE same == c = p
    <3>3. same \in BOOLEAN
      OBVIOUS
    <3> HIDE DEF same
    <3>4. Continues(fs, l, same, cs[c][box])
      BY <3>2, <3>3, ContinuesOn, Zenon
    <3> QED BY <3>4 DEF same
  <2> QED BY <2>2, <2>3
<1> QED BY <1>1, <1>2 DEF Flowing

LEMMA FlowingMore ==
  ASSUME NEW fs, NEW s, NEW o, NEW cs \in Seq(Connection), NEW x \in Connection, NEW box,
         x[box] = <<>>, Flowing(fs, s, o, cs, box)
  PROVE  Flowing(fs, s, o, Append(cs, x), box)
<1>1. PICK l : /\ Has(fs, FALSE, s, l)
               /\ \A c \in 1..Len(cs) : c >= o => Continues(fs, l, c = o, cs[c][box])
  BY DEF Flowing
<1>2. /\ Len(Append(cs, x)) = Len(cs) + 1 /\ Len(cs) \in Nat /\ Append(cs, x)[Len(cs) + 1] = x
      /\ \A c \in 1..Len(cs) : Append(cs, x)[c] = cs[c]
  OBVIOUS
<1>3. ASSUME NEW c \in 1..Len(Append(cs, x)), c >= o PROVE Continues(fs, l, c = o, Append(cs, x)[c][box])
  <2>1. c \in 1..Len(cs) \/ c = Len(cs) + 1
    BY <1>2
  <2>2. CASE c \in 1..Len(cs)
    BY <1>1, <1>2, <1>3, <2>2
  <2>3. CASE c = Len(cs) + 1
    <3> DEFINE same == c = o
    <3>1. same \in BOOLEAN
      OBVIOUS
    <3>2. Append(cs, x)[c][box] = <<>>
      BY <1>2, <2>3
    <3> HIDE DEF same
    <3>3. Continues(fs, l, same, Append(cs, x)[c][box])
      BY <3>1, <3>2, ContinuesNone, Zenon
    <3> QED BY <3>3 DEF same
  <2> QED BY <2>1, <2>2, <2>3
<1> QED BY <1>1, <1>3 DEF Flowing

LEMMA FlowingGrown ==
  ASSUME NEW fs \in Seq(Seq(Bytes)), NEW s, NEW o, NEW cs \in Seq(Connection), NEW ds, Len(ds) = Len(cs),
         NEW box \in {"up", "down"}, Flowing(fs, s, o, cs, box),
         \A c \in 1..Len(cs) : Grown(fs, cs[c][box], ds[c][box])
  PROVE  Flowing(fs, s, o, ds, box)
<1>1. PICK l : /\ Has(fs, FALSE, s, l)
               /\ \A c \in 1..Len(cs) : c >= o => Continues(fs, l, c = o, cs[c][box])
  BY DEF Flowing
<1>2. ASSUME NEW c \in 1..Len(cs), c >= o PROVE Continues(fs, l, c = o, ds[c][box])
  <2> DEFINE same == c = o
             a == cs[c][box]
             b == ds[c][box]
  <2>1. same \in BOOLEAN /\ Continues(fs, l, same, a) /\ a \in Seq(Bytes) /\ Grown(fs, a, b)
    BY <1>1, <1>2, BoxType
  <2> HIDE DEF same, a, b
  <2>2. ASSUME b = a PROVE Continues(fs, l, same, b)
    BY <2>1, <2>2
  <2>3. ASSUME NEW m \in 0..Len(a), b = SubSeq(a, 1, m) PROVE Continues(fs, l, same, b)
    <3>1. Continues(fs, l, same, SubSeq(a, 1, m))
      BY <2>1, <2>3, ContinuesCut, Zenon
    <3> QED BY <2>3, <3>1
  <2>4. ASSUME NEW j \in 1..Len(fs), b = a \o Encode(fs[j]) PROVE Continues(fs, l, same, b)
    <3>1. Continues(fs, l, same, a \o Encode(fs[j]))
      BY <2>1, <2>4, ContinuesWritten, Zenon
    <3> QED BY <2>4, <3>1
  <2>5. Continues(fs, l, same, b)
    BY <2>1, <2>2, <2>3, <2>4 DEF Grown
  <2>6. Continues(fs, l, same, ds[c][box])
    BY <2>5 DEF b
  <2> QED BY <2>6 DEF same
<1> QED BY <1>1, <1>2 DEF Flowing

\* From connections cs a byte is read, the next of those of number o.
Shorter(cs, ds, o, box) ==
    /\ Len(ds) = Len(cs) /\ ds[o][box] = Tail(cs[o][box])
    /\ \A c \in 1..Len(cs) : c # o => ds[c][box] = cs[c][box]

\* What is on its way after byte ch, and of what frame it is that it may have ended.
Read1(fs, s, ch, o, ds, box) ==
    /\ EndsFrame(s, ch) =>
          /\ Flowing(fs, Empty, o, ds, box)
          /\ \E j \in 1..Len(fs) : \E n \in 1..Len(fs[j]) : Part(fs[j], FALSE, s.buf, n)
    /\ ~EndsFrame(s, ch) => Flowing(fs, Decode(s, ch), o, ds, box)

NoneEmpty(fs) == \A j \in 1..Len(fs) : fs[j] # <<>>

LEMMA FlowingRead ==
  ASSUME NEW fs \in Seq(Seq(Bytes)), NoneEmpty(fs), NEW s \in Having, NEW cs \in Seq(Connection),
         NEW o \in 1..Len(cs), NEW box \in {"up", "down"}, cs[o][box] # <<>>, Flowing(fs, s, o, cs, box),
         NEW ds, Shorter(cs, ds, o, box)
  PROVE  Read1(fs, s, Head(cs[o][box]), o, ds, box)
<1> DEFINE bytes == cs[o][box]
<1>0. /\ \A j \in 1..Len(fs) : fs[j] # <<>>
      /\ Len(ds) = Len(cs) /\ ds[o][box] = Tail(bytes) /\ \A c \in 1..Len(cs) : c # o => ds[c][box] = cs[c][box]
  BY DEF Shorter, NoneEmpty
<1>1. PICK l : /\ Has(fs, FALSE, s, l)
               /\ \A c \in 1..Len(cs) : c >= o => Continues(fs, l, c = o, cs[c][box])
  BY DEF Flowing
<1>2. bytes \in Seq(Bytes)
  BY BoxType
<1>3. Continues(fs, l, TRUE, bytes)
  <2>1. o >= o /\ (o = o) = TRUE
    OBVIOUS
  <2> QED BY <1>1, <2>1
<1>4. PICK m : /\ Continues(fs, m, TRUE, Tail(bytes))
               /\ EndsFrame(s, Head(bytes)) =>
                     /\ Has(fs, FALSE, Empty, m)
                     /\ \E j \in 1..Len(fs) : \E n \in 1..Len(fs[j]) : Part(fs[j], FALSE, s.buf, n)
               /\ ~EndsFrame(s, Head(bytes)) => Has(fs, FALSE, Decode(s, Head(bytes)), m)
  <2>1. bytes # <<>>
    OBVIOUS
  <2> HIDE DEF bytes
  <2> QED BY <1>0, <1>1, <1>2, <1>3, <2>1, ContinuesRead, Zenon
<1>5. ASSUME NEW c \in 1..Len(ds), c >= o PROVE Continues(fs, m, c = o, ds[c][box])
  <2>1. CASE c = o
    <3>1. (c = o) = TRUE
      BY <2>1
    <3> QED BY <1>0, <1>4, <2>1, <3>1
  <2>2. CASE c # o
    <3>1. Continues(fs, l, FALSE, ds[c][box])
      <4>1. (c = o) = FALSE /\ c \in 1..Len(cs)
        BY <1>0, <2>2
      <4> QED BY <1>0, <1>1, <1>5, <2>2, <4>1
    <3>2. Continues(fs, m, FALSE, ds[c][box])
      BY <3>1, ContinuesOn, Zenon
    <3> QED BY <2>2, <3>2
  <2> QED BY <2>1, <2>2
<1> QED BY <1>4, <1>5 DEF Flowing, Read1

LEMMA GotKept ==
  ASSUME NEW fs \in Seq(Seq(Bytes)), NEW f \in Seq(Bytes), NEW gs, GotOf(fs, gs)
  PROVE  GotOf(Append(fs, f), gs)
<1>1. \A j \in 1..Len(fs) : j \in 1..Len(Append(fs, f)) /\ Append(fs, f)[j] = fs[j]
  OBVIOUS
<1> QED BY <1>1, Zenon DEF GotOf

LEMMA GotMore ==
  ASSUME NEW fs, NEW gs \in Seq(Seq(Bytes)), NEW g \in Seq(Bytes), GotOf(fs, gs),
         \E j \in 1..Len(fs) : \E n \in 1..Len(fs[j]) : Part(fs[j], FALSE, g, n)
  PROVE  GotOf(fs, Append(gs, g))
<1>1. Len(gs) \in Nat /\ Len(Append(gs, g)) = Len(gs) + 1
  OBVIOUS
<1>2. (\A k \in 1..Len(gs) : Append(gs, g)[k] = gs[k]) /\ Append(gs, g)[Len(gs) + 1] = g
  OBVIOUS
<1>3. \A k \in 1..Len(Append(gs, g)) : k \in 1..Len(gs) \/ k = Len(gs) + 1
  BY <1>1
<1> QED BY <1>2, <1>3, Zenon DEF GotOf

LEMMA FlowFirst == Init => FlowInv /\ GotInv
<1> SUFFICES ASSUME Init PROVE FlowInv /\ GotInv
  OBVIOUS
<1>1. /\ conns = <<>> /\ \A e \in Devices : sent[Peer(e)] = <<>> /\ got[e] = <<>> /\ rx[Reader(e)] = Empty
      /\ Len(<<>>) = 0 /\ 1..0 = {}
  BY Names DEF Init
<1>2. Has(<<>>, FALSE, Empty, Place(0, 0, 1))
  <2>1. Place(0, 0, 1).j = 0 /\ Place(0, 0, 1) \in Places
    BY DEF Place, Places
  <2> HIDE DEF Place
  <2> QED BY <2>1 DEF Has, Empty
<1>3. FlowInv
  BY <1>1, <1>2 DEF FlowInv, Flowing
<1>4. GotInv
  BY <1>1 DEF GotInv, GotOf
<1> QED BY <1>3, <1>4

LEMMA FlowStep ==
  ASSUME TypeInv, ThreadInv, OrderInv, WriteInv, FlowInv, GotInv, [Next]_vars
  PROVE  FlowInv' /\ GotInv'
<1>0. /\ conns \in Seq(Connection) /\ Len(conns) \in Nat
      /\ \A e \in Devices : /\ sent[Peer(e)] \in Seq(Seq(Bytes)) /\ Inbox(e) \in {"up", "down"}
                            /\ Reader(e) \in Threads /\ Writer(e) \in Threads /\ Peer(e) \in Devices
                            /\ Dev(Reader(e)) = e /\ Peer(Peer(e)) = e
                            /\ got[e] \in Seq(Seq(Bytes))
      /\ \A t \in Threads : on[t] \in 0..Len(conns) /\ rx[t] \in Having /\ out[t] \in Seq(Bytes) /\ Dev(t) \in Devices
  BY Names DEF TypeInv
<1>i. \A e \in Devices : /\ Flowing(sent[Peer(e)], rx[Reader(e)], on[Reader(e)], conns, Inbox(e))
                         /\ GotOf(sent[Peer(e)], got[e])
  BY DEF FlowInv, GotInv
\* Steps that neither read nor give a frame.
<1>u. ASSUME UNCHANGED <<sent, rx, on, got>>, Len(conns') = Len(conns),
             \A e \in Devices : \A c \in 1..Len(conns) : Grown(sent[Peer(e)], conns[c][Inbox(e)], conns'[c][Inbox(e)])
      PROVE  FlowInv' /\ GotInv'
  <2>1. ASSUME NEW e \in Devices
        PROVE  Flowing(sent[Peer(e)], rx[Reader(e)], on[Reader(e)], conns', Inbox(e))
    <3> DEFINE fs == sent[Peer(e)]
               box == Inbox(e)
    <3>1. /\ fs \in Seq(Seq(Bytes)) /\ box \in {"up", "down"} /\ Flowing(fs, rx[Reader(e)], on[Reader(e)], conns, box)
          /\ \A c \in 1..Len(conns) : Grown(fs, conns[c][box], conns'[c][box])
      BY <1>0, <1>i, <1>u
    <3> HIDE DEF fs, box
    <3>2. Flowing(fs, rx[Reader(e)], on[Reader(e)], conns', box)
      BY <1>0, <1>u, <3>1, FlowingGrown
    <3> QED BY <3>2 DEF fs, box
  <2> QED BY <1>i, <1>u, <2>1 DEF FlowInv, GotInv
<1>v. ASSUME UNCHANGED <<sent, rx, on, got, conns>> PROVE FlowInv' /\ GotInv'
  BY <1>u, <1>v DEF Grown
<1>1. ASSUME NEW f \in Frames, Begin(f) PROVE FlowInv' /\ GotInv'
  <2>1. Given("client", f) /\ f \in Seq(Bytes) /\ UNCHANGED <<rx, on, got, conns>> /\ "client" \in Devices
    BY <1>1, FramesAssumption, Names DEF Begin, Given
  <2>2. \A e \in Devices : sent'[Peer(e)] = sent[Peer(e)] \/ sent'[Peer(e)] = Append(sent[Peer(e)], f)
    <3>1. \A e \in Devices : sent'[e] = IF e = "client" THEN Append(sent["client"], f) ELSE sent[e]
      BY <2>1, Added
    <3> QED BY <1>0, <3>1
  <2>3. \A e \in Devices : Flowing(sent'[Peer(e)], rx[Reader(e)], on[Reader(e)], conns, Inbox(e))
    <3>1. ASSUME NEW e \in Devices
          PROVE  Flowing(Append(sent[Peer(e)], f), rx[Reader(e)], on[Reader(e)], conns, Inbox(e))
      <4> DEFINE gs == sent[Peer(e)]
                 s == rx[Reader(e)]
                 o == on[Reader(e)]
      <4>1. gs \in Seq(Seq(Bytes)) /\ conns \in Seq(Connection) /\ Inbox(e) \in {"up", "down"} /\ Flowing(gs, s, o, conns, Inbox(e))
        BY <1>0, <1>i
      <4> HIDE DEF gs, s, o
      <4>2. Flowing(Append(gs, f), s, o, conns, Inbox(e))
        BY <2>1, <4>1, FlowingKept, Zenon
      <4> QED BY <4>2 DEF gs, s, o
    <3> QED BY <1>i, <2>2, <3>1
  <2>4. \A e \in Devices : GotOf(sent'[Peer(e)], got[e])
    <3>1. ASSUME NEW e \in Devices PROVE GotOf(Append(sent[Peer(e)], f), got[e])
      BY <1>0, <1>i, <2>1, GotKept
    <3> QED BY <1>i, <2>2, <3>1
  <2> QED BY <2>1, <2>3, <2>4 DEF FlowInv, GotInv
<1>2. ASSUME NEW t \in Threads, Connect(t) PROVE FlowInv' /\ GotInv'
  <2> DEFINE x == [ok |-> TRUE, up |-> <<>>, down |-> <<>>]
  <2>1. UNCHANGED <<sent, rx, on, got>> /\ conns' = Append(conns, x)
    BY <1>2 DEF Connect, frameVars
  <2>2. x \in Connection /\ \A b \in {"up", "down"} : x[b] = <<>>
    BY NewConnection
  <2> HIDE DEF x
  <2>3. ASSUME NEW e \in Devices
        PROVE  Flowing(sent[Peer(e)], rx[Reader(e)], on[Reader(e)], Append(conns, x), Inbox(e))
    <3>1. Inbox(e) \in {"up", "down"} /\ x[Inbox(e)] = <<>>
      BY <1>0, <2>2
    <3> QED BY <1>0, <1>i, <2>2, <3>1, FlowingMore, Zenon
  <2> QED BY <1>i, <2>1, <2>3 DEF FlowInv, GotInv
<1>3. ASSUME NEW t \in Threads, Read(t) PROVE FlowInv' /\ GotInv'
  <2>1. UNCHANGED <<sent, rx, got, conns>> /\ on' = [on EXCEPT ![t] = cur[Dev(t)]] /\ cur[Dev(t)] # 0
    BY <1>3 DEF Read, frameVars
  <2>2. cur[Dev(t)] \in Nat /\ on[t] \in Nat /\ on[t] <= cur[Dev(t)]
    BY <1>0, <2>1 DEF OrderInv, TypeInv
  <2>3. ASSUME NEW e \in Devices
        PROVE  Flowing(sent[Peer(e)], rx[Reader(e)], on'[Reader(e)], conns, Inbox(e))
    <3>1. CASE Reader(e) = t
      <4>1. on'[Reader(e)] = cur[Dev(t)] /\ Flowing(sent[Peer(e)], rx[Reader(e)], on[t], conns, Inbox(e))
        BY <1>0, <1>i, <2>1, <3>1 DEF TypeInv
      <4>2. Flowing(sent[Peer(e)], rx[Reader(e)], cur[Dev(t)], conns, Inbox(e))
        BY <1>0, <2>2, <4>1, FlowingOn, Zenon
      <4> QED BY <4>1, <4>2
    <3>2. CASE Reader(e) # t
      <4>1. on'[Reader(e)] = on[Reader(e)]
        BY <1>0, <2>1, <3>2 DEF TypeInv
      <4> QED BY <1>i, <4>1
    <3> QED BY <3>1, <3>2
  <2> QED BY <1>i, <2>1, <2>3 DEF FlowInv, GotInv
<1>4. ASSUME NEW t \in Threads, Write(t) PROVE FlowInv' /\ GotInv'
  <2> DEFINE d == Dev(t)
             c == cur[d]
             box == Inbox(Peer(d))
             y == conns[c][box] \o out[t]
  <2>1. /\ UNCHANGED <<sent, rx, on, got>> /\ out[t] # <<>> /\ c # 0
        /\ conns' = conns \/ conns' = Boxed(conns, c, box, y)
    BY <1>4 DEF Write, Boxed
  <2>2. d \in Devices /\ c \in 1..Len(conns) /\ box \in {"up", "down"}
    <3>1. d \in Devices /\ c \in 0..Len(conns) /\ c # 0
      BY <1>0, <2>1 DEF TypeInv
    <3> HIDE DEF d
    <3> QED BY <1>0, <3>1
  <2>3. t = Writer(d)
    <3>1. t # "reader"
      BY <2>1 DEF ThreadInv
    <3> QED BY <3>1, Names
  <2>4. Len(sent[d]) \in 1..Len(sent[d]) /\ out[t] = Encode(sent[d][Len(sent[d])])
    <3>1. Len(sent[d]) # 0 /\ out[t] = Encode(sent[d][Len(sent[d])])
      BY <2>1, <2>2, <2>3 DEF WriteInv
    <3>2. Len(sent[d]) \in Nat
      BY <2>2 DEF TypeInv
    <3> QED BY <3>1, <3>2
  <2>5. y \in Seq(Bytes)
    <3>1. conns[c][box] \in Seq(Bytes) /\ out[t] \in Seq(Bytes)
      BY <1>0, <2>2, BoxType
    <3> QED BY <3>1, ConcatProperties
  <2>6. CASE conns' = conns
    BY <1>v, <2>1, <2>6
  <2>7. CASE conns' = Boxed(conns, c, box, y)
    <3> DEFINE ds == Boxed(conns, c, box, y)
    <3>1. /\ Len(ds) = Len(conns) /\ ds[c][box] = y
          /\ \A k \in 1..Len(conns) : \A b \in {"up", "down"} : k # c \/ b # box => ds[k][b] = conns[k][b]
      <4> HIDE DEF d, c, box, y
      <4>1. conns \in Seq(Connection)
        BY <1>0
      <4>2. Changed(conns, ds, c, box, y)
        BY <2>2, <2>5, <4>1, Rebox
      <4> QED BY <4>2 DEF Changed
    <3> HIDE DEF ds
    <3>2. ASSUME NEW e \in Devices, NEW k \in 1..Len(conns)
          PROVE  Grown(sent[Peer(e)], conns[k][Inbox(e)], ds[k][Inbox(e)])
      <4>1. CASE k = c /\ Inbox(e) = box
        <5>1. Peer(e) = d
          BY <4>1, Names
        <5>2. conns[k][Inbox(e)] = conns[c][box] /\ ds[k][Inbox(e)] = y
          BY <3>1, <4>1
        <5>3. y = conns[c][box] \o Encode(sent[d][Len(sent[d])])
          BY <2>4
        <5> HIDE DEF y, box, c, d
        <5> QED BY <2>4, <5>1, <5>2, <5>3 DEF Grown
      <4>2. CASE ~(k = c /\ Inbox(e) = box)
        <5>1. ds[k][Inbox(e)] = conns[k][Inbox(e)]
          BY <1>0, <3>1, <4>2
        <5> QED BY <5>1 DEF Grown
      <4> QED BY <4>1, <4>2
    <3>3. conns' = ds
      BY <2>7 DEF ds
    <3> QED BY <1>u, <2>1, <3>1, <3>2, <3>3
  <2> QED BY <2>1, <2>6, <2>7
<1>5. ASSUME NEW c \in DOMAIN conns, Break(c) PROVE FlowInv' /\ GotInv'
  <2>1. c \in 1..Len(conns) /\ UNCHANGED <<sent, rx, on, got>>
    BY <1>0, <1>5 DEF Break
  <2>2. PICK m \in 0..Len(conns[c].up), n \in 0..Len(conns[c].down) :
           conns' = [conns EXCEPT ![c] = [ok |-> FALSE, up |-> SubSeq(conns[c].up, 1, m), down |-> SubSeq(conns[c].down, 1, n)]]
    BY <1>5 DEF Break
  <2>3. conns[c].up = conns[c]["up"] /\ conns[c].down = conns[c]["down"]
    OBVIOUS
  <2> DEFINE x == [ok |-> FALSE, up |-> SubSeq(conns[c].up, 1, m), down |-> SubSeq(conns[c].down, 1, n)]
  <2>4. x["up"] = SubSeq(conns[c]["up"], 1, m) /\ x["down"] = SubSeq(conns[c]["down"], 1, n)
    OBVIOUS
  <2>5. conns' = [conns EXCEPT ![c] = x]
    BY <2>2
  <2> HIDE DEF x
  <2>6. Len(conns') = Len(conns) /\ \A k \in 1..Len(conns) : conns'[k] = IF k = c THEN x ELSE conns[k]
    BY <1>0, <2>1, <2>5
  <2>7. ASSUME NEW e \in Devices, NEW k \in 1..Len(conns)
        PROVE  Grown(sent[Peer(e)], conns[k][Inbox(e)], conns'[k][Inbox(e)])
    <3>1. CASE k = c
      <4>1. \/ Inbox(e) = "up" /\ conns'[k][Inbox(e)] = SubSeq(conns[k][Inbox(e)], 1, m) /\ m \in 0..Len(conns[k][Inbox(e)])
            \/ Inbox(e) = "down" /\ conns'[k][Inbox(e)] = SubSeq(conns[k][Inbox(e)], 1, n) /\ n \in 0..Len(conns[k][Inbox(e)])
        BY <1>0, <2>4, <2>6, <3>1
      <4> QED BY <4>1 DEF Grown
    <3>2. CASE k # c
      BY <2>6, <3>2 DEF Grown
    <3> QED BY <3>1, <3>2
  <2> QED BY <1>u, <2>1, <2>6, <2>7
<1>6. ASSUME NEW t \in Threads, ReadByte(t) PROVE FlowInv' /\ GotInv'
  <2> DEFINE d == Dev(t)
             o == on[t]
             box == Inbox(d)
             bytes == conns[o][box]
             ends == EndsFrame(rx[t], Head(bytes))
             fs == sent[Peer(d)]
             ds == Boxed(conns, o, box, Tail(bytes))
  <2>1. /\ pc[t] = "in" /\ bytes # <<>> /\ UNCHANGED on
        /\ conns' = ds
        /\ rx' = [rx EXCEPT ![t] = IF ends THEN Empty ELSE Decode(@, Head(bytes))]
        /\ got' = IF ends THEN [got EXCEPT ![d] = Append(@, rx[t].buf)] ELSE got
        /\ \/ /\ t = "control" /\ out' = [out EXCEPT ![t] = Encode(rx[t].buf)]
              /\ sent' = [sent EXCEPT !["server"] = Append(@, rx[t].buf)]
           \/ /\ out' = out /\ sent' = sent
    BY <1>6 DEF ReadByte, Boxed
  <2>2. t # "caller" /\ o # 0
    BY <2>1 DEF ThreadInv
  <2>3. d \in Devices /\ t = Reader(d) /\ o \in 1..Len(conns) /\ box \in {"up", "down"}
    <3>1. d \in Devices /\ t = Reader(d) /\ box \in {"up", "down"}
      BY <2>2, Names
    <3>2. o \in 1..Len(conns)
      BY <1>0, <2>2
    <3> QED BY <3>1, <3>2
  <2>4. rx[t] \in Having /\ rx[t].buf \in Seq(Bytes)
    BY <1>0 DEF Having
  <2>5. fs \in Seq(Seq(Bytes)) /\ (\A j \in 1..Len(fs) : fs[j] # <<>>) /\ Flowing(fs, rx[t], o, conns, box) /\ GotOf(fs, got[d])
    <3>1. Peer(d) \in Devices
      BY <1>0, <2>3
    <3>2. \A j \in 1..Len(fs) : fs[j] # <<>>
      BY <3>1 DEF WriteInv
    <3> HIDE DEF d
    <3> QED BY <1>0, <1>i, <2>3, <3>2
  <2>6. bytes \in Seq(Bytes) /\ Tail(bytes) \in Seq(Bytes)
    <3>1. bytes \in Seq(Bytes)
      BY <1>0, <2>3, BoxType
    <3> HIDE DEF bytes
    <3> QED BY <2>1, <3>1
  <2>7. /\ Len(ds) = Len(conns) /\ ds[o][box] = Tail(bytes)
        /\ \A k \in 1..Len(conns) : \A b \in {"up", "down"} : k # o \/ b # box => ds[k][b] = conns[k][b]
    <3> HIDE DEF d, o, box, bytes
    <3>1. conns \in Seq(Connection)
      BY <1>0
    <3>2. Changed(conns, ds, o, box, Tail(bytes))
      BY <2>3, <2>6, <3>1, Rebox
    <3> QED BY <3>2 DEF Changed
  <2>8. /\ ends => /\ Flowing(fs, Empty, o, ds, box)
                   /\ \E j \in 1..Len(fs) : \E n \in 1..Len(fs[j]) : Part(fs[j], FALSE, rx[t].buf, n)
        /\ ~ends => Flowing(fs, Decode(rx[t], Head(bytes)), o, ds, box)
    <3>1. Shorter(conns, ds, o, box) /\ NoneEmpty(fs)
      BY <2>3, <2>5, <2>7 DEF Shorter, NoneEmpty
    <3>2. conns[o][box] # <<>> /\ conns \in Seq(Connection)
      BY <1>0, <2>1
    <3> HIDE DEF d, o, box, ds, fs
    <3>3. Read1(fs, rx[t], Head(conns[o][box]), o, ds, box)
      BY <2>3, <2>4, <2>5, <3>1, <3>2, FlowingRead
    <3> QED BY <3>3 DEF Read1
  <2>9. \A u \in Threads : rx'[u] = IF u = t THEN IF ends THEN Empty ELSE Decode(rx[t], Head(bytes)) ELSE rx[u]
    BY <2>1 DEF TypeInv
  <2>10. \A e \in Devices : got'[e] = IF e = d /\ ends THEN Append(got[d], rx[t].buf) ELSE got[e]
    <3> HIDE DEF ends
    <3> QED BY <2>1 DEF TypeInv
  <2>11. \A e \in Devices : \/ sent'[Peer(e)] = sent[Peer(e)]
                            \/ e # d /\ sent'[Peer(e)] = Append(sent[Peer(e)], rx[t].buf)
    <3>1. ASSUME t = "control", sent' = [sent EXCEPT !["server"] = Append(@, rx[t].buf)], NEW e \in Devices
          PROVE  \/ sent'[Peer(e)] = sent[Peer(e)]
                 \/ e # d /\ sent'[Peer(e)] = Append(sent[Peer(e)], rx[t].buf)
      <4>1. sent'["server"] = Append(sent["server"], rx[t].buf) /\ sent'["client"] = sent["client"]
        BY <3>1, Names DEF TypeInv
      <4>2. d = "server" /\ (e = "client" \/ e = "server")
        BY <3>1, Names
      <4> HIDE DEF d
      <4> QED BY <4>1, <4>2, Names
    <3> QED BY <2>1, <3>1
  <2> HIDE DEF bytes, ends, ds, box, o, d
  \* The device that reads.
  <2>12. Flowing(sent'[Peer(d)], rx'[Reader(d)], on'[Reader(d)], conns', Inbox(d)) /\ GotOf(sent'[Peer(d)], got'[d])
    <3>1. sent'[Peer(d)] = fs /\ on'[Reader(d)] = o /\ conns' = ds /\ Inbox(d) = box
      BY <2>1, <2>3, <2>11 DEF o, box
    <3>2. Flowing(fs, rx'[Reader(d)], o, ds, box)
      BY <1>0, <2>3, <2>8, <2>9
    <3>3. GotOf(fs, got'[d])
      <4> HIDE DEF fs
      <4>1. CASE ends
        <5>1. GotOf(fs, Append(got[d], rx[t].buf))
          BY <1>0, <2>3, <2>4, <2>5, <2>8, <4>1, GotMore, Zenon
        <5> QED BY <2>3, <2>10, <4>1, <5>1
      <4>2. CASE ~ends
        BY <2>3, <2>5, <2>10, <4>2
      <4> QED BY <4>1, <4>2
    <3> QED BY <3>1, <3>2, <3>3
  \* The other.
  <2>13. ASSUME NEW e \in Devices, e # d
         PROVE  Flowing(sent'[Peer(e)], rx'[Reader(e)], on'[Reader(e)], conns', Inbox(e)) /\ GotOf(sent'[Peer(e)], got'[e])
    <3>1. Inbox(e) # box /\ Inbox(e) \in {"up", "down"} /\ Reader(e) \in Threads /\ Reader(e) # t
      BY <1>0, <2>3, <2>13, Names DEF box
    <3>2. rx'[Reader(e)] = rx[Reader(e)] /\ on'[Reader(e)] = on[Reader(e)] /\ got'[e] = got[e] /\ conns' = ds
      BY <2>1, <2>9, <2>10, <2>13, <3>1
    <3> DEFINE gs == sent[Peer(e)]
               s == rx[Reader(e)]
               p == on[Reader(e)]
    <3>3. \A c \in 1..Len(conns) : ds[c][Inbox(e)] = conns[c][Inbox(e)]
      BY <2>7, <3>1
    <3>4. gs \in Seq(Seq(Bytes)) /\ Flowing(gs, s, p, conns, Inbox(e)) /\ GotOf(gs, got[e])
      BY <1>0, <1>i
    <3> HIDE DEF gs, s, p
    <3>5. Flowing(gs, s, p, ds, Inbox(e))
      BY <3>3, <3>4, <2>7 DEF Flowing
    <3>6. CASE sent'[Peer(e)] = sent[Peer(e)]
      BY <3>2, <3>4, <3>5, <3>6 DEF gs, s, p
    <3>7. CASE sent'[Peer(e)] = Append(sent[Peer(e)], rx[t].buf)
      <4>1. ds \in Seq(Connection)
        <5> HIDE DEF fs
        <5> QED BY <1>0, <2>3, <2>6, Rebox DEF ds
      <4>2. Flowing(Append(gs, rx[t].buf), s, p, ds, Inbox(e))
        BY <2>4, <3>1, <3>4, <3>5, <4>1, FlowingKept, Zenon
      <4>3. GotOf(Append(gs, rx[t].buf), got[e])
        BY <2>4, <3>4, GotKept, Zenon
      <4> QED BY <3>2, <3>7, <4>2, <4>3 DEF gs, s, p
    <3> QED BY <2>11, <3>6, <3>7
  <2> QED BY <2>12, <2>13 DEF FlowInv, GotInv
<1>7. ASSUME NEW t \in Threads,
             GetConnection(t) \/ CloseConnection(t) \/ Accept(t) \/ NoSocket(t) \/ ReadFails(t)
      PROVE  FlowInv' /\ GotInv'
  <2>1. UNCHANGED <<sent, rx, on, got, conns>>
    BY <1>7 DEF GetConnection, CloseConnection, Accept, NoSocket, ReadFails, frameVars
  <2> QED BY <1>v, <2>1
<1>8. CASE UNCHANGED vars
  BY <1>v, <1>8 DEF vars
<1> QED BY <1>1, <1>2, <1>3, <1>4, <1>5, <1>6, <1>7, <1>8 DEF Next, Run

-----------------------------------------------------------------------------
(* While nothing breaks.                                                   *)

\* The frames fs that are read whole into gs, of which w is still to be written: what is on its way are the rest.
Whole(fs, s, bytes, w, gs) ==
    \E l, lab :
       /\ Has(fs, TRUE, s, l) /\ Marked(fs, TRUE, bytes, lab)
       /\ bytes # <<>> => Follows(fs, TRUE, l, lab[1]) /\ AtEnd(fs, lab[Len(bytes)]) /\ lab[Len(bytes)].j = Len(fs) - w
       /\ bytes = <<>> => AtEnd(fs, l) /\ l.j = Len(fs) - w
       /\ gs = SubSeq(fs, 1, IF AtEnd(fs, l) THEN l.j ELSE l.j - 1)

LEMMA TailOf ==
  ASSUME NEW bytes \in Seq(Bytes), bytes # <<>>
  PROVE  /\ Tail(bytes) \in Seq(Bytes) /\ Len(Tail(bytes)) = Len(bytes) - 1 /\ Len(bytes) \in Nat \ {0}
         /\ Tail(bytes) # <<>> => Len(Tail(bytes)) # 0
         /\ Tail(bytes) = <<>> => Len(bytes) = 1
         /\ Head(bytes) = bytes[1] /\ Head(bytes) \in Bytes
<1>1. Tail(bytes) \in Seq(Bytes) /\ Len(Tail(bytes)) = Len(bytes) - 1 /\ Len(bytes) \in Nat \ {0} /\ Head(bytes) = bytes[1]
  OBVIOUS
<1>2. Tail(bytes) # <<>> => Len(Tail(bytes)) # 0
  <2> DEFINE r == Tail(bytes)
  <2>1. r \in Seq(Bytes)
    BY <1>1
  <2> HIDE DEF r
  <2>2. r # <<>> => Len(r) # 0
    BY <2>1
  <2> QED BY <2>2 DEF r
<1>3. Tail(bytes) = <<>> => Len(bytes) = 1
  <2>1. Tail(bytes) = <<>> => Len(Tail(bytes)) = 0
    BY Zenon, EmptySeq
  <2> QED BY <1>1, <2>1
<1>4. Head(bytes) \in Bytes
  OBVIOUS
<1> QED BY <1>1, <1>2, <1>3, <1>4, Zenon

LEMMA LastPlace ==
  ASSUME NEW fs, NEW calm \in BOOLEAN, NEW bytes \in Seq(Bytes), bytes # <<>>, NEW lab, Marked(fs, calm, bytes, lab)
  PROVE  /\ lab \in Seq(Places) /\ Len(lab) = Len(bytes) /\ Len(bytes) \in Nat \ {0}
         /\ lab[1] \in Places /\ Within(fs, lab[1]) /\ bytes[1] = ByteAt(fs, lab[1])
         /\ lab[Len(bytes)] \in Places /\ Within(fs, lab[Len(bytes)])
<1>1. lab \in Seq(Places) /\ Len(lab) = Len(bytes) /\ \A i \in 1..Len(bytes) : Within(fs, lab[i]) /\ bytes[i] = ByteAt(fs, lab[i])
  BY DEF Marked
<1>2. Len(bytes) \in Nat \ {0} /\ 1 \in 1..Len(bytes) /\ Len(bytes) \in 1..Len(bytes)
  OBVIOUS
<1>3. \A i \in 1..Len(bytes) : lab[i] \in Places
  BY <1>1
<1> QED BY <1>1, <1>2, <1>3

LEMMA SubSeqKept ==
  ASSUME NEW fs \in Seq(Seq(Bytes)), NEW f \in Seq(Bytes), NEW n \in 0..Len(fs)
  PROVE  SubSeq(Append(fs, f), 1, n) = SubSeq(fs, 1, n)
<1> DEFINE gs == Append(fs, f)
<1>1. gs \in Seq(Seq(Bytes)) /\ Len(gs) = Len(fs) + 1 /\ \A j \in 1..Len(fs) : gs[j] = fs[j]
  OBVIOUS
<1> HIDE DEF gs
<1>2. /\ SubSeq(gs, 1, n) \in Seq(Seq(Bytes)) /\ Len(SubSeq(gs, 1, n)) = n
      /\ SubSeq(fs, 1, n) \in Seq(Seq(Bytes)) /\ Len(SubSeq(fs, 1, n)) = n
      /\ \A i \in 1..n : SubSeq(gs, 1, n)[i] = gs[i] /\ SubSeq(fs, 1, n)[i] = fs[i]
  BY <1>1
<1>3. \A i \in 1..n : SubSeq(gs, 1, n)[i] = SubSeq(fs, 1, n)[i]
  BY <1>1, <1>2
<1>4. SubSeq(gs, 1, n) = SubSeq(fs, 1, n)
  BY <1>2, <1>3, SeqEqual
<1> QED BY <1>4 DEF gs

LEMMA SubSeqMore ==
  ASSUME NEW fs \in Seq(Seq(Bytes)), NEW n \in 1..Len(fs)
  PROVE  Append(SubSeq(fs, 1, n - 1), fs[n]) = SubSeq(fs, 1, n)
<1>1. /\ SubSeq(fs, 1, n - 1) \in Seq(Seq(Bytes)) /\ Len(SubSeq(fs, 1, n - 1)) = n - 1
      /\ SubSeq(fs, 1, n) \in Seq(Seq(Bytes)) /\ Len(SubSeq(fs, 1, n)) = n
      /\ \A i \in 1..(n - 1) : SubSeq(fs, 1, n - 1)[i] = fs[i]
      /\ \A i \in 1..n : SubSeq(fs, 1, n)[i] = fs[i]
      /\ fs[n] \in Seq(Bytes)
  BY SMTT(30)
<1> DEFINE a == SubSeq(fs, 1, n - 1)
           A == Append(a, fs[n])
<1>2. /\ A \in Seq(Seq(Bytes)) /\ Len(A) = n /\ A[n] = fs[n] /\ \A i \in 1..(n - 1) : A[i] = a[i]
  <2> HIDE DEF a
  <2>1. a \in Seq(Seq(Bytes)) /\ Len(a) = n - 1 /\ fs[n] \in Seq(Bytes) /\ n \in Nat
    BY <1>1 DEF a
  <2> QED BY <2>1, AppendProperties
<1>3. ASSUME NEW i \in 1..n PROVE A[i] = SubSeq(fs, 1, n)[i]
  <2>1. i = n \/ i \in 1..(n - 1)
    OBVIOUS
  <2> HIDE DEF A
  <2> QED BY <1>1, <1>2, <2>1 DEF a
<1>4. A = SubSeq(fs, 1, n)
  <2> HIDE DEF A
  <2> QED BY <1>1, <1>2, <1>3, SeqEqual
<1> QED BY <1>4

LEMMA WholeKept ==
  ASSUME NEW fs \in Seq(Seq(Bytes)), NEW f \in Seq(Bytes), NEW s, NEW bytes \in Seq(Bytes), NEW gs,
         Whole(fs, s, bytes, 0, gs)
  PROVE  Whole(Append(fs, f), s, bytes, 1, gs)
<1>1. PICK l, lab :
        /\ Has(fs, TRUE, s, l) /\ Marked(fs, TRUE, bytes, lab)
        /\ bytes # <<>> => Follows(fs, TRUE, l, lab[1]) /\ AtEnd(fs, lab[Len(bytes)]) /\ lab[Len(bytes)].j = Len(fs) - 0
        /\ bytes = <<>> => AtEnd(fs, l) /\ l.j = Len(fs) - 0
        /\ gs = SubSeq(fs, 1, IF AtEnd(fs, l) THEN l.j ELSE l.j - 1)
  BY DEF Whole
<1> DEFINE hs == Append(fs, f)
<1>2. hs \in Seq(Seq(Bytes)) /\ Len(hs) = Len(fs) + 1 /\ Len(fs) \in Nat
  OBVIOUS
<1>3. Len(fs) - 0 = Len(hs) - 1
  BY <1>2
<1>4. l \in Places /\ (l.j = 0 \/ Within(fs, l))
  BY <1>1, HasPlace
<1>5. l.j \in 0..Len(fs) /\ (l.j # 0 => Within(fs, l))
  BY <1>2, <1>4 DEF Within
<1>6. Has(hs, TRUE, s, l) /\ Marked(hs, TRUE, bytes, lab)
  <2>1. Len(bytes) \in Nat
    OBVIOUS
  <2> QED BY <1>1, <2>1, HasKept, MarkedKept
<1>7. AtEnd(hs, l) <=> AtEnd(fs, l)
  BY <1>4, PlacesKept DEF AtEnd
<1>8. gs = SubSeq(hs, 1, IF AtEnd(hs, l) THEN l.j ELSE l.j - 1)
  <2> DEFINE n == IF AtEnd(fs, l) THEN l.j ELSE l.j - 1
  <2>1. n \in 0..Len(fs)
    BY <1>2, <1>5 DEF AtEnd
  <2>2. gs = SubSeq(fs, 1, n) /\ n = IF AtEnd(hs, l) THEN l.j ELSE l.j - 1
    BY <1>1, <1>7
  <2> HIDE DEF n
  <2>3. SubSeq(hs, 1, n) = SubSeq(fs, 1, n)
    BY <2>1, SubSeqKept
  <2> QED BY <2>2, <2>3
<1>9. ASSUME bytes # <<>>
      PROVE  Follows(hs, TRUE, l, lab[1]) /\ AtEnd(hs, lab[Len(bytes)]) /\ lab[Len(bytes)].j = Len(hs) - 1
  <2>1. /\ lab[1] \in Places /\ lab[Len(bytes)] \in Places /\ Within(fs, lab[Len(bytes)])
    BY <1>1, <1>9, LastPlace
  <2>2. Follows(hs, TRUE, l, lab[1])
    BY <1>1, <1>4, <1>9, <2>1, FollowsKept
  <2>3. AtEnd(hs, lab[Len(bytes)])
    BY <1>1, <1>9, <2>1, PlacesKept
  <2> QED BY <1>1, <1>3, <1>9, <2>2, <2>3
<1>10. bytes = <<>> => AtEnd(hs, l) /\ l.j = Len(hs) - 1
  BY <1>1, <1>3, <1>7
<1> HIDE DEF hs
<1>11. Whole(hs, s, bytes, 1, gs)
  BY <1>6, <1>8, <1>9, <1>10, Zenon DEF Whole
<1> QED BY <1>11 DEF hs

LEMMA WholeWritten ==
  ASSUME NEW fs \in Seq(Seq(Bytes)), Len(fs) # 0, NEW s, NEW bytes \in Seq(Bytes), NEW gs,
         Whole(fs, s, bytes, 1, gs)
  PROVE  Whole(fs, s, bytes \o Encode(fs[Len(fs)]), 0, gs)
<1>1. PICK l, lab :
        /\ Has(fs, TRUE, s, l) /\ Marked(fs, TRUE, bytes, lab)
        /\ bytes # <<>> => Follows(fs, TRUE, l, lab[1]) /\ AtEnd(fs, lab[Len(bytes)]) /\ lab[Len(bytes)].j = Len(fs) - 1
        /\ bytes = <<>> => AtEnd(fs, l) /\ l.j = Len(fs) - 1
        /\ gs = SubSeq(fs, 1, IF AtEnd(fs, l) THEN l.j ELSE l.j - 1)
  BY DEF Whole
<1> DEFINE j == Len(fs)
           E == Encode(fs[j])
<1>2. j \in 1..Len(fs) /\ j = (Len(fs) - 1) + 1 /\ j = Len(fs) - 0 /\ j # 0
  OBVIOUS
<1>3. E \in Seq(Bytes) /\ E # <<>>
  BY <1>2, EncodeMarked
<1>4. PICK le : Marked(fs, TRUE, E, le) /\ le[1] = Place(j, 0, 1) /\ le[Len(le)] = Place(j, Len(fs[j]) + 1, 1)
  BY <1>2, EncodeMarked
<1>5. le[1].k = 0 /\ le[1].j = j /\ le[Len(le)].j = j /\ AtEnd(fs, le[Len(le)])
  BY <1>4 DEF Place, AtEnd
<1> HIDE DEF j, E
<1>6. le \in Seq(Places) /\ Len(le) = Len(E) /\ Len(E) \in Nat \ {0}
  <2>1. le \in Seq(Places) /\ Len(le) = Len(E)
    BY <1>4 DEF Marked
  <2>2. Len(E) \in Nat \ {0}
    BY <1>3
  <2> QED BY <2>1, <2>2
<1>7. lab \in Seq(Places) /\ Len(lab) = Len(bytes) /\ Len(bytes) \in Nat
  BY <1>1 DEF Marked
<1>8. \A x : AtEnd(fs, x) /\ x.j = Len(fs) - 1 => Follows(fs, TRUE, x, le[1])
  BY <1>2, <1>5 DEF Follows
<1>9. bytes # <<>> => lab[Len(lab)] = lab[Len(bytes)]
  BY <1>7
<1>10. Marked(fs, TRUE, bytes \o E, lab \o le)
  <2>1. bytes # <<>> /\ E # <<>> => Follows(fs, TRUE, lab[Len(lab)], le[1])
    BY <1>1, <1>8, <1>9
  <2> QED BY <1>1, <1>3, <1>4, <2>1, MarkedConcat
<1>11. bytes \o E # <<>> /\ Len(bytes \o E) = Len(bytes) + Len(E) /\ (lab \o le)[Len(bytes) + Len(E)] = le[Len(le)]
  <2>1. Len(bytes \o E) = Len(bytes) + Len(E)
    BY <1>3
  <2>2. bytes \o E # <<>>
    BY <1>3, <1>6, <1>7, <2>1
  <2>3. (lab \o le)[Len(bytes) + Len(E)] = le[Len(le)]
    BY <1>6, <1>7
  <2> QED BY <2>1, <2>2, <2>3
<1>12. Follows(fs, TRUE, l, (lab \o le)[1])
  <2>1. CASE bytes = <<>>
    <3>1. (lab \o le)[1] = le[1]
      BY <1>6, <1>7, <2>1
    <3> QED BY <1>1, <1>8, <2>1, <3>1
  <2>2. CASE bytes # <<>>
    <3>1. (lab \o le)[1] = lab[1]
      BY <1>6, <1>7, <2>2
    <3> QED BY <1>1, <2>2, <3>1
  <2> QED BY <2>1, <2>2
<1> DEFINE b == bytes \o E
           lb == lab \o le
<1>13. /\ Has(fs, TRUE, s, l) /\ Marked(fs, TRUE, b, lb) /\ b # <<>>
       /\ Follows(fs, TRUE, l, lb[1]) /\ AtEnd(fs, lb[Len(b)]) /\ lb[Len(b)].j = Len(fs) - 0
       /\ gs = SubSeq(fs, 1, IF AtEnd(fs, l) THEN l.j ELSE l.j - 1)
  BY <1>1, <1>2, <1>5, <1>10, <1>11, <1>12
<1> HIDE DEF b, lb
<1>14. Whole(fs, s, b, 0, gs)
  BY <1>13, Zenon DEF Whole
<1> QED BY <1>14 DEF b, E, j

LEMMA WholeRead ==
  ASSUME NEW fs \in Seq(Seq(Bytes)), \A j \in 1..Len(fs) : fs[j] # <<>> /\ Len(fs[j]) <= MaxLen,
         NEW s \in Having, NEW bytes \in Seq(Bytes), bytes # <<>>, NEW w, NEW gs, Whole(fs, s, bytes, w, gs)
  PROVE  /\ EndsFrame(s, Head(bytes)) => Whole(fs, Empty, Tail(bytes), w, Append(gs, s.buf))
         /\ ~EndsFrame(s, Head(bytes)) => Whole(fs, Decode(s, Head(bytes)), Tail(bytes), w, gs)
<1>1. PICK l, lab :
        /\ Has(fs, TRUE, s, l) /\ Marked(fs, TRUE, bytes, lab)
        /\ Follows(fs, TRUE, l, lab[1]) /\ AtEnd(fs, lab[Len(bytes)]) /\ lab[Len(bytes)].j = Len(fs) - w
        /\ gs = SubSeq(fs, 1, IF AtEnd(fs, l) THEN l.j ELSE l.j - 1)
  BY DEF Whole
<1> DEFINE m == lab[1]
           b == Head(bytes)
           lb == Tail(lab)
           r == Tail(bytes)
<1>2. /\ lab \in Seq(Places) /\ Len(lab) = Len(bytes) /\ Len(bytes) \in Nat \ {0}
      /\ m \in Places /\ Within(fs, m) /\ b = ByteAt(fs, m)
  <2>1. /\ lab \in Seq(Places) /\ Len(lab) = Len(bytes) /\ Len(bytes) \in Nat \ {0}
        /\ lab[1] \in Places /\ Within(fs, lab[1]) /\ bytes[1] = ByteAt(fs, lab[1])
    <3>1. /\ lab \in Seq(Places) /\ Len(lab) = Len(bytes)
          /\ \A i \in 1..Len(bytes) : Within(fs, lab[i]) /\ bytes[i] = ByteAt(fs, lab[i])
      BY <1>1 DEF Marked
    <3>2. Len(bytes) \in Nat \ {0} /\ 1 \in 1..Len(bytes)
      BY TailOf
    <3>3. lab[1] \in Places
      BY <3>1, <3>2, ElementOfSeq
    <3> QED BY <3>1, <3>2, <3>3
  <2>2. b = bytes[1]
    BY TailOf
  <2> QED BY <2>1, <2>2
<1>3. Marked(fs, TRUE, r, lb) /\ (r # <<>> => Follows(fs, TRUE, m, lb[1]))
  BY <1>1, MarkedTail
<1>4. r # <<>> => lb[Len(r)] = lab[Len(bytes)]
  <2>1. Len(r) = Len(bytes) - 1 /\ (r # <<>> => Len(r) # 0)
    BY TailOf
  <2>2. \A i \in 1..(Len(bytes) - 1) : lb[i] = lab[i + 1]
    BY <1>2
  <2>3. r # <<>> => Len(r) \in 1..(Len(bytes) - 1) /\ Len(r) + 1 = Len(bytes)
    BY <1>2, <2>1
  <2> QED BY <2>2, <2>3
<1>5. r = <<>> => m = lab[Len(bytes)]
  <2>1. r = <<>> => Len(bytes) = 1
    BY TailOf
  <2> QED BY <2>1
<1>6. /\ EndsFrame(s, b) =>
            /\ Has(fs, TRUE, Empty, m)
            /\ l.j = m.j /\ m.k = Len(fs[m.j]) + 1 /\ s.buf = fs[m.j] /\ ~AtEnd(fs, l)
      /\ ~EndsFrame(s, b) => Has(fs, TRUE, Decode(s, b), m) /\ ~AtEnd(fs, m)
  <2> DEFINE calm == TRUE
  <2>1. /\ calm \in BOOLEAN /\ Has(fs, calm, s, l) /\ Follows(fs, calm, l, m)
        /\ \A j \in 1..Len(fs) : fs[j] # <<>> /\ (calm => Len(fs[j]) <= MaxLen)
    BY <1>1
  <2> HIDE DEF calm, b, m
  <2>2. /\ EndsFrame(s, ByteAt(fs, m)) =>
               /\ Has(fs, calm, Empty, m)
               /\ calm => l.j = m.j /\ m.k = Len(fs[m.j]) + 1 /\ s.buf = fs[m.j] /\ ~AtEnd(fs, l)
        /\ ~EndsFrame(s, ByteAt(fs, m)) =>
               /\ Has(fs, calm, Decode(s, ByteAt(fs, m)), m)
               /\ calm => ~AtEnd(fs, m)
    BY <1>2, <2>1, ByteTaken, Zenon
  <2> QED BY <1>2, <2>2 DEF calm
<1> DEFINE Rest(x, hs) ==
             /\ Has(fs, TRUE, x, m) /\ hs = SubSeq(fs, 1, IF AtEnd(fs, m) THEN m.j ELSE m.j - 1)
<1>7. ASSUME NEW x, NEW hs, Rest(x, hs) PROVE Whole(fs, x, r, w, hs)
  <2>1. r # <<>> => Follows(fs, TRUE, m, lb[1]) /\ AtEnd(fs, lb[Len(r)]) /\ lb[Len(r)].j = Len(fs) - w
    BY <1>1, <1>3, <1>4
  <2>2. r = <<>> => AtEnd(fs, m) /\ m.j = Len(fs) - w
    BY <1>1, <1>5
  <2>3. Marked(fs, TRUE, r, lb)
    BY <1>3
  <2> HIDE DEF r, lb, m
  <2> QED BY <1>7, <2>1, <2>2, <2>3, Zenon DEF Whole
<1>8. m.j \in 1..Len(fs) /\ m.j \in Nat /\ m.k \in Nat /\ m.k \in 0..(Len(fs[m.j]) + 1) /\ m.e \in {1, 2}
  BY <1>2 DEF Within, Places
<1>9. ASSUME EndsFrame(s, b) PROVE Whole(fs, Empty, r, w, Append(gs, s.buf))
  <2>1. AtEnd(fs, m)
    BY <1>6, <1>9 DEF AtEnd
  <2>2. gs = SubSeq(fs, 1, m.j - 1) /\ s.buf = fs[m.j]
    BY <1>1, <1>6, <1>9
  <2>3. Append(SubSeq(fs, 1, m.j - 1), fs[m.j]) = SubSeq(fs, 1, m.j)
    <3> HIDE DEF m
    <3> QED BY <1>8, SubSeqMore
  <2>4. Rest(Empty, Append(gs, s.buf))
    BY <1>6, <1>9, <2>1, <2>2, <2>3
  <2> HIDE DEF Rest, r
  <2> QED BY <1>7, <2>4
<1>10. ASSUME ~EndsFrame(s, b) PROVE Whole(fs, Decode(s, b), r, w, gs)
  <2>1. Has(fs, TRUE, Decode(s, b), m) /\ ~AtEnd(fs, m)
    BY <1>6, <1>10
  <2>2. (IF AtEnd(fs, l) THEN l.j ELSE l.j - 1) = m.j - 1
    <3>0. l \in Places
      BY <1>1, HasPlace
    <3>1. l.j \in Nat /\ l.k \in Nat
      BY <3>0 DEF Places
    <3>2. CASE After(fs, l, m)
      <4>1. Within(fs, l) /\ m.j = l.j /\ l.j # 0
        BY <1>8, <3>2 DEF After
      <4>2. ~AtEnd(fs, l)
        <5>1. ASSUME l.k = Len(fs[l.j]) + 1 PROVE FALSE
          <6>0. Len(fs[l.j]) \in Nat
            <7>1. l.j \in 1..Len(fs)
              BY <1>8, <4>1
            <7>2. fs[l.j] \in Seq(Bytes)
              BY <7>1, ElementOfSeq
            <7> QED BY <7>2
          <6>1. ~Escaped(fs, l)
            BY <5>1, <6>0 DEF Escaped, Inner
          <6>2. m.k = l.k + 1
            BY <3>2, <6>1 DEF After
          <6>3. m.k <= Len(fs[l.j]) + 1
            BY <1>8, <4>1, <6>0
          <6> QED BY <3>1, <5>1, <6>0, <6>2, <6>3
        <5> QED BY <4>1, <5>1 DEF AtEnd
      <4> QED BY <4>1, <4>2
    <3>3. CASE ~After(fs, l, m)
      <4>1. AtEnd(fs, l) /\ m.j = l.j + 1
        BY <1>1, <3>3 DEF Follows
      <4> HIDE DEF m
      <4> QED BY <3>1, <4>1
    <3> QED BY <3>2, <3>3
  <2>3. Rest(Decode(s, b), gs)
    BY <1>1, <2>1, <2>2
  <2> HIDE DEF Rest, r, b
  <2> QED BY <1>7, <2>3
<1> QED BY <1>9, <1>10

\* There is one connection at most, both devices have it as soon as they can, and nothing fails.
CalmInv ==
    breaks = 0 =>
       /\ Len(conns) <= 1 /\ cur["client"] = Len(conns) /\ cur["server"] = accepted
       /\ \A c \in 1..Len(conns) : conns[c].ok
       /\ \A t \in Threads : /\ pc[t] # "failed"
                             /\ pc[t] \in {"call", "in"} => cur[Dev(t)] # 0
                             /\ pc[t] = "connect" => cur[Dev(t)] = 0

OnWay(cs, box) == IF Len(cs) = 0 THEN <<>> ELSE cs[1][box]

WholeOf(d) ==
    breaks = 0 /\ (\A j \in 1..Len(sent[d]) : Len(sent[d][j]) <= MaxLen) =>
       Whole(sent[d], rx[Reader(Peer(d))], OnWay(conns, Inbox(Peer(d))), IF out[Writer(d)] = <<>> THEN 0 ELSE 1, got[Peer(d)])

WholeInv == \A d \in Devices : WholeOf(d)

LEMMA CalmWorks ==
  ASSUME TypeInv, CalmInv, breaks = 0, NEW c \in 1..Len(conns), NEW d \in Devices
  PROVE  Works(c, d)
<1>1. /\ Len(conns) <= 1 /\ cur["client"] = Len(conns) /\ cur["server"] = accepted /\ accepted \in 0..Len(conns)
      /\ Len(conns) \in Nat /\ conns[c].ok
  BY DEF CalmInv, TypeInv
<1>2. c = 1 /\ Len(conns) = 1
  <2> DEFINE n == Len(conns)
  <2>1. n \in Nat /\ n <= 1 /\ c \in 1..n
    BY <1>1
  <2> HIDE DEF n
  <2>2. c = 1 /\ n = 1
    BY <2>1
  <2> QED BY <2>2 DEF n
<1>3. ~Gone(c, Peer(d))
  <2>1. CASE Peer(d) = "client"
    <3>1. cur[Peer(d)] = c
      BY <1>1, <1>2, <2>1
    <3> QED BY <3>1 DEF Gone
  <2>2. CASE Peer(d) = "server"
    <3>1. cur[Peer(d)] = accepted
      BY <1>1, <2>2
    <3>2. c <= accepted => accepted = c
      BY <1>1, <1>2
    <3> QED BY <2>2, <3>1, <3>2 DEF Gone
  <2> QED BY <2>1, <2>2, Names
<1> QED BY <1>1, <1>3 DEF Works

LEMMA CalmStep ==
  ASSUME TypeInv, ThreadInv, CalmInv, [Next]_vars
  PROVE  CalmInv'
<1> DEFINE Conns == /\ Len(conns) <= 1 /\ cur["client"] = Len(conns) /\ cur["server"] = accepted
                    /\ \A c \in 1..Len(conns) : conns[c].ok
           Pcs == \A t \in Threads : /\ pc[t] # "failed"
                                     /\ pc[t] \in {"call", "in"} => cur[Dev(t)] # 0
                                     /\ pc[t] = "connect" => cur[Dev(t)] = 0
<1>1. CASE breaks' # 0
  BY <1>1 DEF CalmInv
<1>2. CASE breaks' = 0
  <2>0. breaks = 0
    <3>1. breaks' = breaks \/ breaks' = breaks + 1
      BY DEF Next, Run, Begin, GetConnection, CloseConnection, Connect, Accept, NoSocket, Read, ReadByte, ReadFails, Write, Break,
             frameVars, vars
    <3> QED BY <1>2, <3>1 DEF TypeInv
  <2>1. Conns /\ Pcs /\ Len(conns) \in Nat /\ accepted \in 0..Len(conns)
    BY <2>0 DEF CalmInv, TypeInv
  <2>2. SUFFICES Conns' /\ Pcs'
    BY DEF CalmInv
  <2>3. ASSUME Conns', NEW t \in Threads, NEW p, Goto(t, p), UNCHANGED cur, p # "failed",
               p \in {"call", "in"} => cur[Dev(t)] # 0, p = "connect" => cur[Dev(t)] = 0
        PROVE  Conns' /\ Pcs'
    <3>1. \A u \in Threads : pc'[u] = IF u = t THEN p ELSE pc[u]
      BY <2>3, Moved
    <3> QED BY <2>1, <2>3, <3>1
  <2>4. ASSUME UNCHANGED <<conns, cur, accepted>> PROVE Conns'
    BY <2>1, <2>4
  <2>t. "caller" \in Threads
    BY Names
  <2>5. ASSUME NEW f \in Frames, Begin(f) PROVE Conns' /\ Pcs'
    <3>1. Goto("caller", "begin") /\ UNCHANGED <<conns, cur, accepted>>
      BY <2>5 DEF Begin
    <3> QED BY <2>3, <2>4, <2>t, <3>1
  <2>6. ASSUME NEW t \in Threads, GetConnection(t) PROVE Conns' /\ Pcs'
    <3>1. /\ UNCHANGED <<conns, cur, accepted>>
          /\ \/ cur[Dev(t)] # 0 /\ Goto(t, "call")
             \/ cur[Dev(t)] = 0 /\ Goto(t, "connect")
      BY <2>6 DEF GetConnection
    <3>2. CASE cur[Dev(t)] # 0 /\ Goto(t, "call")
      BY <2>3, <2>4, <3>1, <3>2
    <3>3. CASE cur[Dev(t)] = 0 /\ Goto(t, "connect")
      BY <2>3, <2>4, <3>1, <3>3
    <3> QED BY <3>1, <3>2, <3>3
  <2>7. ASSUME NEW t \in Threads, CloseConnection(t) PROVE Conns' /\ Pcs'
    BY <2>1, <2>7 DEF CloseConnection
  <2>8. ASSUME NEW t \in Threads, Connect(t) PROVE Conns' /\ Pcs'
    <3> DEFINE x == [ok |-> TRUE, up |-> <<>>, down |-> <<>>]
    <3>1. /\ pc[t] = "connect" /\ Dev(t) = "client" /\ Goto(t, "call") /\ UNCHANGED accepted
          /\ conns' = Append(conns, x) /\ cur' = [cur EXCEPT !["client"] = Len(conns) + 1]
      BY <2>8 DEF Connect
    <3>2. x \in Connection /\ x.ok
      BY NewConnection
    <3> HIDE DEF x
    <3>3. Len(conns) = 0
      BY <2>1, <3>1
    <3>4. cur'["client"] = 1 /\ cur'["server"] = cur["server"]
      BY <3>1, <3>3, Names DEF TypeInv
    <3>5. Len(conns') = 1 /\ conns'[1] = x
      BY <3>1, <3>2, <3>3 DEF TypeInv
    <3>6. Conns'
      BY <2>1, <3>1, <3>2, <3>4, <3>5
    <3>7. \A u \in Threads : pc'[u] = IF u = t THEN "call" ELSE pc[u]
      BY <3>1, Moved
    <3>8. \A u \in Threads : pc[u] = "connect" /\ Dev(u) = "client" => u = t
      BY <3>1, Names DEF ThreadInv
    <3>9. \A u \in Threads : Dev(u) \in {"client", "server"}
      BY Names
    <3>10. \A u \in Threads : pc[u] # "failed"
      BY <2>1
    <3>11. \A u \in Threads : pc[u] = "connect" /\ Dev(u) = "server" => cur["server"] = 0
      BY <2>1
    <3>12. \A u \in Threads : pc[u] \in {"call", "in"} /\ Dev(u) = "server" => cur["server"] # 0
      BY <2>1
    <3>13. Pcs'
      BY <3>1, <3>4, <3>7, <3>8, <3>9, <3>10, <3>11, <3>12
    <3> QED BY <3>6, <3>13
  <2>9. ASSUME NEW t \in Threads, Accept(t) PROVE Conns' /\ Pcs'
    <3>1. /\ pc[t] = "connect" /\ t = "control" /\ Dev(t) = "server" /\ accepted < Len(conns) /\ Goto(t, "call") /\ UNCHANGED conns
          /\ accepted' = accepted + 1 /\ cur' = [cur EXCEPT !["server"] = accepted + 1]
      BY <2>9, Names DEF Accept
    <3>2. cur'["server"] = accepted + 1 /\ cur'["client"] = cur["client"]
      BY <3>1, Names DEF TypeInv
    <3>3. Conns'
      BY <2>1, <3>1, <3>2
    <3>4. \A u \in Threads : pc'[u] = IF u = t THEN "call" ELSE pc[u]
      BY <3>1, Moved
    <3>5. \A u \in Threads : u # t => Dev(u) = "client"
      BY <3>1, Names
    <3>6. \A u \in Threads : u # t => /\ pc[u] # "failed"
                                      /\ pc[u] \in {"call", "in"} => cur["client"] # 0
                                      /\ pc[u] = "connect" => cur["client"] = 0
      BY <2>1, <3>5
    <3>7. cur'["server"] # 0
      BY <2>1, <3>2
    <3>8. Pcs'
      BY <3>1, <3>2, <3>4, <3>5, <3>6, <3>7
    <3> QED BY <3>3, <3>8
  <2>10. ASSUME NEW t \in Threads, NoSocket(t) PROVE Conns' /\ Pcs'
    BY <2>1, <2>10 DEF NoSocket
  <2>11. ASSUME NEW t \in Threads, Read(t) PROVE Conns' /\ Pcs'
    <3>1. cur[Dev(t)] # 0 /\ Goto(t, "in") /\ UNCHANGED <<conns, cur, accepted>>
      BY <2>11 DEF Read
    <3> QED BY <2>3, <2>4, <3>1
  <2>12. ASSUME NEW t \in Threads, ReadByte(t) PROVE Conns' /\ Pcs'
    <3> DEFINE box == Inbox(Dev(t))
               bytes == conns[on[t]][box]
    <3>1. pc[t] = "in" /\ bytes # <<>> /\ conns' = Boxed(conns, on[t], box, Tail(bytes)) /\ Goto(t, "begin") /\ UNCHANGED <<cur, accepted>>
      BY <2>12 DEF ReadByte, Boxed
    <3>2. on[t] \in 1..Len(conns) /\ box \in {"up", "down"}
      <4>1. on[t] \in 0..Len(conns) /\ on[t] # 0
        BY <3>1 DEF TypeInv, ThreadInv
      <4> QED BY <2>1, <4>1, Names
    <3>3. conns \in Seq(Connection)
      BY DEF TypeInv
    <3>4. bytes \in Seq(Bytes)
      BY <3>2, <3>3, BoxType
    <3> HIDE DEF bytes, box
    <3>5. Tail(bytes) \in Seq(Bytes)
      BY <3>1, <3>4
    <3>6. Len(conns') = Len(conns) /\ \A e \in 1..Len(conns) : conns'[e].ok = conns[e].ok
      BY <3>1, <3>2, <3>3, <3>5, Rebox
    <3>7. Conns'
      BY <2>1, <3>1, <3>6
    <3> QED BY <2>3, <3>1, <3>7
  <2>13. ASSUME NEW t \in Threads, ReadFails(t) PROVE Conns' /\ Pcs'
    <3>1. pc[t] = "in" /\ ~Works(on[t], Dev(t)) /\ Dev(t) \in Devices
      BY <2>13, Names DEF ReadFails
    <3>2. on[t] \in 1..Len(conns)
      <4>1. on[t] \in 0..Len(conns) /\ on[t] # 0
        BY <3>1 DEF TypeInv, ThreadInv
      <4> QED BY <2>1, <4>1
    <3> QED BY <2>0, <3>1, <3>2, CalmWorks
  <2>14. ASSUME NEW t \in Threads, Write(t) PROVE Conns' /\ Pcs'
    <3> DEFINE c == cur[Dev(t)]
               box == Inbox(Peer(Dev(t)))
               y == conns[c][box] \o out[t]
    <3>0. c \in 1..Len(conns) /\ box \in {"up", "down"} /\ Dev(t) \in Devices
      <4>1. c \in 0..Len(conns) /\ c # 0
        BY <2>14, Names DEF Write, TypeInv
      <4> QED BY <2>1, <4>1, Names
    <3>1. Works(c, Dev(t))
      BY <2>0, <3>0, CalmWorks
    <3>2. /\ conns' = Boxed(conns, c, box, y) /\ UNCHANGED <<cur, accepted>>
          /\ Goto(t, IF t = "caller" THEN "idle" ELSE "begin")
      BY <2>14, <3>1 DEF Write, Boxed
    <3>3. conns \in Seq(Connection) /\ out[t] \in Seq(Bytes)
      BY DEF TypeInv
    <3>4. y \in Seq(Bytes)
      BY <3>0, <3>3, BoxType, ConcatProperties
    <3> DEFINE p == IF t = "caller" THEN "idle" ELSE "begin"
    <3>5. Goto(t, p) /\ p \in {"idle", "begin"}
      BY <3>2
    <3> HIDE DEF c, box, y, p
    <3>6. Len(conns') = Len(conns) /\ \A e \in 1..Len(conns) : conns'[e].ok = conns[e].ok
      BY <3>0, <3>2, <3>3, <3>4, Rebox
    <3>7. Conns'
      BY <2>1, <3>2, <3>6
    <3> QED BY <2>3, <3>2, <3>5, <3>7
  <2>15. ASSUME NEW c \in DOMAIN conns, Break(c) PROVE Conns' /\ Pcs'
    BY <1>2, <2>0, <2>15 DEF Break
  <2>16. ASSUME UNCHANGED vars PROVE Conns' /\ Pcs'
    BY <2>1, <2>16 DEF vars
  <2> QED BY <2>5, <2>6, <2>7, <2>8, <2>9, <2>10, <2>11, <2>12, <2>13, <2>14, <2>15, <2>16 DEF Next, Run
<1> QED BY <1>1, <1>2

LEMMA WholeFirst == Init => CalmInv /\ WholeInv
<1> SUFFICES ASSUME Init PROVE CalmInv /\ WholeInv
  OBVIOUS
<1>1. /\ conns = <<>> /\ accepted = 0 /\ Len(<<>>) = 0 /\ 1..0 = {}
      /\ \A d \in Devices : sent[d] = <<>> /\ got[Peer(d)] = <<>> /\ rx[Reader(Peer(d))] = Empty /\ out[Writer(d)] = <<>>
      /\ cur["client"] = 0 /\ cur["server"] = 0
      /\ \A t \in Threads : pc[t] \in {"idle", "begin"}
  BY Names DEF Init
<1>2. CalmInv
  BY <1>1 DEF CalmInv
<1>3. ASSUME NEW d \in Devices PROVE WholeOf(d)
  <2> DEFINE l == Place(0, 0, 1)
  <2>1. l.j = 0 /\ l \in Places
    BY DEF Place, Places
  <2> HIDE DEF l
  <2>2. Has(<<>>, TRUE, Empty, l)
    BY <2>1 DEF Has, Empty, AtEnd
  <2>3. Marked(<<>>, TRUE, <<>>, <<>>)
    BY MarkedNone
  <2>4. AtEnd(<<>>, l) /\ l.j = Len(<<>>) - 0
    BY <1>1, <2>1 DEF AtEnd
  <2>5. <<>> = SubSeq(<<>>, 1, IF AtEnd(<<>>, l) THEN l.j ELSE l.j - 1)
    BY <2>1, <2>4
  <2>6. Whole(<<>>, Empty, <<>>, 0, <<>>)
    BY <2>2, <2>3, <2>4, <2>5, Zenon DEF Whole
  <2>7. OnWay(conns, Inbox(Peer(d))) = <<>>
    BY <1>1 DEF OnWay
  <2> QED BY <1>1, <2>6, <2>7 DEF WholeOf
<1> QED BY <1>2, <1>3 DEF WholeInv

LEMMA WholeStep ==
  ASSUME TypeInv, ThreadInv, WriteInv, CalmInv, WholeInv, [Next]_vars
  PROVE  WholeInv'
<1>0. /\ conns \in Seq(Connection) /\ Len(conns) \in Nat
      /\ \A d \in Devices : /\ sent[d] \in Seq(Seq(Bytes)) /\ Inbox(Peer(d)) \in {"up", "down"} /\ Peer(d) \in Devices
                            /\ Reader(Peer(d)) \in Threads /\ Writer(d) \in Threads /\ WholeOf(d)
      /\ \A t \in Threads : on[t] \in 0..Len(conns) /\ rx[t] \in Having /\ out[t] \in Seq(Bytes) /\ Dev(t) \in Devices
  BY Names DEF TypeInv, WholeInv
<1>b. \A d \in Devices : OnWay(conns, Inbox(Peer(d))) \in Seq(Bytes)
  <2>1. ASSUME NEW d \in Devices, Len(conns) # 0 PROVE conns[1][Inbox(Peer(d))] \in Seq(Bytes)
    <3>1. 1 \in 1..Len(conns)
      BY <1>0, <2>1
    <3> QED BY <1>0, <3>1, BoxType
  <2> QED BY <2>1 DEF OnWay
\* A step that does nothing to the frames of device d.
<1>u. ASSUME NEW d \in Devices, sent'[d] = sent[d], rx'[Reader(Peer(d))] = rx[Reader(Peer(d))], out'[Writer(d)] = out[Writer(d)],
             got'[Peer(d)] = got[Peer(d)], breaks' = 0 => breaks = 0,
             breaks = 0 => OnWay(conns', Inbox(Peer(d))) = OnWay(conns, Inbox(Peer(d)))
      PROVE  WholeOf(d)'
  BY <1>0, <1>u DEF WholeOf
\* One that gives device d a frame.
<1>g. ASSUME NEW d \in Devices, NEW f \in Seq(Bytes), Given(d, f), out[Writer(d)] = <<>>,
             rx'[Reader(Peer(d))] = rx[Reader(Peer(d))], got'[Peer(d)] = got[Peer(d)], breaks' = breaks,
             OnWay(conns', Inbox(Peer(d))) = OnWay(conns, Inbox(Peer(d)))
      PROVE  WholeOf(d)'
  <2> DEFINE fs == sent[d]
             s == rx[Reader(Peer(d))]
             bytes == OnWay(conns, Inbox(Peer(d)))
             gs == got[Peer(d)]
  <2>0. fs \in Seq(Seq(Bytes))
    BY <1>0, <1>g
  <2>1. /\ sent'[d] = Append(fs, f) /\ out'[Writer(d)] = Encode(f)
        /\ Len(Append(fs, f)) = Len(fs) + 1 /\ Len(fs) \in Nat /\ \A j \in 1..Len(fs) : Append(fs, f)[j] = fs[j]
    <3>1. sent'[d] = Append(fs, f) /\ out'[Writer(d)] = Encode(f)
      BY <1>0, <1>g DEF Given, TypeInv
    <3> HIDE DEF fs
    <3>2. Len(Append(fs, f)) = Len(fs) + 1 /\ Len(fs) \in Nat /\ \A j \in 1..Len(fs) : Append(fs, f)[j] = fs[j]
      BY <1>g, <2>0
    <3> QED BY <3>1, <3>2
  <2>2. Encode(f) # <<>>
    BY EncodedType
  <2>3. ASSUME breaks' = 0, \A j \in 1..Len(sent'[d]) : Len(sent'[d][j]) <= MaxLen
        PROVE  Whole(fs, s, bytes, 0, gs)
    <3>1. \A j \in 1..Len(fs) : j \in 1..Len(sent'[d]) /\ sent'[d][j] = fs[j]
      BY <2>1
    <3>2. \A j \in 1..Len(fs) : Len(fs[j]) <= MaxLen
      BY <2>3, <3>1
    <3> QED BY <1>0, <1>g, <2>3, <3>2 DEF WholeOf
  <2>4. Whole(fs, s, bytes, 0, gs) => Whole(Append(fs, f), s, bytes, 1, gs)
    <3>1. fs \in Seq(Seq(Bytes)) /\ bytes \in Seq(Bytes)
      BY <1>0, <1>b
    <3> HIDE DEF fs, s, bytes, gs
    <3> QED BY <3>1, WholeKept
  <2> HIDE DEF fs
  <2> QED BY <1>g, <2>1, <2>2, <2>3, <2>4 DEF WholeOf
<1>v. ASSUME UNCHANGED <<sent, rx, out, got>>, breaks' = 0 => breaks = 0,
             \A d \in Devices : breaks = 0 => OnWay(conns', Inbox(Peer(d))) = OnWay(conns, Inbox(Peer(d)))
      PROVE  WholeInv'
  BY <1>u, <1>v DEF WholeInv
<1>1. ASSUME NEW f \in Frames, Begin(f) PROVE WholeInv'
  <2>1. /\ Given("client", f) /\ f \in Seq(Bytes) /\ UNCHANGED <<rx, got, conns, breaks>> /\ pc["caller"] = "idle"
        /\ out' = [out EXCEPT !["caller"] = Encode(f)] /\ sent' = [sent EXCEPT !["client"] = Append(@, f)]
    BY <1>1, FramesAssumption, Names DEF Begin, Given
  <2>2. out[Writer("client")] = <<>>
    BY <2>1, Names DEF ThreadInv
  <2>3. "client" \in Devices /\ "server" \in Devices
    BY Names
  <2>4. WholeOf("client")'
    BY <1>g, <2>1, <2>2, <2>3
  <2>5. sent'["server"] = sent["server"] /\ out'[Writer("server")] = out[Writer("server")]
    BY <2>1, <2>3, Names DEF TypeInv
  <2>6. WholeOf("server")'
    BY <1>u, <2>1, <2>3, <2>5
  <2> QED BY <2>4, <2>6 DEF WholeInv, Devices
<1>2. ASSUME NEW t \in Threads, Connect(t) PROVE WholeInv'
  <2> DEFINE x == [ok |-> TRUE, up |-> <<>>, down |-> <<>>]
  <2>1. UNCHANGED <<sent, rx, out, got, breaks>> /\ conns' = Append(conns, x) /\ pc[t] = "connect" /\ Dev(t) = "client"
    BY <1>2 DEF Connect, frameVars
  <2>2. x \in Connection /\ \A b \in {"up", "down"} : x[b] = <<>>
    BY NewConnection
  <2> HIDE DEF x
  <2>3. ASSUME breaks = 0 PROVE Len(conns) = 0
    BY <2>1, <2>3 DEF CalmInv
  <2>4. ASSUME breaks = 0 PROVE Len(conns') = 1 /\ conns'[1] = x
    BY <1>0, <2>1, <2>2, <2>3, <2>4
  <2>5. ASSUME NEW d \in Devices, breaks = 0 PROVE OnWay(conns', Inbox(Peer(d))) = OnWay(conns, Inbox(Peer(d)))
    <3>1. OnWay(conns', Inbox(Peer(d))) = x[Inbox(Peer(d))] /\ OnWay(conns, Inbox(Peer(d))) = <<>>
      BY <2>3, <2>4, <2>5 DEF OnWay
    <3> QED BY <1>0, <2>2, <3>1
  <2> QED BY <1>v, <2>1, <2>5
<1>3. ASSUME NEW t \in Threads, Write(t) PROVE WholeInv'
  <2> DEFINE d == Dev(t)
             c == cur[d]
             box == Inbox(Peer(d))
             y == conns[c][box] \o out[t]
  <2>1. CASE breaks = 0
    <3>1. UNCHANGED <<sent, rx, on, got, breaks>> /\ out[t] # <<>> /\ c # 0 /\ d \in Devices
      BY <1>3, Names DEF Write
    <3>2. c = 1 /\ Len(conns) = 1 /\ c \in 1..Len(conns)
      <4> DEFINE n == Len(conns)
      <4>1. n \in Nat /\ n <= 1 /\ c \in 0..n /\ c # 0
        BY <2>1, <3>1 DEF CalmInv, TypeInv
      <4> HIDE DEF n, c
      <4>2. c = 1 /\ n = 1 /\ c \in 1..n
        BY <4>1
      <4> QED BY <4>2 DEF n
    <3>3. Works(c, d)
      <4> HIDE DEF c, d
      <4> QED BY <2>1, <3>1, <3>2, CalmWorks
    <3>4. conns' = Boxed(conns, c, box, y) /\ out' = [out EXCEPT ![t] = <<>>]
      BY <1>3, <3>3 DEF Write, Boxed
    <3>5. t = Writer(d)
      <4>1. t # "reader"
        BY <3>1 DEF ThreadInv
      <4> QED BY <4>1, Names
    <3>6. out[t] = Encode(sent[d][Len(sent[d])]) /\ Len(sent[d]) # 0
      BY <3>1, <3>5 DEF WriteInv
    <3>7. box \in {"up", "down"} /\ conns[c][box] \in Seq(Bytes) /\ y \in Seq(Bytes)
      <4>1. box \in {"up", "down"} /\ conns[c][box] \in Seq(Bytes) /\ out[t] \in Seq(Bytes)
        BY <1>0, <3>1, <3>2, BoxType
      <4> QED BY <4>1, ConcatProperties
    <3>8. Changed(conns, conns', c, box, y)
      <4>1. conns \in Seq(Connection) /\ c \in 1..Len(conns) /\ box \in {"up", "down"} /\ y \in Seq(Bytes)
        BY <3>2, <3>7 DEF TypeInv
      <4> HIDE DEF d, c, box, y
      <4>2. Changed(conns, Boxed(conns, c, box, y), c, box, y)
        BY <4>1, Rebox
      <4> QED BY <3>4, <4>2
    <3>9. /\ Len(conns') = Len(conns) /\ conns'[c][box] = y
          /\ \A k \in 1..Len(conns) : \A b \in {"up", "down"} : k # c \/ b # box => conns'[k][b] = conns[k][b]
      <4> HIDE DEF d, c, box, y
      <4> QED BY <3>8 DEF Changed
    <3>10. \A u \in Threads : out'[u] = IF u = t THEN <<>> ELSE out[u]
      BY <3>4 DEF TypeInv
    <3>11. OnWay(conns', box) = OnWay(conns, box) \o Encode(sent[d][Len(sent[d])])
      <4> HIDE DEF d, box
      <4> QED BY <3>2, <3>6, <3>9 DEF OnWay
    <3>12. WholeOf(d)'
      <4>1. ASSUME \A j \in 1..Len(sent[d]) : Len(sent[d][j]) <= MaxLen
            PROVE  Whole(sent[d], rx[Reader(Peer(d))], OnWay(conns, box), 1, got[Peer(d)])
        BY <1>0, <2>1, <3>1, <3>5, <4>1 DEF WholeOf
      <4>2. Whole(sent[d], rx[Reader(Peer(d))], OnWay(conns, box), 1, got[Peer(d)]) =>
               Whole(sent[d], rx[Reader(Peer(d))], OnWay(conns, box) \o Encode(sent[d][Len(sent[d])]), 0, got[Peer(d)])
        <5>1. sent[d] \in Seq(Seq(Bytes)) /\ OnWay(conns, box) \in Seq(Bytes)
          BY <1>0, <1>b, <3>1
        <5> HIDE DEF d, box
        <5> QED BY <3>6, <5>1, WholeWritten
      <4>3. out'[Writer(d)] = <<>>
        BY <3>5, <3>10
      <4> HIDE DEF d, c, y
      <4> QED BY <3>1, <3>11, <4>1, <4>2, <4>3 DEF WholeOf
    <3>13. ASSUME NEW e \in Devices, e # d PROVE WholeOf(e)'
      <4>1. Inbox(Peer(e)) # box /\ Inbox(Peer(e)) \in {"up", "down"} /\ Writer(e) # t /\ Writer(e) \in Threads
        BY <1>0, <3>1, <3>5, <3>13, Names
      <4>2. OnWay(conns', Inbox(Peer(e))) = OnWay(conns, Inbox(Peer(e)))
        <5> HIDE DEF d, c, box, y
        <5> QED BY <3>2, <3>9, <4>1 DEF OnWay
      <4>3. out'[Writer(e)] = out[Writer(e)]
        BY <3>10, <4>1
      <4> HIDE DEF d
      <4> QED BY <1>u, <3>1, <4>2, <4>3
    <3> QED BY <3>12, <3>13 DEF WholeInv
  <2>2. CASE breaks # 0
    BY <1>3, <2>2 DEF Write, WholeInv, WholeOf
  <2> QED BY <2>1, <2>2
<1>4. ASSUME NEW t \in Threads, ReadByte(t) PROVE WholeInv'
  <2> DEFINE e == Dev(t)
             d == Peer(e)
             o == on[t]
             box == Inbox(e)
             bytes == conns[o][box]
             ends == EndsFrame(rx[t], Head(bytes))
  <2>1. CASE breaks = 0
    <3>1. /\ pc[t] = "in" /\ bytes # <<>> /\ breaks' = breaks
          /\ conns' = Boxed(conns, o, box, Tail(bytes))
          /\ rx' = [rx EXCEPT ![t] = IF ends THEN Empty ELSE Decode(@, Head(bytes))]
          /\ got' = IF ends THEN [got EXCEPT ![e] = Append(@, rx[t].buf)] ELSE got
          /\ \/ /\ t = "control" /\ out' = [out EXCEPT ![t] = Encode(rx[t].buf)]
                /\ sent' = [sent EXCEPT !["server"] = Append(@, rx[t].buf)]
             \/ /\ out' = out /\ sent' = sent
      BY <1>4 DEF ReadByte, Boxed
    <3>2. t # "caller" /\ o # 0 /\ out[t] = <<>>
      BY <3>1 DEF ThreadInv
    <3>3. /\ e \in Devices /\ d \in Devices /\ d # e /\ Peer(d) = e /\ t = Reader(e) /\ (t = "control" => e = "server")
          /\ box \in {"up", "down"} /\ Writer(d) \in Threads /\ Writer(d) # t
          /\ (t = "control" => Writer(e) = t) /\ \A x \in Devices : x = d \/ x = e
      BY <3>2, Names
    <3>4. o = 1 /\ Len(conns) = 1 /\ o \in 1..Len(conns)
      <4> DEFINE n == Len(conns)
      <4>1. n \in Nat /\ n <= 1 /\ o \in 0..n /\ o # 0
        BY <2>1, <3>2 DEF CalmInv, TypeInv
      <4> HIDE DEF n, o
      <4>2. o = 1 /\ n = 1 /\ o \in 1..n
        BY <4>1
      <4> QED BY <4>2 DEF n
    <3>5. bytes \in Seq(Bytes) /\ Tail(bytes) \in Seq(Bytes)
      <4>1. bytes \in Seq(Bytes)
        BY <1>0, <3>3, <3>4, BoxType
      <4> HIDE DEF bytes
      <4> QED BY <3>1, <4>1, TailOf
    <3>6. rx[t] \in Having /\ rx[t].buf \in Seq(Bytes)
      BY <1>0 DEF Having
    <3>7. Changed(conns, conns', o, box, Tail(bytes))
      <4> DEFINE y == Tail(bytes)
      <4>1. conns \in Seq(Connection) /\ o \in 1..Len(conns) /\ box \in {"up", "down"} /\ y \in Seq(Bytes)
        BY <1>0, <3>3, <3>4, <3>5
      <4>2. conns' = Boxed(conns, o, box, y)
        BY <3>1
      <4> HIDE DEF e, d, o, box, bytes, y
      <4>3. Changed(conns, Boxed(conns, o, box, y), o, box, y)
        BY <4>1, Rebox
      <4> QED BY <4>2, <4>3 DEF y
    <3> HIDE DEF e, d, o, box, bytes, ends
    <3>8. /\ Len(conns') = Len(conns) /\ conns'[o][box] = Tail(bytes)
          /\ \A k \in 1..Len(conns) : \A b \in {"up", "down"} : k # o \/ b # box => conns'[k][b] = conns[k][b]
      BY <3>7 DEF Changed
    <3>9. \A u \in Threads : rx'[u] = IF u = t THEN IF ends THEN Empty ELSE Decode(rx[t], Head(bytes)) ELSE rx[u]
      BY <3>1 DEF TypeInv
    <3>10. \A x \in Devices : got'[x] = IF x = e /\ ends THEN Append(got[e], rx[t].buf) ELSE got[x]
      BY <3>1 DEF TypeInv
    \* The frames given to the other device, of which it reads a byte.
    <3>11. WholeOf(d)'
      <4>1. sent'[d] = sent[d] /\ out'[Writer(d)] = out[Writer(d)]
        BY <3>1, <3>3 DEF TypeInv
      <4>2. OnWay(conns, Inbox(Peer(d))) = bytes /\ OnWay(conns', Inbox(Peer(d))) = Tail(bytes)
        BY <3>3, <3>4, <3>8 DEF OnWay, bytes, box
      <4> DEFINE fs == sent[d]
                 w == IF out[Writer(d)] = <<>> THEN 0 ELSE 1
      <4>3. ASSUME \A j \in 1..Len(fs) : Len(fs[j]) <= MaxLen
            PROVE  /\ ends => Whole(fs, Empty, Tail(bytes), w, Append(got[e], rx[t].buf))
                   /\ ~ends => Whole(fs, Decode(rx[t], Head(bytes)), Tail(bytes), w, got[e])
        <5>1. Whole(fs, rx[t], bytes, w, got[e])
          BY <1>0, <2>1, <3>3, <4>2, <4>3 DEF WholeOf
        <5>2. fs \in Seq(Seq(Bytes)) /\ \A j \in 1..Len(fs) : fs[j] # <<>> /\ Len(fs[j]) <= MaxLen
          BY <1>0, <3>3, <4>3 DEF WriteInv
        <5> HIDE DEF fs, w
        <5>3. /\ EndsFrame(rx[t], Head(bytes)) => Whole(fs, Empty, Tail(bytes), w, Append(got[e], rx[t].buf))
              /\ ~EndsFrame(rx[t], Head(bytes)) => Whole(fs, Decode(rx[t], Head(bytes)), Tail(bytes), w, got[e])
          BY <3>1, <3>5, <3>6, <5>1, <5>2, WholeRead
        <5> QED BY <5>3 DEF ends
      <4>4. ASSUME \A j \in 1..Len(fs) : Len(fs[j]) <= MaxLen
            PROVE  Whole(fs, rx'[t], Tail(bytes), w, got'[e])
        BY <3>3, <3>9, <3>10, <4>3, <4>4
      <4> QED BY <3>3, <4>1, <4>2, <4>4 DEF WholeOf
    \* Those given to its own, of which a reply is one.
    <3>12. WholeOf(e)'
      <4>1. /\ Inbox(Peer(e)) # box /\ Inbox(Peer(e)) \in {"up", "down"} /\ Reader(Peer(e)) # t /\ Reader(Peer(e)) \in Threads
            /\ Peer(e) \in Devices /\ Peer(e) # e
        BY <1>0, <3>3, Names DEF e, box
      <4>2. /\ OnWay(conns', Inbox(Peer(e))) = OnWay(conns, Inbox(Peer(e)))
            /\ rx'[Reader(Peer(e))] = rx[Reader(Peer(e))] /\ got'[Peer(e)] = got[Peer(e)]
        BY <3>4, <3>8, <3>9, <3>10, <4>1 DEF OnWay
      <4>3. CASE t = "control" /\ out' = [out EXCEPT ![t] = Encode(rx[t].buf)] /\ sent' = [sent EXCEPT !["server"] = Append(@, rx[t].buf)]
        <5>1. Given(e, rx[t].buf) /\ out[Writer(e)] = <<>>
          BY <3>2, <3>3, <4>3 DEF Given
        <5> QED BY <1>g, <3>1, <3>3, <3>6, <4>2, <5>1
      <4>4. CASE out' = out /\ sent' = sent
        BY <1>u, <3>1, <3>3, <4>2, <4>4
      <4> QED BY <3>1, <4>3, <4>4
    <3> QED BY <3>3, <3>11, <3>12 DEF WholeInv
  <2>2. CASE breaks # 0
    BY <1>4, <2>2 DEF ReadByte, WholeInv, WholeOf
  <2> QED BY <2>1, <2>2
<1>5. ASSUME NEW t \in Threads,
             GetConnection(t) \/ CloseConnection(t) \/ Accept(t) \/ NoSocket(t) \/ Read(t) \/ ReadFails(t)
      PROVE  WholeInv'
  <2>1. UNCHANGED <<sent, rx, out, got, breaks, conns>>
    BY <1>5 DEF GetConnection, CloseConnection, Accept, NoSocket, Read, ReadFails, frameVars
  <2> QED BY <1>v, <2>1
<1>6. ASSUME NEW c \in DOMAIN conns, Break(c) PROVE WholeInv'
  <2>1. breaks' # 0
    BY <1>6 DEF Break, TypeInv
  <2> QED BY <2>1 DEF WholeInv, WholeOf
<1>7. CASE UNCHANGED vars
  BY <1>v, <1>7 DEF vars
<1> QED BY <1>1, <1>2, <1>3, <1>4, <1>5, <1>6, <1>7 DEF Next, Run

Inv == TypeInv /\ ThreadInv /\ OrderInv /\ WriteInv /\ FlowInv /\ GotInv /\ CalmInv /\ WholeInv

LEMMA InvHolds == Spec => []Inv
<1>1. Init => Inv
  BY InitFirst, FlowFirst, WholeFirst DEF Inv
<1>2. Inv /\ [Next]_vars => Inv'
  BY TypeStep, ThreadStep, OrderStep, WriteStep, FlowStep, CalmStep, WholeStep, Zenon DEF Inv
<1> QED BY <1>1, <1>2, PTL DEF Spec

\* The types; a device's mutex is held exactly while a thread connects, and no more is buffered than there is room for
\* (GetConnection in tcpclient.cc and tcpserver.cc, SLIPFramer::Read).
THEOREM TypeCorrect == Spec => []TypeOK
<1>1. Inv => TypeOK
  <2> SUFFICES ASSUME Inv PROVE TypeOK
    OBVIOUS
  <2>1. TypeInv /\ ThreadInv
    BY DEF Inv
  <2> QED BY <2>1 DEF TypeInv, ThreadInv, TypeOK, Where
<1> QED BY <1>1, InvHolds, PTL

\* Whatever breaks, whatever the frames are and however little room there is for them, what is read is a part of one
\* frame that was written (SLIPFramer::Write and Read over connections that are replaced).
THEOREM NoFrameIsJoined == Spec => []OfOneFrame
<1>1. Inv => OfOneFrame
  <2> SUFFICES ASSUME Inv, NEW d \in Devices, NEW k \in DOMAIN got[d]
               PROVE  \E j \in DOMAIN sent[Peer(d)] : \E m, n \in DOMAIN sent[Peer(d)][j] :
                         got[d][k] = SubSeq(sent[Peer(d)][j], m, n)
    BY DEF OfOneFrame
  <2>1. TypeInv /\ GotOf(sent[Peer(d)], got[d])
    BY DEF Inv, GotInv
  <2> DEFINE fs == sent[Peer(d)]
             gs == got[d]
  <2>2. fs \in Seq(Seq(Bytes)) /\ gs \in Seq(Seq(Bytes))
    BY <2>1, Names DEF TypeInv
  <2>3. GotOf(fs, gs) /\ k \in DOMAIN gs
    BY <2>1
  <2> HIDE DEF fs, gs
  <2>4. k \in 1..Len(gs)
    BY <2>2, <2>3
  <2>5. PICK j \in 1..Len(fs) : \E n \in 1..Len(fs[j]) : Part(fs[j], FALSE, gs[k], n)
    BY <2>3, <2>4 DEF GotOf
  <2>6. PICK n \in 1..Len(fs[j]) : Part(fs[j], FALSE, gs[k], n)
    BY <2>5
  <2>7. PICK m \in 1..n : gs[k] = SubSeq(fs[j], m, n)
    BY <2>6 DEF Part
  <2>8. fs[j] \in Seq(Bytes) /\ j \in DOMAIN fs
    BY <2>2, ElementOfSeq
  <2>9. m \in DOMAIN fs[j] /\ n \in DOMAIN fs[j]
    BY <2>8
  <2>10. \E i \in DOMAIN fs : \E x, y \in DOMAIN fs[i] : gs[k] = SubSeq(fs[i], x, y)
    BY <2>7, <2>8, <2>9, Zenon
  <2> QED BY <2>10 DEF fs, gs
<1> QED BY <1>1, InvHolds, PTL

\* What has been read of frames that are read whole is the first of them.
LEMMA FirstOf ==
  ASSUME NEW fs \in Seq(Seq(Bytes)), NEW gs \in Seq(Seq(Bytes)), NEW s, NEW bytes, NEW w, Whole(fs, s, bytes, w, gs)
  PROVE  IsPrefix(gs, fs)
<1>1. PICK l : Has(fs, TRUE, s, l) /\ gs = SubSeq(fs, 1, IF AtEnd(fs, l) THEN l.j ELSE l.j - 1)
  BY DEF Whole
<1>2. l \in Places /\ (l.j = 0 \/ Within(fs, l)) /\ Len(fs) \in Nat
  <2>1. l \in Places /\ (l.j = 0 \/ Within(fs, l))
    BY <1>1, HasPlace
  <2> QED BY <2>1
<1> DEFINE n == IF AtEnd(fs, l) THEN l.j ELSE l.j - 1
<1>3. n \in 0..Len(fs)
  BY <1>2 DEF Within, AtEnd
<1>4. gs = SubSeq(fs, 1, n)
  BY <1>1
<1> HIDE DEF n
<1>5. Len(gs) = n
  BY <1>3, <1>4
<1>6. Len(gs) <= Len(fs) /\ gs = SubSeq(fs, 1, Len(gs))
  BY <1>2, <1>3, <1>4, <1>5
<1>7. SubSeq(gs, 1, Len(gs)) = gs
  <2> DEFINE m == Len(gs)
             h == SubSeq(gs, 1, m)
  <2>1. h \in Seq(Seq(Bytes)) /\ Len(h) = m /\ m = Len(gs) /\ \A i \in 1..m : h[i] = gs[i]
    OBVIOUS
  <2> HIDE DEF h, m
  <2>2. h = gs
    BY <2>1, SeqEqual
  <2> QED BY <2>2 DEF h, m
<1> QED BY <1>6, <1>7 DEF IsPrefix

\* While no connection breaks, the frames that fit are read whole, each once and in their order, in both directions and
\* whatever bytes are in them (Write and Read of SLIPFramer, over one connection that neither device closes).
THEOREM FramesComeInOrder == Spec => []InOrder
<1>1. Inv => InOrder
  <2> SUFFICES ASSUME Inv, breaks = 0, NEW d \in Devices, \A j \in DOMAIN sent[d] : Len(sent[d][j]) <= MaxLen
               PROVE  IsPrefix(got[Peer(d)], sent[d])
    BY DEF InOrder
  <2>1. TypeInv /\ WholeOf(d)
    BY DEF Inv, WholeInv
  <2>2. sent[d] \in Seq(Seq(Bytes)) /\ got[Peer(d)] \in Seq(Seq(Bytes))
    BY <2>1, Names DEF TypeInv
  <2>3. \A j \in 1..Len(sent[d]) : Len(sent[d][j]) <= MaxLen
    BY <2>2
  <2> QED BY <2>1, <2>2, <2>3, FirstOf DEF WholeOf
<1> QED BY <1>1, InvHolds, PTL

===============================================================================
