--------------------------- MODULE HCServer_proofs ---------------------------
(***************************************************************************)
(* What the command server promises, proved for every table, every         *)
(* sequence of messages and every size of cells and messages.              *)
(*                                                                         *)
(* Two facts carry the argument.  A handler answers its cell with the      *)
(* addressing fields of the command and a body whose error code is where   *)
(* the client looks for it, or consumes it without an answer: that is      *)
(* Outcome, shown for each of the ten handlers.  And the reply message is  *)
(* the answers to the answered commands in their order, Matching, which    *)
(* each answer extends.  The length of a message is a sum over its cells,  *)
(* so the proofs begin with sums, defined by recursion; what they need of  *)
(* one is shown by looking at the least number for which it would fail.    *)
(*                                                                         *)
(* At the other end a connection downloads the information file the server *)
(* writes; what it promises of that is proved last.                        *)
(***************************************************************************)
EXTENDS HCServer, HCConnection, FiniteSetTheorems, SequenceTheorems, WellFoundedInduction, TLAPS

-----------------------------------------------------------------------------
(* Sums.                                                                   *)

LEMMA Smallest ==
  ASSUME NEW T, T \subseteq Nat, T # {}
  PROVE  \E n \in T : \A m \in T : n <= m
<1>1. PICK n \in T : \A m \in T : ~(<<m, n>> \in OpToRel(<, Nat))
  BY NatLessThanWellFounded, WFMin
<1>2. ASSUME NEW m \in T PROVE n <= m
  <2>1. m \in Nat /\ n \in Nat
    OBVIOUS
  <2>2. ~(m < n)
    <3>1. m < n => <<m, n>> \in OpToRel(<, Nat)
      BY <2>1 DEF OpToRel
    <3> QED BY <1>1, <3>1
  <2> QED BY <2>1, <2>2
<1> QED BY <1>2

\* The function in Sums exists.
LEMMA SumsDefined ==
  ASSUME NEW ns \in Seq(Nat)
  PROVE  /\ Sums(ns) \in [0..Len(ns) -> Nat]
         /\ Sums(ns)[0] = 0
         /\ \A i \in 1..Len(ns) : Sums(ns)[i] = Sums(ns)[i - 1] + ns[i]
<1> DEFINE IsSums(g, n) == /\ g \in [0..n -> Nat] /\ g[0] = 0
                           /\ \A i \in 1..n : g[i] = g[i - 1] + ns[i]
           Def(f) == f = [i \in 0..Len(ns) |-> IF i = 0 THEN 0 ELSE f[i - 1] + ns[i]]
<1>0. Len(ns) \in Nat /\ \A i \in 1..Len(ns) : ns[i] \in Nat
  OBVIOUS
<1>1. \E g : IsSums(g, Len(ns))
  <2> DEFINE T == {n \in 0..Len(ns) : ~\E g : IsSums(g, n)}
  <2>0. Len(ns) \in 0..Len(ns)
    BY <1>0
  <2>1. SUFFICES T = {}
    <3> HIDE DEF IsSums
    <3> QED BY <2>0
  <2>2. SUFFICES ASSUME T # {} PROVE FALSE
    OBVIOUS
  <2>3. PICK n \in T : \A m \in T : n <= m
    <3>1. T \subseteq Nat
      BY <1>0
    <3> HIDE DEF T
    <3> QED BY <2>2, <3>1, Smallest
  <2>4. n \in 0..Len(ns) /\ ~\E g : IsSums(g, n)
    OBVIOUS
  <2>5. n # 0
    <3>1. IsSums([i \in 0..0 |-> 0], 0)
      OBVIOUS
    <3> QED BY <2>4, <3>1
  <2>6. n - 1 \in 0..Len(ns) /\ n - 1 \notin T
    <3>1. n - 1 \in 0..Len(ns) /\ ~(n <= n - 1)
      BY <1>0, <2>4, <2>5
    <3> HIDE DEF T
    <3> QED BY <2>3, <3>1
  <2>7. PICK g : IsSums(g, n - 1)
    BY <2>6
  <2> DEFINE h == [i \in 0..n |-> IF i = n THEN g[n - 1] + ns[n] ELSE g[i]]
  <2>8. h \in [0..n -> Nat]
    BY <1>0, <2>4, <2>5, <2>7
  <2>9. h[0] = 0
    BY <2>4, <2>5, <2>7
  <2>10. ASSUME NEW i \in 1..n PROVE h[i] = h[i - 1] + ns[i]
    <3>1. CASE i = n
      BY <2>4, <2>5, <3>1
    <3>2. CASE i # n
      <4>1. i \in 1..(n - 1) /\ i \in 0..n /\ i - 1 \in 0..n /\ i - 1 # n
        BY <2>4, <2>5, <3>2
      <4>2. g[i] = g[i - 1] + ns[i]
        BY <2>7, <4>1
      <4> QED BY <3>2, <4>1, <4>2
    <3> QED BY <3>1, <3>2
  <2>11. IsSums(h, n)
    <3> HIDE DEF h
    <3> QED BY <2>8, <2>9, <2>10
  <2> QED BY <2>4, <2>11
<1>2. PICK g : IsSums(g, Len(ns))
  BY <1>1
<1>3. Def(g)
  <2>1. g = [i \in 0..Len(ns) |-> g[i]]
    BY <1>2
  <2>2. ASSUME NEW i \in 0..Len(ns) PROVE g[i] = IF i = 0 THEN 0 ELSE g[i - 1] + ns[i]
    BY <1>0, <1>2
  <2> QED BY <2>1, <2>2
<1>4. Def(Sums(ns))
  <2> DEFINE f == CHOOSE f : Def(f)
  <2>1. Def(f)
    <3>1. \E x : Def(x)
      BY <1>3
    <3> HIDE DEF Def
    <3> QED BY <3>1
  <2>2. Sums(ns) = f
    BY DEF Sums
  <2> HIDE DEF f
  <2> QED BY <2>1, <2>2
<1> DEFINE S == Sums(ns)
<1>5. /\ DOMAIN S = 0..Len(ns) /\ S = [i \in 0..Len(ns) |-> S[i]] /\ S[0] = 0
      /\ \A i \in 1..Len(ns) : S[i] = S[i - 1] + ns[i]
  <2> HIDE DEF S
  <2>1. S = [i \in 0..Len(ns) |-> IF i = 0 THEN 0 ELSE S[i - 1] + ns[i]]
    BY <1>4 DEF S
  <2> QED BY <1>0, <2>1
<1>6. \A i \in 0..Len(ns) : S[i] \in Nat
  <2> HIDE DEF S
  <2> DEFINE T == {i \in 0..Len(ns) : S[i] \notin Nat}
  <2>1. SUFFICES ASSUME T # {} PROVE FALSE
    OBVIOUS
  <2>2. PICK n \in T : \A m \in T : n <= m
    <3>1. T \subseteq Nat
      BY <1>0
    <3> HIDE DEF T
    <3> QED BY <2>1, <3>1, Smallest
  <2>3. n # 0 /\ n \in 1..Len(ns) /\ n - 1 \in 0..Len(ns)
    BY <1>0, <1>5
  <2>4. S[n - 1] \in Nat
    <3>1. ~(n <= n - 1)
      BY <1>0, <2>3
    <3>2. n - 1 \notin T
      <4> HIDE DEF T
      <4> QED BY <2>2, <3>1
    <3> QED BY <2>3, <3>2
  <2>5. S[n] \notin Nat
    BY <2>2
  <2>6. S[n] = S[n - 1] + ns[n] /\ ns[n] \in Nat
    BY <1>0, <1>5, <2>3
  <2> QED BY <2>4, <2>5, <2>6
<1> HIDE DEF S
<1>7. S \in [0..Len(ns) -> Nat]
  BY <1>5, <1>6
<1> QED BY <1>5, <1>7 DEF S

LEMMA TotalType == \A ns \in Seq(Nat) : Total(ns) \in Nat
BY SumsDefined DEF Total

LEMMA TotalEmpty == Total(<<>>) = 0
<1>1. <<>> \in Seq(Nat) /\ Len(<<>>) = 0
  OBVIOUS
<1> QED BY <1>1, SumsDefined DEF Total

LEMMA TotalAppend ==
  ASSUME NEW ns \in Seq(Nat), NEW n \in Nat
  PROVE  Total(Append(ns, n)) = Total(ns) + n
<1> DEFINE A == Sums(ns)
           B == Sums(Append(ns, n))
           k == Len(ns)
<1>1. Append(ns, n) \in Seq(Nat) /\ Len(Append(ns, n)) = k + 1 /\ k \in Nat
  OBVIOUS
<1>2. Append(ns, n)[k + 1] = n /\ \A i \in 1..k : Append(ns, n)[i] = ns[i]
  OBVIOUS
<1>3. A[0] = 0 /\ A[k] \in Nat /\ \A i \in 1..k : A[i] = A[i - 1] + ns[i]
  BY <1>1, SumsDefined
<1>4. B[0] = 0 /\ B[k + 1] = B[k] + n /\ \A i \in 1..k : B[i] = B[i - 1] + ns[i]
  <2>1. \A i \in 1..(k + 1) : B[i] = B[i - 1] + Append(ns, n)[i]
    BY <1>1, SumsDefined
  <2>2. B[0] = 0
    BY <1>1, SumsDefined
  <2> HIDE DEF A, B
  <2>3. k + 1 \in 1..(k + 1) /\ (k + 1) - 1 = k /\ \A i \in 1..k : i \in 1..(k + 1)
    BY <1>1
  <2> QED BY <1>2, <2>1, <2>2, <2>3
<1>5. \A i \in 0..k : A[i] = B[i]
  <2> HIDE DEF A, B, k
  <2> DEFINE T == {i \in 0..k : A[i] # B[i]}
  <2>1. SUFFICES ASSUME T # {} PROVE FALSE
    OBVIOUS
  <2>2. PICK m \in T : \A j \in T : m <= j
    <3>1. T \subseteq Nat
      BY <1>1
    <3> HIDE DEF T
    <3> QED BY <2>1, <3>1, Smallest
  <2>3. m \in 1..k /\ m - 1 \in 0..k
    BY <1>1, <1>3, <1>4
  <2>4. A[m - 1] = B[m - 1]
    BY <1>1, <2>2, <2>3
  <2> QED BY <1>3, <1>4, <2>3, <2>4
<1>6. Total(ns) = A[k] /\ Total(Append(ns, n)) = B[k + 1]
  BY <1>1 DEF Total
<1> HIDE DEF A, B, k
<1>7. A[k] = B[k]
  BY <1>1, <1>5
<1> QED BY <1>3, <1>4, <1>6, <1>7

-----------------------------------------------------------------------------
(* Widths of cells.                                                        *)

Fields == [w : Nat, v : Int]

LEMMA WidthsOf ==
  ASSUME NEW fs \in Seq(Fields)
  PROVE  /\ [i \in DOMAIN fs |-> fs[i].w] \in Seq(Nat)
         /\ Len([i \in DOMAIN fs |-> fs[i].w]) = Len(fs)
<1> DEFINE n == Len(fs)
           g == [i \in 1..n |-> fs[i].w]
<1>1. n \in Nat /\ DOMAIN fs = 1..n /\ \A i \in 1..n : fs[i] \in Fields
  OBVIOUS
<1>2. \A i \in 1..n : fs[i].w \in Nat
  BY <1>1 DEF Fields
<1>3. g \in [1..n -> Nat]
  BY <1>2
<1>4. g \in Seq(Nat) /\ Len(g) = n
  <2> HIDE DEF g, n
  <2> QED BY <1>1, <1>3
<1> QED BY <1>1, <1>4

LEMMA WidthType == \A fs \in Seq(Fields) : Width(fs) \in Nat
BY WidthsOf, TotalType DEF Width

LEMMA WidthAppend ==
  ASSUME NEW fs \in Seq(Fields), NEW f \in Fields
  PROVE  Width(Append(fs, f)) = Width(fs) + f.w
<1> DEFINE ws == [i \in DOMAIN fs |-> fs[i].w]
           xs == [i \in DOMAIN Append(fs, f) |-> Append(fs, f)[i].w]
<1>1. ws \in Seq(Nat) /\ Len(ws) = Len(fs) /\ f.w \in Nat
  BY WidthsOf DEF Fields
<1>2. xs = Append(ws, f.w)
  <2>1. Append(fs, f) \in Seq(Fields) /\ Len(Append(fs, f)) = Len(fs) + 1
    OBVIOUS
  <2>2. xs \in Seq(Nat) /\ Len(xs) = Len(fs) + 1
    BY <2>1, WidthsOf
  <2>3. Append(ws, f.w) \in Seq(Nat) /\ Len(Append(ws, f.w)) = Len(fs) + 1
    BY <1>1
  <2>4. ASSUME NEW i \in 1..(Len(fs) + 1) PROVE xs[i] = Append(ws, f.w)[i]
    <3>1. xs[i] = Append(fs, f)[i].w
      BY <2>1
    <3>2. CASE i = Len(fs) + 1
      <4>1. Append(fs, f)[i] = f
        BY <3>2
      <4>2. Append(ws, f.w)[i] = f.w
        BY <1>1, <3>2
      <4> QED BY <3>1, <4>1, <4>2
    <3>3. CASE i # Len(fs) + 1
      <4>1. i \in 1..Len(fs) /\ i \in 1..Len(ws) /\ i \in DOMAIN fs
        BY <1>1, <3>3
      <4>2. Append(fs, f)[i] = fs[i] /\ Append(ws, f.w)[i] = ws[i] /\ ws[i] = fs[i].w
        BY <1>1, <4>1
      <4> QED BY <3>1, <4>2
    <3> QED BY <3>2, <3>3
  <2> HIDE DEF xs, ws
  <2> QED BY <2>2, <2>3, <2>4
<1> QED BY <1>1, <1>2, TotalAppend DEF Width

LEMMA WidthEmpty == <<>> \in Seq(Fields) /\ Width(<<>>) = 0
<1>1. [i \in DOMAIN <<>> |-> <<>>[i].w] = <<>>
  OBVIOUS
<1> QED BY <1>1, TotalEmpty DEF Width

LEMMA WidthTuples ==
  ASSUME NEW a \in Fields, NEW b \in Fields, NEW c \in Fields
  PROVE  /\ <<a>> \in Seq(Fields) /\ Width(<<a>>) = a.w
         /\ <<a, b>> \in Seq(Fields) /\ Width(<<a, b>>) = a.w + b.w
         /\ <<a, b, c>> \in Seq(Fields) /\ Width(<<a, b, c>>) = a.w + b.w + c.w
<1>1. a.w \in Nat /\ b.w \in Nat /\ c.w \in Nat
  BY DEF Fields
<1>2. <<a>> = Append(<<>>, a) /\ <<a, b>> = Append(<<a>>, b) /\ <<a, b, c>> = Append(<<a, b>>, c)
  OBVIOUS
<1>3. <<a>> \in Seq(Fields) /\ Width(<<a>>) = a.w
  <2>1. Width(Append(<<>>, a)) = 0 + a.w
    BY WidthEmpty, WidthAppend
  <2> QED BY <1>1, <1>2, <2>1
<1>4. <<a, b>> \in Seq(Fields) /\ Width(<<a, b>>) = a.w + b.w
  <2>1. Width(Append(<<a>>, b)) = Width(<<a>>) + b.w
    BY <1>3, WidthAppend
  <2>2. <<a, b>> \in Seq(Fields)
    OBVIOUS
  <2> QED BY <1>2, <1>3, <2>1, <2>2, Zenon
<1>5. <<a, b, c>> \in Seq(Fields) /\ Width(<<a, b, c>>) = a.w + b.w + c.w
  <2>1. Width(Append(<<a, b>>, c)) = Width(<<a, b>>) + c.w
    BY <1>4, WidthAppend
  <2>2. <<a, b, c>> \in Seq(Fields)
    OBVIOUS
  <2> QED BY <1>2, <1>4, <2>1, <2>2, Zenon
<1> QED BY <1>3, <1>4, <1>5

LEMMA WidthConcat ==
  ASSUME NEW fs \in Seq(Fields), NEW body \in Seq(Fields)
  PROVE  Width(fs \o body) = Width(fs) + Width(body)
<1> DEFINE n == Len(body)
           B(k) == SubSeq(body, 1, k)
           P(k) == Width(fs \o B(k)) = Width(fs) + Width(B(k))
<1>1. n \in Nat /\ B(n) = body /\ B(0) = <<>> /\ fs \o <<>> = fs
  OBVIOUS
<1>2. P(0)
  <2>1. Width(fs) \in Nat
    BY WidthType
  <2>2. Width(fs) = Width(fs) + Width(<<>>)
    BY <2>1, WidthEmpty
  <2> HIDE DEF B
  <2> QED BY <1>1, <2>2
<1>3. ASSUME NEW k \in 1..n, P(k - 1) PROVE P(k)
  <2>1. B(k - 1) \in Seq(Fields) /\ body[k] \in Fields
    OBVIOUS
  <2>2. B(k) = Append(B(k - 1), body[k])
    <3>1. B(k) \in Seq(Fields) /\ Len(B(k)) = k /\ Len(B(k - 1)) = k - 1
      OBVIOUS
    <3>2. Append(B(k - 1), body[k]) \in Seq(Fields) /\ Len(Append(B(k - 1), body[k])) = k
      BY <2>1, <3>1
    <3>3. ASSUME NEW i \in 1..k PROVE B(k)[i] = Append(B(k - 1), body[k])[i]
      <4>1. B(k)[i] = body[i]
        OBVIOUS
      <4>2. CASE i = k
        BY <2>1, <3>1, <4>1, <4>2
      <4>3. CASE i # k
        <5>1. i \in 1..(k - 1) /\ B(k - 1)[i] = body[i]
          BY <4>3
        <5> QED BY <2>1, <3>1, <4>1, <5>1
      <4> QED BY <4>2, <4>3
    <3> HIDE DEF B
    <3> QED BY <3>1, <3>2, <3>3
  <2>3. fs \o Append(B(k - 1), body[k]) = Append(fs \o B(k - 1), body[k])
    <3> HIDE DEF B
    <3> QED BY <2>1
  <2>4. fs \o B(k - 1) \in Seq(Fields)
    <3> HIDE DEF B
    <3> QED BY <2>1
  <2>5. /\ Width(Append(fs \o B(k - 1), body[k])) = Width(fs \o B(k - 1)) + body[k].w
        /\ Width(Append(B(k - 1), body[k])) = Width(B(k - 1)) + body[k].w
    <3> HIDE DEF B
    <3> QED BY <2>1, <2>4, WidthAppend
  <2>6. Width(fs) \in Nat /\ Width(B(k - 1)) \in Nat /\ body[k].w \in Nat
    <3> HIDE DEF B
    <3> QED BY <2>1, WidthType DEF Fields
  <2>7. Width(fs \o B(k - 1)) = Width(fs) + Width(B(k - 1))
    BY <1>3
  <2>8. (Width(fs) + Width(B(k - 1))) + body[k].w = Width(fs) + (Width(B(k - 1)) + body[k].w)
    <3> HIDE DEF B
    <3> QED BY <2>6
  <2> HIDE DEF B
  <2>9. Width(fs \o B(k)) = Width(fs \o B(k - 1)) + body[k].w
    BY <2>2, <2>3, <2>5
  <2>10. Width(B(k)) = Width(B(k - 1)) + body[k].w
    BY <2>2, <2>5
  <2> QED BY <2>7, <2>8, <2>9, <2>10
<1>4. P(n)
  <2> HIDE DEF P, n
  <2> DEFINE T == {k \in 0..n : ~P(k)}
  <2>1. SUFFICES ASSUME T # {} PROVE FALSE
    BY <1>1
  <2>2. PICK m \in T : \A j \in T : m <= j
    <3>1. T \subseteq Nat
      BY <1>1
    <3> HIDE DEF T
    <3> QED BY <2>1, <3>1, Smallest
  <2>3. ~P(m) /\ m \in 1..n /\ m - 1 \in 0..n
    BY <1>1, <1>2
  <2>4. m - 1 \notin T
    <3>1. ~(m <= m - 1)
      BY <1>1, <2>3
    <3> HIDE DEF T
    <3> QED BY <2>2, <3>1
  <2>5. P(m - 1)
    BY <2>3, <2>4
  <2> QED BY <1>3, <2>3, <2>5
<1> HIDE DEF B
<1> QED BY <1>1, <1>4

-----------------------------------------------------------------------------
(* The information file.                                                   *)

TableInv ==
  /\ params \in Seq(Params) /\ Len(params) <= PidMax
  /\ started \in BOOLEAN
  /\ infofile \subseteq SUBSET (Nat \X Params) /\ Cardinality(infofile) <= 1
  /\ ~started => infofile = {}

\* A parameter in the table has a first place in it.
LEMMA FirstPlace ==
  ASSUME params \in Seq(Params), NEW p, \E i \in DOMAIN params : params[i] = p
  PROVE  /\ ParamToPID(p) \in Nat /\ ParamToPID(p) < Len(params)
         /\ params[ParamToPID(p) + 1] = p
<1> DEFINE T == {i \in DOMAIN params : params[i] = p}
           First(i) == params[i] = p /\ \A j \in 1..(i - 1) : params[j] # p
           c == CHOOSE i \in DOMAIN params : First(i)
<1>1. DOMAIN params = 1..Len(params) /\ Len(params) \in Nat
  OBVIOUS
<1>2. PICK n \in T : \A m \in T : n <= m
  <2>1. T \subseteq Nat /\ T # {}
    BY <1>1
  <2> HIDE DEF T
  <2> QED BY <2>1, Smallest
<1>3. ASSUME NEW j \in 1..(n - 1) PROVE params[j] # p
  <2>1. j \in DOMAIN params /\ ~(n <= j)
    BY <1>1
  <2>2. j \notin T
    <3> HIDE DEF T
    <3> QED BY <1>2, <2>1
  <2> QED BY <2>1, <2>2
<1>4. n \in DOMAIN params /\ First(n)
  BY <1>3
<1>5. c \in DOMAIN params /\ First(c)
  <2> HIDE DEF First
  <2> QED BY <1>4
<1>6. ParamToPID(p) = c - 1
  BY DEF ParamToPID
<1> HIDE DEF c
<1> QED BY <1>1, <1>5, <1>6

LEMMA SavedInfo ==
  ASSUME params \in Seq(Params)
  PROVE  /\ SaveInfo \subseteq Nat \X Params
         /\ \A e \in SaveInfo : e[1] < Len(params) /\ params[e[1] + 1] = e[2]
         /\ \A p \in Listed : (\E i \in DOMAIN params : params[i] = p) => \E e \in SaveInfo : e[2] = p
<1>1. ASSUME NEW e \in SaveInfo
      PROVE  e \in Nat \X Params /\ e[1] < Len(params) /\ params[e[1] + 1] = e[2]
  <2>1. PICK p \in Listed : (\E i \in DOMAIN params : params[i] = p) /\ e = <<ParamToPID(p), p>>
    BY DEF SaveInfo
  <2>2. p \in Params
    BY ListedAssumption
  <2> QED BY <2>1, <2>2, FirstPlace
<1>2. ASSUME NEW p \in Listed, \E i \in DOMAIN params : params[i] = p PROVE \E e \in SaveInfo : e[2] = p
  <2>1. <<ParamToPID(p), p>> \in SaveInfo
    BY <1>2 DEF SaveInfo
  <2> QED BY <2>1
<1> QED BY <1>1, <1>2

\* Only Add and Start change the table.
LEMMA ControlTable == CtlThread => UNCHANGED tableVars
<1>1. /\ CallCmdHandler => UNCHANGED tableVars
      /\ GetCmdHandler => UNCHANGED tableVars
      /\ SetCmdHandler => UNCHANGED tableVars
      /\ ICallCmdHandler => UNCHANGED tableVars
      /\ IGetCmdHandler => UNCHANGED tableVars
      /\ ISetCmdHandler => UNCHANGED tableVars
      /\ AddCmdHandler => UNCHANGED tableVars
      /\ SubCmdHandler => UNCHANGED tableVars
      /\ ReadCmdHandler => UNCHANGED tableVars
      /\ WriteCmdHandler => UNCHANGED tableVars
  BY DEF CallCmdHandler, GetCmdHandler, SetCmdHandler, ICallCmdHandler, IGetCmdHandler, ISetCmdHandler,
         AddCmdHandler, SubCmdHandler, ReadCmdHandler, WriteCmdHandler, CmdHandler
<1> QED BY <1>1 DEF CtlThread, Recv, RecvError, UnknownOpcode, Send

LEMMA InitTable == Init => TableInv /\ InfoFileTrue
<1> SUFFICES ASSUME Init PROVE TableInv /\ InfoFileTrue
  OBVIOUS
<1>1. params \in Seq(Params) /\ Len(params) <= PidMax /\ infofile \subseteq SUBSET (Nat \X Params) /\ Cardinality(infofile) <= 1
  BY SizeAssumption, FS_EmptySet DEF Init
<1>2. started \in BOOLEAN /\ ~started /\ infofile = {}
  BY Zenon DEF Init
<1> QED BY <1>1, <1>2 DEF TableInv, InfoFileTrue

LEMMA StepTable == TableInv /\ InfoFileTrue /\ [Next]_vars => TableInv' /\ InfoFileTrue'
<1> SUFFICES ASSUME TableInv, InfoFileTrue, [Next]_vars PROVE TableInv' /\ InfoFileTrue'
  OBVIOUS
<1>1. ASSUME NEW p \in Params, Add(p) PROVE TableInv' /\ InfoFileTrue'
  <2>1. UNCHANGED <<started, infofile>>
    BY <1>1 DEF Add
  <2>2. params' = IF Len(params) < PidMax /\ ~started THEN Append(params, p) ELSE params
    BY <1>1 DEF Add
  <2>3. params \in Seq(Params) /\ Len(params) <= PidMax
    BY DEF TableInv
  <2>4. CASE params' = params
    BY <2>1, <2>4 DEF TableInv, InfoFileTrue
  <2>5. CASE params' = Append(params, p) /\ Len(params) < PidMax /\ ~started
    <3>1. params' \in Seq(Params) /\ Len(params') <= PidMax
      BY <2>3, <2>5, SizeAssumption
    <3> QED BY <2>1, <2>5, <3>1 DEF TableInv, InfoFileTrue
  <2> QED BY <2>2, <2>4, <2>5
<1>2. CASE Start
  <2>1. params \in Seq(Params) /\ params' = params /\ infofile' \in {{SaveInfo}, infofile} /\ ~started /\ started' = TRUE
    BY <1>2 DEF Start, TableInv
  <2>2. infofile' \subseteq SUBSET (Nat \X Params) /\ Cardinality(infofile') <= 1
    <3>1. CASE infofile' = {SaveInfo}
      <4>1. Cardinality({SaveInfo}) = 1
        BY FS_Singleton, Zenon
      <4>2. SaveInfo \subseteq Nat \X Params
        BY <2>1, SavedInfo
      <4> QED BY <3>1, <4>1, <4>2
    <3>2. CASE infofile' = infofile
      BY <3>2 DEF TableInv
    <3> QED BY <2>1, <3>1, <3>2
  <2>3. TableInv'
    BY <2>1, <2>2 DEF TableInv
  <2>4. InfoFileTrue'
    BY <2>1, SavedInfo DEF InfoFileTrue, TableInv
  <2> QED BY <2>3, <2>4
<1>3. CASE CtlThread \/ UNCHANGED vars
  <2>1. UNCHANGED <<params, started, infofile>>
    BY <1>3, ControlTable DEF tableVars, vars
  <2> QED BY <2>1 DEF TableInv, InfoFileTrue
<1> QED BY <1>1, <1>2, <1>3 DEF Next

-----------------------------------------------------------------------------
(* What the handlers do with a command.                                    *)

\* What the client makes of the fields behind those it compares.
BodyError(op, body, type) ==
  IF op \in {"Get", "IGet"}
  THEN IF body[1].v # type THEN ERR_TYPE ELSE FirstByte(body[3])
  ELSE FirstByte(body[IF op = "Read" THEN Len(body) ELSE 1])

\* An answer to a command that the client takes as it is meant.
Good(cmd, a) ==
  /\ a.body \in Seq(Fields) /\ Len(a.body) \in 1..3 /\ a.err \in Int
  /\ TypesAgree(cmd) \/ cmd.op \in {"Call", "ICall", "Read"} => BodyError(cmd.op, a.body, cmd.type) = a.err

Echo(cmd) == SubSeq(cmd.fields, 1, EchoLen(cmd.op))

\* A command is answered, or consumed without an answer.
Answers(cmd) ==
  \E a : /\ Good(cmd, a)
         /\ Len(cmd.fields) >= EchoLen(cmd.op)
         /\ ocell' = [op |-> cmd.op, fields |-> Echo(cmd) \o a.body]
         /\ Width(Echo(cmd)) + Width(a.body) <= CellMax
         /\ WriteReply(a.err)

Refuses(cmd) ==
  \E r \in Results \ {"replied", "dropped"}, e \in Int :
    /\ NoReply(r, e)
    /\ cmd.op = "Read" /\ r = "interr" => Param[params[cmd.fields[1].v + 1]].kind # "file"

\* CmdHandler for a command with n fields in front, given what the parameter may do and what the handler answers
\* for an unknown PID.
HandlerWith(op, n, unknown, outcomes) ==
  LET fields == Head(imsg).fields
      echo == SubSeq(fields, 1, Min2(n, 2))
      Reset == [op |-> op, fields |-> <<>>]
      Writes(body) == ocell' = [Reset EXCEPT !.fields = @ \o echo \o body]
      Fits(body) == Width(echo) + Width(body) <= CellMax
  IN
  /\ rpc = "cells"
  /\ imsg # <<>>
  /\ Head(imsg).op = op
  /\ UNCHANGED tableVars
  /\ IF Len(fields) < n
     THEN Bump("deserr") /\ ocell' = Reset /\ NoReply("deserr", 0)
     ELSE IF fields[1].v >= Len(params)
     THEN /\ Bump("piderr")
          /\ Writes(unknown.body)
          /\ IF unknown.ok /\ Fits(unknown.body) THEN WriteReply(unknown.err)
                                                 ELSE NoReply("piderr", ERR_PID)
     ELSE \E a \in outcomes :
            IF a.ok /\ Fits(a.body)
            THEN Writes(a.body) /\ WriteReply(a.err) /\ UNCHANGED count
            ELSE Writes(<<>>) /\ NoReply("interr", 0) /\ Bump("interr")

Counting == count \in [Counters -> Nat] => count' \in [Counters -> Nat]

LEMMA Beginning ==
  ASSUME NEW S, NEW s \in Seq(S), NEW n \in 0..Len(s)
  PROVE  /\ SubSeq(s, 1, n) \in Seq(S) /\ Len(SubSeq(s, 1, n)) = n
         /\ \A i \in 1..n : SubSeq(s, 1, n)[i] = s[i]
<1>1. n \in Nat /\ Len(s) \in Nat /\ n <= Len(s) /\ 1 \in Int /\ n \in Int
  OBVIOUS
<1>2. \A i \in 1..Len(s) : s[i] \in S
  OBVIOUS
<1>3. \A i \in 1..n : s[i] \in S
  BY <1>1, <1>2
<1> QED BY <1>1, <1>3, SubSeqProperties

LEMMA ElementType == ASSUME NEW S, NEW s \in Seq(S), NEW i \in 1..Len(s) PROVE s[i] \in S
OBVIOUS

LEMMA WritesBody ==
  ASSUME NEW op, NEW echo, NEW body
  PROVE  [[op |-> op, fields |-> <<>>] EXCEPT !.fields = @ \o echo \o body]
           = [op |-> op, fields |-> (<<>> \o echo) \o body]
<1> DEFINE r == [op |-> op, fields |-> <<>>]
<1>1. \A y : [r EXCEPT !.fields = y] = [op |-> op, fields |-> y]
  OBVIOUS
<1>2. r.fields = <<>>
  OBVIOUS
<1> HIDE DEF r
<1>3. [r EXCEPT !.fields = @ \o echo \o body] = [op |-> op, fields |-> (r.fields \o echo) \o body]
  BY <1>1
<1>4. [r EXCEPT !.fields = @ \o echo \o body] = [op |-> op, fields |-> (<<>> \o echo) \o body]
  BY <1>2, <1>3
<1> QED BY <1>4 DEF r

LEMMA BumpCounts == ASSUME NEW c \in Counters, Bump(c) PROVE Counting
BY DEF Bump, Counting, Counters

LEMMA HandlerOutcome ==
  ASSUME imsg \in Seq(Commands), NEW op, NEW n \in {1, 2, 3}, NEW unknown, NEW outcomes,
         HandlerWith(op, n, unknown, outcomes), Min2(n, 2) = EchoLen(op),
         LET cmd == Head(imsg) IN
         Len(cmd.fields) >= n =>
           /\ cmd.fields[1].v >= Len(params) /\ unknown.ok => Good(cmd, unknown)
           /\ cmd.fields[1].v < Len(params) =>
                \A a \in outcomes :
                  /\ a.ok => Good(cmd, a)
                  /\ op = "Read" /\ Param[params[cmd.fields[1].v + 1]].kind = "file" =>
                       a.ok /\ Width(Echo(cmd)) + Width(a.body) <= CellMax,
         params \in Seq(Params)
  PROVE  /\ rpc = "cells" /\ imsg # <<>> /\ UNCHANGED tableVars /\ Counting
         /\ Answers(Head(imsg)) \/ Refuses(Head(imsg))
<1> DEFINE cmd == Head(imsg)
           fields == cmd.fields
           echo == Echo(cmd)
           Writes(body) == ocell' = [op |-> op, fields |-> echo \o body]
           Fits(body) == Width(echo) + Width(body) <= CellMax
<1>1. rpc = "cells" /\ imsg # <<>> /\ cmd.op = op /\ UNCHANGED tableVars
  BY DEF HandlerWith
<1>2. cmd \in Commands /\ fields \in Seq([w : Nat, v : Nat]) /\ Len(fields) \in Nat
  <2>1. Len(imsg) >= 1 /\ Len(imsg) \in Nat
    BY <1>1
  <2>2. cmd \in Commands
    BY <2>1
  <2> HIDE DEF cmd
  <2>3. fields \in Seq([w : Nat, v : Nat])
    BY <2>2 DEF Commands
  <2> QED BY <2>2, <2>3
<1>3. echo = SubSeq(fields, 1, Min2(n, 2)) /\ EchoLen(op) \in 1..2 /\ EchoLen(op) <= n
  <2>1. cmd.op = op
    BY <1>1
  <2>2. EchoLen(op) \in 1..2 /\ EchoLen(op) <= n
    BY DEF EchoLen, Min2
  <2> HIDE DEF cmd
  <2> QED BY <2>1, <2>2 DEF Echo
<1>b. ~(Len(fields) < n) => /\ 1 \in 1..Len(fields) /\ EchoLen(op) \in 0..Len(fields) /\ Len(fields) >= n
                            /\ fields[1].v \in Nat
  <2> HIDE DEF cmd
  <2> SUFFICES ASSUME ~(Len(fields) < n)
               PROVE  /\ 1 \in 1..Len(fields) /\ EchoLen(op) \in 0..Len(fields) /\ Len(fields) >= n
                      /\ fields[1].v \in Nat
    OBVIOUS
  <2>1. 1 \in 1..Len(fields) /\ EchoLen(op) \in 0..Len(fields) /\ Len(fields) >= n
    <3>1. n \in Nat /\ n >= 1 /\ Len(fields) \in Nat /\ EchoLen(op) \in 1..2 /\ EchoLen(op) <= n
      BY <1>2, <1>3
    <3> QED BY <3>1
  <2>2. fields[1] \in [w : Nat, v : Nat]
    <3> HIDE DEF fields
    <3> QED BY <1>2, <2>1, ElementType
  <2> QED BY <2>1, <2>2
<1>a. ~(Len(fields) < n) =>
        \A body : [[op |-> op, fields |-> <<>>] EXCEPT !.fields = @ \o echo \o body]
                    = [op |-> op, fields |-> echo \o body]
  <2> SUFFICES ASSUME ~(Len(fields) < n), NEW body
               PROVE  [[op |-> op, fields |-> <<>>] EXCEPT !.fields = @ \o echo \o body]
                        = [op |-> op, fields |-> echo \o body]
    OBVIOUS
  <2> HIDE DEF cmd
  <2>1. SubSeq(fields, 1, EchoLen(op)) \in Seq([w : Nat, v : Nat])
    <3> HIDE DEF fields
    <3> QED BY <1>2, <1>b, Beginning
  <2>2. <<>> \o echo = echo
    BY <1>1, <2>1 DEF Echo, cmd
  <2> HIDE DEF echo
  <2>3. [[op |-> op, fields |-> <<>>] EXCEPT !.fields = @ \o echo \o body]
          = [op |-> op, fields |-> (<<>> \o echo) \o body]
    BY Zenon, WritesBody
  <2> QED BY <2>2, <2>3
<1>4. \/ Len(fields) < n /\ Bump("deserr") /\ NoReply("deserr", 0)
      \/ /\ ~(Len(fields) < n) /\ fields[1].v >= Len(params) /\ Bump("piderr")
         /\ \/ Writes(unknown.body) /\ unknown.ok /\ Fits(unknown.body) /\ WriteReply(unknown.err)
            \/ NoReply("piderr", ERR_PID)
      \/ /\ ~(Len(fields) < n) /\ ~(fields[1].v >= Len(params))
         /\ \E a \in outcomes : \/ Writes(a.body) /\ a.ok /\ Fits(a.body) /\ WriteReply(a.err) /\ UNCHANGED count
                                \/ ~(a.ok /\ Fits(a.body)) /\ NoReply("interr", 0) /\ Bump("interr")
  <2> HIDE DEF echo, cmd
  <2> QED BY <1>a, <1>3 DEF HandlerWith, cmd
<1>5. {"deserr", "piderr", "interr"} \subseteq Results \ {"replied", "dropped"} /\ 0 \in Int /\ ERR_PID \in Int
  BY DEF Results, ERR_PID
<1>6. {"deserr", "piderr", "interr"} \subseteq Counters
  BY DEF Counters
<1>7. CASE Len(fields) < n /\ Bump("deserr") /\ NoReply("deserr", 0)
  <2>1. Refuses(cmd)
    BY <1>5, <1>7 DEF Refuses
  <2> QED BY <1>1, <1>6, <1>7, <2>1, BumpCounts
<1>8. CASE ~(Len(fields) < n) /\ fields[1].v >= Len(params) /\ Bump("piderr") /\ NoReply("piderr", ERR_PID)
  <2>1. Refuses(cmd)
    BY <1>5, <1>8 DEF Refuses
  <2> QED BY <1>1, <1>6, <1>8, <2>1, BumpCounts
<1>9. ASSUME NEW a, ~(Len(fields) < n), Good(cmd, a), Writes(a.body), Fits(a.body), WriteReply(a.err) PROVE Answers(cmd)
  <2>1. Len(fields) >= EchoLen(op)
    BY <1>2, <1>9 DEF Min2
  <2> HIDE DEF cmd
  <2> QED BY <1>1, <1>9, <2>1 DEF Answers
<1>10. CASE /\ ~(Len(fields) < n) /\ fields[1].v >= Len(params) /\ Bump("piderr")
            /\ Writes(unknown.body) /\ unknown.ok /\ Fits(unknown.body) /\ WriteReply(unknown.err)
  <2>1. Good(cmd, unknown)
    BY <1>2, <1>10
  <2> HIDE DEF cmd, echo, Writes, Fits
  <2>2. Answers(cmd)
    BY <1>9, <1>10, <2>1
  <2> QED BY <1>1, <1>6, <1>10, <2>2, BumpCounts DEF cmd
<1>11. CASE /\ ~(Len(fields) < n) /\ ~(fields[1].v >= Len(params))
            /\ \E a \in outcomes : \/ Writes(a.body) /\ a.ok /\ Fits(a.body) /\ WriteReply(a.err) /\ UNCHANGED count
                                   \/ ~(a.ok /\ Fits(a.body)) /\ NoReply("interr", 0) /\ Bump("interr")
  <2>1. PICK a \in outcomes : \/ Writes(a.body) /\ a.ok /\ Fits(a.body) /\ WriteReply(a.err) /\ UNCHANGED count
                              \/ ~(a.ok /\ Fits(a.body)) /\ NoReply("interr", 0) /\ Bump("interr")
    BY <1>11
  <2>2. /\ a.ok => Good(cmd, a)
        /\ op = "Read" /\ Param[params[fields[1].v + 1]].kind = "file" => a.ok /\ Fits(a.body)
    <3>0. Len(params) \in Nat
      OBVIOUS
    <3>1. fields[1].v \in Nat /\ Len(params) \in Nat /\ Len(fields) >= n
      <4>1. ~(Len(fields) < n)
        BY <1>11, Zenon
      <4>2. fields[1].v \in Nat /\ Len(fields) >= n
        <5> HIDE DEF cmd, echo, Writes, Fits
        <5> QED BY Zenon, <1>b, <4>1
      <4> QED BY <3>0, <4>2
    <3>2. fields[1].v < Len(params)
      <4>1. ~(fields[1].v >= Len(params))
        BY <1>11, Zenon
      <4> QED BY <3>1, <4>1
    <3> QED BY <3>1, <3>2
  <2>3. CASE Writes(a.body) /\ a.ok /\ Fits(a.body) /\ WriteReply(a.err) /\ UNCHANGED count
    <3> HIDE DEF cmd, echo, Writes, Fits
    <3>1. Answers(cmd)
      BY <1>9, <1>11, <2>2, <2>3
    <3> QED BY <1>1, <2>3, <3>1 DEF cmd, Counting
  <2>4. CASE ~(a.ok /\ Fits(a.body)) /\ NoReply("interr", 0) /\ Bump("interr")
    <3>1. cmd.op = "Read" => Param[params[fields[1].v + 1]].kind # "file"
      BY <1>1, <2>2, <2>4
    <3>2. Refuses(cmd)
      BY <1>5, <2>4, <3>1 DEF Refuses
    <3> HIDE DEF cmd
    <3> QED BY <1>1, <1>6, <2>4, <3>2, BumpCounts DEF cmd
  <2> QED BY <2>1, <2>3, <2>4
<1> HIDE DEF cmd, Writes, Fits
<1> QED BY <1>4, <1>7, <1>8, <1>10, <1>11

-----------------------------------------------------------------------------
(* What the parameters answer.                                             *)

\* The commands to come are ones that clients send.
InputInv ==
  /\ params \in Seq(Params)
  /\ imsg \in Seq(Commands)
  /\ \A k \in DOMAIN imsg : Sent(imsg[k])

Args(n) == SubSeq(Head(imsg).fields, n + 1, Len(Head(imsg).fields))
Given(n) == IF n = 3 THEN <<Head(imsg).fields[3]>> ELSE Args(n)
Addressed == Param[params[Head(imsg).fields[1].v + 1]]

ParamType == [kind : STRING, type : Nat, get : BOOLEAN, set : BOOLEAN, widths : SUBSET Nat]

LEMMA FirstCommand ==
  ASSUME InputInv, imsg # <<>>
  PROVE  /\ Sent(Head(imsg)) /\ Head(imsg) \in Commands
         /\ Head(imsg).fields \in Seq([w : Nat, v : Nat]) /\ Head(imsg).type \in Nat
<1>1. 1 \in DOMAIN imsg /\ Head(imsg) = imsg[1]
  <2>1. imsg \in Seq(Commands)
    BY DEF InputInv
  <2> QED BY <2>1
<1>2. Sent(Head(imsg))
  BY <1>1 DEF InputInv
<1>3. Head(imsg) \in Commands
  BY <1>2 DEF Sent
<1>4. \A cmd \in Commands : cmd.fields \in Seq([w : Nat, v : Nat]) /\ cmd.type \in Nat
  BY DEF Commands
<1> QED BY <1>2, <1>3, <1>4

LEMMA AddressedParam ==
  ASSUME InputInv, imsg # <<>>, Len(Head(imsg).fields) >= 1, Head(imsg).fields[1].v < Len(params)
  PROVE  Addressed \in ParamType
<1> DEFINE fields == Head(imsg).fields
           pid == fields[1].v
<1>1. fields \in Seq([w : Nat, v : Nat]) /\ Len(fields) >= 1 /\ Len(fields) \in Nat
  BY FirstCommand
<1>2. fields[1] \in [w : Nat, v : Nat]
  <2>1. 1 \in 1..Len(fields)
    BY <1>1
  <2> HIDE DEF fields
  <2> QED BY <1>1, <2>1, ElementType
<1>3. pid \in Nat /\ pid < Len(params) /\ params \in Seq(Params)
  BY <1>2 DEF InputInv
<1> HIDE DEF pid
<1>4. params[pid + 1] \in Params
  BY <1>3
<1> QED BY <1>4, ParamAssumption DEF Addressed, pid, ParamType

LEMMA GivenArgs ==
  ASSUME InputInv, imsg # <<>>, NEW n \in {1, 2, 3}, Len(Head(imsg).fields) >= n
  PROVE  /\ Args(n) \in Seq([w : Nat, v : Nat]) /\ Given(n) \in Seq([w : Nat, v : Nat])
         /\ Len(Args(n)) >= 1 => n + 1 \in DOMAIN Head(imsg).fields /\ Args(n)[1] = Head(imsg).fields[n + 1]
<1> DEFINE fields == Head(imsg).fields
           m == Len(fields)
<1>1. fields \in Seq([w : Nat, v : Nat]) /\ m \in Nat /\ m >= n
  BY FirstCommand
<1>2. n \in Nat /\ n >= 1 /\ n + 1 \in Int /\ m \in Int /\ DOMAIN fields = 1..m
  BY <1>1
<1> SUFFICES /\ SubSeq(fields, n + 1, m) \in Seq([w : Nat, v : Nat])
             /\ Given(n) \in Seq([w : Nat, v : Nat])
             /\ Len(SubSeq(fields, n + 1, m)) >= 1 =>
                  n + 1 \in 1..m /\ SubSeq(fields, n + 1, m)[1] = fields[n + 1]
  BY <1>2 DEF Args
<1>3. \A i \in (n + 1)..m : fields[i] \in [w : Nat, v : Nat]
  <2> TAKE i \in (n + 1)..m
  <2>1. i \in 1..m
    BY <1>1, <1>2
  <2> HIDE DEF fields
  <2> QED BY <1>1, <2>1, ElementType
<1>4. Given(n) = IF n = 3 THEN <<fields[3]>> ELSE SubSeq(fields, n + 1, m)
  BY DEF Given, Args
<1>5. n = 3 => fields[3] \in [w : Nat, v : Nat]
  <2> SUFFICES ASSUME n = 3 PROVE fields[3] \in [w : Nat, v : Nat]
    OBVIOUS
  <2>1. 3 \in 1..m
    BY <1>1
  <2> HIDE DEF fields
  <2> QED BY <1>1, <2>1, ElementType
<1> HIDE DEF fields
<1>6. /\ SubSeq(fields, n + 1, m) \in Seq([w : Nat, v : Nat])
      /\ Len(SubSeq(fields, n + 1, m)) = IF n + 1 <= m THEN m - (n + 1) + 1 ELSE 0
      /\ \A i \in 1..(m - (n + 1) + 1) : SubSeq(fields, n + 1, m)[i] = fields[n + 1 + i - 1]
  BY <1>2, <1>3, SubSeqProperties
<1> HIDE DEF m
<1>7. ASSUME Len(SubSeq(fields, n + 1, m)) >= 1
      PROVE  n + 1 \in 1..m /\ SubSeq(fields, n + 1, m)[1] = fields[n + 1]
  <2>1. n + 1 <= m
    BY <1>1, <1>2, <1>6, <1>7
  <2>2. n + 1 \in 1..m /\ 1 \in 1..(m - (n + 1) + 1) /\ n + 1 + 1 - 1 = n + 1
    BY <1>1, <1>2, <2>1
  <2>3. SubSeq(fields, n + 1, m)[1] = fields[n + 1 + 1 - 1]
    BY <1>6, <2>2
  <2> QED BY <2>2, <2>3
<1>8. n = 3 => <<fields[3]>> \in Seq([w : Nat, v : Nat])
  BY <1>5
<1> QED BY <1>4, <1>6, <1>7, <1>8

\* An answer whose last field, and only one unless it is a read's, is the error code in one byte.
Coded(a) == a.ok => a.err \in Int /\ a.body = <<I8(a.err)>>

LEMMA ByteFields == \A e \in Int : I8(e) \in Fields /\ U8(e) \in Fields /\ FirstByte(I8(e)) = e /\ I8(e).w = 1 /\ U8(e).v = e
BY DEF I8, U8, F, Fields, FirstByte

LEMMA CodedIsGood ==
  ASSUME NEW cmd, NEW a, Coded(a), a.ok, cmd.op \notin {"Get", "IGet"}
  PROVE  Good(cmd, a)
<1>1. a.err \in Int /\ a.body = <<I8(a.err)>>
  BY DEF Coded
<1>2. I8(a.err) \in Fields /\ FirstByte(I8(a.err)) = a.err
  BY <1>1, ByteFields
<1>3. a.body \in Seq(Fields)
  BY <1>1, <1>2, WidthTuples
<1>4. Len(a.body) = 1 /\ a.body[1] = I8(a.err)
  BY <1>1
<1>5. BodyError(cmd.op, a.body, cmd.type) = FirstByte(a.body[1])
  BY <1>4 DEF BodyError
<1> QED BY <1>1, <1>2, <1>3, <1>4, <1>5 DEF Good

LEMMA Errors ==
  /\ ERR_ACCESS \in Int /\ ERR_TYPE \in Int /\ ERR_PID \in Int
  /\ \A has : MethodErr(has) \subseteq Int
BY ParamAssumption DEF ERR_ACCESS, ERR_TYPE, ERR_PID, MethodErr

LEMMA AnswerParts == \A body, e : Answer(body, e).ok /\ Answer(body, e).body = body /\ Answer(body, e).err = e
BY DEF Answer

LEMMA CodedAnswer == \A e \in Int : Coded(Answer(<<I8(e)>>, e))
BY AnswerParts DEF Coded

LEMMA FailedAnswer == ~Failed.ok /\ Coded(Failed)
BY DEF Failed, Coded

LEMMA CallOutcomes ==
  ASSUME NEW p, NEW args
  PROVE  /\ \A a \in CallCell(p, args) \cup CallCellTbl(p, args) : Coded(a)
         /\ Coded(CallPIDError(args)) /\ CallPIDError(args).ok
<1>1. \A e \in MethodErrs : Coded(Answer(<<I8(e)>>, e))
  BY CodedAnswer, ParamAssumption
<1>2. \A a \in CallCell(p, args) \cup CallCellTbl(p, args) :
        a = Failed \/ \E e \in MethodErrs : a = Answer(<<I8(e)>>, e)
  BY Zenon DEF CallCell, CallCellTbl
<1>3. Coded(CallPIDError(args)) /\ CallPIDError(args).ok
  BY CodedAnswer, AnswerParts, Errors DEF CallPIDError
<1> QED BY <1>1, <1>2, <1>3, FailedAnswer

LEMMA GetOutcomes ==
  ASSUME NEW p \in ParamType, NEW args, NEW cmd, cmd.op \in {"Get", "IGet"}, TypesAgree(cmd) => cmd.type = p.type,
         NEW a \in GetCell(p, args) \cup GetCellTbl(p, args), a.ok
  PROVE  Good(cmd, a)
<1>1. PICK e \in Int, w \in p.widths : a = Value(p, e, w)
  <2>1. a = Failed \/ \E e \in MethodErr(p.get), w \in p.widths : a = Value(p, e, w)
    <3>1. CASE a \in GetCell(p, args)
      BY <3>1 DEF GetCell
    <3>2. CASE a \in GetCellTbl(p, args)
      BY <3>2 DEF GetCellTbl
    <3> QED BY <3>1, <3>2
  <2> QED BY <2>1, FailedAnswer, Errors
<1>2. p.type \in Nat /\ w \in Nat
  BY DEF ParamType
<1>3. a.body = <<U8(p.type), F(w, 0), I8(e)>> /\ a.err = e
  BY <1>1, AnswerParts DEF Value
<1>4. U8(p.type) \in Fields /\ I8(e) \in Fields /\ F(w, 0) \in Fields
  BY <1>2, ByteFields DEF F, Fields
<1>5. a.body \in Seq(Fields)
  BY <1>3, <1>4, WidthTuples
<1>6. Len(a.body) = 3 /\ a.body[1] = U8(p.type) /\ a.body[3] = I8(e)
  BY <1>3
<1>7. TypesAgree(cmd) => a.body[1].v = cmd.type
  BY <1>2, <1>6, ByteFields
<1>8. TypesAgree(cmd) => BodyError(cmd.op, a.body, cmd.type) = e
  BY <1>6, <1>7, ByteFields DEF BodyError
<1> QED BY <1>3, <1>5, <1>6, <1>8 DEF Good

LEMMA UnknownPID ==
  ASSUME NEW args, NEW cmd, ~TypesAgree(cmd)
  PROVE  /\ HandleGetPIDError(args).ok /\ cmd.op \in {"Get", "IGet", "Read"} => Good(cmd, HandleGetPIDError(args))
         /\ HandleSetPIDError(args).ok /\ cmd.op \in Setters \cup {"Write"} => Good(cmd, HandleSetPIDError(args))
<1>1. ASSUME cmd.op \in {"Get", "IGet", "Read"} PROVE Good(cmd, HandleGetPIDError(args))
  <2> DEFINE a == HandleGetPIDError(args)
  <2>1. a.body = <<U8(T_I8), I8(0), I8(ERR_PID)>> /\ a.err = ERR_PID
    BY AnswerParts DEF HandleGetPIDError
  <2>2. U8(T_I8) \in Fields /\ I8(0) \in Fields /\ I8(ERR_PID) \in Fields
    BY ByteFields, Errors DEF T_I8
  <2> HIDE DEF a
  <2>3. a.body \in Seq(Fields)
    BY <2>1, <2>2, WidthTuples
  <2>4. Len(a.body) = 3 /\ a.body[3] = I8(ERR_PID)
    BY <2>1
  <2>5. cmd.op = "Read" => BodyError(cmd.op, a.body, cmd.type) = ERR_PID
    BY <2>4, ByteFields, Errors DEF BodyError
  <2> QED BY <1>1, <2>1, <2>3, <2>4, <2>5, Errors DEF Good, a
<1>2. ASSUME HandleSetPIDError(args).ok, cmd.op \in Setters \cup {"Write"} PROVE Good(cmd, HandleSetPIDError(args))
  <2> DEFINE a == HandleSetPIDError(args)
  <2>1. PICK type \in Skippable : a = Answer(<<U8(type), I8(ERR_PID)>>, ERR_PID)
    BY <1>2, FailedAnswer, Zenon DEF HandleSetPIDError
  <2> HIDE DEF a
  <2>2. a.body = <<U8(type), I8(ERR_PID)>> /\ a.err = ERR_PID
    BY <2>1, AnswerParts
  <2>3. U8(type) \in Fields /\ I8(ERR_PID) \in Fields
    <3>1. type \in Int
      BY DEF Skippable
    <3> QED BY <3>1, ByteFields, Errors
  <2>4. a.body \in Seq(Fields)
    BY <2>2, <2>3, WidthTuples
  <2>5. Len(a.body) = 2
    BY <2>2
  <2>6. cmd.op \notin {"Call", "ICall", "Read"}
    BY <1>2 DEF Setters
  <2> QED BY <2>2, <2>4, <2>5, <2>6, Errors DEF Good, a
<1> QED BY <1>1, <1>2

LEMMA AssignOutcomes ==
  ASSUME NEW p \in ParamType, NEW args, NEW cmd, cmd.op \in Setters, TypesAgree(cmd) => cmd.type = p.type,
         Len(args) \in Nat, Len(args) >= 1 => args[1].v = cmd.type,
         NEW a \in Assign(p, args), a.ok
  PROVE  Good(cmd, a)
<1>1. cmd.op \notin {"Get", "IGet"} /\ cmd.op \notin {"Call", "ICall", "Read"}
  BY DEF Setters
<1>2. ~(Len(args) < 2)
  BY FailedAnswer DEF Assign
<1>3. args[1].v = cmd.type
  BY <1>2
<1>4. CASE args[1].v # p.type
  <2>1. a = Answer(<<TypeErrorField>>, ERR_TYPE)
    BY <1>2, <1>4, FailedAnswer DEF Assign
  <2>2. a.body = <<TypeErrorField>> /\ a.err = ERR_TYPE
    BY <2>1, AnswerParts
  <2>3. TypeErrorField \in Fields
    BY Errors DEF TypeErrorField, I32, F, Fields
  <2>4. a.body \in Seq(Fields)
    BY <2>2, <2>3, WidthTuples
  <2>5. Len(a.body) = 1
    BY <2>2
  <2> QED BY <1>1, <1>3, <1>4, <2>2, <2>4, <2>5, Errors DEF Good
<1>5. CASE args[1].v = p.type
  <2>1. PICK e \in Int : a = Answer(<<I8(e)>>, e)
    BY <1>2, <1>5, Errors DEF Assign
  <2> QED BY <1>1, <2>1, CodedAnswer, CodedIsGood
<1> QED BY <1>4, <1>5

LEMMA WriteOutcomes == \A p, args : \A a \in WriteCell(p, args) : Coded(a)
<1> SUFFICES ASSUME NEW p, NEW args, NEW a \in WriteCell(p, args) PROVE Coded(a)
  OBVIOUS
<1>1. a = Failed \/ \E e \in MethodErr(p.set) : a = Answer(<<I8(e)>>, e)
  BY Zenon DEF WriteCell
<1> QED BY <1>1, FailedAnswer, CodedAnswer, Errors

LEMMA ReadOutcomes ==
  ASSUME NEW p \in ParamType, NEW f \in [w : Nat, v : Nat], NEW cmd, cmd.op = "Read", NEW a \in ReadCell(p, <<f>>)
  PROVE  /\ a.ok => Good(cmd, a)
         /\ p.kind = "file" => a.ok /\ Width(a.body) <= CellMax - 6
<1>1. CASE p.kind # "file"
  BY <1>1, FailedAnswer DEF ReadCell
<1>2. CASE p.kind = "file" /\ ~p.get
  <2>1. a = Answer(<<I8(ERR_ACCESS)>>, ERR_ACCESS)
    BY <1>2 DEF ReadCell
  <2>2. Good(cmd, a)
    BY <2>1, CodedAnswer, AnswerParts, CodedIsGood, Errors
  <2>3. Width(a.body) = 1
    <3>1. I8(ERR_ACCESS) \in Fields /\ I8(ERR_ACCESS).w = 1
      BY ByteFields, Errors
    <3>2. a.body = <<I8(ERR_ACCESS)>>
      BY <2>1, AnswerParts
    <3>3. Width(<<I8(ERR_ACCESS)>>) = I8(ERR_ACCESS).w
      BY <3>1, WidthTuples
    <3> QED BY <3>1, <3>2, <3>3
  <2> QED BY <2>1, <2>2, <2>3, AnswerParts, SizeAssumption
<1>3. CASE p.kind = "file" /\ p.get
  <2>1. PICK n \in {0, Min2(f.v, BufferSize)}, e \in MethodErrs : a = Answer(<<F(2 + n, n), I8(e)>>, e)
    BY <1>3 DEF ReadCell
  <2>2. n \in Nat /\ n <= CellMax - 9 /\ e \in Int
    <3>1. f.v \in Nat /\ CellMax \in Nat /\ 9 <= CellMax /\ e \in Int
      BY SizeAssumption, ParamAssumption
    <3> QED BY <2>1, <3>1 DEF Min2, BufferSize
  <2>3. F(2 + n, n) \in Fields /\ F(2 + n, n).w = 2 + n
    BY <2>2 DEF F, Fields
  <2>4. I8(e) \in Fields /\ I8(e).w = 1 /\ FirstByte(I8(e)) = e
    BY <2>2, ByteFields
  <2>5. a.ok /\ a.body = <<F(2 + n, n), I8(e)>> /\ a.err = e
    BY <2>1, AnswerParts
  <2>6. a.body \in Seq(Fields) /\ Width(a.body) = 2 + n + 1
    <3>1. /\ <<F(2 + n, n), I8(e)>> \in Seq(Fields)
          /\ Width(<<F(2 + n, n), I8(e)>>) = F(2 + n, n).w + I8(e).w
      BY <2>3, <2>4, WidthTuples
    <3> QED BY <2>3, <2>4, <2>5, <3>1
  <2>7. Len(a.body) = 2 /\ a.body[2] = I8(e)
    BY <2>5
  <2>8. BodyError(cmd.op, a.body, cmd.type) = e
    BY <2>4, <2>7 DEF BodyError
  <2>9. Good(cmd, a)
    BY <2>2, <2>5, <2>6, <2>7, <2>8 DEF Good
  <2>10. Width(a.body) <= CellMax - 6
    <3>1. CellMax \in Nat
      BY SizeAssumption
    <3> QED BY <2>2, <2>6, <3>1
  <2> QED BY <2>5, <2>9, <2>10
<1> QED BY <1>1, <1>2, <1>3

-----------------------------------------------------------------------------
(* The ten handlers.                                                       *)

Outcome ==
  /\ rpc = "cells" /\ imsg # <<>> /\ UNCHANGED tableVars /\ Counting
  /\ Answers(Head(imsg)) \/ Refuses(Head(imsg))

LEMMA HandlersWith ==
  /\ CallCmdHandler => HandlerWith("Call", 1, CallPIDError(Args(1)), CallCell(Addressed, Given(1)))
  /\ GetCmdHandler => HandlerWith("Get", 1, HandleGetPIDError(Args(1)), GetCell(Addressed, Given(1)))
  /\ SetCmdHandler => HandlerWith("Set", 1, HandleSetPIDError(Args(1)), SetCell(Addressed, Given(1)))
  /\ ICallCmdHandler => HandlerWith("ICall", 2, CallPIDError(Args(2)), CallCellTbl(Addressed, Given(2)))
  /\ IGetCmdHandler => HandlerWith("IGet", 2, HandleGetPIDError(Args(2)), GetCellTbl(Addressed, Given(2)))
  /\ ISetCmdHandler => HandlerWith("ISet", 2, HandleSetPIDError(Args(2)), SetCellTbl(Addressed, Given(2)))
  /\ AddCmdHandler => HandlerWith("Add", 1, HandleSetPIDError(Args(1)), AddCell(Addressed, Given(1)))
  /\ SubCmdHandler => HandlerWith("Sub", 1, HandleSetPIDError(Args(1)), SubCell(Addressed, Given(1)))
  /\ ReadCmdHandler => HandlerWith("Read", 3, HandleGetPIDError(Args(3)), ReadCell(Addressed, Given(3)))
  /\ WriteCmdHandler => HandlerWith("Write", 2, HandleSetPIDError(Args(2)), WriteCell(Addressed, Given(2)))
<1>1. CallCmdHandler => HandlerWith("Call", 1, CallPIDError(Args(1)), CallCell(Addressed, Given(1)))
  BY Zenon DEF CallCmdHandler, CmdHandler, HandlerWith, Args, Given, Addressed
<1>2. GetCmdHandler => HandlerWith("Get", 1, HandleGetPIDError(Args(1)), GetCell(Addressed, Given(1)))
  BY Zenon DEF GetCmdHandler, CmdHandler, HandlerWith, Args, Given, Addressed
<1>3. SetCmdHandler => HandlerWith("Set", 1, HandleSetPIDError(Args(1)), SetCell(Addressed, Given(1)))
  BY Zenon DEF SetCmdHandler, CmdHandler, HandlerWith, Args, Given, Addressed
<1>4. ICallCmdHandler => HandlerWith("ICall", 2, CallPIDError(Args(2)), CallCellTbl(Addressed, Given(2)))
  BY Zenon DEF ICallCmdHandler, CmdHandler, HandlerWith, Args, Given, Addressed
<1>5. IGetCmdHandler => HandlerWith("IGet", 2, HandleGetPIDError(Args(2)), GetCellTbl(Addressed, Given(2)))
  BY Zenon DEF IGetCmdHandler, CmdHandler, HandlerWith, Args, Given, Addressed
<1>6. ISetCmdHandler => HandlerWith("ISet", 2, HandleSetPIDError(Args(2)), SetCellTbl(Addressed, Given(2)))
  BY Zenon DEF ISetCmdHandler, CmdHandler, HandlerWith, Args, Given, Addressed
<1>7. AddCmdHandler => HandlerWith("Add", 1, HandleSetPIDError(Args(1)), AddCell(Addressed, Given(1)))
  BY Zenon DEF AddCmdHandler, CmdHandler, HandlerWith, Args, Given, Addressed
<1>8. SubCmdHandler => HandlerWith("Sub", 1, HandleSetPIDError(Args(1)), SubCell(Addressed, Given(1)))
  BY Zenon DEF SubCmdHandler, CmdHandler, HandlerWith, Args, Given, Addressed
<1>9. ReadCmdHandler => HandlerWith("Read", 3, HandleGetPIDError(Args(3)), ReadCell(Addressed, Given(3)))
  BY Zenon DEF ReadCmdHandler, CmdHandler, HandlerWith, Args, Given, Addressed
<1>10. WriteCmdHandler => HandlerWith("Write", 2, HandleSetPIDError(Args(2)), WriteCell(Addressed, Given(2)))
  BY Zenon DEF WriteCmdHandler, CmdHandler, HandlerWith, Args, Given, Addressed
<1> QED BY <1>1, <1>2, <1>3, <1>4, <1>5, <1>6, <1>7, <1>8, <1>9, <1>10

LEMMA KnownPID ==
  ASSUME InputInv, imsg # <<>>, Len(Head(imsg).fields) >= 1
  PROVE  /\ Head(imsg).fields[1].v \in Nat /\ Len(params) \in Nat
         /\ Head(imsg).fields[1].v >= Len(params) => ~TypesAgree(Head(imsg))
         /\ Head(imsg).fields[1].v < Len(params) =>
              Addressed \in ParamType /\ (TypesAgree(Head(imsg)) => Head(imsg).type = Addressed.type)
<1> DEFINE pid == Head(imsg).fields[1].v
<1>1. pid \in Nat
  <2>1. Head(imsg).fields \in Seq([w : Nat, v : Nat]) /\ 1 \in 1..Len(Head(imsg).fields)
    BY FirstCommand
  <2>2. Head(imsg).fields[1] \in [w : Nat, v : Nat]
    BY <2>1, ElementType
  <2> QED BY <2>2
<1>2. Len(params) \in Nat
  BY DEF InputInv
<1>3. TypesAgree(Head(imsg)) => pid < Len(params) /\ Head(imsg).type = Addressed.type
  BY DEF TypesAgree, Addressed
<1>4. pid < Len(params) => Addressed \in ParamType
  BY AddressedParam
<1> HIDE DEF pid
<1>5. pid >= Len(params) => ~(pid < Len(params))
  BY <1>1, <1>2
<1> QED BY <1>1, <1>2, <1>3, <1>4, <1>5 DEF pid

\* The outcome of a handler all of whose answers are good ones.
LEMMA GoodOutcome ==
  ASSUME InputInv, NEW op, NEW n \in {1, 2, 3}, NEW unknown, NEW outcomes, op # "Read",
         HandlerWith(op, n, unknown, outcomes), Min2(n, 2) = EchoLen(op),
         Head(imsg).fields[1].v >= Len(params) /\ Len(Head(imsg).fields) >= n /\ unknown.ok =>
           Good(Head(imsg), unknown),
         Head(imsg).fields[1].v < Len(params) /\ Len(Head(imsg).fields) >= n =>
           \A a \in outcomes : a.ok => Good(Head(imsg), a)
  PROVE  Outcome
<1>1. imsg \in Seq(Commands) /\ params \in Seq(Params)
  BY DEF InputInv
<1> QED BY <1>1, HandlerOutcome DEF Outcome

LEMMA LongEnough ==
  ASSUME InputInv, imsg # <<>>, NEW n \in {1, 2, 3}, Len(Head(imsg).fields) >= n
  PROVE  Len(Head(imsg).fields) >= 1
<1>1. Len(Head(imsg).fields) \in Nat
  BY FirstCommand
<1> QED BY <1>1

LEMMA CallsHandled ==
  ASSUME InputInv, NEW op \in {"Call", "ICall"}, NEW n \in {1, 2}, n = EchoLen(op), NEW outcomes,
         HandlerWith(op, n, CallPIDError(Args(n)), outcomes), \A a \in outcomes : Coded(a)
  PROVE  Outcome
<1>1. imsg # <<>> /\ Head(imsg).op = op /\ op # "Read"
  BY DEF HandlerWith
<1>2. Min2(n, 2) = EchoLen(op) /\ n \in {1, 2, 3}
  BY DEF Min2
<1>3. Good(Head(imsg), CallPIDError(Args(n)))
  BY <1>1, CallOutcomes, CodedIsGood
<1>4. \A a \in outcomes : a.ok => Good(Head(imsg), a)
  BY <1>1, CodedIsGood
<1> QED BY <1>1, <1>2, <1>3, <1>4, GoodOutcome

LEMMA GetsHandled ==
  ASSUME InputInv, NEW op \in {"Get", "IGet"}, NEW n \in {1, 2}, n = EchoLen(op), NEW outcomes,
         HandlerWith(op, n, HandleGetPIDError(Args(n)), outcomes),
         outcomes \subseteq GetCell(Addressed, Given(n)) \cup GetCellTbl(Addressed, Given(n))
  PROVE  Outcome
<1>1. imsg # <<>> /\ Head(imsg).op = op /\ op # "Read"
  BY DEF HandlerWith
<1>2. Min2(n, 2) = EchoLen(op) /\ n \in {1, 2, 3}
  BY DEF Min2
<1>3. ASSUME Head(imsg).fields[1].v >= Len(params), Len(Head(imsg).fields) >= n, HandleGetPIDError(Args(n)).ok
      PROVE  Good(Head(imsg), HandleGetPIDError(Args(n)))
  <2>1. ~TypesAgree(Head(imsg))
    BY <1>1, <1>3, LongEnough, KnownPID
  <2>2. Head(imsg).op \in {"Get", "IGet", "Read"}
    BY <1>1
  <2> QED BY <1>3, <2>1, <2>2, UnknownPID
<1>4. ASSUME Head(imsg).fields[1].v < Len(params), Len(Head(imsg).fields) >= n, NEW a \in outcomes, a.ok
      PROVE  Good(Head(imsg), a)
  <2>1. Addressed \in ParamType /\ (TypesAgree(Head(imsg)) => Head(imsg).type = Addressed.type)
    BY <1>1, <1>4, LongEnough, KnownPID
  <2>2. a \in GetCell(Addressed, Given(n)) \cup GetCellTbl(Addressed, Given(n))
    OBVIOUS
  <2>3. Head(imsg).op \in {"Get", "IGet"}
    BY <1>1
  <2> QED BY <1>4, <2>1, <2>2, <2>3, GetOutcomes
<1> QED BY <1>1, <1>2, <1>3, <1>4, GoodOutcome

LEMMA SetsHandled ==
  ASSUME InputInv, NEW op \in Setters, NEW n \in {1, 2}, n = EchoLen(op), NEW outcomes,
         HandlerWith(op, n, HandleSetPIDError(Args(n)), outcomes),
         \A a \in outcomes : a.ok => a \in Assign(Addressed, Given(n))
  PROVE  Outcome
<1> DEFINE cmd == Head(imsg)
<1>1. imsg # <<>> /\ cmd.op = op /\ op # "Read"
  BY DEF HandlerWith, Setters
<1>2. Min2(n, 2) = EchoLen(op) /\ n \in {1, 2, 3} /\ Given(n) = Args(n)
  BY DEF Min2, Given
<1>3. ASSUME cmd.fields[1].v >= Len(params), Len(cmd.fields) >= n, HandleSetPIDError(Args(n)).ok
      PROVE  Good(cmd, HandleSetPIDError(Args(n)))
  <2>1. ~TypesAgree(cmd)
    BY <1>1, <1>3, LongEnough, KnownPID
  <2> QED BY <1>1, <1>3, <2>1, UnknownPID
<1>4. ASSUME cmd.fields[1].v < Len(params), Len(cmd.fields) >= n, NEW a \in outcomes, a.ok
      PROVE  Good(cmd, a)
  <2>1. Addressed \in ParamType /\ (TypesAgree(cmd) => cmd.type = Addressed.type)
    BY <1>1, <1>4, LongEnough, KnownPID
  <2>2. /\ Args(n) \in Seq([w : Nat, v : Nat])
        /\ Len(Args(n)) >= 1 => n + 1 \in DOMAIN cmd.fields /\ Args(n)[1] = cmd.fields[n + 1]
    BY <1>1, <1>2, <1>4, GivenArgs
  <2>3. Sent(cmd)
    BY <1>1, FirstCommand
  <2> HIDE DEF cmd
  <2>4. n + 1 \in DOMAIN cmd.fields => cmd.fields[n + 1].v = cmd.type
    BY <1>1, <2>3 DEF Sent
  <2>5. Len(Args(n)) \in Nat /\ (Len(Args(n)) >= 1 => Args(n)[1].v = cmd.type)
    BY <2>2, <2>4
  <2>6. a \in Assign(Addressed, Args(n))
    BY <1>2, <1>4
  <2>7. cmd.op \in Setters
    BY <1>1
  <2> QED BY <1>4, <2>1, <2>5, <2>6, <2>7, AssignOutcomes
<1> QED BY <1>1, <1>2, <1>3, <1>4, GoodOutcome

LEMMA WriteHandled == ASSUME InputInv, WriteCmdHandler PROVE Outcome
<1>1. HandlerWith("Write", 2, HandleSetPIDError(Args(2)), WriteCell(Addressed, Given(2)))
  BY HandlersWith
<1>2. imsg # <<>> /\ Head(imsg).op = "Write"
  BY <1>1 DEF HandlerWith
<1>3. Min2(2, 2) = EchoLen("Write")
  BY DEF Min2, EchoLen
<1>4. ASSUME Head(imsg).fields[1].v >= Len(params), Len(Head(imsg).fields) >= 2, HandleSetPIDError(Args(2)).ok
      PROVE  Good(Head(imsg), HandleSetPIDError(Args(2)))
  <2>1. ~TypesAgree(Head(imsg))
    BY <1>2, <1>4, LongEnough, KnownPID
  <2> QED BY <1>2, <1>4, <2>1, UnknownPID
<1>5. \A a \in WriteCell(Addressed, Given(2)) : a.ok => Good(Head(imsg), a)
  BY <1>2, WriteOutcomes, CodedIsGood
<1> QED BY <1>1, <1>3, <1>4, <1>5, GoodOutcome

LEMMA ReadHandled == ASSUME InputInv, ReadCmdHandler PROVE Outcome
<1> DEFINE cmd == Head(imsg)
<1>1. HandlerWith("Read", 3, HandleGetPIDError(Args(3)), ReadCell(Addressed, Given(3)))
  BY HandlersWith
<1>2. imsg # <<>> /\ cmd.op = "Read"
  BY <1>1 DEF HandlerWith
<1>3. Min2(3, 2) = EchoLen("Read")
  BY DEF Min2, EchoLen
<1> HIDE DEF cmd
<1>4. ASSUME Len(cmd.fields) >= 3
      PROVE  /\ cmd.fields \in Seq([w : Nat, v : Nat]) /\ 1 \in 1..Len(cmd.fields) /\ 2 \in 1..Len(cmd.fields)
             /\ 2 \in 0..Len(cmd.fields) /\ 3 \in 1..Len(cmd.fields) /\ Len(cmd.fields) >= 1
  <2>1. cmd.fields \in Seq([w : Nat, v : Nat])
    BY <1>2, FirstCommand DEF cmd
  <2>2. Len(cmd.fields) \in Nat
    BY <2>1
  <2> QED BY <1>4, <2>1, <2>2
<1>5. ASSUME cmd.fields[1].v >= Len(params), Len(cmd.fields) >= 3, HandleGetPIDError(Args(3)).ok
      PROVE  Good(cmd, HandleGetPIDError(Args(3)))
  <2>1. ~TypesAgree(cmd)
    BY <1>2, <1>4, <1>5, KnownPID DEF cmd
  <2> QED BY <1>2, <1>5, <2>1, UnknownPID
<1>6. ASSUME Len(cmd.fields) >= 3 PROVE Width(Echo(cmd)) = 6
  <2>1. Sent(cmd)
    BY <1>2, FirstCommand DEF cmd
  <2>2. cmd.fields[1].w = 2 /\ cmd.fields[2].w = 4
    <3>1. 1 \in DOMAIN cmd.fields /\ 2 \in DOMAIN cmd.fields
      BY <1>4, <1>6
    <3> QED BY <1>2, <2>1, <3>1 DEF Sent
  <2>3. cmd.fields[1] \in Fields /\ cmd.fields[2] \in Fields
    <3>1. cmd.fields[1] \in [w : Nat, v : Nat] /\ cmd.fields[2] \in [w : Nat, v : Nat]
      BY <1>4, <1>6, ElementType
    <3> QED BY <3>1 DEF Fields
  <2>4. Echo(cmd) = <<cmd.fields[1], cmd.fields[2]>>
    <3> DEFINE s == SubSeq(cmd.fields, 1, 2)
    <3>1. s \in Seq([w : Nat, v : Nat]) /\ Len(s) = 2 /\ \A i \in 1..2 : s[i] = cmd.fields[i]
      BY <1>4, <1>6, Beginning
    <3>2. Echo(cmd) = s
      BY <1>2 DEF Echo, EchoLen
    <3> HIDE DEF s
    <3>3. s = <<s[1], s[2]>>
      BY <3>1
    <3> QED BY <3>1, <3>2, <3>3
  <2>5. Width(<<cmd.fields[1], cmd.fields[2]>>) = cmd.fields[1].w + cmd.fields[2].w
    BY <2>3, WidthTuples
  <2> QED BY <2>2, <2>4, <2>5
<1>7. ASSUME cmd.fields[1].v < Len(params), Len(cmd.fields) >= 3, NEW a \in ReadCell(Addressed, Given(3))
      PROVE  /\ a.ok => Good(cmd, a)
             /\ Addressed.kind = "file" => a.ok /\ Width(Echo(cmd)) + Width(a.body) <= CellMax
  <2>1. Addressed \in ParamType
    BY <1>2, <1>4, <1>7, KnownPID DEF cmd
  <2>2. Given(3) = <<cmd.fields[3]>> /\ cmd.fields[3] \in [w : Nat, v : Nat]
    BY <1>4, <1>7, ElementType DEF Given, cmd
  <2>3. /\ a.ok => Good(cmd, a)
        /\ Addressed.kind = "file" => a.ok /\ Width(a.body) <= CellMax - 6
    BY <1>2, <1>7, <2>1, <2>2, ReadOutcomes
  <2>4. ASSUME Addressed.kind = "file" PROVE Width(Echo(cmd)) + Width(a.body) <= CellMax
    <3>1. Good(cmd, a) /\ Width(a.body) <= CellMax - 6
      BY <2>3, <2>4
    <3>2. Width(a.body) \in Nat
      BY <3>1, WidthType DEF Good
    <3>3. CellMax \in Nat
      BY SizeAssumption
    <3> QED BY <1>6, <1>7, <3>1, <3>2, <3>3
  <2> QED BY <2>3, <2>4
<1>8. imsg \in Seq(Commands) /\ params \in Seq(Params)
  BY DEF InputInv
<1> QED BY <1>1, <1>3, <1>5, <1>7, <1>8, HandlerOutcome DEF cmd, Outcome, Addressed

LEMMA HandlersOutcome ==
  ASSUME InputInv,
         CallCmdHandler \/ GetCmdHandler \/ SetCmdHandler \/ ICallCmdHandler \/ IGetCmdHandler \/ ISetCmdHandler
           \/ AddCmdHandler \/ SubCmdHandler \/ ReadCmdHandler \/ WriteCmdHandler
  PROVE  Outcome
<1>1. CASE CallCmdHandler \/ ICallCmdHandler
  BY <1>1, HandlersWith, CallsHandled, CallOutcomes DEF EchoLen
<1>2. CASE GetCmdHandler \/ IGetCmdHandler
  BY <1>2, HandlersWith, GetsHandled DEF EchoLen
<1>3. CASE SetCmdHandler \/ ISetCmdHandler \/ AddCmdHandler \/ SubCmdHandler
  <2>1. \A args : \A a \in SetCell(Addressed, args) \cup SetCellTbl(Addressed, args) \cup AddCell(Addressed, args)
                             \cup SubCell(Addressed, args) : a.ok => a \in Assign(Addressed, args)
    BY FailedAnswer DEF SetCell, SetCellTbl, AddCell, SubCell
  <2> QED BY <1>3, <2>1, HandlersWith, SetsHandled DEF EchoLen, Setters
<1>4. CASE ReadCmdHandler \/ WriteCmdHandler
  BY <1>4, ReadHandled, WriteHandled
<1> QED BY <1>1, <1>2, <1>3, <1>4

LEMMA UnknownOpcodeOutcome == ASSUME InputInv, UnknownOpcode PROVE Outcome
<1>1. "opcodeerr" \in Results \ {"replied", "dropped"} /\ 0 \in Int /\ "opcodeerr" \in Counters /\ "Read" \in Ops
  BY DEF Results, Counters, Ops
<1>2. Refuses(Head(imsg))
  BY <1>1 DEF UnknownOpcode, Refuses
<1>3. Counting
  BY <1>1, BumpCounts DEF UnknownOpcode
<1> QED BY <1>2, <1>3 DEF UnknownOpcode, Outcome

-----------------------------------------------------------------------------
(* The inductive invariant.                                                *)

\* What the control thread holds: the commands to come, the reply and the record of the commands consumed.
ThreadInv ==
  /\ InputInv
  /\ rpc \in {"recv", "cells", "aborted"}
  /\ omsg \in [cells : Seq([op : STRING, fields : Seq(Fields)]), len : 0..MsgMax]
  /\ handled \in Seq([cmd : Commands, result : Results, err : Int])

\* The first cell of a message finds room for its answer, and a file for its read.
FirstAnswered ==
  handled # <<>> =>
    /\ handled[1].result # "dropped"
    /\ handled[1].cmd.op = "Read" /\ handled[1].result = "interr" =>
         Param[params[handled[1].cmd.fields[1].v + 1]].kind # "file"

\* Nothing is received before Start, so the table no command is read by can change.
NotBefore == ~started => handled = <<>> /\ rpc = "recv"

IInv ==
  /\ TableInv /\ scenario \in DOMAIN Scenarios /\ count \in [Counters -> Nat]
  /\ ThreadInv
  /\ RepliesMatchCommands /\ ErrorReported
  /\ FirstAnswered /\ NotBefore

-----------------------------------------------------------------------------
(* The reply message grows by one answer.                                  *)

Cells == [op : STRING, fields : Seq(Fields)]
Handling == [cmd : Commands, result : Results, err : Int]
Lengths(cells) == [i \in DOMAIN cells |-> Overhead + Width(cells[i].fields)]

LEMMA LengthsOf ==
  ASSUME NEW cells \in Seq(Cells)
  PROVE  Lengths(cells) \in Seq(Nat) /\ Len(Lengths(cells)) = Len(cells)
<1> DEFINE n == Len(cells)
           g == [i \in 1..n |-> Overhead + Width(cells[i].fields)]
<1>1. n \in Nat /\ DOMAIN cells = 1..n /\ \A i \in 1..n : cells[i] \in Cells
  OBVIOUS
<1>2. \A i \in 1..n : Overhead + Width(cells[i].fields) \in Nat
  <2> TAKE i \in 1..n
  <2>1. cells[i].fields \in Seq(Fields)
    BY <1>1 DEF Cells
  <2>2. Width(cells[i].fields) \in Nat
    BY <2>1, WidthType
  <2> QED BY <2>2 DEF Overhead
<1>3. g \in [1..n -> Nat]
  BY <1>2
<1>4. g \in Seq(Nat) /\ Len(g) = n
  <2> HIDE DEF g, n
  <2> QED BY <1>1, <1>3
<1> QED BY <1>1, <1>4 DEF Lengths

LEMMA LengthsAppend ==
  ASSUME NEW cells \in Seq(Cells), NEW c \in Cells
  PROVE  Total(Lengths(Append(cells, c))) = Total(Lengths(cells)) + (Overhead + Width(c.fields))
<1> DEFINE ls == Lengths(cells)
           l == Overhead + Width(c.fields)
           xs == Lengths(Append(cells, c))
<1>1. ls \in Seq(Nat) /\ Len(ls) = Len(cells) /\ Len(cells) \in Nat
  BY LengthsOf
<1>2. l \in Nat
  <2>1. Width(c.fields) \in Nat
    BY WidthType DEF Cells
  <2> QED BY <2>1 DEF Overhead
<1>3. Append(cells, c) \in Seq(Cells) /\ Len(Append(cells, c)) = Len(cells) + 1
  OBVIOUS
<1>4. xs \in Seq(Nat) /\ Len(xs) = Len(cells) + 1
  BY <1>3, LengthsOf
<1>5. Append(ls, l) \in Seq(Nat) /\ Len(Append(ls, l)) = Len(cells) + 1
  <2> HIDE DEF ls, l
  <2> QED BY <1>1, <1>2
<1>6. ASSUME NEW i \in 1..(Len(cells) + 1) PROVE xs[i] = Append(ls, l)[i]
  <2>1. xs[i] = Overhead + Width(Append(cells, c)[i].fields)
    BY <1>3 DEF Lengths
  <2>2. CASE i = Len(cells) + 1
    <3>1. Append(cells, c)[i] = c
      BY <2>2
    <3>2. Append(ls, l)[i] = l
      <4> HIDE DEF ls, l
      <4> QED BY <1>1, <2>2
    <3> QED BY <2>1, <3>1, <3>2
  <2>3. CASE i # Len(cells) + 1
    <3>1. i \in 1..Len(cells) /\ i \in DOMAIN cells
      BY <1>1, <2>3
    <3>2. Append(cells, c)[i] = cells[i]
      BY <3>1
    <3>3. Append(ls, l)[i] = ls[i]
      <4> HIDE DEF ls, l
      <4> QED BY <1>1, <3>1
    <3>4. ls[i] = Overhead + Width(cells[i].fields)
      BY <3>1 DEF Lengths
    <3> QED BY <2>1, <3>2, <3>3, <3>4
  <2> QED BY <2>2, <2>3
<1>7. xs = Append(ls, l)
  <2> HIDE DEF xs, ls, l
  <2> QED BY <1>4, <1>5, <1>6
<1>8. Total(Append(ls, l)) = Total(ls) + l
  <2> HIDE DEF ls, l
  <2> QED BY <1>1, <1>2, TotalAppend
<1> QED BY <1>7, <1>8

\* The place of an element in a set of indices does not change when a greater one is added.
Rank(A, i) == Cardinality({j \in A : j <= i})

LEMMA RankExtended ==
  ASSUME NEW n \in Nat, NEW A \in SUBSET (1..n)
  PROVE  /\ IsFiniteSet(A) /\ Cardinality(A) \in Nat /\ n + 1 \notin A
         /\ \A i \in A : Rank(A, i) \in 1..Cardinality(A) /\ Rank(A \cup {n + 1}, i) = Rank(A, i)
         /\ Cardinality(A \cup {n + 1}) = Cardinality(A) + 1
         /\ Rank(A \cup {n + 1}, n + 1) = Cardinality(A) + 1
<1>1. IsFiniteSet(A) /\ Cardinality(A) \in Nat
  <2>1. IsFiniteSet(1..n)
    BY FS_Interval
  <2> QED BY <2>1, FS_Subset, FS_CardinalityType
<1>2. n + 1 \notin A
  OBVIOUS
<1>3. Cardinality(A \cup {n + 1}) = Cardinality(A) + 1
  BY <1>1, <1>2, FS_AddElement
<1>4. ASSUME NEW i \in A PROVE Rank(A, i) \in 1..Cardinality(A) /\ Rank(A \cup {n + 1}, i) = Rank(A, i)
  <2> DEFINE T == {j \in A : j <= i}
  <2>1. i \in 1..n /\ T \subseteq A /\ i \in T
    OBVIOUS
  <2>2. {j \in A \cup {n + 1} : j <= i} = T
    BY <2>1
  <2> HIDE DEF T
  <2>3. IsFiniteSet(T) /\ Cardinality(T) \in Nat /\ Cardinality(T) <= Cardinality(A)
    BY <1>1, <2>1, FS_Subset, FS_CardinalityType
  <2>4. Cardinality(T) # 0
    BY <2>1, <2>3, FS_EmptySet
  <2>5. Cardinality(T) \in 1..Cardinality(A)
    BY <1>1, <2>3, <2>4
  <2> QED BY <2>2, <2>5 DEF Rank, T
<1>5. {j \in A \cup {n + 1} : j <= n + 1} = A \cup {n + 1}
  <2>1. \A j \in A \cup {n + 1} : j <= n + 1
    OBVIOUS
  <2> QED BY <2>1
<1> QED BY <1>1, <1>2, <1>3, <1>4, <1>5 DEF Rank

\* A command and its answer in the reply message, given the parameter table.
Agreeing(table, cmd) ==
  /\ cmd.fields[1].v < Len(table)
  /\ cmd.type = Param[table[cmd.fields[1].v + 1]].type

Answering(table, h, reply) ==
  /\ reply.op = h.cmd.op
  /\ SubSeq(reply.fields, 1, EchoLen(h.cmd.op)) = SubSeq(h.cmd.fields, 1, EchoLen(h.cmd.op))
  /\ Len(reply.fields) \in (EchoLen(h.cmd.op) + 1)..(EchoLen(h.cmd.op) + 3)
  /\ Agreeing(table, h.cmd) \/ h.cmd.op \in {"Call", "ICall", "Read"} => ClientError(reply, h.cmd.type) = h.err

Replied(record) == {i \in DOMAIN record : record[i].result = "replied"}

Matching(table, record, cells, len) ==
  /\ Len(cells) = Cardinality(Replied(record))
  /\ len = Total(Lengths(cells))
  /\ \A i \in Replied(record) : Answering(table, record[i], cells[Rank(Replied(record), i)])

LEMMA MatchingMeans == RepliesMatchCommands /\ ErrorReported <=> Matching(params, handled, omsg.cells, omsg.len)
BY Zenon DEF RepliesMatchCommands, ErrorReported, Matching, Answering, Agreeing, TypesAgree, Reported, Place, Rank,
             Lengths, Answered, Replied

LEMMA MatchingMeansNext == (RepliesMatchCommands /\ ErrorReported)' <=> Matching(params, handled, omsg.cells, omsg.len)'
BY MatchingMeans, PTL

LEMMA RepliedAppend ==
  ASSUME NEW record \in Seq(Handling), NEW h \in Handling
  PROVE  /\ Replied(record) \in SUBSET (1..Len(record)) /\ Len(record) \in Nat
         /\ Replied(Append(record, h)) =
              IF h.result = "replied" THEN Replied(record) \cup {Len(record) + 1} ELSE Replied(record)
         /\ \A i \in Replied(record) : Append(record, h)[i] = record[i]
         /\ Append(record, h)[Len(record) + 1] = h
<1> DEFINE n == Len(record)
           R == Append(record, h)
<1>1. n \in Nat /\ DOMAIN record = 1..n /\ DOMAIN R = 1..(n + 1)
  OBVIOUS
<1>2. R[n + 1] = h /\ \A i \in 1..n : R[i] = record[i]
  OBVIOUS
<1> HIDE DEF R, n
<1>3. Replied(record) = {i \in 1..n : record[i].result = "replied"}
  BY <1>1 DEF Replied
<1>4. Replied(R) = {i \in 1..(n + 1) : R[i].result = "replied"}
  BY <1>1 DEF Replied
<1>5. 1..(n + 1) = 1..n \cup {n + 1}
  BY <1>1
<1>6. Replied(R) = IF h.result = "replied" THEN Replied(record) \cup {n + 1} ELSE Replied(record)
  BY <1>2, <1>3, <1>4, <1>5
<1> QED BY <1>1, <1>2, <1>3, <1>6 DEF n, R

LEMMA Unanswered ==
  ASSUME NEW table, NEW record \in Seq(Handling), NEW h \in Handling, h.result # "replied", NEW cells, NEW len,
         Matching(table, record, cells, len)
  PROVE  Matching(table, Append(record, h), cells, len)
<1>1. Replied(Append(record, h)) = Replied(record)
  BY RepliedAppend
<1>2. \A i \in Replied(record) : Append(record, h)[i] = record[i]
  BY RepliedAppend
<1> QED BY <1>1, <1>2 DEF Matching

LEMMA AnswerAppended ==
  ASSUME NEW table, NEW record \in Seq(Handling), NEW h \in Handling, h.result = "replied",
         NEW cells \in Seq(Cells), NEW c \in Cells, NEW len, Matching(table, record, cells, len), Answering(table, h, c)
  PROVE  Matching(table, Append(record, h), Append(cells, c), len + (Overhead + Width(c.fields)))
<1> DEFINE A == Replied(record)
           B == Replied(Append(record, h))
           n == Len(record)
           R == Append(record, h)
           C == Append(cells, c)
<1>1. /\ A \in SUBSET (1..n) /\ n \in Nat /\ B = A \cup {n + 1}
      /\ \A i \in A : R[i] = record[i]
      /\ R[n + 1] = h
  BY RepliedAppend
<1>2. /\ Cardinality(A) \in Nat /\ n + 1 \notin A
      /\ \A i \in A : Rank(A, i) \in 1..Cardinality(A) /\ Rank(A \cup {n + 1}, i) = Rank(A, i)
      /\ Cardinality(A \cup {n + 1}) = Cardinality(A) + 1
      /\ Rank(A \cup {n + 1}, n + 1) = Cardinality(A) + 1
  <2> HIDE DEF A, n
  <2>1. n \in Nat /\ A \in SUBSET (1..n)
    BY <1>1
  <2> QED BY Zenon, <2>1, RankExtended
<1>3. /\ Len(cells) = Cardinality(A) /\ len = Total(Lengths(cells))
      /\ \A i \in A : Answering(table, record[i], cells[Rank(A, i)])
  BY DEF Matching
<1>4. Len(C) = Len(cells) + 1 /\ C[Len(cells) + 1] = c /\ \A k \in 1..Len(cells) : C[k] = cells[k]
  OBVIOUS
<1>5. Total(Lengths(C)) = len + (Overhead + Width(c.fields))
  BY <1>3, LengthsAppend
<1> HIDE DEF A, B, n, R, C
<1>6. Len(C) = Cardinality(B)
  BY <1>1, <1>2, <1>3, <1>4
<1>7. ASSUME NEW i \in B PROVE Answering(table, R[i], C[Rank(B, i)])
  <2>1. CASE i = n + 1
    <3>1. R[i] = h /\ Rank(B, i) = Len(cells) + 1
      BY <1>1, <1>2, <1>3, <2>1
    <3>2. C[Rank(B, i)] = c
      BY <1>4, <3>1
    <3> QED BY <3>1, <3>2
  <2>2. CASE i \in A
    <3>1. R[i] = record[i] /\ Rank(B, i) = Rank(A, i) /\ Rank(A, i) \in 1..Len(cells)
      BY <1>1, <1>2, <1>3, <2>2
    <3>2. C[Rank(B, i)] = cells[Rank(A, i)]
      BY <1>4, <3>1
    <3> QED BY <1>3, <2>2, <3>1, <3>2
  <2> QED BY <1>1, <2>1, <2>2
<1> QED BY <1>5, <1>6, <1>7 DEF Matching, B, C, R

LEMMA NothingAnswered == \A table : Matching(table, <<>>, <<>>, 0)
<1>1. Replied(<<>>) = {}
  BY DEF Replied
<1>2. Cardinality({}) = 0 /\ Len(<<>>) = 0
  BY FS_EmptySet
<1>3. Lengths(<<>>) = <<>>
  BY DEF Lengths
<1> QED BY <1>1, <1>2, <1>3, TotalEmpty DEF Matching

\* An empty record goes with an empty reply.
LEMMA EmptyReply ==
  ASSUME NEW table, NEW cells \in Seq(Cells), NEW len, Matching(table, <<>>, cells, len)
  PROVE  len = 0
<1>1. Replied(<<>>) = {}
  BY DEF Replied
<1>2. Len(cells) = 0
  BY <1>1, FS_EmptySet DEF Matching
<1>3. cells = <<>>
  BY <1>2
<1>4. Lengths(<<>>) = <<>>
  BY DEF Lengths
<1> QED BY <1>3, <1>4, TotalEmpty DEF Matching

-----------------------------------------------------------------------------
(* Every step preserves the invariant.                                     *)

LEMMA OneToThree == \A n \in Nat, k \in 1..3 : k >= 1 /\ n + k \in (n + 1)..(n + 3)
OBVIOUS

LEMMA ConcatParts ==
  ASSUME NEW S, NEW s \in Seq(S), NEW t \in Seq(S), Len(s) >= 1, Len(t) >= 1
  PROVE  /\ Len(s \o t) = Len(s) + Len(t)
         /\ SubSeq(s \o t, 1, Len(s)) = s
         /\ SubSeq(s \o t, Len(s) + 1, Len(s \o t)) = t
<1> DEFINE m == Len(s)
           n == Len(t)
           lo == m + 1
           hi == m + n
<1>1. m \in Nat /\ n \in Nat /\ m >= 1 /\ n >= 1 /\ Len(s \o t) = hi
  OBVIOUS
<1>2. lo \in m + 1..m + n /\ hi \in m + 1..m + n /\ lo - m = 1 /\ hi - m = n /\ 1 \in 1..m /\ m \in 1..m
  <2> HIDE DEF m, n
  <2> QED BY <1>1
<1>3. SubSeq(s \o t, 1, m) = SubSeq(s, 1, m)
  BY <1>2, SubSeqOfConcat1
<1>4. SubSeq(s \o t, lo, hi) = SubSeq(t, lo - m, hi - m)
  <2>1. lo \in Len(s) + 1..Len(s) + Len(t) /\ hi \in Len(s) + 1..Len(s) + Len(t)
    BY <1>2
  <2> HIDE DEF lo, hi
  <2> QED BY <2>1, SubSeqOfConcat2
<1>5. SubSeq(s, 1, m) = s /\ SubSeq(t, 1, n) = t
  BY SubSeqFull
<1> HIDE DEF m, n, lo, hi
<1>6. SubSeq(s \o t, lo, hi) = t
  BY <1>2, <1>4, <1>5
<1> QED BY <1>1, <1>3, <1>5, <1>6 DEF m, n, lo, hi

LEMMA FieldsParts ==
  \A s, t \in Seq(Fields) :
    Len(s) >= 1 /\ Len(t) >= 1 =>
      /\ Len(s \o t) = Len(s) + Len(t)
      /\ SubSeq(s \o t, 1, Len(s)) = s
      /\ SubSeq(s \o t, Len(s) + 1, Len(s \o t)) = t
BY ConcatParts

LEMMA EchoedAnswer ==
  ASSUME NEW cmd \in Commands, Len(cmd.fields) >= EchoLen(cmd.op), NEW a, Good(cmd, a),
         NEW c, c = [op |-> cmd.op, fields |-> Echo(cmd) \o a.body]
  PROVE  /\ c \in Cells /\ Width(c.fields) = Width(Echo(cmd)) + Width(a.body)
         /\ Answering(params, [cmd |-> cmd, result |-> "replied", err |-> a.err], c)
<1> DEFINE n == EchoLen(cmd.op)
           e == Echo(cmd)
           b == a.body
           h == [cmd |-> cmd, result |-> "replied", err |-> a.err]
<1>1. n \in 1..3 /\ n \in Nat
  BY DEF EchoLen
<1>2. cmd.op \in STRING /\ cmd.fields \in Seq([w : Nat, v : Nat]) /\ Len(cmd.fields) \in Nat
  BY DEF Commands
<1>3. n \in 0..Len(cmd.fields)
  <2> HIDE DEF n
  <2>1. Len(cmd.fields) >= n
    BY DEF n
  <2> QED BY <1>1, <1>2, <2>1
<1>4. e \in Seq(Fields) /\ Len(e) = n
  <2>1. e = SubSeq(cmd.fields, 1, n)
    BY DEF Echo
  <2>2. SubSeq(cmd.fields, 1, n) \in Seq([w : Nat, v : Nat]) /\ Len(SubSeq(cmd.fields, 1, n)) = n
    <3> HIDE DEF n
    <3> QED BY <1>2, <1>3, Beginning
  <2>3. [w : Nat, v : Nat] \subseteq Fields
    BY DEF Fields
  <2>4. \A s \in Seq([w : Nat, v : Nat]) : s \in Seq(Fields)
    BY <2>3, SeqMonotonic
  <2> QED BY <2>1, <2>2, <2>4
<1>5. b \in Seq(Fields) /\ Len(b) \in 1..3
  BY DEF Good
<1>6. c.op = cmd.op /\ c.fields = e \o b /\ c \in Cells
  <2>1. e \o b \in Seq(Fields)
    <3> HIDE DEF e, b
    <3> QED BY <1>4, <1>5
  <2> QED BY <1>2, <2>1 DEF Cells
<1>7. Width(c.fields) = Width(e) + Width(b)
  <2> HIDE DEF e, b
  <2> QED BY <1>4, <1>5, <1>6, WidthConcat
<1>8. /\ Len(c.fields) = n + Len(b)
      /\ SubSeq(c.fields, 1, n) = e
      /\ SubSeq(c.fields, n + 1, Len(c.fields)) = b
  <2> HIDE DEF e, b, n
  <2>1. Len(e) >= 1 /\ Len(b) >= 1
    BY <1>1, <1>4, <1>5, OneToThree
  <2>2. /\ Len(e \o b) = Len(e) + Len(b)
        /\ SubSeq(e \o b, 1, Len(e)) = e
        /\ SubSeq(e \o b, Len(e) + 1, Len(e \o b)) = b
    BY Zenon, <1>4, <1>5, <2>1, FieldsParts
  <2> QED BY <1>4, <1>6, <2>2
<1>9. Len(c.fields) \in (n + 1)..(n + 3)
  <2>1. Len(c.fields) = n + Len(b)
    BY <1>8
  <2>2. n + Len(b) \in (n + 1)..(n + 3)
    BY <1>1, <1>5, OneToThree
  <2> QED BY <2>1, <2>2
<1>10. ClientError(c, cmd.type) = BodyError(cmd.op, b, cmd.type)
  BY <1>6, <1>8 DEF ClientError, BodyError
<1>11. Agreeing(params, cmd) \/ cmd.op \in {"Call", "ICall", "Read"} => ClientError(c, cmd.type) = a.err
  BY <1>10 DEF Good, TypesAgree, Agreeing
<1>12. h.cmd = cmd /\ h.err = a.err
  OBVIOUS
<1>13. Answering(params, h, c)
  <2> HIDE DEF h
  <2> QED BY <1>6, <1>8, <1>9, <1>11, <1>12 DEF Answering, Echo
<1> QED BY <1>6, <1>7, <1>13

\* The invariant of the control thread and the reply, of which the handlers preserve each part.
LoopInv == ThreadInv /\ Matching(params, handled, omsg.cells, omsg.len) /\ FirstAnswered /\ NotBefore

LEMMA InputConsumed == ASSUME InputInv, imsg # <<>>, imsg' = Tail(imsg), params' = params PROVE InputInv'
<1>1. params \in Seq(Params) /\ imsg \in Seq(Commands) /\ \A k \in 1..Len(imsg) : Sent(imsg[k])
  BY DEF InputInv
<1>2. Tail(imsg) \in Seq(Commands) /\ Len(imsg) \in Nat /\ Len(Tail(imsg)) = Len(imsg) - 1
      /\ \A k \in 1..Len(Tail(imsg)) : Tail(imsg)[k] = imsg[k + 1]
  BY <1>1, HeadTailProperties
<1>3. \A k \in 1..Len(Tail(imsg)) : Sent(Tail(imsg)[k])
  <2> TAKE k \in 1..Len(Tail(imsg))
  <2>1. k + 1 \in 1..Len(imsg)
    BY <1>2
  <2> QED BY <1>1, <1>2, <2>1
<1>4. DOMAIN Tail(imsg) = 1..Len(Tail(imsg))
  BY <1>2
<1>5. params' \in Seq(Params) /\ imsg' \in Seq(Commands) /\ \A k \in DOMAIN imsg' : Sent(imsg'[k])
  BY <1>1, <1>2, <1>3, <1>4
<1> QED BY <1>5 DEF InputInv

LEMMA FirstKept ==
  ASSUME FirstAnswered, handled \in Seq(Handling), handled # <<>>, NEW h, handled' = Append(handled, h),
         params' = params
  PROVE  FirstAnswered'
<1>1. handled'[1] = handled[1]
  OBVIOUS
<1>2. /\ handled[1].result # "dropped"
      /\ handled[1].cmd.op = "Read" /\ handled[1].result = "interr" =>
           Param[params[handled[1].cmd.fields[1].v + 1]].kind # "file"
  BY DEF FirstAnswered
<1> QED BY <1>1, <1>2 DEF FirstAnswered

LEMMA ThreadNext ==
  ASSUME InputInv', rpc' \in {"cells", "aborted"}, handled' \in Seq(Handling),
         omsg' = [cells |-> omsg'.cells, len |-> omsg'.len], omsg'.cells \in Seq(Cells), omsg'.len \in 0..MsgMax
  PROVE  ThreadInv'
<1>1. omsg' \in [cells : Seq(Cells), len : 0..MsgMax]
  OBVIOUS
<1> QED BY <1>1 DEF ThreadInv, Cells, Handling

LEMMA ThreadTypes ==
  ASSUME ThreadInv
  PROVE  /\ InputInv /\ handled \in Seq(Handling) /\ omsg = [cells |-> omsg.cells, len |-> omsg.len]
         /\ omsg.cells \in Seq(Cells) /\ omsg.len \in 0..MsgMax
<1>1. omsg \in [cells : Seq(Cells), len : 0..MsgMax]
  BY DEF ThreadInv, Cells
<1> QED BY <1>1 DEF ThreadInv, Handling

LEMMA RefusesStep ==
  ASSUME LoopInv, rpc = "cells", imsg # <<>>, UNCHANGED tableVars, Refuses(Head(imsg))
  PROVE  LoopInv'
<1> DEFINE cmd == Head(imsg)
<1>1. PICK r \in Results \ {"replied", "dropped"}, e \in Int :
        /\ NoReply(r, e)
        /\ cmd.op = "Read" /\ r = "interr" => Param[params[cmd.fields[1].v + 1]].kind # "file"
  BY DEF Refuses
<1> DEFINE h == [cmd |-> cmd, result |-> r, err |-> e]
<1>2. imsg' = Tail(imsg) /\ handled' = Append(handled, h) /\ UNCHANGED <<rpc, omsg>>
  BY <1>1 DEF NoReply, Consumed
<1>3. params' = params /\ started' = started
  BY DEF tableVars
<1>4. ThreadInv /\ Matching(params, handled, omsg.cells, omsg.len) /\ FirstAnswered /\ NotBefore
  BY DEF LoopInv
<1>5. h \in Handling /\ h.result \notin {"replied", "dropped"} /\ h.result = r /\ h.cmd = cmd
  <2>1. cmd \in Commands
    BY <1>4, FirstCommand, ThreadTypes
  <2> HIDE DEF cmd
  <2> QED BY <1>1, <2>1 DEF Handling
<1>6. ThreadInv'
  <2>1. InputInv'
    BY <1>2, <1>3, <1>4, InputConsumed, ThreadTypes
  <2>2. handled' \in Seq(Handling)
    <3> HIDE DEF h
    <3> QED BY <1>2, <1>4, <1>5, ThreadTypes
  <2> QED BY <1>2, <1>4, <2>1, <2>2, ThreadNext, ThreadTypes
<1>7. Matching(params, handled, omsg.cells, omsg.len)'
  <2>1. Matching(params, Append(handled, h), omsg.cells, omsg.len)
    <3> HIDE DEF h
    <3> QED BY <1>4, <1>5, Unanswered, ThreadTypes
  <2> QED BY <1>2, <1>3, <2>1
<1>8. FirstAnswered'
  <2>1. CASE handled # <<>>
    <3> HIDE DEF h
    <3> QED BY <1>2, <1>3, <1>4, <2>1, FirstKept, ThreadTypes
  <2>2. CASE handled = <<>>
    <3>1. handled'[1] = h
      <4> HIDE DEF h
      <4> QED BY <1>2, <2>2
    <3>2. h.cmd.op = "Read" /\ h.result = "interr" => Param[params[h.cmd.fields[1].v + 1]].kind # "file"
      BY <1>1
    <3> HIDE DEF h
    <3> QED BY <1>3, <1>5, <3>1, <3>2 DEF FirstAnswered
  <2> QED BY <2>1, <2>2
<1>9. NotBefore'
  BY <1>3, <1>4 DEF NotBefore
<1> QED BY <1>6, <1>7, <1>8, <1>9 DEF LoopInv

LEMMA AnswersStep ==
  ASSUME LoopInv, rpc = "cells", imsg # <<>>, UNCHANGED tableVars, Answers(Head(imsg))
  PROVE  LoopInv'
<1> DEFINE cmd == Head(imsg)
<1>1. PICK a : /\ Good(cmd, a)
               /\ Len(cmd.fields) >= EchoLen(cmd.op)
               /\ ocell' = [op |-> cmd.op, fields |-> Echo(cmd) \o a.body]
               /\ Width(Echo(cmd)) + Width(a.body) <= CellMax
               /\ WriteReply(a.err)
  BY DEF Answers
<1> DEFINE c == ocell'
           w == Overhead + Width(c.fields)
           fits == w <= MsgMax - omsg.len
           h == [cmd |-> cmd, result |-> IF fits THEN "replied" ELSE "dropped", err |-> a.err]
<1>2. /\ imsg' = Tail(imsg) /\ handled' = Append(handled, h)
      /\ rpc' \in {rpc, "aborted"}
      /\ omsg' = IF fits THEN [cells |-> Append(omsg.cells, c), len |-> omsg.len + w] ELSE omsg
  BY <1>1, Zenon DEF WriteReply, Consumed
<1>3. params' = params /\ started' = started
  BY DEF tableVars
<1>4. ThreadInv /\ Matching(params, handled, omsg.cells, omsg.len) /\ FirstAnswered /\ NotBefore
  BY DEF LoopInv
<1>5. cmd \in Commands
  BY <1>4, FirstCommand, ThreadTypes
<1>6. /\ c \in Cells /\ Width(c.fields) <= CellMax
      /\ Answering(params, [cmd |-> cmd, result |-> "replied", err |-> a.err], c)
  <2> HIDE DEF cmd
  <2> QED BY <1>1, <1>5, EchoedAnswer
<1>7. /\ Width(c.fields) \in Nat /\ w \in Nat /\ omsg.len \in Nat /\ omsg.len <= MsgMax
      /\ CellMax \in Nat /\ MsgMax \in Nat
  <2>1. Width(c.fields) \in Nat
    BY <1>6, WidthType DEF Cells
  <2>2. w \in Nat
    BY <2>1 DEF Overhead
  <2>3. omsg.len \in 0..MsgMax
    BY <1>4, ThreadTypes
  <2> QED BY <2>1, <2>2, <2>3, SizeAssumption
<1>8. h \in Handling /\ h.cmd = cmd /\ h.result = (IF fits THEN "replied" ELSE "dropped")
  <2>1. a.err \in Int
    BY <1>1 DEF Good
  <2> HIDE DEF cmd, fits
  <2> QED BY <1>5, <2>1 DEF Handling, Results
<1>9. ThreadInv'
  <2>1. InputInv'
    BY <1>2, <1>3, <1>4, InputConsumed, ThreadTypes
  <2>2. handled' \in Seq(Handling)
    <3> HIDE DEF h
    <3> QED BY <1>2, <1>4, <1>8, ThreadTypes
  <2>3. omsg' = [cells |-> omsg'.cells, len |-> omsg'.len] /\ omsg'.cells \in Seq(Cells) /\ omsg'.len \in 0..MsgMax
    <3>1. CASE fits
      <4>1. Append(omsg.cells, c) \in Seq(Cells)
        <5> HIDE DEF c
        <5> QED BY <1>4, <1>6, ThreadTypes
      <4>2. omsg.len + w \in 0..MsgMax
        <5> HIDE DEF w
        <5> QED BY <1>7, <3>1
      <4> HIDE DEF w, fits
      <4> QED BY <1>2, <3>1, <4>1, <4>2
    <3>2. CASE ~fits
      <4> HIDE DEF fits
      <4> QED BY <1>2, <1>4, <3>2, ThreadTypes
    <3> QED BY <3>1, <3>2
  <2> QED BY <1>2, <2>1, <2>2, <2>3, ThreadNext
<1>10. Matching(params, handled, omsg.cells, omsg.len)'
  <2>1. CASE fits
    <3>1. h = [cmd |-> cmd, result |-> "replied", err |-> a.err] /\ h.result = "replied"
      BY <2>1
    <3>2. Answering(params, h, c)
      BY <1>6, <3>1
    <3>3. Matching(params, Append(handled, h), Append(omsg.cells, c), omsg.len + w)
      <4> HIDE DEF h, c
      <4> QED BY <1>4, <1>6, <1>8, <3>1, <3>2, AnswerAppended, ThreadTypes
    <3>4. omsg'.cells = Append(omsg.cells, c) /\ omsg'.len = omsg.len + w
      <4> HIDE DEF w, c, fits
      <4> QED BY <1>2, <2>1
    <3> HIDE DEF w, c, h
    <3> QED BY <1>2, <1>3, <3>3, <3>4
  <2>2. CASE ~fits
    <3>1. h.result # "replied"
      BY <1>8, <2>2
    <3>2. Matching(params, Append(handled, h), omsg.cells, omsg.len)
      <4> HIDE DEF h
      <4> QED BY <1>4, <1>8, <3>1, Unanswered, ThreadTypes
    <3> HIDE DEF h, fits
    <3> QED BY <1>2, <1>3, <2>2, <3>2
  <2> QED BY <2>1, <2>2
<1>11. FirstAnswered'
  <2>1. CASE handled # <<>>
    <3> HIDE DEF h
    <3> QED BY <1>2, <1>3, <1>4, <2>1, FirstKept, ThreadTypes
  <2>2. CASE handled = <<>>
    <3>1. omsg.len = 0
      BY <1>4, <2>2, EmptyReply, ThreadTypes
    <3>2. fits
      BY <1>6, <1>7, <3>1, SizeAssumption DEF Overhead
    <3>3. handled'[1] = h
      <4> HIDE DEF h
      <4> QED BY <1>2, <2>2
    <3>4. h.result = "replied"
      BY <1>8, <3>2
    <3> HIDE DEF h
    <3> QED BY <3>3, <3>4 DEF FirstAnswered
  <2> QED BY <2>1, <2>2
<1>12. NotBefore'
  BY <1>3, <1>4 DEF NotBefore
<1> QED BY <1>9, <1>10, <1>11, <1>12 DEF LoopInv

LEMMA InvariantParts ==
  /\ IInv <=> /\ TableInv /\ scenario \in DOMAIN Scenarios /\ count \in [Counters -> Nat]
              /\ LoopInv
  /\ IInv' <=> /\ TableInv' /\ scenario' \in DOMAIN Scenarios /\ count' \in [Counters -> Nat]
               /\ LoopInv'
<1>1. IInv <=> TableInv /\ scenario \in DOMAIN Scenarios /\ count \in [Counters -> Nat] /\ LoopInv
  BY Zenon, MatchingMeans DEF IInv, LoopInv
<1>2. (IInv <=> TableInv /\ scenario \in DOMAIN Scenarios /\ count \in [Counters -> Nat] /\ LoopInv)'
  BY <1>1, PTL
<1> QED BY Zenon, <1>1, <1>2

LEMMA Counted == ASSUME NEW c \in Counters, count \in [Counters -> Nat], Bump(c) PROVE count' \in [Counters -> Nat]
BY BumpCounts DEF Counting

LEMMA InitInv == Init => IInv
<1> SUFFICES ASSUME Init PROVE IInv
  OBVIOUS
<1>1. TableInv
  BY InitTable
<1>2. scenario \in DOMAIN Scenarios /\ count = [c \in Counters |-> 0] /\ rpc = "recv" /\ ~started
  BY Zenon DEF Init
<1>3. params = <<>> /\ imsg = <<>> /\ handled = <<>> /\ omsg = [cells |-> <<>>, len |-> 0]
  BY Zenon DEF Init
<1>4. count \in [Counters -> Nat]
  BY <1>2
<1>5. InputInv
  BY <1>3 DEF InputInv
<1>6. omsg.cells = <<>> /\ omsg.len = 0
  BY <1>3
<1>7. ThreadInv
  <2>1. omsg \in [cells : Seq(Cells), len : 0..MsgMax]
    BY <1>3, SizeAssumption
  <2>2. handled \in Seq(Handling)
    BY <1>3
  <2> QED BY <1>2, <1>5, <2>1, <2>2 DEF ThreadInv, Cells, Handling
<1>8. Matching(params, handled, omsg.cells, omsg.len)
  BY <1>3, <1>6, NothingAnswered
<1>9. FirstAnswered /\ NotBefore
  BY <1>2, <1>3 DEF FirstAnswered, NotBefore
<1> QED BY <1>1, <1>2, <1>4, <1>7, <1>8, <1>9, InvariantParts DEF LoopInv

\* A step that leaves the control thread and the table alone.
LEMMA LoopIdle ==
  ASSUME LoopInv, UNCHANGED <<params, started, rpc, imsg, omsg, handled>>
  PROVE  LoopInv'
<1>1. ThreadInv /\ Matching(params, handled, omsg.cells, omsg.len) /\ FirstAnswered /\ NotBefore
  BY DEF LoopInv
<1>2. ThreadInv'
  BY <1>1 DEF ThreadInv, InputInv
<1>3. Matching(params, handled, omsg.cells, omsg.len)'
  BY <1>1
<1>4. FirstAnswered' /\ NotBefore'
  BY <1>1 DEF FirstAnswered, NotBefore
<1> QED BY <1>2, <1>3, <1>4 DEF LoopInv

LEMMA AddStep == ASSUME IInv, TableInv', NEW p \in Params, Add(p) PROVE IInv'
<1>1. /\ UNCHANGED <<started, scenario, rpc, imsg, omsg, count, handled>>
      /\ started => params' = params
  BY DEF Add
<1>2. scenario \in DOMAIN Scenarios /\ count \in [Counters -> Nat] /\ LoopInv /\ started \in BOOLEAN
  BY InvariantParts DEF TableInv
<1>3. CASE started
  <2>1. LoopInv'
    BY <1>1, <1>2, <1>3, LoopIdle
  <2> QED BY <1>1, <1>2, <2>1, InvariantParts
<1>4. CASE ~started
  <2>1. ThreadInv /\ Matching(params, handled, omsg.cells, omsg.len) /\ FirstAnswered /\ NotBefore
    BY <1>2 DEF LoopInv
  <2>2. handled = <<>>
    BY <1>4, <2>1 DEF NotBefore
  <2>3. ThreadInv'
    <3>1. InputInv'
      <4>1. params' \in Seq(Params)
        BY DEF TableInv
      <4>2. imsg \in Seq(Commands) /\ \A k \in DOMAIN imsg : Sent(imsg[k])
        BY <2>1 DEF ThreadInv, InputInv
      <4> QED BY <1>1, <4>1, <4>2 DEF InputInv
    <3> QED BY <1>1, <2>1, <3>1 DEF ThreadInv
  <2>4. Matching(params, handled, omsg.cells, omsg.len)'
    <3>1. Len(omsg.cells) = Cardinality(Replied(handled)) /\ omsg.len = Total(Lengths(omsg.cells))
      BY <2>1 DEF Matching
    <3>2. Replied(handled) = {}
      BY <2>2 DEF Replied
    <3>3. Matching(params', handled, omsg.cells, omsg.len)
      BY <3>1, <3>2 DEF Matching
    <3> QED BY <1>1, <3>3
  <2>5. FirstAnswered' /\ NotBefore'
    BY <1>1, <2>1, <2>2 DEF FirstAnswered, NotBefore
  <2>6. LoopInv'
    BY <2>3, <2>4, <2>5 DEF LoopInv
  <2> QED BY <1>1, <1>2, <2>6, InvariantParts
<1> QED BY <1>2, <1>3, <1>4

LEMMA StartStep == ASSUME IInv, TableInv', Start PROVE IInv'
<1>1. UNCHANGED <<params, scenario, rpc, imsg, omsg, count, handled>> /\ ~started /\ started'
  BY Zenon DEF Start
<1>2. scenario \in DOMAIN Scenarios /\ count \in [Counters -> Nat] /\ LoopInv
  BY InvariantParts
<1>3. ThreadInv /\ Matching(params, handled, omsg.cells, omsg.len) /\ FirstAnswered /\ NotBefore
  BY <1>2 DEF LoopInv
<1>4. ThreadInv'
  BY <1>1, <1>3 DEF ThreadInv, InputInv
<1>5. Matching(params, handled, omsg.cells, omsg.len)'
  BY <1>1, <1>3
<1>6. FirstAnswered' /\ NotBefore'
  BY <1>1, <1>3 DEF FirstAnswered, NotBefore
<1> QED BY <1>1, <1>2, <1>4, <1>5, <1>6, InvariantParts DEF LoopInv

LEMMA RecvStep == ASSUME IInv, TableInv', NEW m \in Scenarios[scenario].messages, Recv(m) PROVE IInv'
<1>1. /\ started /\ rpc = "recv" /\ rpc' = "cells" /\ imsg' = m /\ handled' = <<>>
      /\ UNCHANGED <<params, started, scenario, count>>
  BY Zenon DEF Recv, tableVars
<1>2. omsg' = [cells |-> <<>>, len |-> 0]
  BY Zenon DEF Recv
<1>3. scenario \in DOMAIN Scenarios /\ count \in [Counters -> Nat] /\ params \in Seq(Params)
  BY InvariantParts DEF TableInv
<1>4. m \in Seq(Commands) /\ \A k \in DOMAIN m : Sent(m[k])
  BY <1>3, ScenarioAssumption
<1>5. InputInv'
  BY <1>1, <1>3, <1>4 DEF InputInv
<1>6. omsg'.cells = <<>> /\ omsg'.len = 0
  BY <1>2
<1>7. ThreadInv'
  <2>1. omsg'.cells \in Seq(Cells) /\ omsg'.len \in 0..MsgMax /\ omsg' = [cells |-> omsg'.cells, len |-> omsg'.len]
    BY <1>2, <1>6, SizeAssumption
  <2>2. handled' \in Seq(Handling)
    BY <1>1
  <2> QED BY <1>1, <1>5, <2>1, <2>2, ThreadNext
<1>8. Matching(params, handled, omsg.cells, omsg.len)'
  BY <1>1, <1>6, NothingAnswered
<1>9. FirstAnswered' /\ NotBefore'
  BY <1>1 DEF FirstAnswered, NotBefore
<1> QED BY <1>1, <1>3, <1>7, <1>8, <1>9, InvariantParts DEF LoopInv

LEMMA SendStep == ASSUME IInv, TableInv', NEW c \in {"goodxact", "senderr"}, Send(c) PROVE IInv'
<1>1. rpc = "cells" /\ rpc' = "recv" /\ UNCHANGED <<params, started, scenario, imsg, omsg, handled>> /\ Bump(c)
  BY Zenon DEF Send, tableVars
<1>2. scenario \in DOMAIN Scenarios /\ count \in [Counters -> Nat] /\ LoopInv
  BY InvariantParts
<1>3. ThreadInv /\ Matching(params, handled, omsg.cells, omsg.len) /\ FirstAnswered /\ NotBefore
  BY <1>2 DEF LoopInv
<1>4. ThreadInv'
  BY <1>1, <1>3 DEF ThreadInv, InputInv
<1>5. Matching(params, handled, omsg.cells, omsg.len)'
  BY <1>1, <1>3
<1>6. FirstAnswered' /\ NotBefore'
  BY <1>1, <1>3 DEF FirstAnswered, NotBefore
<1>7. count' \in [Counters -> Nat]
  <2>1. c \in Counters
    BY DEF Counters
  <2> QED BY <1>1, <1>2, <2>1, Counted
<1> QED BY <1>1, <1>2, <1>4, <1>5, <1>6, <1>7, InvariantParts DEF LoopInv

LEMMA CellStep == ASSUME IInv, TableInv', Outcome PROVE IInv'
<1>1. scenario \in DOMAIN Scenarios /\ count \in [Counters -> Nat] /\ LoopInv
  BY InvariantParts
<1>2. LoopInv'
  BY <1>1, AnswersStep, RefusesStep DEF Outcome
<1>3. scenario' = scenario
  BY DEF Outcome, tableVars
<1>4. count' \in [Counters -> Nat]
  BY <1>1 DEF Outcome, Counting
<1> QED BY <1>1, <1>2, <1>3, <1>4, InvariantParts

LEMMA NextInv == IInv /\ InfoFileTrue /\ [Next]_vars => IInv' /\ InfoFileTrue'
<1> SUFFICES ASSUME IInv, InfoFileTrue, [Next]_vars PROVE IInv' /\ InfoFileTrue'
  OBVIOUS
<1>1. TableInv /\ InputInv /\ LoopInv /\ scenario \in DOMAIN Scenarios /\ count \in [Counters -> Nat]
  <2>1. TableInv /\ LoopInv /\ scenario \in DOMAIN Scenarios /\ count \in [Counters -> Nat]
    BY InvariantParts
  <2> QED BY <2>1 DEF LoopInv, ThreadInv
<1>2. TableInv' /\ InfoFileTrue'
  BY <1>1, StepTable
<1>3. CASE \E p \in Params : Add(p)
  BY <1>2, <1>3, AddStep
<1>4. CASE Start
  BY <1>2, <1>4, StartStep
<1>5. CASE \E m \in Scenarios[scenario].messages : Recv(m)
  BY <1>2, <1>5, RecvStep
<1>6. CASE RecvError
  <2>1. UNCHANGED <<params, started, scenario, rpc, imsg, omsg, handled>> /\ Bump("recverr")
    BY <1>6, Zenon DEF RecvError, tableVars
  <2>2. LoopInv'
    BY <1>1, <2>1, LoopIdle
  <2>3. count' \in [Counters -> Nat]
    <3>1. "recverr" \in Counters
      BY DEF Counters
    <3> QED BY <1>1, <2>1, <3>1, Counted
  <2> QED BY <1>1, <1>2, <2>1, <2>2, <2>3, InvariantParts
<1>7. CASE CallCmdHandler \/ GetCmdHandler \/ SetCmdHandler \/ ICallCmdHandler \/ IGetCmdHandler \/ ISetCmdHandler
             \/ AddCmdHandler \/ SubCmdHandler \/ ReadCmdHandler \/ WriteCmdHandler
  BY <1>1, <1>2, <1>7, HandlersOutcome, CellStep
<1>8. CASE UnknownOpcode
  BY <1>1, <1>2, <1>8, UnknownOpcodeOutcome, CellStep
<1>9. CASE Send("goodxact") \/ Send("senderr")
  BY <1>2, <1>9, SendStep
<1>10. CASE UNCHANGED vars
  <2>1. UNCHANGED <<params, started, scenario, rpc, imsg, omsg, count, handled>>
    BY <1>10 DEF vars, tableVars
  <2>2. LoopInv'
    BY <1>1, <2>1, LoopIdle
  <2> QED BY <1>1, <1>2, <2>1, <2>2, InvariantParts
<1> QED BY <1>3, <1>4, <1>5, <1>6, <1>7, <1>8, <1>9, <1>10 DEF Next, CtlThread

LEMMA Invariance == Spec => [](IInv /\ InfoFileTrue)
<1>1. Init => IInv /\ InfoFileTrue
  BY InitInv, InitTable
<1> QED BY <1>1, NextInv, PTL DEF Spec

-----------------------------------------------------------------------------
(* What it says of the server.                                             *)

\* The table, the control thread's messages and its counters have their types in every state of the server.
THEOREM TypeCorrectness == Spec => []TypeOK
<1>1. IInv => TypeOK
  <2> SUFFICES ASSUME IInv PROVE TypeOK
    OBVIOUS
  <2>1. TableInv /\ ThreadInv /\ scenario \in DOMAIN Scenarios /\ count \in [Counters -> Nat]
    BY DEF IInv
  <2>2. omsg.len \in 0..MsgMax /\ handled \in Seq(Handling)
    BY <2>1, ThreadTypes
  <2>3. \A i \in DOMAIN handled : handled[i].result \in Results
    <3>1. \A i \in DOMAIN handled : handled[i] \in Handling
      BY <2>2
    <3> QED BY <3>1 DEF Handling
  <2>4. rpc \in {"recv", "cells", "aborted"}
    BY <2>1 DEF ThreadInv
  <2> QED BY <2>1, <2>2, <2>3, <2>4 DEF TableInv, TypeOK
<1> QED BY <1>1, Invariance, PTL

\* The reply message holds the answers to the answered commands in their order, each with the command's opcode and
\* the addressing fields the client compares, and is as long as its cells: nothing of one cell, or of one message, is
\* left in the next.
THEOREM RepliesFollowTheCommands == Spec => []RepliesMatchCommands
<1>1. IInv => RepliesMatchCommands
  BY DEF IInv
<1> QED BY <1>1, Invariance, PTL

\* The client gets the error code that the parameter decided on, from every reply to a call, to a read, and to any
\* command for a parameter whose type it knows.
THEOREM ErrorCodeReachesTheClient == Spec => []ErrorReported
<1>1. IInv => ErrorReported
  BY DEF IInv
<1> QED BY <1>1, Invariance, PTL

\* The answer to the first cell of a message always finds room, and a file that can be read answers however much the
\* client asks for: the sizes of cells and messages, for every value of them, fit together.
THEOREM OneCellIsAlwaysAnswered == Spec => []OneCellAnswered
<1>1. IInv => OneCellAnswered
  <2> SUFFICES ASSUME IInv, Len(handled) = 1
               PROVE  /\ handled[1].result # "dropped"
                      /\ handled[1].cmd.op = "Read" /\ handled[1].result = "interr" =>
                           Param[params[handled[1].cmd.fields[1].v + 1]].kind # "file"
    BY DEF OneCellAnswered
  <2>1. handled # <<>>
    BY EmptySeq
  <2> QED BY <2>1 DEF IInv, FirstAnswered
<1> QED BY <1>1, Invariance, PTL

\* Whatever is added, before or after Start and beyond the table's size, each PID in the information file leads to
\* the parameter saved under it, and no listed parameter of the table is missing.
THEOREM InformationFileStaysTrue == Spec => []InfoFileTrue
<1>1. IInv /\ InfoFileTrue => InfoFileTrue
  OBVIOUS
<1> QED BY <1>1, Invariance, PTL
-----------------------------------------------------------------------------
(* A connection: how a client gets the information file the server wrote,  *)
(* for any contents of the servers' files, any chunk size and any number   *)
(* of retries, crashes and server replacements.                            *)

\* Appending what follows a prefix gives a longer prefix.
LEMMA PrefixExtends ==
  ASSUME NEW c \in Seq(Bytes), NEW f \in Seq(Bytes), IsPrefix(f, c),
         NEW last \in Nat, Len(f) <= last, last <= Len(c)
  PROVE  /\ f \o SubSeq(c, Len(f) + 1, last) = SubSeq(c, 1, last)
         /\ f \o SubSeq(c, Len(f) + 1, last) \in Seq(Bytes)
         /\ Len(SubSeq(c, Len(f) + 1, last)) = last - Len(f)
         /\ IsPrefix(f \o SubSeq(c, Len(f) + 1, last), c)
<1> DEFINE d == SubSeq(c, Len(f) + 1, last)
           p == SubSeq(c, 1, last)
<1>1. d \in Seq(Bytes) /\ Len(d) = last - Len(f)
  OBVIOUS
<1>2. p \in Seq(Bytes) /\ Len(p) = last
  OBVIOUS
<1>3. Len(f \o d) = last /\ f \o d \in Seq(Bytes)
  BY <1>1
<1>4. ASSUME NEW i \in 1..last PROVE (f \o d)[i] = p[i]
  <2>1. p[i] = c[i]
    OBVIOUS
  <2>2. CASE i <= Len(f)
    <3>1. (f \o d)[i] = f[i]
      BY <1>1, <2>2
    <3>2. f = SubSeq(c, 1, Len(f))
      BY DEF IsPrefix
    <3>3. SubSeq(c, 1, Len(f))[i] = c[i]
      BY <2>2
    <3> QED BY <2>1, <3>1, <3>2, <3>3
  <2>3. CASE i > Len(f)
    <3>1. (f \o d)[i] = d[i - Len(f)]
      BY <1>1, <2>3
    <3>2. d[i - Len(f)] = c[i]
      BY <2>3
    <3> QED BY <2>1, <3>1, <3>2
  <2> QED BY <2>2, <2>3
<1>5. f \o d = p
  BY <1>2, <1>3, <1>4
<1>6. IsPrefix(p, c)
  BY <1>2 DEF IsPrefix
<1> QED BY <1>1, <1>3, <1>5, <1>6

\* The whole of a sequence is its prefix of its own length.
LEMMA WholePrefix ==
  ASSUME NEW c \in Seq(Bytes) PROVE SubSeq(c, 1, Len(c)) = c
OBVIOUS

\* A prefix of a file is a file.
LEMMA PrefixesType ==
  ASSUME NEW c \in Seq(Bytes), NEW p \in Prefixes(c) PROVE p \in Seq(Bytes)
BY DEF Prefixes

\* Nothing has been read yet: that is the beginning of any file.
LEMMA NonePrefix ==
  ASSUME NEW c \in Seq(Bytes) PROVE IsPrefix(None, c) /\ None \in Seq(Bytes)
BY DEF None, IsPrefix

-----------------------------------------------------------------------------
\* A successful read takes the download from one prefix of the server's file to
\* a longer one, and to the whole file if it was short.
LEMMA ReadChunkPrefix ==
  ASSUME ConnTypeOK, DownloadIsPrefix, ReadChunk
  PROVE  /\ file' \in Seq(Bytes)
         /\ fresh => IsPrefix(file', Content[version])
         /\ fresh /\ pc' = "parse" => file' = Content[version]
<1> DEFINE c == Content[version]
           k == Len(file)
           last == IF k + Chunk < Len(c) THEN k + Chunk ELSE Len(c)
           data == FileRead(k, Chunk)
<1>1. c \in Seq(Bytes) /\ file \in Seq(Bytes) /\ Chunk \in Nat \ {0}
  BY ContentAssumption, ChunkAssumption DEF ConnTypeOK
<1>2. data = SubSeq(c, k + 1, last) /\ last \in Nat
  BY <1>1 DEF FileRead
<1>3. file' = file \o data
  BY DEF ReadChunk
<1>4. file' \in Seq(Bytes)
  <2>1. data \in Seq(Bytes)
    BY <1>1, <1>2
  <2> QED BY <1>1, <1>3, <2>1
<1>5. ASSUME fresh
      PROVE IsPrefix(file', c) /\ (pc' = "parse" => file' = c)
  <2>1. IsPrefix(file, c)
    BY <1>5 DEF DownloadIsPrefix, ReadChunk
  <2>2. k <= last /\ last <= Len(c)
    BY <1>1, <2>1 DEF IsPrefix
  <2>3. /\ file' = SubSeq(c, 1, last)
        /\ Len(data) = last - k
        /\ IsPrefix(file', c)
    BY <1>1, <1>2, <1>3, <2>1, <2>2, PrefixExtends
  <2>4. pc' = "parse" => Len(data) < Chunk
    BY DEF ReadChunk
  <2>5. pc' = "parse" => last = Len(c)
    BY <1>1, <2>3, <2>4
  <2> QED BY <1>1, <2>3, <2>5, WholePrefix
<1> QED BY <1>4, <1>5

-----------------------------------------------------------------------------
\* The invariant holds before any connection is made.
LEMMA ConnInitInv == ConnInit => ConnInv
<1> SUFFICES ASSUME ConnInit PROVE ConnInv
  OBVIOUS
<1>1. <<>> \in Seq(Bytes) /\ Attempts \in Nat \ {0}
  BY ChunkAssumption
<1>2. ConnTypeOK
  <2>1. None \in Seq(Bytes) /\ 1 \in 1..Attempts
    BY <1>1 DEF None
  <2> QED BY <2>1 DEF ConnInit, ConnTypeOK
<1>3. ReportedCRC /\ ParsedIsServers /\ DownloadIsPrefix
  BY DEF ConnInit, ReportedCRC, ParsedIsServers, DownloadIsPrefix
<1> QED BY <1>2, <1>3 DEF ConnInv

\* Every step preserves it.
LEMMA ConnStepInv == ConnInv /\ [ConnNext]_connVars => ConnInv'
<1> SUFFICES ASSUME ConnInv, [ConnNext]_connVars PROVE ConnInv'
  OBVIOUS
<1> USE DEF ConnInv, serverVars, Goto
<1>a. Attempts \in Nat \ {0} /\ version \in Versions
  BY ChunkAssumption DEF ConnTypeOK
<1>1. CASE Connect
  BY <1>1 DEF Connect, ConnTypeOK, ReportedCRC, ParsedIsServers, DownloadIsPrefix
<1>2. CASE GetNameAndVersion
  BY <1>2 DEF GetNameAndVersion, ConnTypeOK, ReportedCRC, ParsedIsServers,
              DownloadIsPrefix
<1>3. CASE GetCRC
  BY <1>3, ContentAssumption DEF GetCRC, ConnTypeOK, ReportedCRC, ParsedIsServers,
              DownloadIsPrefix
<1>4. CASE Fail
  BY <1>4 DEF Fail, ConnTypeOK, ReportedCRC, ParsedIsServers, DownloadIsPrefix
<1>5. CASE Compare
  <2>1. None \in Seq(Bytes) /\ IsPrefix(None, Content[version])
    BY <1>a, ContentAssumption, NonePrefix
  <2> QED BY <1>5, <1>a, <2>1 DEF Compare, ConnTypeOK, ReportedCRC,
              ParsedIsServers, DownloadIsPrefix
<1>6. CASE ReadChunk
  <2>1. /\ file' \in Seq(Bytes)
        /\ fresh => IsPrefix(file', Content[version])
        /\ fresh /\ pc' = "parse" => file' = Content[version]
    BY <1>6, ReadChunkPrefix
  <2>2. /\ pc = "read" /\ pc' \in {"read", "parse"} /\ attempt' = 1
        /\ sif' = sif \/ sif' = file'
        /\ pc' = "parse" => sif' = file'
        /\ UNCHANGED <<version, srvinfocrc, fresh>>
    BY <1>6 DEF ReadChunk
  <2> QED BY <1>a, <2>1, <2>2 DEF ConnTypeOK, ReportedCRC, ParsedIsServers,
              DownloadIsPrefix
<1>7. CASE ReadTimeout
  BY <1>7, <1>a DEF ReadTimeout, ConnTypeOK, ReportedCRC, ParsedIsServers,
              DownloadIsPrefix
<1>8. CASE Parse
  BY <1>8 DEF Parse, ConnTypeOK, ReportedCRC, ParsedIsServers, DownloadIsPrefix
<1>9. CASE Crash
  <2>1. sif' \in Seq(Bytes)
    BY <1>9, PrefixesType DEF Crash, ConnTypeOK
  <2> QED BY <1>9, <2>1 DEF Crash, ConnTypeOK, ReportedCRC, ParsedIsServers,
              DownloadIsPrefix
<1>10. CASE \E v \in Versions : Restart(v)
  BY <1>10 DEF Restart, ConnTypeOK, ReportedCRC, ParsedIsServers, DownloadIsPrefix
<1>11. CASE UNCHANGED connVars
  BY <1>11 DEF connVars, ConnTypeOK, ReportedCRC, ParsedIsServers, DownloadIsPrefix
<1> QED BY <1>1, <1>2, <1>3, <1>4, <1>5, <1>6, <1>7, <1>8, <1>9, <1>10, <1>11
        DEF ConnNext, Connecting

\* The strengthened invariant holds of every behaviour.
THEOREM ConnInvariance == ConnSpec => []ConnInv
<1> QED BY ConnInitInv, ConnStepInv, PTL DEF ConnSpec

\* Whatever the cache held before, however often a chunk was asked for again
\* and wherever an earlier download was cut short, the file a connection parses
\* is the whole information file of the server that reported its CRC, for every
\* chunk size and file length (HCConnection::HCConnection, DownloadSIF).
THEOREM ParsesTheServersFile == ConnSpec => []ParsedIsServers
<1>1. ConnInv => ParsedIsServers
  BY DEF ConnInv
<1> QED BY <1>1, ConnInvariance, PTL

\* No read that is repeated after a timeout repeats or skips data
\* (DownloadSIF's loop).
THEOREM DownloadsInOrder == ConnSpec => []DownloadIsPrefix
<1>1. ConnInv => DownloadIsPrefix
  BY DEF ConnInv
<1> QED BY <1>1, ConnInvariance, PTL
=============================================================================
