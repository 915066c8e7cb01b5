--------------------------- MODULE HCQServer_proofs ---------------------------
(***************************************************************************)
(* What the query server keeps to (TypeCorrect) and whose answer a program *)
(* prints (ProgramsGetTheirOwnAnswer), proved for any tree, queries,       *)
(* addresses and results of the parameters' methods, over a network that   *)
(* loses and reorders datagrams.                                           *)
(*                                                                         *)
(* Of a program that nobody gave up waiting for, the query is at one place *)
(* at most: on its way to the server, at the server, or its answer on its  *)
(* way back.                                                               *)
(***************************************************************************)
EXTENDS HCQServer, FiniteSetTheorems, TLAPS

-----------------------------------------------------------------------------
(* What moves a query.                                                     *)

\* The steps of the control thread between the datagram it reads and the answer it sends.
Working == ProcessMessage \/ ProcessCell \/ SaveState \/ NextCell \/ End

LEMMA WorkingKeeps ==
  Working => spc # "read" /\ UNCHANGED <<script, asked, told, waiting, timedout, commands, replies, query, dst>>
BY DEF Working, ProcessMessage, ProcessCell, SaveState, NextCell, End, clientVars

Own(a) == [from |-> a, text |-> asked[a]]
AtServer(a) == spc # "read" /\ query.from = a

\* The clients' state is by address; an answer goes to where its query came from.
AddressInv ==
  /\ DOMAIN asked = Addresses /\ DOMAIN told = Addresses
  /\ waiting \in [Addresses -> BOOLEAN] /\ timedout \in [Addresses -> BOOLEAN]
  /\ \A d \in commands : d.from \in Addresses /\ d = [from |-> d.from, text |-> d.text]
  /\ \A r \in replies : r.to \in Addresses
  /\ spc # "read" => dst = query.from /\ dst \in Addresses

\* A query whose program nobody gave up waiting for is under way only while the program waits for it, at one place.
PlaceInv ==
  \A a \in Addresses : ~timedout[a] =>
    /\ \A d \in commands : d.from = a => waiting[a] /\ d = Own(a)
    /\ AtServer(a) => waiting[a] /\ query = Own(a)
    /\ \A r \in replies : r.to = a => waiting[a] /\ r.query = Own(a)
    /\ AtServer(a) => \A d \in commands : d.from # a
    /\ \A r \in replies : r.to = a => ~AtServer(a) /\ \A d \in commands : d.from # a
    /\ \A r, s \in replies : r.to = a /\ s.to = a => r = s
    /\ \A r \in told[a] : r.query = Own(a)

OwnInv == AddressInv /\ PlaceInv

LEMMA Replaced ==
  ASSUME NEW f, NEW a \in DOMAIN f, NEW v
  PROVE  /\ DOMAIN [f EXCEPT ![a] = v] = DOMAIN f
         /\ \A b \in DOMAIN f : [f EXCEPT ![a] = v][b] = IF b = a THEN v ELSE f[b]
OBVIOUS

LEMMA OwnFirst == Init => OwnInv
BY DEF Init, OwnInv, AddressInv, PlaceInv, AtServer

LEMMA OwnStep == OwnInv /\ [Next]_vars => OwnInv'
<1> SUFFICES ASSUME OwnInv, [Next]_vars PROVE OwnInv'
  OBVIOUS
<1> USE DEF OwnInv, AddressInv, PlaceInv, AtServer, Own
<1>1. ASSUME NEW d \in commands, Receive(d) PROVE OwnInv'
  BY <1>1 DEF Receive, clientVars
<1>2. CASE Working
  BY <1>2, WorkingKeeps
<1>3. CASE Send
  <2>1. PICK r : /\ r.to = dst /\ r.query = query /\ replies' = replies \cup {r}
                 /\ spc = "send" /\ spc' = "read" /\ UNCHANGED <<script, asked, told, waiting, timedout, commands, query, dst>>
    BY <1>3 DEF Send, clientVars
  <2>2. r.to = query.from /\ AtServer(r.to)
    BY <2>1
  <2>3. AddressInv'
    BY <2>1, <2>2
  <2>4. PlaceInv'
    BY <2>1, <2>2
  <2> QED BY <2>3, <2>4
<1>4. ASSUME NEW a \in Addresses, Transact(a) PROVE OwnInv'
  <2> DEFINE q == Head(script[a])
             d == [from |-> a, text |-> q]
  <2> HIDE DEF q
  <2>1. /\ ~waiting[a] /\ asked' = [asked EXCEPT ![a] = q] /\ told' = [told EXCEPT ![a] = {}]
        /\ UNCHANGED <<timedout, replies, spc, query, dst>>
        /\ \/ UNCHANGED <<waiting, commands>>
           \/ waiting' = [waiting EXCEPT ![a] = TRUE] /\ commands' = commands \cup {d}
    BY <1>4 DEF Transact, serverVars, q
  <2>2. \A b \in Addresses : asked'[b] = (IF b = a THEN q ELSE asked[b]) /\ told'[b] = (IF b = a THEN {} ELSE told[b])
    BY <2>1, Replaced
  <2>w. \A b \in Addresses : b # a => waiting'[b] = waiting[b]
    BY <2>1
  <2>3. AddressInv'
    <3>1. DOMAIN asked' = Addresses /\ DOMAIN told' = Addresses /\ waiting' \in [Addresses -> BOOLEAN]
      BY <2>1, Replaced
    <3>2. \A x \in commands' : x.from \in Addresses /\ x = [from |-> x.from, text |-> x.text]
      BY <2>1
    <3> QED BY <2>1, <3>1, <3>2
  <2>4. ASSUME NEW b \in Addresses, ~timedout'[b], b # a
        PROVE  /\ \A x \in commands' : x.from = b => x \in commands
               /\ Own(b)' = Own(b) /\ waiting'[b] = waiting[b] /\ told'[b] = told[b] /\ ~timedout[b]
    BY <2>1, <2>2, <2>w, <2>4
  <2>5. ASSUME ~timedout[a]
        PROVE  (\A x \in commands : x.from # a) /\ ~AtServer(a) /\ (\A r \in replies : r.to # a)
    BY <2>1, <2>5
  <2>6. PlaceInv'
    BY <2>1, <2>2, <2>w, <2>4, <2>5
  <2> QED BY <2>3, <2>6
<1>5. ASSUME NEW a \in Addresses, TimeOut(a) PROVE OwnInv'
  BY <1>5 DEF TimeOut, serverVars
<1>6. ASSUME NEW r \in replies, ReadThread(r) PROVE OwnInv'
  <2>1. /\ replies' = replies \ {r} /\ UNCHANGED <<asked, timedout, commands, spc, query, dst>>
        /\ \/ UNCHANGED <<told, waiting>>
           \/ /\ told' = [told EXCEPT ![r.to] = {r}] /\ waiting' = [waiting EXCEPT ![r.to] = FALSE]
    BY <1>6 DEF ReadThread, serverVars
  <2>2. AddressInv'
    BY <2>1
  <2>3. CASE UNCHANGED <<told, waiting>>
    BY <2>1, <2>2, <2>3
  <2>4. CASE told' = [told EXCEPT ![r.to] = {r}] /\ waiting' = [waiting EXCEPT ![r.to] = FALSE]
    <3>1. r.to \in Addresses
      OBVIOUS
    <3>2. \A b \in Addresses : /\ told'[b] = IF b = r.to THEN {r} ELSE told[b]
                              /\ waiting'[b] = IF b = r.to THEN FALSE ELSE waiting[b]
      BY <2>4
    <3>3. ASSUME ~timedout[r.to]
          PROVE  /\ \A x \in commands : x.from # r.to
                 /\ ~AtServer(r.to) /\ r.query = Own(r.to)
                 /\ \A s \in replies' : s.to # r.to
      BY <2>1, <3>1, <3>3
    <3>4. PlaceInv'
      BY <2>1, <3>2, <3>3
    <3> QED BY <2>2, <3>4
  <2> QED BY <2>1, <2>3, <2>4
<1>7. CASE Lose
  BY <1>7 DEF Lose, clientVars, serverVars
<1>8. CASE UNCHANGED vars
  BY <1>8 DEF vars, clientVars, serverVars
<1> QED BY <1>1, <1>2, <1>3, <1>4, <1>5, <1>6, <1>7, <1>8 DEF Next, CtlThread, Working

-----------------------------------------------------------------------------
(* Reading never leaves the query.                                         *)

Texts == STRING

\* Where reading may go on in the query.
Ends == 1..(Len(readbuf) + 1)
Within(fields) == \A f \in fields : f = [text |-> f.text, lit |-> f.lit, next |-> f.next] /\ f.next \in Ends
CellsWithin(cells) == \A c \in cells : c.next \in Ends

LEMMA ReadFieldReads ==
  ASSUME Len(readbuf) \in Nat, NEW i \in Nat \ {0}, NEW termchar, NEW size
  PROVE  Within(ReadField(i, termchar, size))
<1> SUFFICES ASSUME NEW f \in ReadField(i, termchar, size)
             PROVE  f = [text |-> f.text, lit |-> f.lit, next |-> f.next] /\ f.next \in Ends
  BY DEF Within
<1>1. PICK j \in i..Len(readbuf) : f = [text |-> Concat(SubSeq(readbuf, i, j - 1)), lit |-> FALSE, next |-> j + 1]
  BY DEF ReadField
<1>2. j + 1 \in Ends
  BY <1>1 DEF Ends
<1> QED BY <1>1, <1>2

LEMMA LitField == \A t, l, n, v : [[text |-> t, lit |-> l, next |-> n] EXCEPT !.lit = v] = [text |-> t, lit |-> v, next |-> n]
OBVIOUS

LEMMA QuotedReads ==
  ASSUME Len(readbuf) \in Nat, NEW i \in Nat \ {0}, NEW size
  PROVE  Within(Quoted(i, size))
<1>1. Within(ReadField(i + 1, Quote, size))
  BY ReadFieldReads
<1>2. ASSUME NEW f \in ReadField(i + 1, Quote, size)
      PROVE  [f EXCEPT !.lit = TRUE] = [text |-> f.text, lit |-> TRUE, next |-> f.next] /\ f.next \in Ends
  <2>1. f = [text |-> f.text, lit |-> f.lit, next |-> f.next] /\ f.next \in Ends
    BY <1>1, <1>2 DEF Within
  <2> DEFINE t == f.text
             l == f.lit
             n == f.next
             v == TRUE
  <2> HIDE DEF t, l, n, v
  <2>2. f = [text |-> t, lit |-> l, next |-> n]
    BY <2>1 DEF t, l, n
  <2>3. [f EXCEPT !.lit = v] = [text |-> t, lit |-> v, next |-> n]
    BY <2>2, LitField
  <2> QED BY <2>1, <2>3 DEF t, n, v
<1>3. ASSUME NEW g \in Quoted(i, size)
      PROVE  g = [text |-> g.text, lit |-> g.lit, next |-> g.next] /\ g.next \in Ends
  <2>1. PICK f \in ReadField(i + 1, Quote, size) : g = [f EXCEPT !.lit = TRUE]
    BY DEF Quoted
  <2>2. g = [text |-> f.text, lit |-> TRUE, next |-> f.next] /\ f.next \in Ends
    BY <1>2, <2>1
  <2> QED BY <2>2
<1> QED BY <1>3 DEF Within

LEMMA ThenReads ==
  ASSUME Len(readbuf) \in Nat, NEW fields, Within(fields), NEW ch
  PROVE  Within(Then(fields, ch))
<1>1. ASSUME NEW f \in fields, NextReadCharEquals(f.next, ch)
      PROVE  [f EXCEPT !.next = @ + 1] = [text |-> f.text, lit |-> f.lit, next |-> f.next + 1] /\ f.next + 1 \in Ends
  <2>1. f = [text |-> f.text, lit |-> f.lit, next |-> f.next] /\ f.next \in Ends
    BY DEF Within
  <2>2. f.next + 1 \in Ends
    BY <1>1, <2>1 DEF NextReadCharEquals, Ends
  <2> QED BY <2>1, <2>2
<1> QED BY <1>1 DEF Then, Within

LEMMA WordReads ==
  ASSUME Len(readbuf) \in Nat, NEW i \in Ends, NEW ch, NEW size
  PROVE  Within(Word(i, ch, size)) /\ Within(ParamName(i, ch))
<1>1. i \in Nat \ {0}
  BY DEF Ends
<1>2. Within(Quoted(i, size)) /\ Within(Quoted(i, PName)) /\ Within(ReadField(i, ch, size))
  <2>1. Within(Quoted(i, size)) /\ Within(Quoted(i, PName))
    BY <1>1, QuotedReads, SMTT(30)
  <2>2. Within(ReadField(i, ch, size))
    BY <1>1, ReadFieldReads, SMTT(30)
  <2> QED BY <2>1, <2>2
<1>3. Within(Then(Quoted(i, size), ch)) /\ Within(Then(Quoted(i, PName), ch))
  BY <1>2, ThenReads
<1> QED BY <1>2, <1>3 DEF Word, ParamName

LEMMA Nexts == \A op, name, eid, val, next : Cell(op, name, eid, val, next).next = next
BY DEF Cell

LEMMA ProcessReads ==
  ASSUME Len(readbuf) \in Nat, NEW i \in Ends, NEW op
  PROVE  /\ CellsWithin(NameCell(op, i)) /\ CellsWithin(ValueCell(op, i)) /\ CellsWithin(ElementCell(op, i))
         /\ CellsWithin(ProcessISetCell(i)) /\ CellsWithin(ProcessSaveCell(i))
<1>1. \A ch, n : n \in ParamName(i, ch) => n.next \in Ends
  BY WordReads DEF Within
<1>2. \A k \in Ends : \A ch, size : \A w \in Word(k, ch, size) : w.next \in Ends
  BY WordReads DEF Within
<1>3. CellsWithin(NameCell(op, i))
  BY <1>1, Nexts DEF NameCell, CellsWithin
<1>4. CellsWithin(ValueCell(op, i))
  <2> SUFFICES ASSUME NEW c \in ValueCell(op, i) PROVE c.next \in Ends
    BY DEF CellsWithin
  <2>1. PICK n \in ParamName(i, ",") : c \in {Cell(op, n.text, {}, {v}, v.next) : v \in Word(n.next, "]", PVal)}
    BY DEF ValueCell
  <2>2. PICK v \in Word(n.next, "]", PVal) : c = Cell(op, n.text, {}, {v}, v.next)
    BY <2>1
  <2>3. n.next \in Ends
    BY <1>1
  <2>4. v.next \in Ends
    BY <1>2, <2>3
  <2> QED BY <2>2, <2>4 DEF Cell
<1>5. CellsWithin(ElementCell(op, i))
  <2> SUFFICES ASSUME NEW c \in ElementCell(op, i) PROVE c.next \in Ends
    BY DEF CellsWithin
  <2>1. PICK n \in ParamName(i, ",") : c \in {Cell(op, n.text, {e}, {}, e.next) : e \in Word(n.next, "]", EIDStr)}
    BY DEF ElementCell
  <2>2. PICK e \in Word(n.next, "]", EIDStr) : c = Cell(op, n.text, {e}, {}, e.next)
    BY <2>1
  <2>3. n.next \in Ends
    BY <1>1
  <2>4. e.next \in Ends
    BY <1>2, <2>3
  <2> QED BY <2>2, <2>4 DEF Cell
<1>6. CellsWithin(ProcessISetCell(i))
  <2> SUFFICES ASSUME NEW c \in ProcessISetCell(i) PROVE c.next \in Ends
    BY DEF CellsWithin
  <2>1. PICK n \in ParamName(i, ",") :
          c \in UNION {{Cell("is", n.text, {e}, {v}, v.next) : v \in Word(e.next, "]", PVal)} : e \in Word(n.next, ",", EIDStr)}
    BY DEF ProcessISetCell
  <2>2. PICK e \in Word(n.next, ",", EIDStr) : c \in {Cell("is", n.text, {e}, {v}, v.next) : v \in Word(e.next, "]", PVal)}
    BY <2>1
  <2>3. PICK v \in Word(e.next, "]", PVal) : c = Cell("is", n.text, {e}, {v}, v.next)
    BY <2>2
  <2>4. n.next \in Ends
    BY <1>1
  <2>5. e.next \in Ends
    BY <1>2, <2>4
  <2>6. v.next \in Ends
    BY <1>2, <2>5
  <2> QED BY <2>3, <2>6 DEF Cell
<1>7. CellsWithin(ProcessSaveCell(i))
  <2> SUFFICES ASSUME NEW c \in ProcessSaveCell(i) PROVE c.next \in Ends
    BY DEF CellsWithin
  <2>1. NextReadCharEquals(i, "]") => i + 1 \in Ends
    BY DEF NextReadCharEquals, Ends
  <2>2. NextReadCharEquals(i, "]") /\ c = Cell("sa", "", {}, {}, i + 1)
    BY DEF ProcessSaveCell
  <2> QED BY <2>1, <2>2 DEF Cell
<1> QED BY <1>3, <1>4, <1>5, <1>6, <1>7

LEMMA CellReads ==
  ASSUME Len(readbuf) \in Nat, NEW i \in Ends
  PROVE  CellsWithin(CellAt(i))
<1> SUFFICES ASSUME NEW c \in CellAt(i) PROVE c.next \in Ends
  BY DEF CellsWithin
<1> DEFINE comma(o) == NextReadCharEquals(o.next, ",")
<1>1. PICK o \in IF NextReadCharEquals(i, "[") THEN Quoted(i + 1, Opcode) ELSE {} :
         \/ c \in ProcessSaveCell(o.next)
         \/ comma(o) /\ \/ c \in ProcessCallCell(o.next + 1) \/ c \in ProcessGetCell(o.next + 1) \/ c \in ProcessSetCell(o.next + 1)
                        \/ c \in ProcessICallCell(o.next + 1) \/ c \in ProcessIGetCell(o.next + 1) \/ c \in ProcessISetCell(o.next + 1)
                        \/ c \in ProcessAddCell(o.next + 1) \/ c \in ProcessSubCell(o.next + 1)
  <2> HIDE DEF comma
  <2>1. c \in UNION {LET j == o.next + 1 IN
           CASE o.text = "sa" -> ProcessSaveCell(o.next)
             [] o.text = "ca" /\ comma(o) -> ProcessCallCell(j)
             [] o.text = "ge" /\ comma(o) -> ProcessGetCell(j)
             [] o.text = "se" /\ comma(o) -> ProcessSetCell(j)
             [] o.text = "ic" /\ comma(o) -> ProcessICallCell(j)
             [] o.text = "ig" /\ comma(o) -> ProcessIGetCell(j)
             [] o.text = "is" /\ comma(o) -> ProcessISetCell(j)
             [] o.text = "ad" /\ comma(o) -> ProcessAddCell(j)
             [] o.text = "su" /\ comma(o) -> ProcessSubCell(j)
             [] OTHER -> {} :
           o \in IF NextReadCharEquals(i, "[") THEN Quoted(i + 1, Opcode) ELSE {}}
    BY Zenon DEF CellAt, OpcodeAt, comma
  <2> QED BY <2>1
<1>2. o.next \in Ends
  <2>1. i + 1 \in Nat \ {0}
    BY DEF Ends
  <2>2. Within(Quoted(i + 1, Opcode))
    BY <2>1, QuotedReads
  <2> QED BY <1>1, <2>2 DEF Within
<1>3. comma(o) => o.next + 1 \in Ends
  <2> DEFINE k == o.next
  <2>1. k \in Ends /\ (comma(o) => k <= Len(readbuf))
    BY <1>2 DEF NextReadCharEquals
  <2> HIDE DEF k, comma
  <2>2. comma(o) => k + 1 \in Ends
    BY <2>1 DEF Ends
  <2> QED BY <2>2 DEF k
<1> HIDE DEF comma
<1>4. CASE c \in ProcessSaveCell(o.next)
  BY <1>2, <1>4, ProcessReads DEF CellsWithin
<1>5. CASE comma(o) /\ c \notin ProcessSaveCell(o.next)
  <2> DEFINE j == o.next + 1
  <2>1. j \in Ends
    BY <1>3, <1>5
  <2>2. \/ c \in NameCell("ca", j) \/ c \in NameCell("ge", j) \/ c \in ValueCell("se", j) \/ c \in ElementCell("ic", j)
        \/ c \in ElementCell("ig", j) \/ c \in ProcessISetCell(j) \/ c \in ValueCell("ad", j) \/ c \in ValueCell("su", j)
    BY <1>1, <1>5 DEF ProcessCallCell, ProcessGetCell, ProcessSetCell, ProcessICallCell, ProcessIGetCell, ProcessAddCell, ProcessSubCell
  <2> HIDE DEF j
  <2> QED BY <2>1, <2>2, ProcessReads DEF CellsWithin
<1> QED BY <1>1, <1>4, <1>5

-----------------------------------------------------------------------------
(* The types of the server's state.                                        *)

LEMMA NothingWritten == Written(<<>>) < WriteMax
<1> DEFINE Sum(n, w) == n + Len(w.text) + (IF w.quoted THEN 2 ELSE 0)
           It(f) == f = [s \in SUBSET DOMAIN <<>> |-> IF s = {} THEN 0
                                                      ELSE LET x == Max(s) IN Sum(f[s \ {x}], <<>>[x])]
           zero == [s \in SUBSET DOMAIN <<>> |-> 0]
<1>1. DOMAIN <<>> = {}
  OBVIOUS
<1>2. It(zero)
  BY <1>1
<1>3. It(CHOOSE f : It(f))
  BY <1>2, Zenon
<1>4. Written(<<>>) = (CHOOSE f : It(f))[DOMAIN <<>>]
  BY DEF Written, FoldLeft, MapThenFoldSet
<1>5. (CHOOSE f : It(f))[DOMAIN <<>>] = 0
  <2> DEFINE g == CHOOSE f : It(f)
  <2>1. It(g)
    BY <1>3
  <2> HIDE DEF g
  <2>2. g[DOMAIN <<>>] = 0
    BY <1>1, <2>1
  <2> QED BY <2>2 DEF g
<1> QED BY <1>4, <1>5, RoomAssumption

\* What the device and the network have is text.
TextInv ==
  /\ script \in [Addresses -> Seq(Seq(Texts))]
  /\ \A d \in commands : d.text \in Seq(Texts) /\ d.from \in Addresses
  /\ query.text \in Seq(Texts)

\* A sequence, of whatever it holds.
IsSequence(s) == s \in Seq({s[i] : i \in DOMAIN s})

DoneInv ==
  /\ IsSequence(done)
  /\ \A i \in DOMAIN done : Cardinality(done[i].param) <= 1

Places == {"read", "message", "cell", "next", "send", "undefined"}
Reasons == {"none", "text", "full", "file"}

ServerInv ==
  /\ spc \in Places /\ why \in Reasons /\ readind \in Ends /\ dst \in Addresses \cup {"none"}
  /\ Fits(writebuf)

LEMMA AtMostOne == \A path : Cardinality(GetParam(path)) <= 1
<1> SUFFICES ASSUME NEW path PROVE Cardinality(GetParam(path)) <= 1
  OBVIOUS
<1> DEFINE P == GetParam(path)
<1>1. P \subseteq Nat /\ \A i, j \in P : i <= j
  BY ParametersAssumption DEF GetParam
<1> HIDE DEF P
<1>2. CASE P = {}
  BY <1>2, FS_EmptySet DEF P
<1>3. ASSUME NEW i \in P PROVE Cardinality(P) <= 1
  <2>1. \A j \in P : j = i
    BY <1>1
  <2>2. P = {i}
    BY <2>1
  <2>3. Cardinality({i}) = 1
    BY FS_Singleton
  <2> QED BY <2>2, <2>3
<1>4. Cardinality(P) <= 1
  BY <1>2, <1>3 DEF P
<1> QED BY <1>4 DEF P

LEMMA AppendsDone ==
  ASSUME NEW s, IsSequence(s), NEW x
  PROVE  /\ IsSequence(Append(s, x))
         /\ \A i \in DOMAIN Append(s, x) : Append(s, x)[i] = x \/ \E j \in DOMAIN s : Append(s, x)[i] = s[j]
<1> DEFINE S == {s[i] : i \in DOMAIN s}
           t == Append(s, x)
<1>1. s \in Seq(S \cup {x}) /\ t \in Seq(S \cup {x}) /\ Len(t) = Len(s) + 1 /\ Len(s) \in Nat
      /\ DOMAIN t = 1..Len(t) /\ DOMAIN s = 1..Len(s)
  BY DEF IsSequence
<1>2. \A i \in 1..Len(t) : t[i] = IF i = Len(s) + 1 THEN x ELSE s[i]
  BY <1>1
<1> HIDE DEF t, S
<1>3. IsSequence(t)
  BY <1>1 DEF IsSequence
<1>4. \A i \in DOMAIN t : t[i] = x \/ \E j \in DOMAIN s : t[i] = s[j]
  BY <1>1, <1>2
<1> QED BY <1>3, <1>4 DEF t

LEMMA WriteGoes == \A ws, next : next \in Places /\ Write(ws, next) => spc' \in Places
<1> SUFFICES ASSUME NEW ws, NEW next, next \in Places, Write(ws, next) PROVE spc' \in Places
  OBVIOUS
<1>1. spc' = CASE Fits(ws) -> next [] PastTheEnd(ws) -> "undefined" [] OTHER -> "read"
  BY DEF Write
<1> QED BY <1>1 DEF Places

LEMMA WriteSays == \A ws, next : Write(ws, next) /\ why \in Reasons => why' \in Reasons
BY DEF Write, Reasons

LEMMA WriteFits == \A ws, next : Write(ws, next) /\ Fits(writebuf) => Fits(writebuf')
<1> SUFFICES ASSUME NEW ws, NEW next, Write(ws, next), Fits(writebuf) PROVE Fits(writebuf')
  OBVIOUS
<1> QED BY DEF Write

-----------------------------------------------------------------------------
(* Every step keeps them.                                                  *)

TypeInv == TextInv /\ DoneInv /\ ServerInv

LEMMA QueryLength == TextInv => Len(readbuf) \in Nat
BY DEF TextInv, readbuf

LEMMA TypesFirst == Init => TypeInv
<1> SUFFICES ASSUME Init PROVE TypeInv
  OBVIOUS
<1>1. TextInv
  <2>1. script \in [Addresses -> Seq(Seq(Texts))]
    BY ScriptsAssumption, Zenon DEF Init, Texts
  <2>2. commands = {} /\ query.text \in Seq(Texts)
    BY DEF Init
  <2> QED BY <2>1, <2>2 DEF TextInv
<1>2. DoneInv
  BY DEF Init, DoneInv, IsSequence
<1>3. ServerInv
  <2>1. readind = 1 /\ readbuf = <<>>
    BY DEF Init, readbuf
  <2>2. readind \in Ends
    BY <2>1 DEF Ends
  <2>3. Fits(writebuf)
    BY NothingWritten DEF Init, Fits
  <2> QED BY <2>2, <2>3 DEF Init, ServerInv, Places, Reasons
<1> QED BY <1>1, <1>2, <1>3 DEF TypeInv

\* The cells that were carried out, once another one has been.
LEMMA CarryOutTypes ==
  \A c, results : CarryOut(c, results) /\ TypeInv
                    => spc' \in Places /\ why' \in Reasons /\ Fits(writebuf') /\ DoneInv'
<1> SUFFICES ASSUME NEW c, NEW results, CarryOut(c, results), TypeInv
             PROVE  spc' \in Places /\ why' \in Reasons /\ Fits(writebuf') /\ DoneInv'
  OBVIOUS
<1>1. PICK r \in results :
        /\ done' = Append(done, [cell |-> c, param |-> GetParam(c.path), err |-> r.err, text |-> r.text])
        /\ Write(writebuf \o Echo(readind) \o Result(c, r), "next")
  BY DEF CarryOut
<1> DEFINE x == [cell |-> c, param |-> GetParam(c.path), err |-> r.err, text |-> r.text]
           ws == writebuf \o Echo(readind) \o Result(c, r)
<1>2. done' = Append(done, x) /\ Write(ws, "next") /\ Cardinality(x.param) <= 1
  BY <1>1, AtMostOne
<1> HIDE DEF x, ws
<1>3. DoneInv'
  <2>1. IsSequence(done) /\ \A i \in DOMAIN done : Cardinality(done[i].param) <= 1
    BY DEF TypeInv, DoneInv
  <2> DEFINE t == Append(done, x)
  <2>2. IsSequence(t) /\ \A i \in DOMAIN t : t[i] = x \/ \E j \in DOMAIN done : t[i] = done[j]
    BY <2>1, AppendsDone
  <2>3. done' = t
    BY <1>2
  <2> HIDE DEF t
  <2>4. \A i \in DOMAIN t : Cardinality(t[i].param) <= 1
    BY <1>2, <2>1, <2>2
  <2> QED BY <2>2, <2>3, <2>4 DEF DoneInv
<1>4. spc' \in Places
  <2>1. "next" \in Places
    BY DEF Places
  <2> QED BY <1>2, <2>1, WriteGoes
<1>5. why' \in Reasons
  BY <1>2, WriteSays DEF TypeInv, ServerInv
<1>6. Fits(writebuf')
  BY <1>2, WriteFits DEF TypeInv, ServerInv
<1> QED BY <1>3, <1>4, <1>5, <1>6

LEMMA SameQuery == UNCHANGED query => Ends' = Ends /\ readbuf' = readbuf
BY DEF Ends, readbuf

LEMMA WorkingTypes == TypeInv /\ Working => TypeInv'
<1> SUFFICES ASSUME TypeInv, Working PROVE TypeInv'
  OBVIOUS
<1> DEFINE Same == UNCHANGED <<script, commands, query, dst>>
           Goal == spc' \in Places /\ why' \in Reasons /\ readind' \in Ends /\ Fits(writebuf') /\ DoneInv'
<1>1. Same
  BY WorkingKeeps
<1>2. readind \in Ends /\ Len(readbuf) \in Nat /\ dst \in Addresses \cup {"none"} /\ why \in Reasons /\ Fits(writebuf) /\ DoneInv
  BY QueryLength DEF TypeInv, ServerInv
<1>3. {"read", "cell", "next", "send"} \subseteq Places /\ {"text", "file"} \subseteq Reasons
  BY DEF Places, Reasons
<1>4. \A reason \in Reasons : GiveUp(reason) => spc' \in Places /\ why' \in Reasons
  BY <1>3 DEF GiveUp
<1>5. UNCHANGED done => DoneInv'
  BY <1>2 DEF DoneInv
<1>6. UNCHANGED writebuf => Fits(writebuf')
  BY <1>2
<1>7. \A ws : \A next \in {"cell", "next", "send"} : Write(ws, next) => spc' \in Places /\ why' \in Reasons /\ Fits(writebuf')
  BY <1>2, <1>3, WriteGoes, WriteSays, WriteFits
<1>8. ASSUME ProcessMessage PROVE Goal
  <2> DEFINE xacts == IF NextReadCharEquals(1, "[")
                      THEN {x \in ReadField(2, ",", XactStr) : IntegerConvert("u8", x.text) # {}} ELSE {}
             ws == <<WriteString("["), WriteString(The(xacts).text), WriteString(",")>>
  <2>1. /\ UNCHANGED done
        /\ \/ xacts = {} /\ GiveUp("text") /\ UNCHANGED <<readind, writebuf>>
           \/ xacts # {} /\ Write(ws, "cell") /\ readind' = The(xacts).next
    BY <1>8 DEF ProcessMessage
  <2>2. xacts # {} => The(xacts).next \in Ends
    <3>1. Within(ReadField(2, ",", XactStr))
      <4>1. 2 \in Nat \ {0}
        OBVIOUS
      <4> QED BY <1>2, <4>1, ReadFieldReads, Zenon
    <3>2. \A x \in xacts : x.next \in Ends
      BY <3>1 DEF Within
    <3>3. xacts # {} => The(xacts) \in xacts
      BY DEF The
    <3> HIDE DEF xacts
    <3> QED BY <3>2, <3>3
  <2> HIDE DEF xacts, ws
  <2> QED BY <1>2, <1>3, <1>4, <1>5, <1>6, <1>7, <2>1, <2>2
<1>9. ASSUME ProcessCell PROVE Goal
  <2>1. CASE GiveUp("text") /\ UNCHANGED <<readind, writebuf, done>>
    BY <1>2, <1>3, <1>4, <1>5, <1>6, <2>1
  <2>2. CASE Write(writebuf \o Echo(readind), "next") /\ UNCHANGED <<readind, done>>
    BY <1>2, <1>5, <1>7, <2>2
  <2>3. ASSUME NEW c \in CellAt(readind), readind' = c.next,
               \/ GiveUp("text") /\ UNCHANGED <<writebuf, done>>
               \/ \E results : CarryOut(c, results)
        PROVE Goal
    <3>1. readind' \in Ends
      BY <1>2, <2>3, CellReads DEF CellsWithin
    <3>2. CASE GiveUp("text") /\ UNCHANGED <<writebuf, done>>
      BY <1>3, <1>4, <1>5, <1>6, <3>1, <3>2
    <3>3. CASE \E results : CarryOut(c, results)
      BY <3>1, <3>3, CarryOutTypes
    <3> QED BY <2>3, <3>2, <3>3
  <2> HIDE DEF Goal
  <2> QED BY <1>9, <2>1, <2>2, <2>3 DEF ProcessCell
<1>10. ASSUME SaveState PROVE Goal
  <2>1. PICK c \in CellAt(readind) :
          /\ readind' = c.next
          /\ \/ CarryOut(c, {[err |-> "NONE", text |-> ""]})
             \/ GiveUp("file") /\ UNCHANGED <<writebuf, done>>
    BY <1>10 DEF SaveState
  <2>2. readind' \in Ends
    BY <1>2, <2>1, CellReads DEF CellsWithin
  <2>3. CASE CarryOut(c, {[err |-> "NONE", text |-> ""]})
    BY <2>2, <2>3, CarryOutTypes
  <2>4. CASE GiveUp("file") /\ UNCHANGED <<writebuf, done>>
    BY <1>3, <1>4, <1>5, <1>6, <2>2, <2>4
  <2> QED BY <2>1, <2>3, <2>4
<1>11. ASSUME NextCell PROVE Goal
  <2>1. /\ NextReadCharEquals(readind, ",") /\ readind' = readind + 1 /\ UNCHANGED done
        /\ Write(Append(writebuf, WriteString(",")), "cell")
    BY <1>11 DEF NextCell
  <2>2. readind' \in Ends
    <3>1. readind \in 1..(Len(readbuf) + 1) /\ readind <= Len(readbuf) /\ readind' = readind + 1
      BY <1>2, <2>1 DEF NextReadCharEquals, Ends
    <3> DEFINE n == Len(readbuf)
    <3> HIDE DEF n
    <3>2. n \in Nat /\ readind \in 1..(n + 1) /\ readind <= n
      BY <1>2, <3>1 DEF n
    <3>3. readind + 1 \in 1..(n + 1)
      BY <3>2
    <3> QED BY <3>1, <3>3 DEF n, Ends
  <2> QED BY <1>5, <1>7, <2>1, <2>2
<1>12. ASSUME End PROVE Goal
  <2>1. /\ UNCHANGED <<readind, done>>
        /\ \/ Write(Append(writebuf, WriteString("]")), "send")
           \/ GiveUp("text") /\ UNCHANGED writebuf
    BY <1>12 DEF End
  <2> QED BY <1>2, <1>3, <1>4, <1>5, <1>6, <1>7, <2>1
<1>13. Goal
  BY <1>8, <1>9, <1>10, <1>11, <1>12 DEF Working
<1>14. TextInv'
  BY <1>1 DEF TypeInv, TextInv
<1>15. ServerInv'
  BY <1>1, <1>2, <1>13, SameQuery DEF ServerInv
<1> QED BY <1>13, <1>14, <1>15 DEF TypeInv

LEMMA TypesStep == TypeInv /\ [Next]_vars => TypeInv'
<1> SUFFICES ASSUME TypeInv, [Next]_vars PROVE TypeInv'
  OBVIOUS
<1> USE DEF TypeInv
<1>1. ASSUME NEW d \in commands, Receive(d) PROVE TypeInv'
  <2>1. /\ commands' = commands \ {d} /\ query' = d /\ dst' = d.from /\ spc' = "message" /\ readind' = 1
        /\ writebuf' = <<>> /\ done' = <<>> /\ why' = "none" /\ UNCHANGED script
    BY <1>1 DEF Receive, clientVars
  <2>2. d.text \in Seq(Texts) /\ d.from \in Addresses
    BY DEF TextInv
  <2>3. TextInv'
    BY <2>1, <2>2 DEF TextInv
  <2>4. DoneInv'
    BY <2>1 DEF DoneInv, IsSequence
  <2>5. readind' \in Ends'
    <3>1. Len(readbuf') \in Nat /\ readind' = 1
      BY <2>1, <2>2 DEF readbuf
    <3> QED BY <3>1 DEF Ends
  <2>6. Fits(writebuf')
    BY <2>1, NothingWritten DEF Fits
  <2>7. ServerInv'
    BY <2>1, <2>2, <2>5, <2>6 DEF ServerInv, Places, Reasons
  <2> QED BY <2>3, <2>4, <2>7
<1>2. CASE Working
  BY <1>2, WorkingTypes
<1>3. CASE Send
  <2>1. spc' = "read" /\ UNCHANGED <<script, commands, query, readind, writebuf, dst, done, why>>
    BY <1>3 DEF Send, clientVars
  <2>2. TextInv' /\ DoneInv'
    BY <2>1 DEF TextInv, DoneInv
  <2>3. ServerInv'
    BY <2>1, SameQuery DEF ServerInv, Places
  <2> QED BY <2>2, <2>3
<1>4. ASSUME UNCHANGED serverVars, TextInv' PROVE TypeInv'
  <2>1. UNCHANGED <<spc, query, readind, writebuf, dst, done, why>>
    BY <1>4 DEF serverVars
  <2>2. DoneInv'
    BY <2>1 DEF DoneInv
  <2>3. ServerInv'
    BY <2>1, SameQuery DEF ServerInv
  <2> QED BY <1>4, <2>2, <2>3
<1>5. ASSUME NEW a \in Addresses, Transact(a) PROVE TypeInv'
  <2> DEFINE d == [from |-> a, text |-> Head(script[a])]
             rest == [script EXCEPT ![a] = Tail(script[a])]
  <2>1. /\ script[a] # <<>> /\ script' = rest /\ (commands' = commands \/ commands' = commands \cup {d})
        /\ UNCHANGED serverVars
    BY <1>5 DEF Transact
  <2>2. script[a] \in Seq(Seq(Texts))
    BY DEF TextInv
  <2>3. Head(script[a]) \in Seq(Texts) /\ Tail(script[a]) \in Seq(Seq(Texts))
    BY <2>1, <2>2
  <2>4. rest \in [Addresses -> Seq(Seq(Texts))]
    BY <2>3 DEF TextInv
  <2>5. d.text \in Seq(Texts) /\ d.from \in Addresses
    BY <2>3
  <2> HIDE DEF d, rest
  <2>6. TextInv'
    BY <2>1, <2>4, <2>5 DEF TextInv, serverVars
  <2> QED BY <1>4, <2>1, <2>6
<1>6. ASSUME UNCHANGED <<script, serverVars>>, commands' \subseteq commands PROVE TypeInv'
  <2>1. TextInv'
    BY <1>6 DEF TextInv, serverVars
  <2> QED BY <1>4, <1>6, <2>1
<1>7. ASSUME NEW a \in Addresses, TimeOut(a) PROVE TypeInv'
  BY <1>6, <1>7 DEF TimeOut
<1>8. ASSUME NEW r \in replies, ReadThread(r) PROVE TypeInv'
  BY <1>6, <1>8 DEF ReadThread
<1>9. CASE Lose
  BY <1>6, <1>9 DEF Lose, clientVars
<1>10. CASE UNCHANGED vars
  BY <1>6, <1>10 DEF vars, clientVars
<1> QED BY <1>1, <1>2, <1>3, <1>5, <1>7, <1>8, <1>9, <1>10 DEF Next, CtlThread, Working

\* The server reads within the query it has, answers an address it knows, carries a cell out on one parameter at most,
\* and always has room left for the zero that ends what it writes (the read and write functions of HCQServer).
THEOREM TypeCorrect == Spec => []TypeOK
<1>1. TypeInv => TypeOK
  BY DEF TypeInv, DoneInv, ServerInv, TypeOK, Places, Reasons, Ends, Fits
<1> QED BY <1>1, TypesFirst, TypesStep, PTL DEF Spec

\* What a program prints answers its own query, although the server has one destination for all and the program looks
\* at nothing but a comma, unless a program before it at its address gave up waiting (UDPDevice::Read, ReadThread of
\* hcquery).
THEOREM ProgramsGetTheirOwnAnswer == Spec => []OwnAnswer
<1>1. OwnInv => OwnAnswer
  BY DEF OwnInv, AddressInv, PlaceInv, OwnAnswer, Own
<1> QED BY <1>1, OwnFirst, OwnStep, PTL DEF Spec

===============================================================================
