----------------------------- MODULE HCQServer -----------------------------
(***************************************************************************)
(* The query server (lib/hc/hcqserver.cc), the device it answers through   *)
(* (lib/common/udpdevice.cc) and the clients that ask it                   *)
(* (app/hcquery/main.cc).                                                  *)
(*                                                                         *)
(* A query is one datagram of text, [transaction,[cell],...]; a cell is an *)
(* operation on a parameter that is named by its path, looked up in the    *)
(* tree of containers (lib/hc/hcutility.cc).  The server carries each cell *)
(* out as soon as it has read it, and sends an answer only when it has     *)
(* come to the end of the query without an error.                          *)
(*                                                                         *)
(* A query is a sequence of strings here: the punctuation, each a string   *)
(* of its own, and the words between it.                                   *)
(***************************************************************************)
EXTENDS HCParam, SequencesExt

CONSTANTS
  Containers,  \* the tree: a sequence of [parent, name], the parent being a place in it, 0 for the first, the top
  Parameters,  \* a sequence of [cont, par], in the order they were added
  Components,  \* [path -> the names between its slashes]
  Addresses,   \* where queries come from
  Scripts,     \* [address -> the queries sent from there, one after the other], of which one is chosen
  Returned(_), \* what an application's get method returns
  MethodErrs,  \* and its error codes
  WriteMax,    \* the size of _writebuf, 65536
  WellFormed   \* the queries that ask for what there is, in the form the web widgets give them

ASSUME ScriptsAssumption == Scripts \subseteq [Addresses -> Seq(Seq(STRING))]
ASSUME ParametersAssumption == DOMAIN Parameters \subseteq Nat
ASSUME RoomAssumption == WriteMax \in Nat \ {0}

Quote == "\""

VARIABLES
  script,     \* [address -> the queries still to be sent]
  asked,      \* [address -> the query of the program that runs there]
  told,       \* [address -> the answer it printed, if any]
  waiting,    \* [address -> whether it waits]
  commands,   \* datagrams on their way to the server
  replies,    \* and back
  spc,        \* where the control thread is
  query,      \* the datagram it has read
  readind,    \* the next string of it
  writebuf,   \* what it has written
  dst,        \* the device's destination
  done,       \* ghost: the cells of this query that were carried out, with their results
  why,        \* ghost: why the last query was given up
  timedout    \* ghost: [address -> whether a query from there was given up]

clientVars == <<script, asked, told, waiting, timedout>>
serverVars == <<spc, query, readind, writebuf, dst, done, why>>
vars == <<clientVars, commands, replies, serverVars>>

------------------------------------------------------------------------------
(* Looking a parameter up. *)

Names(path) == IF path \in DOMAIN Components THEN Components[path] ELSE <<path>>

SubCont(at, name) ==
    LET named == {c \in DOMAIN Containers : Containers[c].parent = at /\ Containers[c].name = name}
    IN  {c \in named : \A d \in named : c <= d}

\* One name of a path, from a container or, when a name before it was not found, from none.
Step(at, name) ==
    CASE name \in {"", "."} -> at
      [] name = ".." -> {IF Containers[c].parent = 0 THEN c ELSE Containers[c].parent : c \in at}
      [] OTHER -> UNION {SubCont(c, name) : c \in at}

\* A mutant: the way up is taken for a name.
GetParamDown(path) ==
    LET names == Names(path)
        named == {i \in DOMAIN Parameters :
                    /\ Parameters[i].cont \in FoldLeft(LAMBDA at, name : UNION {SubCont(c, name) : c \in at}, {1}, Front(names))
                    /\ Parameters[i].par.name = Last(names)}
    IN  {i \in named : \A j \in named : i <= j}

GetParam(path) ==
    LET names == Names(path)
        named == {i \in DOMAIN Parameters :
                    /\ Parameters[i].cont \in FoldLeft(Step, {1}, Front(names))
                    /\ Parameters[i].par.name = Last(names)}
    IN  {i \in named : \A j \in named : i <= j}

\* HCContainer::GetPath, as names.
GetPath[c \in DOMAIN Containers] ==
    IF Containers[c].parent = 0 THEN <<Containers[c].name>> ELSE Append(GetPath[Containers[c].parent], Containers[c].name)

------------------------------------------------------------------------------
(* Reading.  A read gives what follows in the query, {} if it is not there: the text read and where to go on.     *)

The(S) == CHOOSE x \in S : TRUE
readbuf == query.text
Chars(s) == FoldLeft(LAMBDA n, t : n + Len(t), 0, s)
Concat(s) == FoldLeft(LAMBDA a, b : a \o b, "", s)

NextReadCharEquals(i, ch) == i <= Len(readbuf) /\ readbuf[i] = ch

\* A mutant: a text that is too long is cut.
ReadFieldCut(i, termchar, fieldsize) ==
    {[text |-> LET t == Concat(SubSeq(readbuf, i, j - 1)) IN IF Len(t) < fieldsize THEN t ELSE SubSeq(t, 1, fieldsize - 1),
      lit |-> FALSE, next |-> j + 1] :
        j \in {j \in i..Len(readbuf) : readbuf[j] = termchar /\ \A k \in i..(j - 1) : readbuf[k] # termchar}}

\* The text before the next termchar, if it fits in a field of that size with its terminating zero.
ReadField(i, termchar, fieldsize) ==
    {[text |-> Concat(SubSeq(readbuf, i, j - 1)), lit |-> FALSE, next |-> j + 1] :
        j \in {j \in i..Len(readbuf) :
                 /\ readbuf[j] = termchar /\ \A k \in i..(j - 1) : readbuf[k] # termchar
                 /\ Chars(SubSeq(readbuf, i, j - 1)) < fieldsize}}

PName == 100
PVal == 100
EIDStr == 11
Opcode == 3
XactStr == 3

Quoted(i, size) ==
    IF NextReadCharEquals(i, Quote) THEN {[f EXCEPT !.lit = TRUE] : f \in ReadField(i + 1, Quote, size)} ELSE {}
Then(fields, ch) == {[f EXCEPT !.next = @ + 1] : f \in {f \in fields : NextReadCharEquals(f.next, ch)}}

\* A word in quotes, or one that ends with ch.
Word(i, ch, size) ==
    IF NextReadCharEquals(i, Quote) THEN Then(Quoted(i, size), ch) ELSE ReadField(i, ch, size)

ParamName(i, ch) == Then(Quoted(i, PName), ch)

Cell(op, name, eid, val, next) == [op |-> op, path |-> name, eid |-> eid, val |-> val, next |-> next]

NameCell(op, i) == {Cell(op, n.text, {}, {}, n.next) : n \in ParamName(i, "]")}
ValueCell(op, i) ==
    UNION {{Cell(op, n.text, {}, {v}, v.next) : v \in Word(n.next, "]", PVal)} : n \in ParamName(i, ",")}
ElementCell(op, i) ==
    UNION {{Cell(op, n.text, {e}, {}, e.next) : e \in Word(n.next, "]", EIDStr)} : n \in ParamName(i, ",")}

ProcessCallCell(i) == NameCell("ca", i)
ProcessGetCell(i) == NameCell("ge", i)
ProcessSetCell(i) == ValueCell("se", i)
ProcessICallCell(i) == ElementCell("ic", i)
ProcessIGetCell(i) == ElementCell("ig", i)
ProcessISetCell(i) ==
    UNION {UNION {{Cell("is", n.text, {e}, {v}, v.next) : v \in Word(e.next, "]", PVal)} :
              e \in Word(n.next, ",", EIDStr)} : n \in ParamName(i, ",")}
ProcessAddCell(i) == ValueCell("ad", i)
ProcessSubCell(i) == ValueCell("su", i)
ProcessSaveCell(i) == IF NextReadCharEquals(i, "]") THEN {Cell("sa", "", {}, {}, i + 1)} ELSE {}

\* The opcode after the bracket that opens a cell.
OpcodeAt(i) == IF NextReadCharEquals(i, "[") THEN Quoted(i + 1, Opcode) ELSE {}

\* ProcessCell, from that bracket.
CellAt(i) ==
    UNION {LET j == o.next + 1
               comma == NextReadCharEquals(o.next, ",")
           IN
           CASE o.text = "sa" -> ProcessSaveCell(o.next)
             [] o.text = "ca" /\ comma -> ProcessCallCell(j)
             [] o.text = "ge" /\ comma -> ProcessGetCell(j)
             [] o.text = "se" /\ comma -> ProcessSetCell(j)
             [] o.text = "ic" /\ comma -> ProcessICallCell(j)
             [] o.text = "ig" /\ comma -> ProcessIGetCell(j)
             [] o.text = "is" /\ comma -> ProcessISetCell(j)
             [] o.text = "ad" /\ comma -> ProcessAddCell(j)
             [] o.text = "su" /\ comma -> ProcessSubCell(j)
             [] OTHER -> {} :
           o \in OpcodeAt(i)}

------------------------------------------------------------------------------
(* Writing: texts one after the other, each in quotes or not. *)

WriteString(s) == [quoted |-> FALSE, text |-> s]
WriteStringQuote(s) == [quoted |-> TRUE, text |-> s]
Written(ws) == FoldLeft(LAMBDA n, w : n + Len(w.text) + (IF w.quoted THEN 2 ELSE 0), 0, ws)

\* A mutant: no room is left for the terminating zero.
FitsUnterminated(ws) == Written(ws) <= WriteMax
Fits(ws) == Written(ws) < WriteMax
\* The room for a text in quotes is an unsigned number: with one character left it is not negative but large, the
\* text is written past the end, and what happens then is undefined.
PastTheEnd(ws) == \E k \in DOMAIN ws : ws[k].quoted /\ Written(SubSeq(ws, 1, k - 1)) = WriteMax - 1

Argument(w) == [quoted |-> w.lit, text |-> w.text]

\* The methods of the text interface, for a plain value and for one in quotes.
Methods == [ca |-> <<"Call", "Call">>, ge |-> <<"GetStr", "GetStr">>, se |-> <<"SetStr", "SetStrLit">>,
            ic |-> <<"CallTbl", "CallTbl">>, ig |-> <<"GetStrTbl", "GetStrTbl">>,
            is |-> <<"SetStrTbl", "SetStrLitTbl">>, ad |-> <<"AddStr", "AddStrLit">>,
            su |-> <<"SubStr", "SubStrLit">>]

\* The element a cell of that operation names, as it is read before what follows it.
ElementAt(op, i) ==
    CASE op \notin {"ic", "ig", "is"} \/ ~NextReadCharEquals(i, ",") -> {}
      [] OTHER -> IF NextReadCharEquals(i + 1, Quote) THEN Quoted(i + 1, EIDStr)
                  ELSE ReadField(i + 1, IF op = "is" THEN "," ELSE "]", EIDStr)

\* What the reply to a cell begins with: the operation, the name and the element are each repeated as soon as they
\* are read, though the rest of the cell may turn out not to be readable; the element only if there is a parameter of
\* that name.  Nothing is repeated of a save, not even its bracket.
Echo(i) ==
    LET ops == {o \in OpcodeAt(i) : o.text # "sa" /\ NextReadCharEquals(o.next, ",")}
        names == UNION {Quoted(o.next + 1, PName) : o \in {o \in ops : o.text \in DOMAIN Methods}}
        eids == UNION {ElementAt(The(ops).text, n.next) : n \in {n \in names : GetParam(n.text) # {}}}
    IN  (IF ops = {} THEN <<>> ELSE <<WriteString("[\""), WriteString(The(ops).text), WriteString("\",")>>)
        \o (IF names = {} THEN <<>> ELSE <<WriteStringQuote(The(names).text), WriteString(",")>>)
        \o (IF eids = {} THEN <<>> ELSE <<Argument(The(eids)), WriteString(",")>>)

Gets == {"ge", "ig"}
Result(c, r) ==
    (IF c.op \in Gets THEN <<WriteStringQuote(r.text), WriteString(",")>> ELSE <<>>)
        \o <<WriteStringQuote(r.err), WriteString("]")>>

------------------------------------------------------------------------------
(* Carrying a cell out. *)

Element(p, c) ==
    CASE c.eid = {} -> {0}
      [] c.eid # {} /\ The(c.eid).lit -> EIDStrToNum(p, The(c.eid).text)
      [] OTHER -> IntegerConvert("u32", The(c.eid).text)

Asked(c, eid) ==
    LET lit == \E v \in c.val : v.lit
    IN  [op |-> Methods[c.op][IF lit THEN 2 ELSE 1], eid |-> eid,
         text |-> IF c.val = {} THEN "" ELSE The(c.val).text]

\* Numbers are printed; a text is one already.
StringPrint(p, t) == IF p.cls = "str" \/ p.valenums # {} THEN t ELSE ToString(t)

\* What a parameter returns for a request: the error, and the text of a value or "".
Results(p, c, request) ==
    LET outcome == Text(p, request)
        Told(e, v) == LET s == Shown(p, e, v)
                      IN  [err |-> s.err, text |-> IF s.text = {} THEN "" ELSE StringPrint(p, The(s.text))]
    IN
    CASE outcome.method = "none" -> {[err |-> outcome.err, text |-> ""]}
      [] outcome.method # "none" /\ c.op \in Gets -> {Told(e, v) : e \in MethodErrs, v \in Returned(p)}
      [] OTHER -> {[err |-> e, text |-> ""] : e \in MethodErrs}

------------------------------------------------------------------------------
(* The control thread. *)

Init ==
    /\ script \in Scripts
    /\ asked = [a \in Addresses |-> <<>>]
    /\ told = [a \in Addresses |-> {}]
    /\ waiting = [a \in Addresses |-> FALSE] /\ timedout = [a \in Addresses |-> FALSE]
    /\ commands = {} /\ replies = {}
    /\ spc = "read" /\ query = [from |-> "none", text |-> <<>>] /\ readind = 1 /\ writebuf = <<>> /\ dst = "none"
    /\ done = <<>> /\ why = "none"

\* The query is given up: nothing is sent.
GiveUp(reason) == spc' = "read" /\ why' = reason

\* The texts are written, and the thread goes on; or there is no room for one of them.
Write(ws, next) ==
    /\ spc' = CASE Fits(ws) -> next [] PastTheEnd(ws) -> "undefined" [] OTHER -> "read"
    /\ writebuf' = IF Fits(ws) THEN ws ELSE writebuf
    /\ why' = IF Fits(ws) \/ PastTheEnd(ws) THEN why ELSE "full"

\* A mutant: the destination stays once it is set.
ReceiveFirst(d) ==
    /\ spc = "read"
    /\ commands' = commands \ {d}
    /\ query' = d
    /\ dst' = IF dst = "none" THEN d.from ELSE dst
    /\ spc' = "message" /\ readind' = 1 /\ writebuf' = <<>> /\ done' = <<>> /\ why' = "none"
    /\ UNCHANGED <<clientVars, replies>>

\* The device takes the source of what it reads for the destination of what it writes next.
Receive(d) ==
    /\ spc = "read"
    /\ commands' = commands \ {d}
    /\ query' = d
    /\ dst' = d.from
    /\ spc' = "message" /\ readind' = 1 /\ writebuf' = <<>> /\ done' = <<>> /\ why' = "none"
    /\ UNCHANGED <<clientVars, replies>>

\* ProcessMessage, to the first cell.
ProcessMessage ==
    LET xacts == IF NextReadCharEquals(1, "[")
                 THEN {x \in ReadField(2, ",", XactStr) : IntegerConvert("u8", x.text) # {}} ELSE {}
    IN
    /\ spc = "message"
    /\ IF xacts = {} THEN GiveUp("text") /\ UNCHANGED <<readind, writebuf>>
       ELSE /\ Write(<<WriteString("["), WriteString(The(xacts).text), WriteString(",")>>, "cell")
            /\ readind' = The(xacts).next
    /\ UNCHANGED <<clientVars, commands, replies, query, dst, done>>

\* What a cell gives is written after what was repeated of it.
CarryOut(c, results) ==
    \E r \in results :
        /\ done' = Append(done, [cell |-> c, param |-> GetParam(c.path), err |-> r.err, text |-> r.text])
        /\ Write(writebuf \o Echo(readind) \o Result(c, r), "next")

\* A cell is carried out as soon as it is read, unless there is no room to repeat it, it cannot be read to its end, or
\* it names no parameter or no element.
ProcessCell ==
    LET ws == writebuf \o Echo(readind) IN
    /\ spc = "cell"
    /\ \/ /\ ~Fits(ws) /\ Write(ws, "next")
          /\ UNCHANGED <<readind, done>>
       \/ /\ Fits(ws) /\ CellAt(readind) = {} /\ GiveUp("text")
          /\ UNCHANGED <<readind, writebuf, done>>
       \/ \E c \in CellAt(readind) :
            /\ Fits(ws) /\ c.op # "sa"
            /\ readind' = c.next
            /\ \/ /\ \A i \in GetParam(c.path) : Element(Parameters[i].par, c) = {}
                  /\ GiveUp("text") /\ UNCHANGED <<writebuf, done>>
               \/ \E i \in GetParam(c.path) : \E eid \in Element(Parameters[i].par, c) :
                      CarryOut(c, Results(Parameters[i].par, c, Asked(c, eid)))
    /\ UNCHANGED <<clientVars, commands, replies, query, dst>>

\* default.state is written, or cannot be opened.
SaveState ==
    /\ spc = "cell"
    /\ \E c \in CellAt(readind) :
        /\ c.op = "sa"
        /\ readind' = c.next
        /\ \/ CarryOut(c, {[err |-> "NONE", text |-> ""]})
           \/ GiveUp("file") /\ UNCHANGED <<writebuf, done>>
    /\ UNCHANGED <<clientVars, commands, replies, query, dst>>

\* A comma and another cell, or the bracket that ends the query and nothing after it.
NextCell ==
    /\ spc = "next"
    /\ NextReadCharEquals(readind, ",")
    /\ Write(Append(writebuf, WriteString(",")), "cell")
    /\ readind' = readind + 1
    /\ UNCHANGED <<clientVars, commands, replies, query, dst, done>>

\* A mutant: what follows the bracket is ignored.
EndLoosely ==
    /\ spc = "next"
    /\ ~NextReadCharEquals(readind, ",")
    /\ IF NextReadCharEquals(readind, "]")
       THEN Write(Append(writebuf, WriteString("]")), "send")
       ELSE GiveUp("text") /\ UNCHANGED writebuf
    /\ UNCHANGED <<clientVars, commands, replies, query, readind, dst, done>>

End ==
    /\ spc = "next"
    /\ ~NextReadCharEquals(readind, ",")
    /\ IF NextReadCharEquals(readind, "]") /\ readind = Len(readbuf)
       THEN Write(Append(writebuf, WriteString("]")), "send")
       ELSE GiveUp("text") /\ UNCHANGED writebuf
    /\ UNCHANGED <<clientVars, commands, replies, query, readind, dst, done>>

Send ==
    /\ spc = "send"
    /\ spc' = "read"
    /\ replies' = replies \cup {[to |-> dst, text |-> [k \in DOMAIN writebuf |-> writebuf[k]], query |-> query, cells |-> done]}
    /\ UNCHANGED <<clientVars, commands, query, readind, writebuf, dst, done, why>>

CtlThread == (\E d \in commands : Receive(d)) \/ ProcessMessage \/ ProcessCell \/ SaveState \/ NextCell \/ End \/ Send

------------------------------------------------------------------------------
(* Clients: a program for every query, which waits for an answer for a second. *)

Transact(a) ==
    /\ ~waiting[a] /\ script[a] # <<>>
    /\ script' = [script EXCEPT ![a] = Tail(@)]
    /\ asked' = [asked EXCEPT ![a] = Head(script[a])]
    /\ told' = [told EXCEPT ![a] = {}]
    /\ IF Chars(Head(script[a])) < 3 THEN UNCHANGED <<waiting, commands>>
       ELSE /\ waiting' = [waiting EXCEPT ![a] = TRUE]
            /\ commands' = commands \cup {[from |-> a, text |-> Head(script[a])]}
    /\ UNCHANGED <<timedout, replies, serverVars>>

\* The places of commas among the second to fourth characters.
Commas(s) == {Chars(SubSeq(s, 1, k - 1)) : k \in {k \in DOMAIN s : s[k] = ","}} \cap 1..3

\* An answer with a comma where the query has one is printed, if a program waits for it.
ReadThread(r) ==
    /\ replies' = replies \ {r}
    /\ IF waiting[r.to] /\ Commas(asked[r.to]) \cap Commas([k \in DOMAIN r.text |-> r.text[k].text]) # {}
       THEN told' = [told EXCEPT ![r.to] = {r}] /\ waiting' = [waiting EXCEPT ![r.to] = FALSE]
       ELSE UNCHANGED <<told, waiting>>
    /\ UNCHANGED <<script, asked, timedout, commands, serverVars>>

TimeOut(a) ==
    /\ waiting[a]
    /\ waiting' = [waiting EXCEPT ![a] = FALSE]
    /\ timedout' = [timedout EXCEPT ![a] = TRUE]
    /\ UNCHANGED <<script, asked, told, commands, replies, serverVars>>

\* A datagram is lost.
Lose ==
    \/ /\ \E d \in commands : commands' = commands \ {d}
       /\ UNCHANGED <<clientVars, replies, serverVars>>
    \/ /\ \E r \in replies : replies' = replies \ {r}
       /\ UNCHANGED <<clientVars, commands, serverVars>>

Next == CtlThread \/ (\E a \in Addresses : Transact(a) \/ TimeOut(a)) \/ (\E r \in replies : ReadThread(r)) \/ Lose

Spec == Init /\ [][Next]_vars

------------------------------------------------------------------------------
(* Properties. *)

\* A query or an answer as it is written: its cells are given, each a sequence of texts.
Message(xact, cells) ==
    "[" \o xact \o "," \o Concat([k \in DOMAIN cells |-> (IF k = 1 THEN "" ELSE ",") \o Concat(cells[k])])

InQuotes(t) == Quote \o t \o Quote
Arguments(S) == Concat([k \in 1..Cardinality(S) |-> "," \o (IF The(S).lit THEN InQuotes(The(S).text) ELSE The(S).text)])
AskedCell(c) ==
    <<"[", InQuotes(c.op), IF c.op = "sa" THEN "" ELSE "," \o InQuotes(c.path), Arguments(c.eid), Arguments(c.val), "]">>
\* A save is answered without the beginning of its cell.
AnswerCell(d) ==
    (IF d.cell.op = "sa" THEN <<>>
     ELSE <<"[", InQuotes(d.cell.op), ",", InQuotes(d.cell.path), Arguments(d.cell.eid), ",">>)
        \o (IF d.cell.op \in Gets THEN <<InQuotes(d.text), ",">> ELSE <<>>) \o <<InQuotes(d.err), "]">>

\* The types of the server's state; what is written leaves room for the terminating zero.
TypeOK ==
    /\ spc \in {"read", "message", "cell", "next", "send", "undefined"}
    /\ why \in {"none", "text", "full", "file"}
    /\ readind \in 1..(Len(readbuf) + 1)
    /\ dst \in Addresses \cup {"none"}
    /\ \A i \in DOMAIN done : Cardinality(done[i].param) <= 1
    /\ Written(writebuf) < WriteMax

\* The names of a path from the top, without empty names and dots.
Walk(at, name) ==
    CASE name \in {"", "."} -> at
      [] name = ".." -> IF at = <<>> THEN at ELSE Front(at)
      [] OTHER -> Append(at, name)

\* Whether the query is answered or not, what has been carried out are its first cells, each once and in their
\* order, on the parameters their paths lead to: the first of its name in the container with these names.
FirstCellsCarriedOut ==
    /\ done # <<>> =>
          LET cells == [k \in DOMAIN done |-> AskedCell(done[k].cell)]
              text == Message(writebuf[2].text, cells)
          IN  SubSeq(Concat(readbuf), 1, Len(text)) = text
    /\ \A k \in DOMAIN done : \A i \in done[k].param :
          LET names == Names(done[k].cell.path) IN
          /\ FoldLeft(Walk, <<>>, Front(names)) = Tail(GetPath[Parameters[i].cont])
          /\ Last(names) = Parameters[i].par.name

\* The text before the first comma of a query and after its bracket, which may be empty.
Xact(text) == Concat(SubSeq(text, 2, (CHOOSE k \in DOMAIN text : text[k] = "," /\ \A j \in 1..(k - 1) : text[j] # ",") - 1))

\* An answer says what became of every cell of its query, and of nothing else.
AnswersWholeQuery ==
    \A r \in replies :
        LET xact == Xact(r.query.text) IN
        /\ Concat(r.query.text) = Message(xact, [k \in DOMAIN r.cells |-> AskedCell(r.cells[k].cell)]) \o "]"
        /\ Concat([k \in DOMAIN r.text |-> IF r.text[k].quoted THEN InQuotes(r.text[k].text) ELSE r.text[k].text])
               = Message(xact, [k \in DOMAIN r.cells |-> AnswerCell(r.cells[k])]) \o "]"

\* A query in the form of the web widgets that asks for what there is is not refused for its text.
GoodQueryRead == why = "text" => query.text \notin WellFormed

\* What a program prints answers its own query, although the server has one destination for all and a program looks
\* at nothing but a comma, unless a program before it at its address gave up waiting.
OwnAnswer ==
    \A a \in Addresses : \A r \in told[a] : timedout[a] \/ r.query = [from |-> a, text |-> asked[a]]
==============================================================================
