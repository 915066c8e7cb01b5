------------------------------ MODULE HCServer ------------------------------
(***************************************************************************)
(* The server of the Host Control protocol (lib/hc/hcserver.cc).           *)
(*                                                                         *)
(* The application fills the parameter table (Add) and starts the server   *)
(* (Start), which writes the information file clients download and runs    *)
(* the control thread.  The control thread takes one message at a time and *)
(* runs a command handler for every cell in it; each handler looks the     *)
(* parameter up, lets the parameter read its arguments from the inbound    *)
(* cell, call the application's method and write the result to the         *)
(* outbound cell, and puts that cell in the reply.                         *)
(*                                                                         *)
(* A cell is an opcode and the fields in it; a field is its width in bytes *)
(* and its value, all that readers at the two ends can disagree on.        *)
(***************************************************************************)
EXTENDS Integers, Sequences, FiniteSets

CONSTANTS
  Params,     \* parameter objects, described by Param
  Param,      \* [Params -> [kind, type, get, set, widths]]
  Listed,     \* the parameters that are in the container tree
  PidMax,     \* _pidmax
  CellMax,    \* HCCell::PAYLOAD_MAX
  MsgMax,     \* HCMessage::PAYLOAD_MAX
  MethodErrs, \* error codes the application's methods return
  Scenarios   \* what others may do, a sequence: the parameters the application
              \* adds and the calls of Add at most, and the messages clients
              \* send, each a sequence of cells with the type of value the
              \* client expects, and the messages received at most

Overhead == 3           \* HCCell::OVERHEAD
ERR_UNSPEC == -1
ERR_TYPE == -7
ERR_ACCESS == -9
ERR_PID == -16
T_I8 == 8               \* HCParameter::T_I8
T_FILE == 3             \* HCParameter::T_FILE

\* A full chunk of a file has room for data, and a full cell fits in a message.
ASSUME SizeAssumption ==
  /\ PidMax \in Nat /\ CellMax \in Nat /\ MsgMax \in Nat
  /\ 9 <= CellMax /\ CellMax + Overhead <= MsgMax
ASSUME ListedAssumption == Listed \subseteq Params
ASSUME ParamAssumption ==
  /\ MethodErrs \subseteq Int
  /\ \A p \in Params :
       Param[p] \in [kind : STRING, type : Nat, get : BOOLEAN, set : BOOLEAN, widths : SUBSET Nat]

\* What HCClient puts in a cell: a read's PID and offset have two and four
\* bytes, a value follows the type the client takes the parameter to have.
EchoLen(op) == IF op \in {"ICall", "IGet", "ISet", "Read", "Write"} THEN 2 ELSE 1
Setters == {"Set", "ISet", "Add", "Sub"}
Commands == [op : STRING, fields : Seq([w : Nat, v : Nat]), type : Nat]
Sent(cmd) ==
  /\ cmd \in Commands
  /\ cmd.op = "Read" =>
       (1 \in DOMAIN cmd.fields => cmd.fields[1].w = 2) /\ (2 \in DOMAIN cmd.fields => cmd.fields[2].w = 4)
  /\ cmd.op \in Setters /\ EchoLen(cmd.op) + 1 \in DOMAIN cmd.fields =>
       cmd.fields[EchoLen(cmd.op) + 1].v = cmd.type
ASSUME ScenarioAssumption ==
  \A i \in DOMAIN Scenarios : \A m \in Scenarios[i].messages :
    m \in Seq(Commands) /\ \A k \in DOMAIN m : Sent(m[k])

VARIABLES
  params,    \* _params up to _pidtop: the parameter with PID i is params[i+1]
  started,   \* _started
  infofile,  \* the information file, if there is one: its <<pid, parameter>> entries
  scenario,  \* which of the scenarios this is
  adds,      \* calls of Add, for the bound
  rpc,       \* where the control thread is
  imsg,      \* the cells of _imsg not yet read
  ocell,     \* _ocell
  omsg,      \* _omsg: its cells and _payloadlength
  count,     \* the statistics counters
  handled    \* ghost: what became of each cell of this message

tableVars == <<params, started, infofile, scenario, adds>>
vars == <<tableVars, rpc, imsg, ocell, omsg, count, handled>>

Counters == {"senderr", "recverr", "deserr", "opcodeerr", "piderr", "interr",
             "goodxact"}

-----------------------------------------------------------------------------
(* Fields and cells.                                                       *)

F(w, v) == [w |-> w, v |-> v]
I8(v) == F(1, v)
U8(v) == F(1, v)
I32(v) == F(4, v)

\* The sum of a sequence of numbers, by way of those of its beginnings.
Sums(ns) == LET sum[i \in 0..Len(ns)] == IF i = 0 THEN 0 ELSE sum[i - 1] + ns[i] IN sum
Total(ns) == Sums(ns)[Len(ns)]

Width(fields) == Total([i \in DOMAIN fields |-> fields[i].w])

\* Write(ERR_TYPE) takes the int overload: four bytes, not one.
TypeErrorField == I32(ERR_TYPE)

\* The types SkipValue can step over.
Skippable == {1, 2} \cup 8..11 \cup 16..19 \cup {26, 27, 50, 51, 58, 59}

Min2(a, b) == IF a < b THEN a ELSE b

-----------------------------------------------------------------------------
(* What a parameter does with a command: the set of possible outcomes.     *)
(* "ok" is the value the Cell function returns, "body" what it wrote to    *)
(* the outbound cell, "err" the error code it decided on.                  *)

Failed == [ok |-> FALSE, body |-> <<>>, err |-> 0]
Answer(body, e) == [ok |-> TRUE, body |-> body, err |-> e]

\* The error the parameter reports: its method's, or ERR_ACCESS without one.
MethodErr(has) == IF has THEN MethodErrs ELSE {ERR_ACCESS}

\* A mutant: the error code is written with the int overload.
CallCellInt(p, args) ==
  IF p.kind = "call" THEN {Answer(<<I32(e)>>, e) : e \in MethodErrs} ELSE {Failed}

CallCell(p, args) ==
  IF p.kind = "call" THEN {Answer(<<I8(e)>>, e) : e \in MethodErrs} ELSE {Failed}

CallCellTbl(p, args) ==
  IF p.kind = "calltable" THEN {Answer(<<I8(e)>>, e) : e \in MethodErrs}
                          ELSE {Failed}

Value(p, e, w) == Answer(<<U8(p.type), F(w, 0), I8(e)>>, e)

GetCell(p, args) ==
  IF p.kind = "value"
  THEN {Value(p, e, w) : e \in MethodErr(p.get), w \in p.widths}
  ELSE {Failed}

GetCellTbl(p, args) ==
  IF p.kind \in {"table", "list"}
  THEN {Value(p, e, w) : e \in MethodErr(p.get), w \in p.widths}
  ELSE {Failed}

\* SetCell, SetCellTbl, AddCell and SubCell differ in the method they call.
Assign(p, args) ==
  IF Len(args) < 2 THEN {Failed}
  ELSE IF args[1].v # p.type
       THEN IF args[1].v \in Skippable
            THEN {Answer(<<TypeErrorField>>, ERR_TYPE)} ELSE {Failed}
       ELSE {Answer(<<I8(e)>>, e) : e \in MethodErr(p.set)}

SetCell(p, args) == IF p.kind = "value" THEN Assign(p, args) ELSE {Failed}
SetCellTbl(p, args) == IF p.kind = "table" THEN Assign(p, args) ELSE {Failed}
AddCell(p, args) == IF p.kind = "list" THEN Assign(p, args) ELSE {Failed}
SubCell(p, args) == IF p.kind = "list" THEN Assign(p, args) ELSE {Failed}

\* A mutant: the error code is forgotten.
BufferSizePlus1 == CellMax - 8

\* PID, offset, length and error code leave this much of a cell for data.
BufferSize == CellMax - 9

ReadCell(p, args) ==
  IF p.kind # "file" THEN {Failed}
  ELSE IF ~p.get THEN {Answer(<<I8(ERR_ACCESS)>>, ERR_ACCESS)}
  ELSE {Answer(<<F(2 + n, n), I8(e)>>, e) :
          n \in {0, Min2(args[1].v, BufferSize)}, e \in MethodErrs}

WriteCell(p, args) ==
  IF p.kind # "file" \/ args = <<>> THEN {Failed}
  ELSE {Answer(<<I8(e)>>, e) : e \in MethodErr(p.set)}

\* What the handlers answer when no parameter has the PID.
CallPIDError(args) == Answer(<<I8(ERR_PID)>>, ERR_PID)
HandleGetPIDError(args) == Answer(<<U8(T_I8), I8(0), I8(ERR_PID)>>, ERR_PID)

\* Echoes a type, which a write command does not have: there the byte read is
\* the high byte of the data length.
HandleSetPIDError(args) ==
  LET type == IF Len(args) = 1 THEN args[1].v \div 256 ELSE args[1].v IN
  IF args # <<>> /\ type \in Skippable
  THEN Answer(<<U8(type), I8(ERR_PID)>>, ERR_PID)
  ELSE Failed

-----------------------------------------------------------------------------
Init ==
  /\ params = <<>>
  /\ started = FALSE
  /\ infofile = {}
  /\ scenario \in DOMAIN Scenarios
  /\ adds = 0
  /\ rpc = "recv"
  /\ imsg = <<>>
  /\ ocell = [op |-> "none", fields |-> <<>>]
  /\ omsg = [cells |-> <<>>, len |-> 0]
  /\ count = [c \in Counters |-> 0]
  /\ handled = <<>>

Bump(c) == count' = [count EXCEPT ![c] = @ + 1]

(* The application.                                                        *)

\* Mutants: the table has no limit; parameters may come after Start.
AddBeyond(p) ==
  /\ p \in Scenarios[scenario].params /\ adds < Scenarios[scenario].adds
  /\ adds' = adds + 1
  /\ params' = IF ~started THEN Append(params, p) ELSE params
  /\ UNCHANGED <<started, infofile, scenario, rpc, imsg, ocell, omsg, count, handled>>

AddLate(p) ==
  /\ p \in Scenarios[scenario].params /\ adds < Scenarios[scenario].adds
  /\ adds' = adds + 1
  /\ params' = IF Len(params) < PidMax THEN Append(params, p) ELSE params
  /\ UNCHANGED <<started, infofile, scenario, rpc, imsg, ocell, omsg, count, handled>>

\* HCServer::Add, ignored when the table is full or the server has started.
Add(p) ==
  /\ p \in Scenarios[scenario].params /\ adds < Scenarios[scenario].adds
  /\ adds' = adds + 1
  /\ params' = IF Len(params) < PidMax /\ ~started THEN Append(params, p)
                                                   ELSE params
  /\ UNCHANGED <<started, infofile, scenario, rpc, imsg, ocell, omsg, count, handled>>

\* The first PID of a parameter.
ParamToPID(p) ==
  (CHOOSE i \in DOMAIN params :
     params[i] = p /\ \A j \in 1..(i - 1) : params[j] # p) - 1

SaveInfo ==
  {<<ParamToPID(p), p>> : p \in {q \in Listed : \E i \in DOMAIN params : params[i] = q}}

\* HCServer::Start; the server runs also when the information file cannot be opened.
Start ==
  /\ ~started
  /\ \/ infofile' = {SaveInfo}
     \/ UNCHANGED infofile
  /\ started' = TRUE
  /\ UNCHANGED <<params, scenario, adds, rpc, imsg, ocell, omsg, count, handled>>

-----------------------------------------------------------------------------
(* The control thread.                                                     *)

Received == count["goodxact"] + count["senderr"] + count["recverr"]

\* A mutant: the reply message is not reset.
RecvNoReset(m) ==
  /\ started
  /\ Received < Scenarios[scenario].receives
  /\ rpc = "recv"
  /\ rpc' = "cells"
  /\ imsg' = m
  /\ handled' = <<>>
  /\ UNCHANGED <<tableVars, ocell, omsg, count>>

Recv(m) ==
  /\ started
  /\ Received < Scenarios[scenario].receives
  /\ rpc = "recv"
  /\ rpc' = "cells"
  /\ imsg' = m
  /\ omsg' = [cells |-> <<>>, len |-> 0]
  /\ handled' = <<>>
  /\ UNCHANGED <<tableVars, ocell, count>>

RecvError ==
  /\ started
  /\ Received < Scenarios[scenario].receives
  /\ rpc = "recv"
  /\ Bump("recverr")
  /\ UNCHANGED <<tableVars, rpc, imsg, ocell, omsg, handled>>

\* The cell was consumed with result r, answered or not.
Consumed(r, e) ==
  /\ imsg' = Tail(imsg)
  /\ handled' = Append(handled, [cmd |-> Head(imsg), result |-> r, err |-> e])

\* _omsg->Write(_ocell), whose result the handlers ignore: a cell that does
\* not fit is dropped, and HCCell::Serialize asserts room for its overhead.
WriteReply(e) ==
  LET room == MsgMax - omsg.len
      size == Overhead + Width(ocell'.fields)
      fits == size <= room
  IN
  /\ rpc' = IF room < Overhead THEN "aborted" ELSE rpc
  /\ omsg' = IF fits THEN [cells |-> Append(omsg.cells, ocell'),
                           len |-> omsg.len + size]
                     ELSE omsg
  /\ Consumed(IF fits THEN "replied" ELSE "dropped", e)

\* Stop processing a cell without a reply.
NoReply(r, e) == Consumed(r, e) /\ UNCHANGED <<rpc, omsg>>

\* One iteration of the loop over the cells, for a command with opcode op that
\* has n fields before the parameter is looked up; PidError is the answer when
\* there is no such parameter and CellFunction what the parameter does.
CmdHandler(op, n, PidError(_), CellFunction(_, _)) ==
  LET fields == Head(imsg).fields
      args == SubSeq(fields, n + 1, Len(fields))
      echo == SubSeq(fields, 1, Min2(n, 2))
      Reset == [op |-> op, fields |-> <<>>]
      Writes(body) == ocell' = [Reset EXCEPT !.fields = @ \o echo \o body]
      Fits(body) == Width(echo) + Width(body) <= CellMax
  IN
  /\ rpc = "cells"
  /\ imsg # <<>>
  /\ Head(imsg).op = op
  /\ UNCHANGED tableVars
  /\ IF Len(fields) < n
     THEN Bump("deserr") /\ ocell' = Reset /\ NoReply("deserr", 0)
     ELSE IF fields[1].v >= Len(params)
     THEN LET a == PidError(args) IN
          /\ Bump("piderr")
          /\ Writes(a.body)
          /\ IF a.ok /\ Fits(a.body) THEN WriteReply(a.err)
                                     ELSE NoReply("piderr", ERR_PID)
     ELSE \E a \in CellFunction(Param[params[fields[1].v + 1]],
                                IF n = 3 THEN <<fields[3]>> ELSE args) :
            IF a.ok /\ Fits(a.body)
            THEN Writes(a.body) /\ WriteReply(a.err) /\ UNCHANGED count
            ELSE Writes(<<>>) /\ NoReply("interr", 0) /\ Bump("interr")

CallCmdHandler == CmdHandler("Call", 1, CallPIDError, CallCell)
GetCmdHandler == CmdHandler("Get", 1, HandleGetPIDError, GetCell)
SetCmdHandler == CmdHandler("Set", 1, HandleSetPIDError, SetCell)
ICallCmdHandler == CmdHandler("ICall", 2, CallPIDError, CallCellTbl)
IGetCmdHandler == CmdHandler("IGet", 2, HandleGetPIDError, GetCellTbl)
ISetCmdHandler == CmdHandler("ISet", 2, HandleSetPIDError, SetCellTbl)
AddCmdHandler == CmdHandler("Add", 1, HandleSetPIDError, AddCell)
SubCmdHandler == CmdHandler("Sub", 1, HandleSetPIDError, SubCell)
ReadCmdHandler == CmdHandler("Read", 3, HandleGetPIDError, ReadCell)
WriteCmdHandler == CmdHandler("Write", 2, HandleSetPIDError, WriteCell)

Ops == {"Call", "Get", "Set", "ICall", "IGet", "ISet", "Add", "Sub", "Read",
        "Write"}

\* The default branch of the switch.
UnknownOpcode ==
  /\ rpc = "cells"
  /\ imsg # <<>>
  /\ Head(imsg).op \notin Ops
  /\ Bump("opcodeerr")
  /\ NoReply("opcodeerr", 0)
  /\ UNCHANGED <<tableVars, ocell>>

\* _omsg->Send(_lowdev) when no cell is left, whether or not there is a reply
\* cell in the message.
Send(c) ==
  /\ rpc = "cells"
  /\ imsg = <<>>
  /\ rpc' = "recv"
  /\ Bump(c)
  /\ UNCHANGED <<tableVars, imsg, ocell, omsg, handled>>

CtlThread ==
  \/ \E m \in Scenarios[scenario].messages : Recv(m)
  \/ RecvError
  \/ CallCmdHandler \/ GetCmdHandler \/ SetCmdHandler \/ ICallCmdHandler
  \/ IGetCmdHandler \/ ISetCmdHandler \/ AddCmdHandler \/ SubCmdHandler
  \/ ReadCmdHandler \/ WriteCmdHandler \/ UnknownOpcode
  \/ Send("goodxact") \/ Send("senderr")

Next == (\E p \in Params : Add(p)) \/ Start \/ CtlThread

Spec == Init /\ [][Next]_vars

-----------------------------------------------------------------------------
(* What the client at the other end makes of a reply (hcclient.cc): the    *)
(* error code it returns to the application.  It reads that from the byte  *)
(* after the fields it expects; a Read takes a length (two bytes) and as   *)
(* many bytes of data first, and when there are not so many, none of them. *)

FirstByte(f) == IF f.w = 1 THEN f.v ELSE IF f.v < 0 THEN -1 ELSE 0

ClientError(reply, type) ==
  LET body == SubSeq(reply.fields, EchoLen(reply.op) + 1, Len(reply.fields)) IN
  IF reply.op \in {"Get", "IGet"}
  THEN IF body[1].v # type THEN ERR_TYPE ELSE FirstByte(body[3])
  ELSE FirstByte(body[IF reply.op = "Read" THEN Len(body) ELSE 1])

-----------------------------------------------------------------------------
(* Properties.                                                             *)

Results == {"replied", "dropped", "deserr", "piderr", "interr", "opcodeerr"}

\* The table, the control thread's messages and its counters have their types.
TypeOK ==
  /\ params \in Seq(Params) /\ Len(params) <= PidMax
  /\ started \in BOOLEAN
  /\ scenario \in DOMAIN Scenarios
  /\ infofile \subseteq SUBSET (Nat \X Params) /\ Cardinality(infofile) <= 1
  /\ rpc \in {"recv", "cells", "aborted"}
  /\ omsg.len \in 0..MsgMax
  /\ \A i \in DOMAIN handled : handled[i].result \in Results
  /\ count \in [Counters -> Nat]

\* The commands answered, and the place of an answer in the reply message.
Answered == {i \in DOMAIN handled : handled[i].result = "replied"}
Place(i) == Cardinality({j \in Answered : j <= i})

\* The reply message holds the answers to the answered commands in the order
\* of the commands, each with the command's opcode and the addressing fields
\* the client compares, and nothing of the cell written before it; its length
\* is that of its cells (the handlers' Reset of _ocell, HCMessage::Write).
RepliesMatchCommands ==
  /\ Len(omsg.cells) = Cardinality(Answered)
  /\ omsg.len = Total([i \in DOMAIN omsg.cells |-> Overhead + Width(omsg.cells[i].fields)])
  /\ \A i \in Answered :
       LET cmd == handled[i].cmd
           reply == omsg.cells[Place(i)]
           n == EchoLen(cmd.op)
       IN /\ reply.op = cmd.op
          /\ SubSeq(reply.fields, 1, n) = SubSeq(cmd.fields, 1, n)
          /\ Len(reply.fields) \in (n + 1)..(n + 3)

\* The type of the parameter a command addresses is the one the client expects.
TypesAgree(cmd) ==
  /\ cmd.fields[1].v < Len(params)
  /\ cmd.type = Param[params[cmd.fields[1].v + 1]].type

Reported(i) == ClientError(omsg.cells[Place(i)], handled[i].cmd.type) = handled[i].err

\* The error code the client returns is the one the server's parameter decided
\* on, so long as the client uses a parameter with its type: both ends agree on
\* where in the reply the code is. A call or a read needs no such condition, it
\* reports an unknown PID too.
ErrorReported ==
  \A i \in Answered :
    TypesAgree(handled[i].cmd) \/ handled[i].cmd.op \in {"Call", "ICall", "Read"} => Reported(i)

\* Every error code the server answers with, ERR_PID and ERR_TYPE included,
\* is the one the client gets ("Write PID error code to outbound cell",
\* HandleSetPIDError; "Write type error code to outbound cell", SetCell).
EveryErrorReported == \A i \in Answered : Reported(i)

\* The answer to the only cell of a message, all that HCClient sends, is never
\* dropped for lack of room in the message, and a read of a readable file is
\* answered however much the client asks for: the full chunk of PAYLOAD_MAX - 9
\* bytes fills its cell, and that cell the message, to the last byte.
OneCellAnswered ==
  Len(handled) = 1 /\ imsg = <<>> =>
    LET h == handled[1] IN
    /\ h.result # "dropped"
    /\ h.cmd.op = "Read" /\ h.result = "interr" =>
         Param[params[h.cmd.fields[1].v + 1]].kind # "file"

\* No cell is served after the assertion in HCCell::Serialize fails:
\* assert((serbuf != 0) && (maxlen >= OVERHEAD)).
SerializeAssertion == rpc # "aborted"

\* Clients address parameters by the PIDs in the information file: once the
\* server has started and written one, each of them leads to the parameter that
\* was saved under it, and no listed parameter of the table is missing.
InfoFileTrue ==
  started => \A f \in infofile :
    /\ \A e \in f : e[1] < Len(params) /\ params[e[1] + 1] = e[2]
    /\ \A p \in Listed : (\E i \in DOMAIN params : params[i] = p) => \E e \in f : e[2] = p
=============================================================================
