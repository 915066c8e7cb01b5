------------------------------ MODULE HCClient ------------------------------
(***************************************************************************)
(* The transaction engine of a Host Control client (lib/hc/hcclient.cc).   *)
(*                                                                         *)
(* Application threads call Call, Get, Set, ... on one HCClient object.    *)
(* Each call is one transaction: under _xactmutex the caller publishes the *)
(* transaction number and opcode of the reply it expects, sends a command  *)
(* message and waits on an event, with a timeout.  One reader thread       *)
(* (ReadThread) receives status messages, compares them with the published *)
(* expectation and signals the event.  Caller and reader share             *)
(* _exptransaction, _expopcode, _icell and the event, and no lock protects *)
(* the first three.                                                        *)
(*                                                                         *)
(* A message that is never delivered is a lost message; delivery is in any *)
(* order, and repeated when Dup.  The ghost field xid names the            *)
(* transaction a message belongs to without the 8-bit wrap.                *)
(***************************************************************************)
EXTENDS Integers, FiniteSets, Sequences

CONSTANTS
  Threads,    \* application threads that share the client object
  Free,       \* the value of xactmutex when no thread holds it
  Requests,   \* the calls the application may make
  Errs,       \* error codes a server can put in a reply
  Vals,       \* parameter values a server can put in a reply
  TransMod,   \* 2^8 in the code: uint8_t _transaction
  MaxXact,    \* bound: transactions begun in a behaviour
  MaxDrop,    \* bound: receive errors and messages the reader discards
  Dup,        \* may the network deliver a message more than once
  Spurious    \* may pthread_cond_timedwait return without a signal

Invalid == 65535    \* the 0xFFFF written to _exptransaction
NoOp == "none"      \* the 0xFFFF written to _expopcode

Ops == {"Call", "Get", "Set", "ICall", "IGet", "ISet", "Add", "Sub",
        "Read", "Write"}

Request == [op : Ops, pid : Nat, sub : Nat, type : Nat]
NoRequest == [op |-> NoOp, pid |-> 0, sub |-> 0, type |-> 0]
NoXact == [xid |-> -1, trans |-> Invalid]

ASSUME TransModAssumption == TransMod \in 1..256
ASSUME ThreadAssumption == Free \notin Threads
ASSUME RequestAssumption == Requests \subseteq Request
ASSUME BoundAssumption == MaxXact \in Nat /\ MaxDrop \in Nat
ASSUME FlagAssumption == Dup \in BOOLEAN /\ Spurious \in BOOLEAN

VARIABLES
  xactmutex,       \* _xactmutex: the thread that holds it, or Free
  pc,              \* where each thread is in its call
  req,             \* the arguments of the call each thread is in
  mine,            \* ghost: identity of the transaction each thread is in
  got,             \* what the thread has read from the inbound cell
  result,          \* outcome of each thread's latest transaction
  transaction,     \* _transaction
  exptransaction,  \* _exptransaction
  expopcode,       \* _expopcode
  replyevent,      \* the count of _replyevent
  icell,           \* _icell, with the ghost message it came from
  readindex,       \* fields of _icell already read
  imsg,            \* _imsg: the message the reader thread is looking at
  rpc,             \* where the reader thread is
  count,           \* the statistics counters
  commands,        \* command messages in the network
  statuses,        \* status messages in the network
  begun,           \* ghost: number of transactions begun
  answered,        \* ghost: every status message a server has sent
  raced            \* ghost: a transaction began while the reader thread
                   \* was between accepting a message and signalling it

callerRest == <<xactmutex, req, mine, got, result, transaction, begun>>
callerVars == <<callerRest, pc>>
sharedVars == <<exptransaction, expopcode, replyevent, icell, readindex>>
readerVars == <<imsg, rpc>>
netVars == <<commands, statuses, answered>>
vars == <<callerVars, sharedVars, readerVars, netVars, count, raced>>

-----------------------------------------------------------------------------
(* Messages.  The reply to a request repeats what the request addressed,   *)
(* then carries the result.  Each transaction function reads the fields of *)
(* its reply in this order.                                                *)

CallXact == <<"pid", "err">>
GetXact == <<"pid", "type", "val", "err">>
SetXact == <<"pid", "err">>
ICallXact == <<"pid", "sub", "err">>
IGetXact == <<"pid", "sub", "type", "val", "err">>
ISetXact == <<"pid", "sub", "err">>
AddXact == <<"pid", "err">>
SubXact == <<"pid", "err">>
ReadXact == <<"pid", "sub", "val", "err">>
WriteXact == <<"pid", "sub", "err">>

Layout ==
  [Call |-> CallXact, Get |-> GetXact, Set |-> SetXact,
   ICall |-> ICallXact, IGet |-> IGetXact, ISet |-> ISetXact,
   Add |-> AddXact, Sub |-> SubXact, Read |-> ReadXact, Write |-> WriteXact,
   none |-> <<>>]

Checked == {"pid", "sub", "type"}

\* The fields whose reading completes the transaction: in Get, IGet and Read
\* the good count is advanced before the value is taken from the cell.
GoodAt(op) ==
  IF op \in {"Get", "IGet", "Read"} THEN Len(Layout[op]) - 2
                                    ELSE Len(Layout[op])

Pids == {r.pid : r \in Requests}
Subs == {r.sub : r \in Requests}
TypeI8 == 1         \* HCParameter::TYPE_I8, the type of a PID error reply
Types == {r.type : r \in Requests} \cup {TypeI8}

FieldValues ==
  [pid |-> Pids, sub |-> Subs, type |-> Types, val |-> Vals, err |-> Errs]

\* The contents of a reply cell; NoCell stands for a message without one.
Cells == [op : Ops, pid : Pids, sub : Subs, type : Types, val : Vals, err : Errs]
NoCell == [op |-> NoOp, pid |-> 0, sub |-> 0, type |-> 0, val |-> 0, err |-> 0]

\* What a server may answer to request r: HandleGetPIDError answers with
\* TYPE_I8, other replies carry the type asked for, and a handler that fails
\* leaves the reply message without a cell.
Replies(r) ==
  {c \in Cells : /\ c.op = r.op /\ c.pid = r.pid /\ c.sub = r.sub
                 /\ \/ c.type = r.type
                    \/ c.type = TypeI8 /\ r.op \in {"Get", "IGet"}}
  \cup {NoCell}

NoMessage == [xid |-> -1, trans |-> Invalid, cell |-> NoCell]

-----------------------------------------------------------------------------
Init ==
  /\ xactmutex = Free
  /\ pc = [t \in Threads |-> "idle"]
  /\ req = [t \in Threads |-> NoRequest]
  /\ mine = [t \in Threads |-> NoXact]
  /\ got = [t \in Threads |-> <<>>]
  /\ result = [t \in Threads |-> "none"]
  /\ transaction = 0
  /\ exptransaction = Invalid
  /\ expopcode = NoOp
  /\ replyevent = 0
  /\ icell = NoMessage
  /\ readindex = 0
  /\ imsg = NoMessage
  /\ rpc = "recv"
  /\ count = [c \in {"good", "send", "timeout", "pid", "sub", "type",
                     "recv", "transaction", "cell", "opcode"} |-> 0]
  /\ commands = {}
  /\ statuses = {}
  /\ begun = 0
  /\ answered = {}
  /\ raced = FALSE

-----------------------------------------------------------------------------
(* A caller.  Every step below is one access to state the reader thread    *)
(* shares, in the order of the code.                                       *)

Goto(t, from, to) ==
  /\ pc[t] = from
  /\ pc' = [pc EXCEPT ![t] = to]

Bump(c) == count' = [count EXCEPT ![c] = @ + 1]

\* The application makes call r.
Call(t, r) ==
  /\ begun + Cardinality({u \in Threads : pc[u] # "idle"}) < MaxXact
  /\ Goto(t, "idle", "lock")
  /\ req' = [req EXCEPT ![t] = r]
  /\ UNCHANGED <<xactmutex, mine, got, result, transaction, begun,
                 sharedVars, readerVars, netVars, count, raced>>

\* A mutant: the call does not wait for the mutex.
LockAnyway(t) ==
  /\ xactmutex' = t
  /\ Goto(t, "lock", "reset")
  /\ UNCHANGED <<req, mine, got, result, transaction, begun,
                 sharedVars, readerVars, netVars, count, raced>>

\* _xactmutex->Wait()
Lock(t) ==
  /\ xactmutex = Free
  /\ xactmutex' = t
  /\ Goto(t, "lock", "reset")
  /\ UNCHANGED <<req, mine, got, result, transaction, begun,
                 sharedVars, readerVars, netVars, count, raced>>

\* The reader thread has matched a message against _exptransaction and has
\* not yet signalled the event or dropped the message.
Accepting == rpc \in {"cell", "opcode", "signal"}

\* A mutant: a signal that came after an earlier timeout is kept.
KeepEvent(t) ==
  /\ Goto(t, "reset", "exptrans")
  /\ raced' = (raced \/ Accepting)
  /\ UNCHANGED <<callerRest, sharedVars, readerVars, netVars, count>>

\* _replyevent->Reset(); forgets a signal that came after an earlier timeout.
ResetEvent(t) ==
  /\ Goto(t, "reset", "exptrans")
  /\ replyevent' = 0
  /\ raced' = (raced \/ Accepting)
  /\ UNCHANGED <<callerRest, exptransaction, expopcode, icell, readindex,
                 readerVars, netVars, count>>

\* _exptransaction = _transaction
SetExpTransaction(t) ==
  /\ Goto(t, "exptrans", "expop")
  /\ exptransaction' = transaction
  /\ mine' = [mine EXCEPT ![t] = [xid |-> begun, trans |-> transaction]]
  /\ begun' = begun + 1
  /\ UNCHANGED <<xactmutex, req, got, result, transaction,
                 expopcode, replyevent, icell, readindex,
                 readerVars, netVars, count, raced>>

\* _expopcode = OPCODE_..._STS; _transaction++ on a uint8_t.
SetExpOpcode(t) ==
  /\ Goto(t, "expop", "send")
  /\ expopcode' = req[t].op
  /\ transaction' = (transaction + 1) % TransMod
  /\ UNCHANGED <<xactmutex, req, mine, got, result, begun,
                 exptransaction, replyevent, icell, readindex,
                 readerVars, netVars, count, raced>>

\* _omsg->Send(_lowdev); the number in the message was formatted before the
\* increment, so it is the one just published.
Send(t) ==
  /\ Goto(t, "send", "wait")
  /\ commands' = commands \cup
       {[xid |-> mine[t].xid, trans |-> mine[t].trans, req |-> req[t]]}
  /\ UNCHANGED <<callerRest, sharedVars, readerVars, statuses, answered,
                 count, raced>>

\* Leave the transaction with outcome o, counting it.
Outcome(t, o) ==
  /\ result' = [result EXCEPT ![t] = o]
  /\ Bump(o)

SendError(t) ==
  /\ Goto(t, "send", "invtrans")
  /\ Outcome(t, "send")
  /\ UNCHANGED <<xactmutex, req, mine, got, transaction, begun, sharedVars,
                 readerVars, netVars, raced>>

\* _replyevent->Wait(_timeout) finds or is woken by a signal.  The event does
\* not test its count again after pthread_cond_timedwait returned.
WaitReply(t) ==
  /\ replyevent = 1 \/ Spurious
  /\ Goto(t, "wait", "invtrans")
  /\ replyevent' = 0
  /\ UNCHANGED <<callerRest, exptransaction, expopcode, icell, readindex,
                 readerVars, netVars, count, raced>>

\* _replyevent->Wait(_timeout) times out; a signal may have come too late.
WaitTimeout(t) ==
  /\ Goto(t, "wait", "invtrans")
  /\ Outcome(t, "timeout")
  /\ UNCHANGED <<xactmutex, req, mine, got, transaction, begun, sharedVars,
                 readerVars, netVars, raced>>

\* A mutant: the number stays expected after the transaction.
KeepTransaction(t) ==
  /\ Goto(t, "invtrans", "invop")
  /\ UNCHANGED <<callerRest, sharedVars, readerVars, netVars, count, raced>>

\* _exptransaction = 0xFFFF
InvalidateTransaction(t) ==
  /\ Goto(t, "invtrans", "invop")
  /\ exptransaction' = Invalid
  /\ UNCHANGED <<callerRest, expopcode, replyevent, icell, readindex,
                 readerVars, netVars, count, raced>>

\* A mutant: no return after an error, the reply is read in any case.
ReadAnyway(t) ==
  /\ Goto(t, "invop", "read")
  /\ expopcode' = NoOp
  /\ UNCHANGED <<callerRest, exptransaction, replyevent, icell, readindex,
                 readerVars, netVars, count, raced>>

\* _expopcode = 0xFFFF; then the reply is read, unless there was none.
InvalidateOpcode(t) ==
  /\ Goto(t, "invop", IF result[t] = "none" THEN "read" ELSE "give")
  /\ expopcode' = NoOp
  /\ UNCHANGED <<callerRest, exptransaction, replyevent, icell, readindex,
                 readerVars, netVars, count, raced>>

\* What reading field f from _icell yields: its value when the read index is
\* at that field, and bytes of something else, or nothing, when it is not.
Readable(f) ==
  LET fields == Layout[icell.cell.op] IN
  IF readindex < Len(fields) /\ fields[readindex + 1] = f
  THEN {icell.cell[f]}
  ELSE FieldValues[f]

\* _icell->Read(...) of the next field the transaction wants; an addressing
\* field that differs from the request's ends it.
ReadField(t) ==
  LET n == Len(got[t]) + 1
      f == Layout[req[t].op][n]
  IN
  /\ pc[t] = "read"
  /\ readindex' = IF readindex < Len(Layout[icell.cell.op])
                  THEN readindex + 1 ELSE readindex
  /\ \E v \in Readable(f) :
       /\ got' = [got EXCEPT ![t] = Append(@,
                    [xid |-> icell.xid, trans |-> icell.trans, val |-> v])]
       /\ \/ /\ f \in Checked /\ v # req[t][f]
             /\ Goto(t, "read", "give")
             /\ Outcome(t, f)
          \/ /\ f \in Checked => v = req[t][f]
             /\ Goto(t, "read",
                     IF n = Len(Layout[req[t].op]) THEN "give" ELSE "read")
             /\ IF n = GoodAt(req[t].op)
                THEN Outcome(t, "good")
                ELSE UNCHANGED <<result, count>>
  /\ UNCHANGED <<xactmutex, req, mine, transaction, begun, exptransaction,
                 expopcode, replyevent, icell, readerVars, netVars, raced>>

\* A mutant: the call returns without giving the mutex back.
ReturnLocked(t) ==
  /\ Goto(t, "give", "idle")
  /\ got' = [got EXCEPT ![t] = <<>>]
  /\ result' = [result EXCEPT ![t] = "none"]
  /\ req' = [req EXCEPT ![t] = NoRequest]
  /\ mine' = [mine EXCEPT ![t] = NoXact]
  /\ UNCHANGED <<xactmutex, transaction, begun, sharedVars, readerVars,
                 netVars, count, raced>>

\* _xactmutex->Give() and the return to the application.
Give(t) ==
  /\ Goto(t, "give", "idle")
  /\ xactmutex' = Free
  /\ got' = [got EXCEPT ![t] = <<>>]
  /\ result' = [result EXCEPT ![t] = "none"]
  /\ req' = [req EXCEPT ![t] = NoRequest]
  /\ mine' = [mine EXCEPT ![t] = NoXact]
  /\ UNCHANGED <<transaction, begun, sharedVars, readerVars, netVars, count,
                 raced>>

-----------------------------------------------------------------------------
(* The reader thread.                                                      *)

Dropped == count["recv"] + count["transaction"] + count["cell"] + count["opcode"]

\* Back to _imsg->Recv, which overwrites the message.
Receive == rpc' = "recv" /\ imsg' = NoMessage

\* Count a discarded message.
Drop(c) ==
  /\ Receive
  /\ Bump(c)

Recv(m) ==
  /\ Dropped < MaxDrop
  /\ rpc = "recv"
  /\ rpc' = "trans"
  /\ imsg' = m
  /\ statuses' = IF Dup THEN statuses ELSE statuses \ {m}
  /\ UNCHANGED <<callerVars, sharedVars, commands, answered, count, raced>>

RecvError ==
  /\ Dropped < MaxDrop
  /\ rpc = "recv"
  /\ Bump("recv")
  /\ UNCHANGED <<callerVars, sharedVars, readerVars, netVars, raced>>

CheckTransaction ==
  /\ rpc = "trans"
  /\ \/ imsg.trans # exptransaction /\ Drop("transaction")
     \/ imsg.trans = exptransaction /\ rpc' = "cell" /\ UNCHANGED <<imsg, count>>
  /\ UNCHANGED <<callerVars, sharedVars, netVars, raced>>

\* A mutant: the read index is left where the last transaction stopped.
KeepIndex ==
  /\ rpc = "cell"
  /\ \/ imsg.cell = NoCell /\ Drop("cell") /\ UNCHANGED icell
     \/ imsg.cell # NoCell /\ icell' = imsg /\ rpc' = "opcode" /\ UNCHANGED <<imsg, count>>
  /\ UNCHANGED <<callerVars, exptransaction, expopcode, replyevent, readindex,
                 netVars, raced>>

\* A mutant: the event is signalled before the opcode has been checked.
SignalEarly ==
  /\ rpc = "cell"
  /\ imsg.cell # NoCell
  /\ icell' = imsg
  /\ readindex' = 0
  /\ rpc' = "opcode"
  /\ replyevent' = 1
  /\ UNCHANGED <<callerVars, exptransaction, expopcode, imsg, count, netVars,
                 raced>>

\* _imsg->Read(_icell) overwrites the cell the caller may be reading.
ReadCell ==
  /\ rpc = "cell"
  /\ \/ /\ imsg.cell = NoCell
        /\ Drop("cell")
        /\ UNCHANGED <<icell, readindex>>
     \/ /\ imsg.cell # NoCell
        /\ icell' = imsg
        /\ readindex' = 0
        /\ rpc' = "opcode"
        /\ UNCHANGED <<imsg, count>>
  /\ UNCHANGED <<callerVars, exptransaction, expopcode, replyevent,
                 netVars, raced>>

CheckOpcode ==
  /\ rpc = "opcode"
  /\ \/ icell.cell.op # expopcode /\ Drop("opcode")
     \/ icell.cell.op = expopcode /\ rpc' = "signal" /\ UNCHANGED <<imsg, count>>
  /\ UNCHANGED <<callerVars, sharedVars, netVars, raced>>

\* _replyevent->Signal()
Signal ==
  /\ rpc = "signal"
  /\ Receive
  /\ replyevent' = 1
  /\ UNCHANGED <<callerVars, exptransaction, expopcode, icell, readindex,
                 netVars, count, raced>>

-----------------------------------------------------------------------------
(* The server at the other end: it answers each command it receives in one *)
(* step, echoing the transaction number (HCServer models how).             *)

Serve(m) ==
  /\ \E c \in Replies(m.req) :
       LET reply == [xid |-> m.xid, trans |-> m.trans, cell |-> c] IN
       /\ statuses' = statuses \cup {reply}
       /\ answered' = answered \cup {reply}
  /\ commands' = IF Dup THEN commands ELSE commands \ {m}
  /\ UNCHANGED <<callerVars, sharedVars, readerVars, count, raced>>

-----------------------------------------------------------------------------
Transact(t) ==
  \/ ResetEvent(t) \/ SetExpTransaction(t) \/ SetExpOpcode(t)
  \/ Send(t) \/ SendError(t) \/ WaitReply(t) \/ WaitTimeout(t)
  \/ InvalidateTransaction(t) \/ InvalidateOpcode(t)
  \/ ReadField(t) \/ Give(t)

ReadThread ==
  \/ \E m \in statuses : Recv(m)
  \/ RecvError \/ CheckTransaction \/ ReadCell \/ CheckOpcode \/ Signal

Next ==
  \/ \E t \in Threads : \/ \E r \in Requests : Call(t, r)
                        \/ Lock(t)
                        \/ Transact(t)
  \/ ReadThread
  \/ \E m \in commands : Serve(m)

Spec == Init /\ [][Next]_vars

(* Threads run; Send and Wait return (the device's Write does not block    *)
(* for ever and the wait has a timeout); a free mutex goes to every waiter *)
(* in the end.  Nothing is assumed of the network, the server or the       *)
(* reader thread.                                                          *)
Fairness == \A t \in Threads : WF_vars(Transact(t)) /\ SF_vars(Lock(t))

FairSpec == Spec /\ Fairness

-----------------------------------------------------------------------------
(* Properties.                                                             *)

Labels == {"idle", "lock", "reset", "exptrans", "expop", "send", "wait",
           "invtrans", "invop", "read", "give"}
Outcomes == {"none", "good", "send", "timeout", "pid", "sub", "type"}
Counters == {"good", "send", "timeout", "pid", "sub", "type",
             "recv", "transaction", "cell", "opcode"}
Transactions == 0..(TransMod - 1)
Xact == [xid : Nat, trans : Transactions]
Status == [xid : Nat, trans : Transactions, cell : Cells \cup {NoCell}]
Command == [xid : Nat, trans : Transactions, req : Requests]
Datum == Pids \cup Subs \cup Types \cup Vals \cup Errs

CallerTypeOK ==
  /\ xactmutex \in Threads \cup {Free}
  /\ pc \in [Threads -> Labels]
  /\ req \in [Threads -> Requests \cup {NoRequest}]
  /\ mine \in [Threads -> Xact \cup {NoXact}]
  /\ got \in [Threads -> Seq([xid : Int, trans : Int, val : Datum])]
  /\ result \in [Threads -> Outcomes]
  /\ transaction \in Transactions
  /\ begun \in Nat

ReaderTypeOK ==
  /\ exptransaction \in Transactions \cup {Invalid}
  /\ expopcode \in Ops \cup {NoOp}
  /\ replyevent \in {0, 1}
  /\ icell \in Status \cup {NoMessage}
  /\ readindex \in Nat
  /\ imsg \in Status \cup {NoMessage}
  /\ rpc \in {"recv", "trans", "cell", "opcode", "signal"}

NetworkTypeOK ==
  /\ commands \subseteq Command
  /\ statuses \subseteq Status
  /\ answered \subseteq Status

\* The state of the callers, of what they share with the reader thread and of
\* the network has its type.
TypeOK ==
  /\ CallerTypeOK /\ ReaderTypeOK /\ NetworkTypeOK
  /\ count \in [Counters -> Nat]
  /\ raced \in BOOLEAN

\* The thread is between taking _xactmutex and giving it back.
Inside(t) == pc[t] \notin {"idle", "lock"}

\* A transaction that found its reply good read every field from replies that
\* carry its own transaction number, and from its own reply as long as the
\* 8-bit number has not wrapped, whatever the network lost, delayed or
\* reordered, unless the reader thread was overtaken by a new transaction
\* while it was accepting an older message (hcclient.cc: Reset of the event,
\* publication and withdrawal of _exptransaction, the check in ReadThread).
OwnReply ==
  \A t \in Threads :
    (pc[t] = "give" /\ result[t] = "good" /\ ~raced) =>
      \A i \in DOMAIN got[t] :
        /\ got[t][i].trans = mine[t].trans
        /\ begun <= TransMod => got[t][i].xid = mine[t].xid

\* What the reader thread signals is a reply to the transaction that wakes up:
\* the caller never takes a reply with another transaction's number as its own
\* ("Signal valid reply", ReadThread).
SignalledReplyIsOwn ==
  \A t \in Threads :
    (pc[t] = "give" /\ result[t] = "good") =>
      \A i \in DOMAIN got[t] : got[t][i].trans = mine[t].trans

\* The error code and value returned for a good transaction are together those
\* of one answer the server sent to exactly this command: no field is read
\* from another cell or at a wrong index. Needs a network without duplicates.
TrueResult ==
  \A t \in Threads :
    (pc[t] = "give" /\ result[t] = "good" /\ ~raced /\ begun <= TransMod) =>
      \E a \in answered :
        /\ a.xid = mine[t].xid
        /\ a.cell.op = req[t].op
        /\ \A i \in DOMAIN got[t] :
             got[t][i].val = a.cell[Layout[req[t].op][i]]

\* When messages are not duplicated, the reader thread can be overtaken only
\* after some transaction has timed out: a client whose replies all come in
\* time never reads another transaction's reply.
OvertakenOnlyAfterTimeout == raced => count["timeout"] > 0

\* Every transaction begun is counted once, under the counter of its outcome,
\* and those not counted yet are the one in progress: no path through the
\* Xact functions skips a counter or advances two.
Accounted ==
  begun = count["good"] + count["send"] + count["timeout"]
        + count["pid"] + count["sub"] + count["type"]
        + Cardinality({t \in Threads :
             /\ pc[t] \in {"expop", "send", "wait", "invtrans", "invop", "read"}
             /\ result[t] = "none"})

\* The reader thread accepts a message only for the transaction in progress:
\* one that carries the number of the thread inside, published and not yet
\* withdrawn. Replies that arrive between transactions are all discarded.
AcceptsOnlyExpected ==
  [][(rpc = "trans" /\ rpc' = "cell") =>
       \E t \in Threads : /\ Inside(t)
                          /\ pc[t] \in {"expop", "send", "wait", "invtrans"}
                          /\ imsg.trans = mine[t].trans]_vars

\* Every call returns, however long the mutex is contended and whatever the
\* network does with the messages: the timeout bounds each transaction.
CallsReturn == \A t \in Threads : pc[t] = "lock" ~> pc[t] = "idle"
-----------------------------------------------------------------------------
(* The inductive invariant behind these properties.                        *)

Published == {"expop", "send", "wait", "invtrans"}
Numbered == Published \cup {"invop", "read", "give"}

\* The thread inside is the one that holds the mutex.
MutexInv == \A t \in Threads : Inside(t) <=> xactmutex = t

\* A transaction number is expected exactly while its thread is between
\* publishing and withdrawing it.
ExpectationInv ==
  /\ \A t \in Threads : pc[t] \in Published => exptransaction = mine[t].trans
  /\ (\A t \in Threads : pc[t] \notin Published) => exptransaction = Invalid

\* What each place in a call implies about the call itself.
CallInv ==
  \A t \in Threads :
    /\ pc[t] \in Numbered <=> mine[t] # NoXact
    /\ pc[t] \notin {"invtrans", "invop", "read", "give"} => result[t] = "none"
    /\ pc[t] \notin {"read", "give"} => got[t] = <<>>
    /\ pc[t] # "idle" => req[t] \in Requests
    /\ pc[t] = "read" => Len(got[t]) < Len(Layout[req[t].op])

ReaderInv ==
  /\ rpc # "recv" => imsg \in Status
  /\ rpc \in {"opcode", "signal"} => icell = imsg

\* While the 8-bit number has not wrapped it is the number of the transaction.
Unwrapped(m) == begun <= TransMod => m.trans \in {m.xid, Invalid}
NumberInv ==
  /\ \A m \in commands \cup statuses \cup {imsg, icell} : Unwrapped(m)
  /\ \A t \in Threads : /\ Unwrapped(mine[t])
                        /\ \A i \in DOMAIN got[t] : Unwrapped(got[t][i])
  /\ \A t \in Threads : pc[t] = "expop" =>
       /\ mine[t].trans = transaction
       /\ begun <= TransMod => transaction = begun - 1
  /\ (\A t \in Threads : pc[t] # "expop") =>
       (begun < TransMod => transaction = begun)

\* Without overtaking, everything the reader thread accepts, signals or leaves
\* in _icell during a transaction belongs to that transaction.
FreshInv ==
  ~raced =>
    \A t \in Threads :
      /\ pc[t] = "exptrans" => ~Accepting /\ replyevent = 0
      /\ pc[t] \in Numbered =>
           /\ Accepting => imsg.trans = mine[t].trans
           /\ \A i \in DOMAIN got[t] : got[t][i].trans = mine[t].trans
      /\ pc[t] \in {"expop", "send", "wait"} /\ replyevent = 1 =>
           icell.trans = mine[t].trans
      /\ pc[t] \in {"invtrans", "invop"} /\ result[t] = "none" =>
           icell.trans = mine[t].trans
      /\ pc[t] = "read" => icell.trans = mine[t].trans

\* Behind Accounted: a transaction is not good before its reply is read, and
\* while it is read the outcome is open until the field that makes it good.
GoodInv ==
  \A t \in Threads :
    /\ pc[t] \in {"invtrans", "invop"} => result[t] # "good"
    /\ pc[t] = "read" =>
         \/ result[t] = "none" /\ Len(got[t]) < GoodAt(req[t].op)
         \/ result[t] = "good" /\ Len(got[t]) >= GoodAt(req[t].op)

\* Nothing of any transaction is under way, or exactly one thing is: the
\* command, its reply in the network, its reply at the reader thread, or the
\* signal.
Idle == commands = {} /\ statuses = {} /\ rpc = "recv" /\ replyevent = 0
UnderWay ==
  \/ /\ \E m \in commands : commands = {m}
     /\ statuses = {} /\ rpc = "recv" /\ replyevent = 0
  \/ /\ \E m \in statuses : statuses = {m}
     /\ commands = {} /\ rpc = "recv" /\ replyevent = 0
  \/ commands = {} /\ statuses = {} /\ rpc # "recv" /\ replyevent = 0
  \/ commands = {} /\ statuses = {} /\ rpc = "recv" /\ replyevent = 1

\* Behind OvertakenOnlyAfterTimeout: as long as no transaction has timed out
\* something is under way only while a thread waits for it.
QuietInv ==
  count["timeout"] = 0 =>
    /\ ~raced
    /\ Idle \/ (UnderWay /\ \E t \in Threads : pc[t] = "wait")

\* Behind TrueResult: no message of transaction x is in the network, or with
\* the reader thread.
Gone(x) ==
  /\ \A m \in commands \cup statuses : m.xid # x
  /\ rpc # "recv" => imsg.xid # x

\* A transaction is at one place at most: its command, its reply in the
\* network, or its reply at the reader thread.
OnceInv ==
  /\ \A m \in commands \cup statuses : m.xid < begun
  /\ \A m, n \in commands : m.xid = n.xid => m = n
  /\ \A m, n \in statuses : m.xid = n.xid => m = n
  /\ \A m \in commands, n \in statuses : m.xid # n.xid
  /\ rpc # "recv" => /\ imsg.xid < begun
                     /\ \A m \in commands \cup statuses : m.xid # imsg.xid

\* The thread inside is in the latest transaction, and has sent nothing yet
\* before Send.
LatestInv ==
  \A t \in Threads :
    /\ pc[t] \in Numbered => mine[t].xid = begun - 1
    /\ pc[t] \in {"expop", "send"} => Gone(mine[t].xid)

\* What the reader thread holds is an answer, and the opcode expected is that
\* of the thread that has published it.
Expecting == {"send", "wait", "invtrans", "invop"}
AnswerInv ==
  /\ statuses \subseteq answered
  /\ rpc # "recv" => imsg \in answered
  /\ \A t \in Threads : pc[t] \in Expecting => expopcode = req[t].op
  /\ (\A t \in Threads : pc[t] \notin Expecting) => expopcode = NoOp
  /\ rpc \in {"opcode", "signal"} => icell.cell.op # NoOp

\* The thread has been signalled a reply, or is reading or has read it.
HasReply(t) ==
  \/ pc[t] = "wait" /\ replyevent = 1
  \/ pc[t] \in {"invtrans", "invop"} /\ result[t] = "none"
  \/ pc[t] = "read"
  \/ pc[t] = "give" /\ result[t] = "good"

\* The cell is the answer to the thread's command, nothing will overwrite it,
\* and the fields read so far are its first.
ReadsAnswer(t) ==
  /\ icell \in answered
  /\ icell.xid = mine[t].xid
  /\ icell.cell.op = req[t].op
  /\ Gone(mine[t].xid)
  /\ readindex = Len(got[t])
  /\ \A i \in DOMAIN got[t] : got[t][i].val = icell.cell[Layout[req[t].op][i]]

ResultInv ==
  ~raced /\ begun <= TransMod =>
    /\ rpc \in {"opcode", "signal"} => readindex = 0
    /\ \A t \in Threads :
         /\ HasReply(t) => ReadsAnswer(t)
         /\ pc[t] \in {"expop", "send"} => replyevent = 0
         /\ rpc = "signal" /\ pc[t] \in Expecting => icell.cell.op = req[t].op

\* The conjunction TLAPS proves inductive.
IInv ==
  /\ TypeOK /\ MutexInv /\ ExpectationInv /\ CallInv
  /\ ReaderInv /\ NumberInv /\ FreshInv
  /\ GoodInv /\ AnswerInv
  /\ ~Dup => QuietInv /\ OnceInv /\ LatestInv /\ ResultInv
=============================================================================
