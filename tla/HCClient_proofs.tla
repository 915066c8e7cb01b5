-------------------------- MODULE HCClient_proofs --------------------------
(* Proofs about the transaction engine of the client, for any number of    *)
(* threads, transactions and messages.                                     *)
EXTENDS HCClient, FiniteSetTheorems, TLAPS

-----------------------------------------------------------------------------
(* Type correctness.                                                       *)

FieldNames == {"pid", "sub", "type", "val", "err"}

\* The reply layout of every operation.
LEMMA LayoutCases ==
  /\ \A o \in {"Call", "Set", "Add", "Sub"} : Layout[o] = <<"pid", "err">>
  /\ \A o \in {"ICall", "ISet", "Write"} : Layout[o] = <<"pid", "sub", "err">>
  /\ Layout["Get"] = <<"pid", "type", "val", "err">>
  /\ Layout["IGet"] = <<"pid", "sub", "type", "val", "err">>
  /\ Layout["Read"] = <<"pid", "sub", "val", "err">>
BY DEF Layout, CallXact, GetXact, SetXact, ICallXact, IGetXact, ISetXact,
       AddXact, SubXact, ReadXact, WriteXact

\* Every reply layout is a sequence of field names, and not empty.
LEMMA LayoutType ==
  \A o \in Ops : Layout[o] \in Seq(FieldNames) /\ Len(Layout[o]) > 0
<1>1. /\ <<"pid", "err">> \in Seq(FieldNames)
      /\ Len(<<"pid", "err">>) > 0
  BY DEF FieldNames
<1>2. /\ <<"pid", "sub", "err">> \in Seq(FieldNames)
      /\ Len(<<"pid", "sub", "err">>) > 0
  BY DEF FieldNames
<1>3. /\ <<"pid", "type", "val", "err">> \in Seq(FieldNames)
      /\ Len(<<"pid", "type", "val", "err">>) > 0
  BY DEF FieldNames
<1>4. /\ <<"pid", "sub", "type", "val", "err">> \in Seq(FieldNames)
      /\ Len(<<"pid", "sub", "type", "val", "err">>) > 0
  BY DEF FieldNames
<1>5. /\ <<"pid", "sub", "val", "err">> \in Seq(FieldNames)
      /\ Len(<<"pid", "sub", "val", "err">>) > 0
  BY DEF FieldNames
<1> QED BY <1>1, <1>2, <1>3, <1>4, <1>5, LayoutCases DEF Ops

\* Reading a field of a cell yields a value of that field's domain.
LEMMA ReadableType ==
  ASSUME TypeOK, NEW t \in Threads, req[t] \in Requests,
         NEW n \in 1..Len(Layout[req[t].op]),
         NEW v \in Readable(Layout[req[t].op][n])
  PROVE  v \in Datum
<1> DEFINE f == Layout[req[t].op][n]
<1>1. req[t].op \in Ops
  BY RequestAssumption DEF Request
<1>2. f \in FieldNames
  BY <1>1, LayoutType
<1>3. FieldValues[f] \subseteq Datum
  BY <1>2 DEF FieldNames, FieldValues, Datum
<1>4. ASSUME readindex < Len(Layout[icell.cell.op])
      PROVE  icell.cell \in Cells
  <2>1. icell.cell.op # NoOp
    BY <1>4 DEF Layout, NoOp, TypeOK, ReaderTypeOK
  <2>2. icell.cell \in Cells \cup {NoCell}
    BY DEF TypeOK, ReaderTypeOK, Status, NoMessage
  <2> QED BY <2>1, <2>2 DEF NoCell
<1>5. ASSUME icell.cell \in Cells PROVE icell.cell[f] \in Datum
  BY <1>5, <1>2 DEF Cells, Datum, FieldNames
<1> QED BY <1>3, <1>4, <1>5 DEF Readable


LEMMA EmptyType == ASSUME NEW S PROVE <<>> \in Seq(S)
OBVIOUS

LEMMA AppendType ==
  ASSUME NEW S, NEW s \in Seq(S), NEW e \in S
  PROVE  Append(s, e) \in Seq(S)
OBVIOUS

LEMMA SmallMod ==
  ASSUME NEW m \in Nat \ {0}, NEW x \in Nat, x < m
  PROVE  x % m = x
OBVIOUS

\* The elements of a sequence after one more was appended.
LEMMA AppendElements ==
  ASSUME NEW S, NEW s \in Seq(S), NEW e, NEW i \in DOMAIN Append(s, e)
  PROVE  Append(s, e)[i] = e \/ (i \in DOMAIN s /\ Append(s, e)[i] = s[i])
OBVIOUS

\* Counting an outcome keeps the outcomes and the counters in their types.
LEMMA OutcomeType ==
  ASSUME TypeOK, NEW t \in Threads, NEW o \in Outcomes \ {"none"}, Outcome(t, o)
  PROVE  result' \in [Threads -> Outcomes] /\ count' \in [Counters -> Nat]
<1>1. result' \in [Threads -> Outcomes]
  BY DEF Outcome, TypeOK, CallerTypeOK
<1>2. o \in Counters
  BY DEF Outcomes, Counters
<1>3. count' \in [Counters -> Nat]
  BY <1>2 DEF Outcome, Bump, TypeOK
<1> QED BY <1>1, <1>3

\* The callers' steps keep every variable in its type.
LEMMA CallersType ==
  ASSUME TypeOK, CallInv, NEW t \in Threads,
         \/ Lock(t) \/ (\E r \in Requests : Call(t, r)) \/ Transact(t)
  PROVE  TypeOK'
<1> USE DEF callerRest, callerVars, sharedVars, readerVars, netVars, Goto
<1>1. CASE Lock(t)
  <2>1. CallerTypeOK'
    BY <1>1 DEF Lock, TypeOK, CallerTypeOK, Labels
  <2> QED BY <1>1, <2>1 DEF Lock, TypeOK, ReaderTypeOK, NetworkTypeOK
<1>2. CASE \E r \in Requests : Call(t, r)
  <2>1. PICK r \in Requests : Call(t, r)
    BY <1>2
  <2>2. CallerTypeOK'
    BY <2>1 DEF Call, TypeOK, CallerTypeOK, Labels
  <2> QED BY <2>1, <2>2 DEF Call, TypeOK, ReaderTypeOK, NetworkTypeOK
<1>3. CASE ResetEvent(t)
  <2>1. CallerTypeOK'
    BY <1>3 DEF ResetEvent, TypeOK, CallerTypeOK, Labels
  <2>2. ReaderTypeOK'
    BY <1>3 DEF ResetEvent, TypeOK, ReaderTypeOK
  <2> QED
    BY <1>3, <2>1, <2>2 DEF ResetEvent, TypeOK, NetworkTypeOK, Accepting
<1>4. CASE SetExpTransaction(t)
  <2>1. [xid |-> begun, trans |-> transaction] \in Xact
    BY DEF TypeOK, CallerTypeOK, Xact
  <2>4. mine' \in [Threads -> Xact \cup {NoXact}]
    BY <1>4, <2>1 DEF SetExpTransaction, TypeOK, CallerTypeOK
  <2>5. pc' \in [Threads -> Labels] /\ begun' \in Nat
    BY <1>4 DEF SetExpTransaction, TypeOK, CallerTypeOK, Labels
  <2>3. CallerTypeOK'
    BY <1>4, <2>4, <2>5 DEF SetExpTransaction, TypeOK, CallerTypeOK
  <2>2. ReaderTypeOK'
    BY <1>4 DEF SetExpTransaction, TypeOK, CallerTypeOK, ReaderTypeOK
  <2> QED BY <1>4, <2>3, <2>2 DEF SetExpTransaction, TypeOK, NetworkTypeOK
<1>5. CASE SetExpOpcode(t)
  <2>1. (transaction + 1) % TransMod \in Transactions
    BY TransModAssumption DEF TypeOK, CallerTypeOK, Transactions
  <2>2. req[t].op \in Ops
    BY <1>5, RequestAssumption DEF CallInv, SetExpOpcode, Request
  <2>3. CallerTypeOK'
    BY <1>5, <2>1 DEF SetExpOpcode, TypeOK, CallerTypeOK, Labels
  <2>4. ReaderTypeOK'
    BY <1>5, <2>2 DEF SetExpOpcode, TypeOK, ReaderTypeOK
  <2> QED BY <1>5, <2>3, <2>4 DEF SetExpOpcode, TypeOK, NetworkTypeOK
<1>6. CASE Send(t)
  <2>1. mine[t] \in Xact /\ req[t] \in Requests
    BY <1>6 DEF TypeOK, CallerTypeOK, CallInv, Send, Numbered, Published
  <2>2. [xid |-> mine[t].xid, trans |-> mine[t].trans, req |-> req[t]] \in Command
    BY <2>1 DEF Xact, Command
  <2>3. CallerTypeOK'
    BY <1>6 DEF Send, TypeOK, CallerTypeOK, Labels
  <2>4. NetworkTypeOK'
    BY <1>6, <2>2 DEF Send, TypeOK, NetworkTypeOK
  <2> QED BY <1>6, <2>3, <2>4 DEF Send, TypeOK, ReaderTypeOK
<1>7. CASE SendError(t)
  <2>1. "send" \in Outcomes \ {"none"} /\ Outcome(t, "send")
    BY <1>7 DEF SendError, Outcomes
  <2>2. result' \in [Threads -> Outcomes] /\ count' \in [Counters -> Nat]
    BY <2>1, OutcomeType
  <2>3. CallerTypeOK'
    BY <1>7, <2>2 DEF SendError, TypeOK, CallerTypeOK, Labels
  <2> QED
    BY <1>7, <2>2, <2>3 DEF SendError, TypeOK, ReaderTypeOK, NetworkTypeOK
<1>8. CASE WaitReply(t)
  <2>1. CallerTypeOK'
    BY <1>8 DEF WaitReply, TypeOK, CallerTypeOK, Labels
  <2>2. ReaderTypeOK'
    BY <1>8 DEF WaitReply, TypeOK, ReaderTypeOK
  <2> QED BY <1>8, <2>1, <2>2 DEF WaitReply, TypeOK, NetworkTypeOK
<1>9. CASE WaitTimeout(t)
  <2>1. "timeout" \in Outcomes \ {"none"} /\ Outcome(t, "timeout")
    BY <1>9 DEF WaitTimeout, Outcomes
  <2>2. result' \in [Threads -> Outcomes] /\ count' \in [Counters -> Nat]
    BY <2>1, OutcomeType
  <2>3. CallerTypeOK'
    BY <1>9, <2>2 DEF WaitTimeout, TypeOK, CallerTypeOK, Labels
  <2> QED
    BY <1>9, <2>2, <2>3 DEF WaitTimeout, TypeOK, ReaderTypeOK, NetworkTypeOK
<1>10. CASE InvalidateTransaction(t)
  <2>1. CallerTypeOK'
    BY <1>10 DEF InvalidateTransaction, TypeOK, CallerTypeOK, Labels
  <2>2. ReaderTypeOK'
    BY <1>10 DEF InvalidateTransaction, TypeOK, ReaderTypeOK
  <2> QED BY <1>10, <2>1, <2>2 DEF InvalidateTransaction, TypeOK, NetworkTypeOK
<1>11. CASE InvalidateOpcode(t)
  <2>1. CallerTypeOK'
    BY <1>11 DEF InvalidateOpcode, TypeOK, CallerTypeOK, Labels
  <2>2. ReaderTypeOK'
    BY <1>11 DEF InvalidateOpcode, TypeOK, ReaderTypeOK
  <2> QED BY <1>11, <2>1, <2>2 DEF InvalidateOpcode, TypeOK, NetworkTypeOK
<1>12. CASE ReadField(t)
  <2> DEFINE n == Len(got[t]) + 1
             f == Layout[req[t].op][n]
             d(v) == [xid |-> icell.xid, trans |-> icell.trans, val |-> v]
  <2>1. PICK v \in Readable(f) :
          /\ got' = [got EXCEPT ![t] = Append(@, d(v))]
          /\ \/ /\ f \in Checked
                /\ Goto(t, "read", "give")
                /\ Outcome(t, f)
             \/ /\ \/ Goto(t, "read", "give")
                   \/ Goto(t, "read", "read")
                /\ Outcome(t, "good") \/ UNCHANGED <<result, count>>
    BY <1>12, Zenon DEF ReadField
  <2>2. n \in 1..Len(Layout[req[t].op]) /\ req[t] \in Requests
    <3>1. Len(got[t]) \in Nat
      BY DEF TypeOK, CallerTypeOK
    <3>2. Len(Layout[req[t].op]) \in Nat
      BY <1>12, LayoutType, RequestAssumption DEF CallInv, Request, ReadField
    <3> QED BY <1>12, <3>1, <3>2 DEF CallInv, ReadField
  <2>3. v \in Datum
    BY <2>1, <2>2, ReadableType
  <2>4. icell.xid \in Int /\ icell.trans \in Int
    BY TransModAssumption
       DEF TypeOK, ReaderTypeOK, Status, NoMessage, Transactions, Invalid
  <2>5. got' \in [Threads -> Seq([xid : Int, trans : Int, val : Datum])]
    <3>1. d(v) \in [xid : Int, trans : Int, val : Datum]
      BY <2>3, <2>4
    <3>2. Append(got[t], d(v)) \in Seq([xid : Int, trans : Int, val : Datum])
      BY <3>1, AppendType DEF TypeOK, CallerTypeOK
    <3> QED BY <2>1, <3>2 DEF TypeOK, CallerTypeOK
  <2>6. pc' \in [Threads -> Labels]
    BY <2>1 DEF TypeOK, CallerTypeOK, Labels
  <2>7. result' \in [Threads -> Outcomes] /\ count' \in [Counters -> Nat]
    <3>1. Checked \subseteq Outcomes \ {"none"} /\ "good" \in Outcomes \ {"none"}
      BY DEF Checked, Outcomes
    <3> QED BY <2>1, <3>1, OutcomeType DEF TypeOK, CallerTypeOK
  <2>8. CallerTypeOK'
    BY <1>12, <2>5, <2>6, <2>7 DEF ReadField, TypeOK, CallerTypeOK
  <2>9. readindex' \in Nat
    BY <1>12 DEF ReadField, TypeOK, ReaderTypeOK
  <2>10. ReaderTypeOK'
    BY <1>12, <2>9 DEF ReadField, TypeOK, ReaderTypeOK
  <2> QED
    BY <1>12, <2>7, <2>8, <2>10 DEF ReadField, TypeOK, NetworkTypeOK
<1>13. CASE Give(t)
  <2>1. "none" \in Outcomes /\ "idle" \in Labels
    BY DEF Outcomes, Labels
  <2>3. got' \in [Threads -> Seq([xid : Int, trans : Int, val : Datum])]
    BY <1>13, EmptyType DEF Give, TypeOK, CallerTypeOK
  <2>4. mine' \in [Threads -> Xact \cup {NoXact}]
    BY <1>13 DEF Give, TypeOK, CallerTypeOK
  <2>2. CallerTypeOK'
    BY <1>13, <2>1, <2>3, <2>4 DEF Give, TypeOK, CallerTypeOK
  <2> QED BY <1>13, <2>2 DEF Give, TypeOK, ReaderTypeOK, NetworkTypeOK
<1> QED
  BY <1>1, <1>2, <1>3, <1>4, <1>5, <1>6, <1>7, <1>8, <1>9, <1>10, <1>11,
     <1>12, <1>13 DEF Transact

\* A step of the reader thread or of a server.
Remote == ReadThread \/ \E m \in commands : Serve(m)

\* Reader and server leave the callers' state and the expectation alone.
LEMMA RemoteFrame ==
  ASSUME Remote
  PROVE  UNCHANGED <<callerVars, exptransaction, expopcode, raced>>
<1> USE DEF sharedVars, readerVars
<1>1. ASSUME NEW m \in statuses, Recv(m)
      PROVE  UNCHANGED <<callerVars, exptransaction, expopcode, raced>>
  BY <1>1 DEF Recv
<1>2. ASSUME NEW m \in commands, Serve(m)
      PROVE  UNCHANGED <<callerVars, exptransaction, expopcode, raced>>
  BY <1>2 DEF Serve
<1> QED
  BY <1>1, <1>2 DEF Remote, ReadThread, RecvError, CheckTransaction, ReadCell,
                    CheckOpcode, Signal

\* Steps of the reader thread and of a server keep every variable in its type.
LEMMA RemoteType ==
  ASSUME TypeOK, Remote
  PROVE  TypeOK'
<1> USE DEF sharedVars, readerVars, netVars
<1>1. CallerTypeOK' /\ raced' \in BOOLEAN
  BY RemoteFrame DEF TypeOK, CallerTypeOK, callerVars, callerRest
<1>2. \A c \in Counters : Bump(c) => count' \in [Counters -> Nat]
  BY DEF Bump, TypeOK
<1>3. {"recv", "transaction", "cell", "opcode"} \subseteq Counters
  BY DEF Counters
<1>4. ASSUME NEW m \in statuses, Recv(m) PROVE TypeOK'
  BY <1>1, <1>4 DEF Recv, TypeOK, ReaderTypeOK, NetworkTypeOK
<1>5. CASE RecvError
  BY <1>1, <1>2, <1>3, <1>5 DEF RecvError, TypeOK, ReaderTypeOK, NetworkTypeOK
<1>6. CASE CheckTransaction
  BY <1>1, <1>2, <1>3, <1>6
     DEF CheckTransaction, Drop, Receive, TypeOK, ReaderTypeOK, NetworkTypeOK
<1>7. CASE ReadCell
  BY <1>1, <1>2, <1>3, <1>7
     DEF ReadCell, Drop, Receive, TypeOK, ReaderTypeOK, NetworkTypeOK
<1>8. CASE CheckOpcode
  BY <1>1, <1>2, <1>3, <1>8
     DEF CheckOpcode, Drop, Receive, TypeOK, ReaderTypeOK, NetworkTypeOK
<1>9. CASE Signal
  BY <1>1, <1>9 DEF Signal, Receive, TypeOK, ReaderTypeOK, NetworkTypeOK
<1>10. ASSUME NEW m \in commands, Serve(m) PROVE TypeOK'
  <2>1. PICK c \in Replies(m.req) :
          LET reply == [xid |-> m.xid, trans |-> m.trans, cell |-> c] IN
          /\ statuses' = statuses \cup {reply}
          /\ answered' = answered \cup {reply}
    BY <1>10 DEF Serve
  <2>2. m \in Command
    BY DEF TypeOK, NetworkTypeOK
  <2>3. [xid |-> m.xid, trans |-> m.trans, cell |-> c] \in Status
    BY <2>2 DEF Command, Status, Replies
  <2>4. NetworkTypeOK'
    BY <1>10, <2>1, <2>3 DEF Serve, TypeOK, NetworkTypeOK
  <2> QED BY <1>1, <1>10, <2>4 DEF Serve, TypeOK, ReaderTypeOK
<1> QED
  BY <1>4, <1>5, <1>6, <1>7, <1>8, <1>9, <1>10 DEF Remote, ReadThread

\* A step of some thread: it calls, locks or goes on with its transaction.
Caller(t) == Lock(t) \/ (\E r \in Requests : Call(t, r)) \/ Transact(t)

LEMMA NextSplit ==
  ASSUME Next PROVE Remote \/ \E t \in Threads : Caller(t)
BY DEF Next, Remote, Caller

\* Type correctness is preserved by every step.
LEMMA TypeStep ==
  ASSUME TypeOK, CallInv, [Next]_vars
  PROVE  TypeOK'
<1>1. ASSUME NEW t \in Threads, Caller(t) PROVE TypeOK'
  BY <1>1, CallersType DEF Caller
<1>2. CASE Remote
  BY <1>2, RemoteType
<1>3. CASE UNCHANGED vars
  BY <1>3 DEF vars, callerVars, callerRest, sharedVars, readerVars, netVars,
              TypeOK, CallerTypeOK, ReaderTypeOK, NetworkTypeOK
<1> QED BY <1>1, <1>2, <1>3, NextSplit

-----------------------------------------------------------------------------
(* Mutual exclusion of transactions, and what is published during one.     *)

\* How a thread moves from one place in its call to another.
Moves ==
  {<<"reset", "exptrans">>, <<"exptrans", "expop">>, <<"expop", "send">>,
   <<"send", "wait">>, <<"send", "invtrans">>, <<"wait", "invtrans">>,
   <<"invtrans", "invop">>, <<"invop", "read">>, <<"invop", "give">>,
   <<"read", "read">>, <<"read", "give">>}

LEMMA TransactMoves ==
  ASSUME NEW t \in Threads, Transact(t), ~Give(t)
  PROVE  /\ \E m \in Moves : Goto(t, m[1], m[2])
         /\ UNCHANGED <<xactmutex, req>>
<1> USE DEF callerRest, callerVars
<1>1. CASE ReadField(t)
  <2>1. \/ Goto(t, "read", "give")
        \/ Goto(t, "read", "read")
    BY <1>1, Zenon DEF ReadField
  <2> QED BY <1>1, <2>1 DEF ReadField, Moves
<1>2. CASE InvalidateOpcode(t)
  <2>1. Goto(t, "invop", "read") \/ Goto(t, "invop", "give")
    BY <1>2, Zenon DEF InvalidateOpcode
  <2> QED BY <1>2, <2>1 DEF InvalidateOpcode, Moves
<1> QED
  BY <1>1, <1>2 DEF Transact, Moves, ResetEvent, SetExpTransaction,
     SetExpOpcode, Send, SendError, WaitReply, WaitTimeout,
     InvalidateTransaction

\* At most one thread is inside a transaction.
LEMMA MutexStep ==
  ASSUME TypeOK, MutexInv, [Next]_vars
  PROVE  MutexInv'
<1> USE ThreadAssumption DEF MutexInv, Inside, TypeOK, CallerTypeOK
<1>1. ASSUME NEW t \in Threads, Lock(t) PROVE MutexInv'
  BY <1>1 DEF Lock, Goto
<1>2. ASSUME NEW t \in Threads, NEW r \in Requests, Call(t, r) PROVE MutexInv'
  BY <1>2 DEF Call, Goto
<1>3. ASSUME NEW t \in Threads, Give(t) PROVE MutexInv'
  BY <1>3 DEF Give, Goto
<1>4. ASSUME NEW t \in Threads, Transact(t), ~Give(t) PROVE MutexInv'
  <2>1. PICK m \in Moves : Goto(t, m[1], m[2])
    BY <1>4, TransactMoves
  <2>2. m[1] \notin {"idle", "lock"} /\ m[2] \notin {"idle", "lock"}
    BY DEF Moves
  <2>3. xactmutex' = xactmutex
    BY <1>4, TransactMoves
  <2> QED BY <2>1, <2>2, <2>3 DEF Goto
<1>5. CASE Remote
  BY <1>5, RemoteFrame DEF callerVars, callerRest
<1>6. CASE UNCHANGED vars
  BY <1>6 DEF vars, callerVars, callerRest
<1> QED
  BY <1>1, <1>2, <1>3, <1>4, <1>5, <1>6, NextSplit DEF Caller

\* The other threads are outside while one is inside.
LEMMA Alone ==
  ASSUME MutexInv, NEW t \in Threads, Inside(t), NEW u \in Threads, u # t
  PROVE  pc[u] \in {"idle", "lock"}
BY DEF MutexInv, Inside

\* A step of one thread leaves the calls of the others alone.
LEMMA OthersFrame ==
  ASSUME TypeOK, NEW t \in Threads, Caller(t), NEW u \in Threads, u # t
  PROVE  /\ pc'[u] = pc[u] /\ mine'[u] = mine[u] /\ result'[u] = result[u]
         /\ got'[u] = got[u] /\ req'[u] = req[u]
<1> USE DEF TypeOK, CallerTypeOK, Goto, callerRest, callerVars
<1>1. CASE ReadField(t)
  <2>1. \/ pc' = [pc EXCEPT ![t] = "give"]
        \/ pc' = [pc EXCEPT ![t] = "read"]
    BY <1>1, Zenon DEF ReadField
  <2>2. UNCHANGED result \/ \E o \in Outcomes : result' = [result EXCEPT ![t] = o]
    <3>1. Checked \subseteq Outcomes /\ "good" \in Outcomes
      BY DEF Checked, Outcomes
    <3> QED BY <1>1, <3>1, Zenon DEF ReadField, Outcome
  <2>3. \E e : got' = [got EXCEPT ![t] = e]
    BY <1>1, Zenon DEF ReadField
  <2>4. UNCHANGED <<mine, req>>
    BY <1>1 DEF ReadField
  <2> QED BY <2>1, <2>2, <2>3, <2>4
<1> QED
  BY <1>1 DEF Caller, Transact, Lock, Call, ResetEvent, SetExpTransaction,
     SetExpOpcode, Send, SendError, WaitReply, WaitTimeout,
     InvalidateTransaction, InvalidateOpcode, Give, Outcome

\* While a thread takes a step of its transaction the others are outside.
LEMMA OthersOutside ==
  ASSUME MutexInv, NEW t \in Threads, Transact(t), NEW u \in Threads, u # t
  PROVE  pc[u] \in {"idle", "lock"}
<1>1. Inside(t)
  <2>1. CASE Give(t)
    BY <2>1 DEF Give, Goto, Inside
  <2>2. CASE ~Give(t)
    <3>1. PICK m \in Moves : Goto(t, m[1], m[2])
      BY <2>2, TransactMoves
    <3> QED BY <3>1 DEF Moves, Goto, Inside
  <2> QED BY <2>1, <2>2
<1> QED BY <1>1, Alone

\* The expected transaction number is that of the thread that published it.
LEMMA ExpectationStep ==
  ASSUME TypeOK, MutexInv, ExpectationInv, [Next]_vars
  PROVE  ExpectationInv'
<1> USE DEF ExpectationInv, Published, TypeOK, CallerTypeOK, Goto, callerRest,
            callerVars, sharedVars
<1>1. ASSUME NEW t \in Threads,
             Lock(t) \/ (\E r \in Requests : Call(t, r)) \/ ResetEvent(t)
             \/ InvalidateOpcode(t) \/ Give(t)
      PROVE  ExpectationInv'
  <2>1. /\ pc[t] \notin Published /\ exptransaction' = exptransaction
        /\ \E l \in Labels \ Published : pc' = [pc EXCEPT ![t] = l]
    BY <1>1 DEF Lock, Call, ResetEvent, InvalidateOpcode, Give, Labels
  <2>2. \A u \in Threads : u # t => mine'[u] = mine[u]
    BY <1>1 DEF Lock, Call, ResetEvent, InvalidateOpcode, Give
  <2> QED BY <2>1, <2>2
<1>2. ASSUME NEW t \in Threads, SetExpTransaction(t)
      PROVE  ExpectationInv'
  <2>1. \A u \in Threads : u # t => pc[u] \in {"idle", "lock"}
    BY <1>2, Alone DEF SetExpTransaction, Inside
  <2>2. pc' = [pc EXCEPT ![t] = "expop"] /\ exptransaction' = transaction
    BY <1>2 DEF SetExpTransaction
  <2>3. mine' = [mine EXCEPT ![t] = [xid |-> begun, trans |-> transaction]]
    BY <1>2 DEF SetExpTransaction
  <2>4. pc'[t] = "expop" /\ mine'[t].trans = transaction
    BY <2>2, <2>3
  <2>5. \A u \in Threads : u # t => pc'[u] \in {"idle", "lock"}
    BY <2>1, <2>2
  <2> QED BY <2>2, <2>4, <2>5
<1>3. ASSUME NEW t \in Threads,
             SetExpOpcode(t) \/ Send(t) \/ SendError(t) \/ WaitReply(t)
             \/ WaitTimeout(t)
      PROVE  ExpectationInv'
  <2>1. /\ pc[t] \in Published /\ UNCHANGED <<exptransaction, mine>>
        /\ \E l \in Published : pc' = [pc EXCEPT ![t] = l]
    BY <1>3 DEF SetExpOpcode, Send, SendError, WaitReply, WaitTimeout
  <2> QED BY <2>1
<1>4. ASSUME NEW t \in Threads, InvalidateTransaction(t)
      PROVE  ExpectationInv'
  <2>1. \A u \in Threads : u # t => pc[u] \in {"idle", "lock"}
    BY <1>4, Alone DEF InvalidateTransaction, Inside
  <2> QED BY <1>4, <2>1 DEF InvalidateTransaction
<1>5. ASSUME NEW t \in Threads, ReadField(t)
      PROVE  ExpectationInv'
  <2>1. /\ pc[t] = "read" /\ UNCHANGED <<exptransaction, mine>>
        /\ \/ pc' = [pc EXCEPT ![t] = "give"]
           \/ pc' = [pc EXCEPT ![t] = "read"]
    BY <1>5, Zenon DEF ReadField
  <2> QED BY <2>1
<1>6. CASE Remote
  BY <1>6, RemoteFrame
<1>7. CASE UNCHANGED vars
  BY <1>7 DEF vars
<1> QED
  BY <1>1, <1>2, <1>3, <1>4, <1>5, <1>6, <1>7, NextSplit DEF Caller, Transact

\* What each place in a call implies about the call is preserved.
LEMMA CallStep ==
  ASSUME TypeOK, CallInv, [Next]_vars
  PROVE  CallInv'
<1> DEFINE C(t) ==
      /\ pc[t] \in Numbered <=> mine[t] # NoXact
      /\ pc[t] \notin {"invtrans", "invop", "read", "give"} => result[t] = "none"
      /\ pc[t] \notin {"read", "give"} => got[t] = <<>>
      /\ pc[t] # "idle" => req[t] \in Requests
      /\ pc[t] = "read" => Len(got[t]) < Len(Layout[req[t].op])
<1>0. CallInv <=> \A t \in Threads : C(t)
  BY DEF CallInv
<1>00. CallInv' <=> \A t \in Threads : C(t)'
  BY DEF CallInv
<1> USE DEF TypeOK, CallerTypeOK, Goto, callerRest, callerVars, Numbered, Published
<1>1. ASSUME NEW t \in Threads, Caller(t)
      PROVE  \A u \in Threads : u # t => C(u)'
  <2> SUFFICES ASSUME NEW u \in Threads, u # t PROVE C(u)'
    OBVIOUS
  <2>1. /\ pc'[u] = pc[u] /\ mine'[u] = mine[u] /\ result'[u] = result[u]
        /\ got'[u] = got[u] /\ req'[u] = req[u]
    BY <1>1, OthersFrame
  <2> QED BY <1>0, <2>1
<1>2. ASSUME NEW t \in Threads, Caller(t)
      PROVE  C(t)'
  <2>0. C(t)
    BY <1>0
  <2>1. CASE \E r \in Requests : Call(t, r)
    BY <2>0, <2>1 DEF Call
  <2>2. CASE Lock(t) \/ ResetEvent(t)
    BY <2>0, <2>2 DEF Lock, ResetEvent
  <2>3. CASE SetExpTransaction(t)
    <3>1. [xid |-> begun, trans |-> transaction] # NoXact
      BY DEF NoXact
    <3> QED BY <2>0, <2>3, <3>1 DEF SetExpTransaction
  <2>4. CASE SetExpOpcode(t) \/ Send(t)
    BY <2>0, <2>4 DEF SetExpOpcode, Send
  <2>5. CASE SendError(t) \/ WaitTimeout(t)
    BY <2>0, <2>5 DEF SendError, WaitTimeout, Outcome
  <2>6. CASE WaitReply(t) \/ InvalidateTransaction(t)
    BY <2>0, <2>6 DEF WaitReply, InvalidateTransaction
  <2>7. CASE InvalidateOpcode(t)
    <3>1. req[t].op \in Ops
      BY <2>0, <2>7, RequestAssumption DEF InvalidateOpcode, Request
    <3>2. got[t] = <<>> /\ Len(Layout[req[t].op]) > 0
      BY <2>0, <2>7, <3>1, LayoutType DEF InvalidateOpcode
    <3>3. \/ pc' = [pc EXCEPT ![t] = "read"]
          \/ pc' = [pc EXCEPT ![t] = "give"]
      BY <2>7, Zenon DEF InvalidateOpcode
    <3>4. pc[t] = "invop" /\ UNCHANGED <<mine, result, got, req>>
      BY <2>7 DEF InvalidateOpcode
    <3> QED BY <2>0, <3>2, <3>3, <3>4
  <2>8. CASE ReadField(t)
    <3> DEFINE n == Len(got[t]) + 1
    <3>1. pc[t] = "read" /\ UNCHANGED <<mine, req>>
      BY <2>8 DEF ReadField
    <3>2. \E e : got' = [got EXCEPT ![t] = Append(@, e)]
      BY <2>8, Zenon DEF ReadField
    <3>3. Len(got'[t]) = n
      BY <3>2
    <3>4. \/ pc' = [pc EXCEPT ![t] = "give"]
          \/ /\ pc' = [pc EXCEPT ![t] = "read"]
             /\ n # Len(Layout[req[t].op])
      BY <2>8, Zenon DEF ReadField
    <3>5. Len(Layout[req[t].op]) \in Nat
      BY <2>0, <3>1, LayoutType, RequestAssumption DEF Request
    <3> QED BY <2>0, <3>1, <3>3, <3>4, <3>5
  <2>9. CASE Give(t)
    BY <2>0, <2>9 DEF Give
  <2> QED
    BY <1>2, <2>1, <2>2, <2>3, <2>4, <2>5, <2>6, <2>7, <2>8, <2>9
       DEF Caller, Transact
<1>3. CASE Remote
  BY <1>3, <1>0, <1>00, RemoteFrame
<1>4. CASE UNCHANGED vars
  BY <1>4, <1>0, <1>00 DEF vars
<1> QED BY <1>00, <1>1, <1>2, <1>3, <1>4, NextSplit

-----------------------------------------------------------------------------
(* What the reader thread holds, and the numbering of messages.            *)

\* No step of a caller touches what the reader thread receives and stores.
LEMMA CallerFrame ==
  ASSUME NEW t \in Threads, Caller(t)
  PROVE  UNCHANGED <<icell, imsg, rpc, statuses>>
<1> USE DEF callerRest, callerVars, sharedVars, readerVars, netVars
<1>1. CASE ReadField(t)
  BY <1>1 DEF ReadField
<1> QED
  BY <1>1 DEF Caller, Transact, Lock, Call, ResetEvent, SetExpTransaction,
     SetExpOpcode, Send, SendError, WaitReply, WaitTimeout,
     InvalidateTransaction, InvalidateOpcode, Give

\* The reader thread past receiving holds a message, and past ReadCell it is
\* the one in _icell.
LEMMA ReaderStep ==
  ASSUME TypeOK, ReaderInv, [Next]_vars
  PROVE  ReaderInv'
<1> USE DEF ReaderInv, sharedVars, readerVars
<1>1. ASSUME NEW t \in Threads, Caller(t) PROVE ReaderInv'
  BY <1>1, CallerFrame
<1>2. ASSUME NEW m \in statuses, Recv(m) PROVE ReaderInv'
  BY <1>2 DEF Recv, TypeOK, NetworkTypeOK
<1>3. ASSUME NEW m \in commands, Serve(m) PROVE ReaderInv'
  BY <1>3 DEF Serve
<1>4. CASE RecvError \/ CheckTransaction \/ ReadCell \/ CheckOpcode \/ Signal
  BY <1>4 DEF RecvError, CheckTransaction, ReadCell, CheckOpcode, Signal, Drop,
              Receive
<1>5. CASE UNCHANGED vars
  BY <1>5 DEF vars
<1> QED
  BY <1>1, <1>2, <1>3, <1>4, <1>5, NextSplit DEF Remote, ReadThread

\* Until the 8-bit number wraps, every message carries its own transaction's.
LEMMA NumberRemoteStep ==
  ASSUME TypeOK, NumberInv, Remote
  PROVE  NumberInv'
<1> DEFINE Messages == commands \cup statuses \cup {imsg, icell}
<1>0. UNCHANGED <<callerVars>>
  BY RemoteFrame
<1>1. ASSUME \A m \in Messages' : Unwrapped(m)
      PROVE  NumberInv'
  BY <1>0, <1>1 DEF NumberInv, Unwrapped, callerVars, callerRest
<1>2. Unwrapped(NoMessage)
  BY DEF Unwrapped, NoMessage
<1>3. \A m \in Messages : Unwrapped(m)
  BY DEF NumberInv
<1> USE DEF sharedVars, readerVars, netVars
<1>4. ASSUME NEW m \in statuses, Recv(m) PROVE NumberInv'
  <2>1. Messages' \subseteq Messages
    BY <1>4 DEF Recv
  <2> QED BY <1>1, <1>3, <2>1
<1>5. ASSUME NEW m \in commands, Serve(m) PROVE NumberInv'
  <2>1. PICK c \in Replies(m.req) :
          statuses' = statuses \cup {[xid |-> m.xid, trans |-> m.trans, cell |-> c]}
    BY <1>5 DEF Serve
  <2>2. Unwrapped([xid |-> m.xid, trans |-> m.trans, cell |-> c])
    BY <1>3 DEF Unwrapped
  <2>3. Messages' \subseteq
          Messages \cup {[xid |-> m.xid, trans |-> m.trans, cell |-> c]}
    BY <1>5, <2>1 DEF Serve
  <2> QED BY <1>1, <1>3, <2>2, <2>3
<1>6. CASE RecvError \/ CheckTransaction \/ ReadCell \/ CheckOpcode \/ Signal
  <2>1. Messages' \subseteq Messages \cup {NoMessage}
    BY <1>6 DEF RecvError, CheckTransaction, ReadCell, CheckOpcode, Signal,
                Drop, Receive
  <2> QED BY <1>1, <1>2, <1>3, <2>1
<1> QED BY <1>4, <1>5, <1>6 DEF Remote, ReadThread

LEMMA NumberCallerStep ==
  ASSUME TypeOK, MutexInv, CallInv, NumberInv, NEW t \in Threads, Caller(t)
  PROVE  NumberInv'
<1> USE DEF callerRest, callerVars, sharedVars, readerVars, netVars, Goto,
            TypeOK, CallerTypeOK
<1>0. /\ \A m \in commands \cup statuses \cup {imsg, icell} : Unwrapped(m)
      /\ \A u \in Threads : /\ Unwrapped(mine[u])
                            /\ \A i \in DOMAIN got[u] : Unwrapped(got[u][i])
  BY DEF NumberInv
<1>1. CASE \/ Lock(t) \/ (\E r \in Requests : Call(t, r)) \/ ResetEvent(t)
           \/ SendError(t) \/ WaitReply(t) \/ WaitTimeout(t)
           \/ InvalidateTransaction(t) \/ InvalidateOpcode(t)
  <2>1. /\ UNCHANGED <<mine, got, transaction, begun, commands, statuses, imsg,
                       icell>>
        /\ pc[t] # "expop"
        /\ \E l \in Labels \ {"expop"} : pc' = [pc EXCEPT ![t] = l]
    BY <1>1 DEF Lock, Call, ResetEvent, SendError, WaitReply, WaitTimeout,
       InvalidateTransaction, InvalidateOpcode, Labels
  <2> QED BY <1>0, <2>1 DEF NumberInv, Unwrapped
<1>2. CASE SetExpTransaction(t)
  <2>1. \A u \in Threads : pc[u] # "expop"
    BY <1>2, Alone DEF SetExpTransaction, Inside
  <2>2. begun < TransMod => transaction = begun
    BY <2>1 DEF NumberInv
  <2>3. /\ begun' = begun + 1 /\ UNCHANGED <<got, transaction, commands>>
        /\ mine' = [mine EXCEPT ![t] = [xid |-> begun, trans |-> transaction]]
        /\ pc' = [pc EXCEPT ![t] = "expop"]
    BY <1>2 DEF SetExpTransaction
  <2>4. UNCHANGED <<icell, imsg, statuses>>
    BY CallerFrame
  <2>5. begun \in Nat /\ TransMod \in Nat
    BY TransModAssumption
  <2>6. \A m : Unwrapped(m) => Unwrapped(m)'
    BY <2>3, <2>5 DEF Unwrapped
  <2>7. Unwrapped(mine[t])' /\ mine'[t].trans = transaction
    BY <2>2, <2>3, <2>5 DEF Unwrapped
  <2>8. \A u \in Threads : Unwrapped(mine[u])'
    BY <1>0, <2>3, <2>7, <2>5 DEF Unwrapped
  <2>9. \A u \in Threads : \A i \in DOMAIN got'[u] : Unwrapped(got[u][i])'
    BY <1>0, <2>3, <2>5 DEF Unwrapped
  <2>10. \A m \in (commands \cup statuses \cup {imsg, icell})' : Unwrapped(m)'
    <3>1. (commands \cup statuses \cup {imsg, icell})'
            = commands \cup statuses \cup {imsg, icell}
      BY <2>3, <2>4
    <3> QED BY <1>0, <2>6, <3>1
  <2>11. \A u \in Threads : pc'[u] = "expop" => u = t
    BY <2>1, <2>3
  <2>12. begun' <= TransMod => transaction' = begun' - 1
    BY <2>2, <2>3, <2>5
  <2>13. pc'[t] = "expop"
    BY <2>3
  <2> QED
    BY <2>3, <2>7, <2>8, <2>9, <2>10, <2>11, <2>12, <2>13 DEF NumberInv, Unwrapped
<1>3. CASE SetExpOpcode(t)
  <2>1. \A u \in Threads : u # t => pc[u] # "expop"
    BY <1>3, Alone DEF SetExpOpcode, Inside
  <2>2. begun <= TransMod => transaction = begun - 1
    BY <1>3 DEF NumberInv, SetExpOpcode
  <2>3. begun \in Nat /\ TransMod \in Nat \ {0}
    BY TransModAssumption
  <2>4. begun < TransMod => (transaction + 1) % TransMod = begun
    <3> SUFFICES ASSUME begun < TransMod
                 PROVE  (transaction + 1) % TransMod = begun
      OBVIOUS
    <3>1. transaction + 1 = begun
      BY <2>2, <2>3
    <3> QED BY <2>3, <3>1, SmallMod
  <2>5. UNCHANGED <<mine, got, begun, commands, statuses, imsg, icell>>
    BY <1>3 DEF SetExpOpcode
  <2>6. transaction' = (transaction + 1) % TransMod /\ pc' = [pc EXCEPT ![t] = "send"]
    BY <1>3 DEF SetExpOpcode
  <2> QED BY <1>0, <2>1, <2>4, <2>5, <2>6 DEF NumberInv, Unwrapped
<1>4. CASE Send(t)
  <2> DEFINE m == [xid |-> mine[t].xid, trans |-> mine[t].trans, req |-> req[t]]
  <2>1. Unwrapped(m)
    BY <1>0 DEF Unwrapped
  <2>2. UNCHANGED <<mine, got, transaction, begun, statuses, imsg, icell>>
    BY <1>4 DEF Send
  <2>3. commands' = commands \cup {m} /\ pc' = [pc EXCEPT ![t] = "wait"]
        /\ pc[t] = "send"
    BY <1>4 DEF Send
  <2> QED BY <1>0, <2>1, <2>2, <2>3 DEF NumberInv, Unwrapped
<1>5. CASE ReadField(t)
  <2>1. \E v : got' = [got EXCEPT ![t] = Append(@,
                 [xid |-> icell.xid, trans |-> icell.trans, val |-> v])]
    BY <1>5, Zenon DEF ReadField
  <2>2. PICK v : got' = [got EXCEPT ![t] = Append(@,
                   [xid |-> icell.xid, trans |-> icell.trans, val |-> v])]
    BY <2>1
  <2> DEFINE e == [xid |-> icell.xid, trans |-> icell.trans, val |-> v]
  <2>3. Unwrapped(e)
    BY <1>0 DEF Unwrapped
  <2>4. \A i \in DOMAIN got'[t] :
          got'[t][i] = e \/ (i \in DOMAIN got[t] /\ got'[t][i] = got[t][i])
    <3>1. got'[t] = Append(got[t], e)
      BY <2>2
    <3>2. got[t] \in Seq([xid : Int, trans : Int, val : Datum])
      OBVIOUS
    <3> QED BY <3>1, <3>2, AppendElements
  <2>5. \A u \in Threads : u # t => got'[u] = got[u]
    BY <2>2
  <2>6. /\ UNCHANGED <<mine, transaction, begun, commands, statuses, imsg, icell>>
        /\ pc[t] = "read"
    BY <1>5 DEF ReadField
  <2>7. pc' = [pc EXCEPT ![t] = "give"] \/ pc' = [pc EXCEPT ![t] = "read"]
    BY <1>5, Zenon DEF ReadField
  <2>8. \A u \in Threads : \A i \in DOMAIN got'[u] : Unwrapped(got'[u][i])
    BY <1>0, <2>3, <2>4, <2>5
  <2>9. \A u \in Threads : pc'[u] = "expop" <=> pc[u] = "expop"
    BY <2>6, <2>7
  <2> QED BY <1>0, <2>6, <2>8, <2>9 DEF NumberInv, Unwrapped
<1>6. CASE Give(t)
  <2>1. UNCHANGED <<transaction, begun, commands, statuses, imsg, icell>>
    BY <1>6 DEF Give
  <2>2. /\ mine' = [mine EXCEPT ![t] = NoXact]
        /\ got' = [got EXCEPT ![t] = <<>>]
        /\ pc' = [pc EXCEPT ![t] = "idle"] /\ pc[t] = "give"
    BY <1>6 DEF Give
  <2>3. Unwrapped(NoXact)
    BY DEF Unwrapped, NoXact
  <2> QED BY <1>0, <2>1, <2>2, <2>3 DEF NumberInv, Unwrapped
<1> QED
  BY <1>1, <1>2, <1>3, <1>4, <1>5, <1>6 DEF Caller, Transact

LEMMA NumberStep ==
  ASSUME TypeOK, MutexInv, CallInv, NumberInv, [Next]_vars
  PROVE  NumberInv'
<1>1. CASE UNCHANGED vars
  BY <1>1 DEF vars, callerVars, callerRest, sharedVars, readerVars, netVars,
              NumberInv, Unwrapped
<1> QED BY <1>1, NumberCallerStep, NumberRemoteStep, NextSplit

-----------------------------------------------------------------------------
(* What a transaction reads is its own, unless the reader was overtaken.   *)

\* FreshInv for one thread.
Fresh(t) ==
  /\ pc[t] = "exptrans" => ~Accepting /\ replyevent = 0
  /\ pc[t] \in Numbered =>
       /\ Accepting => imsg.trans = mine[t].trans
       /\ \A i \in DOMAIN got[t] : got[t][i].trans = mine[t].trans
  /\ pc[t] \in {"expop", "send", "wait"} /\ replyevent = 1 =>
       icell.trans = mine[t].trans
  /\ pc[t] \in {"invtrans", "invop"} /\ result[t] = "none" =>
       icell.trans = mine[t].trans
  /\ pc[t] = "read" => icell.trans = mine[t].trans

LEMMA FreshDef == FreshInv <=> (~raced => \A t \in Threads : Fresh(t))
BY DEF FreshInv, Fresh

LEMMA FreshDefPrime == FreshInv' <=> (~raced' => \A t \in Threads : Fresh(t)')
BY DEF FreshInv, Fresh

\* A thread that is outside reads nothing.
LEMMA FreshOutside ==
  ASSUME NEW t \in Threads, pc[t] \in {"idle", "lock", "reset"} PROVE Fresh(t)
BY DEF Fresh, Numbered, Published

\* A caller's steps keep every thread's reads its own.
LEMMA FreshCallerStep ==
  ASSUME TypeOK, MutexInv, CallInv, FreshInv, Spurious = FALSE,
         NEW t \in Threads, Caller(t)
  PROVE  FreshInv'
<1> USE DEF callerRest, callerVars, sharedVars, readerVars, netVars, Goto,
            TypeOK, CallerTypeOK
<1> SUFFICES ASSUME ~raced', ~raced, NEW u \in Threads PROVE Fresh(u)'
  <2>1. raced' = raced \/ raced' = (raced \/ Accepting)
    <3>1. CASE ReadField(t)
      BY <3>1 DEF ReadField
    <3> QED
      BY <3>1 DEF Caller, Transact, Lock, Call, ResetEvent, SetExpTransaction,
         SetExpOpcode, Send, SendError, WaitReply, WaitTimeout,
         InvalidateTransaction, InvalidateOpcode, Give
  <2> QED BY <2>1, FreshDefPrime
<1>1. Fresh(u) /\ Fresh(t)
  BY FreshDef
<1>2. UNCHANGED <<icell, imsg, rpc>>
  BY CallerFrame
<1> USE DEF Accepting
<1>3. CASE Lock(t) \/ \E r \in Requests : Call(t, r)
  <2>1. UNCHANGED <<mine, got, result, replyevent>>
    BY <1>3 DEF Lock, Call
  <2>2. u # t => pc'[u] = pc[u]
    BY <1>3 DEF Lock, Call
  <2>3. pc'[t] \in {"lock", "reset"}
    BY <1>3 DEF Lock, Call
  <2> QED BY <1>1, <1>2, <2>1, <2>2, <2>3 DEF Fresh, Numbered, Published
<1>4. ASSUME Transact(t), u # t PROVE Fresh(u)'
  <2>1. pc[u] \in {"idle", "lock"}
    BY <1>4, OthersOutside
  <2>2. pc'[u] = pc[u]
    BY <1>4, OthersFrame DEF Caller
  <2> QED BY <2>1, <2>2 DEF Fresh, Numbered, Published
<1>5. ASSUME Transact(t) PROVE Fresh(t)'
  <2> USE DEF Fresh, Numbered, Published
  <2>1. CASE ResetEvent(t)
    BY <1>1, <1>2, <2>1 DEF ResetEvent
  <2>2. CASE SetExpTransaction(t)
    <3>1. got[t] = <<>>
      BY <2>2 DEF CallInv, SetExpTransaction
    <3> QED BY <1>1, <1>2, <2>2, <3>1 DEF SetExpTransaction
  <2>3. CASE SetExpOpcode(t)
    BY <1>1, <1>2, <2>3 DEF SetExpOpcode
  <2>4. CASE Send(t)
    BY <1>1, <1>2, <2>4 DEF Send
  <2>5. CASE SendError(t) \/ WaitTimeout(t)
    BY <1>1, <1>2, <2>5 DEF SendError, WaitTimeout, Outcome
  <2>6. CASE WaitReply(t)
    BY <1>1, <1>2, <2>6 DEF WaitReply
  <2>7. CASE InvalidateTransaction(t)
    BY <1>1, <1>2, <2>7 DEF InvalidateTransaction
  <2>8. CASE InvalidateOpcode(t)
    <3>1. \/ pc' = [pc EXCEPT ![t] = "read"] /\ result[t] = "none"
          \/ pc' = [pc EXCEPT ![t] = "give"]
      BY <2>8, Zenon DEF InvalidateOpcode
    <3>2. pc[t] = "invop" /\ UNCHANGED <<mine, result, got, replyevent>>
      BY <2>8 DEF InvalidateOpcode
    <3>3. CASE pc' = [pc EXCEPT ![t] = "read"] /\ result[t] = "none"
      <4>1. pc'[t] = "read" /\ result[t] = "none"
        BY <3>3
      <4>2. icell.trans = mine[t].trans
        BY <1>1, <3>2, <4>1
      <4>3. (Accepting => imsg.trans = mine[t].trans)
            /\ \A i \in DOMAIN got[t] : got[t][i].trans = mine[t].trans
        BY <1>1, <3>2
      <4>4. mine'[t] = mine[t] /\ got'[t] = got[t] /\ icell' = icell
            /\ imsg' = imsg /\ rpc' = rpc
        BY <1>2, <3>2
      <4> QED BY <4>1, <4>2, <4>3, <4>4, Zenon
    <3>4. CASE pc' = [pc EXCEPT ![t] = "give"]
      <4>1. pc'[t] = "give"
        BY <3>4
      <4> QED BY <1>1, <1>2, <3>2, <4>1
    <3> QED BY <3>1, <3>3, <3>4
  <2>9. CASE ReadField(t)
    <3>1. PICK v : got' = [got EXCEPT ![t] = Append(@,
                     [xid |-> icell.xid, trans |-> icell.trans, val |-> v])]
      BY <2>9, Zenon DEF ReadField
    <3> DEFINE e == [xid |-> icell.xid, trans |-> icell.trans, val |-> v]
    <3>2. pc[t] = "read" /\ UNCHANGED <<mine, replyevent>>
      BY <2>9 DEF ReadField
    <3>3. pc' = [pc EXCEPT ![t] = "give"] \/ pc' = [pc EXCEPT ![t] = "read"]
      BY <2>9, Zenon DEF ReadField
    <3>4. \A i \in DOMAIN got'[t] :
            got'[t][i] = e \/ (i \in DOMAIN got[t] /\ got'[t][i] = got[t][i])
      <4>1. got'[t] = Append(got[t], e)
        BY <3>1
      <4>2. got[t] \in Seq([xid : Int, trans : Int, val : Datum])
        OBVIOUS
      <4> QED BY <4>1, <4>2, AppendElements
    <3>5. icell.trans = mine[t].trans
      BY <1>1, <3>2
    <3>6. \A i \in DOMAIN got'[t] : got'[t][i].trans = mine[t].trans
      <4>1. e.trans = mine[t].trans
        BY <3>5
      <4>2. \A i \in DOMAIN got[t] : got[t][i].trans = mine[t].trans
        BY <1>1, <3>2
      <4> HIDE DEF e
      <4> QED BY <3>4, <4>1, <4>2, Zenon
    <3> QED BY <1>1, <1>2, <3>2, <3>3, <3>5, <3>6
  <2>10. CASE Give(t)
    BY <2>10 DEF Give
  <2> QED
    BY <1>5, <2>1, <2>2, <2>3, <2>4, <2>5, <2>6, <2>7, <2>8, <2>9, <2>10
       DEF Transact
<1> QED BY <1>3, <1>4, <1>5 DEF Caller

\* The reader thread accepts messages only for the transaction in progress.
LEMMA FreshRemoteStep ==
  ASSUME TypeOK, MutexInv, ExpectationInv, CallInv, ReaderInv, FreshInv, Remote
  PROVE  FreshInv'
<1> SUFFICES ASSUME ~raced, NEW t \in Threads PROVE Fresh(t)'
  BY RemoteFrame, FreshDefPrime
<1>0. UNCHANGED <<pc, mine, got, result>>
  BY RemoteFrame DEF callerVars, callerRest
<1>1. Fresh(t)
  BY FreshDef
<1> USE DEF sharedVars, readerVars, Accepting, Receive
<1>2. CASE RecvError \/ (\E m \in commands : Serve(m)) \/ (\E m \in statuses : Recv(m))
  <2>1. ~Accepting' \/ UNCHANGED <<rpc, imsg>>
    BY <1>2 DEF RecvError, Serve, Recv
  <2>2. UNCHANGED <<icell, replyevent>>
    BY <1>2 DEF RecvError, Serve, Recv
  <2> QED BY <1>0, <1>1, <2>1, <2>2 DEF Fresh
<1>3. CASE CheckTransaction
  <2>1. UNCHANGED <<icell, replyevent>>
    BY <1>3 DEF CheckTransaction
  <2>2. CASE rpc' = "recv"
    BY <1>0, <1>1, <2>1, <2>2 DEF Fresh
  <2>3. CASE rpc' # "recv"
    <3>1. imsg' = imsg /\ imsg.trans = exptransaction
      BY <1>3, <2>3 DEF CheckTransaction, Drop
    <3>2. imsg.trans # Invalid
      BY <1>3, TransModAssumption
         DEF CheckTransaction, ReaderInv, Status, Transactions, Invalid
    <3>3. PICK u \in Threads : pc[u] \in Published
      BY <3>1, <3>2 DEF ExpectationInv
    <3>4. exptransaction = mine[u].trans
      BY <3>3 DEF ExpectationInv
    <3>5. CASE t = u
      BY <1>0, <1>1, <2>1, <3>1, <3>3, <3>4, <3>5 DEF Fresh, Published
    <3>6. CASE t # u
      <4>1. pc[t] \in {"idle", "lock"}
        BY <3>3, <3>6, Alone DEF Inside, Published
      <4> QED BY <1>0, <4>1 DEF Fresh, Numbered, Published
    <3> QED BY <3>5, <3>6
  <2> QED BY <2>2, <2>3
<1>4. CASE ReadCell
  <2>1. rpc = "cell" /\ UNCHANGED replyevent
    BY <1>4 DEF ReadCell
  <2>2. pc[t] # "exptrans"
    BY <1>1, <2>1 DEF Fresh
  <2>3. pc[t] \in Numbered => imsg.trans = mine[t].trans
    BY <1>1, <2>1 DEF Fresh
  <2>4. (icell' = imsg /\ imsg' = imsg) \/ (icell' = icell /\ rpc' = "recv")
    BY <1>4 DEF ReadCell, Drop
  <2> QED BY <1>0, <1>1, <2>1, <2>2, <2>3, <2>4 DEF Fresh, Numbered, Published
<1>5. CASE CheckOpcode
  <2>1. rpc = "opcode" /\ UNCHANGED <<icell, replyevent>>
    BY <1>5 DEF CheckOpcode
  <2>2. rpc' = "recv" \/ imsg' = imsg
    BY <1>5 DEF CheckOpcode, Drop
  <2> QED BY <1>0, <1>1, <2>1, <2>2 DEF Fresh
<1>6. CASE Signal
  <2>1. rpc = "signal" /\ rpc' = "recv" /\ icell' = icell /\ icell = imsg
    BY <1>6 DEF Signal, ReaderInv
  <2> QED BY <1>0, <1>1, <2>1 DEF Fresh, Numbered, Published
<1> QED BY <1>2, <1>3, <1>4, <1>5, <1>6 DEF Remote, ReadThread

LEMMA FreshStep ==
  ASSUME IInv, Spurious = FALSE, [Next]_vars
  PROVE  FreshInv'
<1>1. CASE UNCHANGED vars
  BY <1>1 DEF vars, callerVars, callerRest, sharedVars, readerVars, IInv,
              FreshInv, Accepting
<1> QED BY <1>1, FreshCallerStep, FreshRemoteStep, NextSplit DEF IInv

-----------------------------------------------------------------------------
(* Every transaction is counted once.                                      *)

\* The field that makes a transaction good is one of the reply's, and the
\* fields behind it are not compared with the request.
LEMMA GoodAtRange ==
  ASSUME NEW o \in Ops
  PROVE  /\ GoodAt(o) \in 1..Len(Layout[o])
         /\ \A n \in 1..Len(Layout[o]) : n > GoodAt(o) => Layout[o][n] \notin Checked
<1> USE DEF GoodAt, Checked
<1>1. CASE o \in {"Call", "Set", "Add", "Sub"}
  <2>1. Layout[o] = <<"pid", "err">> /\ Len(Layout[o]) = 2
    BY <1>1, LayoutCases
  <2> QED BY <1>1, <2>1
<1>2. CASE o \in {"ICall", "ISet", "Write"}
  <2>1. Layout[o] = <<"pid", "sub", "err">> /\ Len(Layout[o]) = 3
    BY <1>2, LayoutCases
  <2> QED BY <1>2, <2>1
<1>3. CASE o = "Get"
  <2>1. /\ Len(Layout[o]) = 4
        /\ Layout[o][3] = "val" /\ Layout[o][4] = "err"
    BY <1>3, LayoutCases
  <2>2. GoodAt(o) = 2
    BY <1>3, <2>1
  <2>3. \A n \in 1..4 : n > 2 => n = 3 \/ n = 4
    OBVIOUS
  <2> QED BY <2>1, <2>2, <2>3
<1>4. CASE o = "IGet"
  <2>1. /\ Len(Layout[o]) = 5
        /\ Layout[o][4] = "val" /\ Layout[o][5] = "err"
    BY <1>4, LayoutCases
  <2>2. GoodAt(o) = 3
    BY <1>4, <2>1
  <2>3. \A n \in 1..5 : n > 3 => n = 4 \/ n = 5
    OBVIOUS
  <2> QED BY <2>1, <2>2, <2>3
<1>5. CASE o = "Read"
  <2>1. /\ Len(Layout[o]) = 4
        /\ Layout[o][3] = "val" /\ Layout[o][4] = "err"
    BY <1>5, LayoutCases
  <2>2. GoodAt(o) = 2
    BY <1>5, <2>1
  <2>3. \A n \in 1..4 : n > 2 => n = 3 \/ n = 4
    OBVIOUS
  <2> QED BY <2>1, <2>2, <2>3
<1> QED BY <1>1, <1>2, <1>3, <1>4, <1>5 DEF Ops

\* GoodInv for one thread.
Good(t) ==
  /\ pc[t] \in {"invtrans", "invop"} => result[t] # "good"
  /\ pc[t] = "read" =>
       \/ result[t] = "none" /\ Len(got[t]) < GoodAt(req[t].op)
       \/ result[t] = "good" /\ Len(got[t]) >= GoodAt(req[t].op)

\* The outcome and the fields read so far agree.
LEMMA GoodStep ==
  ASSUME TypeOK, CallInv, GoodInv, [Next]_vars
  PROVE  GoodInv'
<1>0. (GoodInv <=> \A t \in Threads : Good(t)) /\ (GoodInv' <=> \A t \in Threads : Good(t)')
  BY DEF GoodInv, Good
<1> USE DEF TypeOK, CallerTypeOK, Goto, callerRest, callerVars, Good
<1>1. ASSUME NEW t \in Threads, Caller(t), NEW u \in Threads, u # t
      PROVE  Good(u)'
  BY <1>0, <1>1, OthersFrame
<1>2. ASSUME NEW t \in Threads, Caller(t)
      PROVE  Good(t)'
  <2>1. CASE ReadField(t)
    <3> DEFINE n == Len(got[t]) + 1
               f == Layout[req[t].op][n]
    <3>1. /\ pc[t] = "read" /\ req' = req
          /\ \E e : got' = [got EXCEPT ![t] = Append(@, e)]
      BY <2>1, Zenon DEF ReadField
    <3>2. \/ pc' = [pc EXCEPT ![t] = "give"]
          \/ /\ pc' = [pc EXCEPT ![t] = "read"]
             /\ \/ n = GoodAt(req[t].op) /\ result' = [result EXCEPT ![t] = "good"]
                \/ n # GoodAt(req[t].op) /\ result' = result
      BY <2>1, Zenon DEF ReadField, Outcome
    <3>3. GoodAt(req[t].op) \in Nat
      <4>1. req[t].op \in Ops
        BY <3>1, RequestAssumption DEF CallInv, Request
      <4> QED BY <4>1, GoodAtRange, LayoutType
    <3>4. Len(got'[t]) = n /\ Len(got[t]) \in Nat
      BY <3>1
    <3> QED BY <1>0, <3>1, <3>2, <3>3, <3>4
  <2>2. CASE InvalidateOpcode(t)
    <3>1. \/ pc' = [pc EXCEPT ![t] = "give"]
          \/ result[t] = "none"
      BY <2>2, Zenon DEF InvalidateOpcode
    <3>2. pc[t] = "invop" /\ UNCHANGED <<result, got, req>>
      BY <2>2 DEF InvalidateOpcode
    <3>3. got[t] = <<>> /\ req[t].op \in Ops
      BY <3>2, RequestAssumption DEF CallInv, Request
    <3>4. Len(got[t]) = 0 /\ 0 < GoodAt(req[t].op)
      BY <3>3, GoodAtRange, LayoutType
    <3> QED BY <3>1, <3>2, <3>4
  <2>3. CASE ~ReadField(t) /\ ~InvalidateOpcode(t)
    <3>1. pc[t] = "wait" => result[t] = "none"
      BY DEF CallInv
    <3> QED
      BY <1>0, <1>2, <2>3, <3>1 DEF Caller, Transact, Lock, Call, ResetEvent,
         SetExpTransaction, SetExpOpcode, Send, SendError, WaitReply,
         WaitTimeout, InvalidateTransaction, Give, Outcome
  <2> QED BY <2>1, <2>2, <2>3
<1>3. CASE Remote
  BY <1>0, <1>3, RemoteFrame
<1>4. CASE UNCHANGED vars
  BY <1>0, <1>4 DEF vars
<1> QED BY <1>0, <1>1, <1>2, <1>3, <1>4, NextSplit

\* Transactions counted under one of the six outcomes.
Counted == count["good"] + count["send"] + count["timeout"]
           + count["pid"] + count["sub"] + count["type"]

\* The transaction of the thread has begun and is not counted yet.
Open(t) ==
  /\ pc[t] \in {"expop", "send", "wait", "invtrans", "invop", "read"}
  /\ result[t] = "none"

LEMMA CardinalityAtMostOne ==
  ASSUME NEW S, \A a, b \in S : a = b
  PROVE  Cardinality(S) = IF S = {} THEN 0 ELSE 1
<1>1. CASE S = {}
  BY <1>1, FS_EmptySet
<1>2. CASE S # {}
  <2>1. PICK a \in S : TRUE
    BY <1>2
  <2>2. S = {a}
    BY <2>1
  <2> QED BY <2>2, FS_Singleton
<1> QED BY <1>1, <1>2

\* Counting an outcome advances the sum, counting a message it discards or
\* nothing does not.
LEMMA CountedBump ==
  ASSUME TypeOK
  PROVE  /\ \A o \in Outcomes \ {"none"} : Bump(o) => Counted' = Counted + 1
         /\ \A c \in {"recv", "transaction", "cell", "opcode"} : Bump(c) => Counted' = Counted
         /\ Counted \in Nat
<1> USE DEF TypeOK, Counters, Counted, Bump
<1>1. \A o \in Outcomes \ {"none"} : Bump(o) => Counted' = Counted + 1
  BY DEF Outcomes
<1>2. \A c \in {"recv", "transaction", "cell", "opcode"} : Bump(c) => Counted' = Counted
  OBVIOUS
<1>3. Counted \in Nat
  OBVIOUS
<1> QED BY <1>1, <1>2, <1>3

\* A step of a thread begins its transaction, counts it, or does neither.
LEMMA OpenStep ==
  ASSUME TypeOK, CallInv, GoodInv, NEW t \in Threads, Caller(t)
  PROVE  \/ begun' = begun /\ Counted' = Counted /\ (Open(t)' <=> Open(t))
         \/ /\ begun' = begun + 1 /\ Counted' = Counted
            /\ ~Open(t) /\ Open(t)' /\ Transact(t)
         \/ /\ begun' = begun /\ Counted' = Counted + 1
            /\ Open(t) /\ ~Open(t)' /\ Transact(t)
<1> USE DEF TypeOK, CallerTypeOK, Goto, callerRest, callerVars, Open
<1>0. /\ count' = count => Counted' = Counted
      /\ \A o \in Outcomes \ {"none"} : Bump(o) => Counted' = Counted + 1
  BY CountedBump DEF Counted
<1> HIDE DEF Counted
<1>1. CASE \/ Lock(t) \/ (\E r \in Requests : Call(t, r)) \/ ResetEvent(t)
           \/ SetExpOpcode(t) \/ Send(t) \/ WaitReply(t)
           \/ InvalidateTransaction(t) \/ Give(t)
  <2>1. UNCHANGED <<begun, count>>
    BY <1>1 DEF Lock, Call, ResetEvent, SetExpOpcode, Send, WaitReply,
       InvalidateTransaction, Give
  <2>2. Open(t)' <=> Open(t)
    BY <1>1 DEF Lock, Call, ResetEvent, SetExpOpcode, Send, WaitReply,
       InvalidateTransaction, Give
  <2> QED BY <1>0, <2>1, <2>2
<1>2. CASE SetExpTransaction(t)
  <2>1. result[t] = "none"
    BY <1>2 DEF CallInv, SetExpTransaction
  <2> QED BY <1>0, <1>2, <2>1 DEF SetExpTransaction, Transact
<1>3. ASSUME NEW o \in Outcomes \ {"none"}, Outcome(t, o), UNCHANGED begun,
             Open(t), Transact(t)
      PROVE  /\ begun' = begun /\ Counted' = Counted + 1
             /\ Open(t) /\ ~Open(t)' /\ Transact(t)
  BY <1>0, <1>3 DEF Outcome
<1>4. CASE SendError(t)
  <2>1. Open(t)
    BY <1>4 DEF SendError, CallInv
  <2>2. "send" \in Outcomes \ {"none"} /\ Outcome(t, "send") /\ UNCHANGED begun
    BY <1>4 DEF SendError, Outcomes
  <2> QED BY <1>3, <1>4, <2>1, <2>2 DEF Transact
<1>5. CASE WaitTimeout(t)
  <2>1. Open(t)
    BY <1>5 DEF WaitTimeout, CallInv
  <2>2. "timeout" \in Outcomes \ {"none"} /\ Outcome(t, "timeout") /\ UNCHANGED begun
    BY <1>5 DEF WaitTimeout, Outcomes
  <2> QED BY <1>3, <1>5, <2>1, <2>2 DEF Transact
<1>6. CASE InvalidateOpcode(t)
  <2>1. \/ pc' = [pc EXCEPT ![t] = "read"]
        \/ pc' = [pc EXCEPT ![t] = "give"] /\ result[t] # "none"
    BY <1>6, Zenon DEF InvalidateOpcode
  <2>2. pc[t] = "invop" /\ UNCHANGED <<begun, count, result>>
    BY <1>6 DEF InvalidateOpcode
  <2> QED BY <1>0, <2>1, <2>2
<1>7. CASE ReadField(t)
  <2> DEFINE op == req[t].op
             n == Len(got[t]) + 1
             f == Layout[op][n]
  <2>1. pc[t] = "read" /\ UNCHANGED begun
    BY <1>7 DEF ReadField
  <2>2. op \in Ops /\ n \in 1..Len(Layout[op])
    <3>1. op \in Ops
      BY <2>1, RequestAssumption DEF CallInv, Request
    <3>2. Len(got[t]) \in Nat /\ Len(got[t]) < Len(Layout[op])
      BY <2>1 DEF CallInv
    <3> QED BY <3>1, <3>2, LayoutType
  <2>3. /\ GoodAt(op) \in 1..Len(Layout[op])
        /\ n > GoodAt(op) => f \notin Checked
    BY <2>2, GoodAtRange
  <2>4. \/ result[t] = "none" /\ n <= GoodAt(op)
        \/ result[t] = "good" /\ n > GoodAt(op)
    BY <2>1, <2>2, <2>3 DEF GoodInv
  <2>5. \/ f \in Checked /\ Outcome(t, f)
        \/ n = GoodAt(op) /\ Outcome(t, "good")
        \/ /\ n # GoodAt(op) /\ UNCHANGED <<result, count>>
           /\ \/ pc' = [pc EXCEPT ![t] = "give"] /\ n = Len(Layout[op])
              \/ pc' = [pc EXCEPT ![t] = "read"]
    BY <1>7, Zenon DEF ReadField
  <2>6. Checked \cup {"good"} \subseteq Outcomes \ {"none"}
    BY DEF Checked, Outcomes
  <2>7. CASE f \in Checked /\ Outcome(t, f)
    <3>1. Open(t)
      BY <2>1, <2>2, <2>3, <2>4, <2>7
    <3> QED BY <1>3, <1>7, <2>1, <2>6, <2>7, <3>1 DEF Transact
  <2>8. CASE n = GoodAt(op) /\ Outcome(t, "good")
    <3>1. Open(t)
      BY <2>1, <2>2, <2>3, <2>4, <2>8
    <3> QED BY <1>3, <1>7, <2>1, <2>6, <2>8, <3>1 DEF Transact
  <2>9. CASE /\ n # GoodAt(op) /\ UNCHANGED <<result, count>>
             /\ \/ pc' = [pc EXCEPT ![t] = "give"] /\ n = Len(Layout[op])
                \/ pc' = [pc EXCEPT ![t] = "read"]
    <3>1. CASE pc' = [pc EXCEPT ![t] = "read"]
      BY <1>0, <2>1, <2>9, <3>1
    <3>2. CASE pc' = [pc EXCEPT ![t] = "give"] /\ n = Len(Layout[op])
      <4>1. n > GoodAt(op)
        BY <2>2, <2>3, <2>9, <3>2
      <4>2. result[t] = "good"
        BY <2>2, <2>3, <2>4, <4>1
      <4> QED BY <1>0, <2>1, <2>9, <3>2, <4>2
    <3> QED BY <2>9, <3>1, <3>2
  <2> QED BY <2>5, <2>7, <2>8, <2>9
<1> QED BY <1>1, <1>2, <1>4, <1>5, <1>6, <1>7 DEF Caller, Transact

\* Accounted without the cardinality.
LEMMA AccountedStep ==
  ASSUME TypeOK, MutexInv, CallInv, GoodInv, Accounted, [Next]_vars
  PROVE  Accounted'
<1> DEFINE S == {t \in Threads : Open(t)}
<1>1. (Accounted <=> begun = Counted + Cardinality(S))
      /\ (Accounted' <=> begun' = Counted' + Cardinality(S'))
  BY DEF Accounted, Open, Counted
<1>2. MutexInv'
  BY MutexStep
<1>3. (\A a, b \in S : a = b) /\ (\A a, b \in S' : a = b)
  BY <1>2, Alone DEF MutexInv, Open, Inside
<1>4. /\ Cardinality(S) = IF S = {} THEN 0 ELSE 1
      /\ Cardinality(S') = IF S' = {} THEN 0 ELSE 1
  BY <1>3, CardinalityAtMostOne
<1>5. begun \in Nat /\ Counted \in Nat
  BY CountedBump DEF TypeOK, CallerTypeOK
<1>6. ASSUME NEW t \in Threads, Caller(t) PROVE Accounted'
  <2>1. \A u \in Threads : u # t => (u \in S <=> u \in S')
    BY <1>6, OthersFrame DEF Open
  <2>2. CASE begun' = begun /\ Counted' = Counted /\ (Open(t)' <=> Open(t))
    <3>1. S' = S
      BY <2>1, <2>2
    <3> QED BY <1>1, <2>2, <3>1
  <2>3. CASE /\ begun' = begun + 1 /\ Counted' = Counted
             /\ ~Open(t) /\ Open(t)' /\ Transact(t)
    <3>1. S = {}
      BY <2>3, OthersOutside DEF Open
    <3>2. t \in S'
      BY <2>3
    <3>3. Cardinality(S) = 0 /\ Cardinality(S') = 1
      BY <1>4, <3>1, <3>2
    <3> HIDE DEF S
    <3> QED BY <1>1, <1>5, <2>3, <3>3
  <2>4. CASE /\ begun' = begun /\ Counted' = Counted + 1
             /\ Open(t) /\ ~Open(t)' /\ Transact(t)
    <3>1. S' = {}
      BY <2>1, <2>4, OthersOutside DEF Open
    <3>2. t \in S
      BY <2>4
    <3>3. Cardinality(S) = 1 /\ Cardinality(S') = 0
      BY <1>4, <3>1, <3>2
    <3> HIDE DEF S
    <3> QED BY <1>1, <1>5, <2>4, <3>3
  <2> QED BY <1>6, <2>2, <2>3, <2>4, OpenStep
<1>7. ASSUME UNCHANGED callerVars, Counted' = Counted PROVE Accounted'
  <2>1. S' = S /\ begun' = begun
    BY <1>7 DEF callerVars, callerRest, Open
  <2> QED BY <1>1, <1>7, <2>1
<1>8. CASE Remote
  <2>1. \/ count' = count
        \/ \E c \in {"recv", "transaction", "cell", "opcode"} : Bump(c)
    <3>1. ASSUME NEW m \in statuses, Recv(m) PROVE count' = count
      BY <3>1 DEF Recv
    <3>2. ASSUME NEW m \in commands, Serve(m) PROVE count' = count
      BY <3>2 DEF Serve
    <3> QED BY <1>8, <3>1, <3>2 DEF Remote, ReadThread, RecvError, CheckTransaction,
              ReadCell, CheckOpcode, Signal, Drop
  <2>2. Counted' = Counted
    BY <2>1, CountedBump DEF Counted
  <2> QED BY <1>7, <1>8, <2>2, RemoteFrame
<1>9. CASE UNCHANGED vars
  BY <1>7, <1>9 DEF vars, Counted
<1> QED BY <1>6, <1>8, <1>9, NextSplit

-----------------------------------------------------------------------------
(* Overtaking takes a timeout.                                             *)

\* Every step counts one thing at most.
LEMMA CountStep ==
  ASSUME TypeOK, Next
  PROVE  count' = count \/ \E c \in Counters : Bump(c)
<1> USE DEF Counters
<1>1. ASSUME NEW t \in Threads, ReadField(t)
      PROVE  count' = count \/ \E c \in Counters : Bump(c)
  <2>1. \/ \E f \in Checked : Outcome(t, f)
        \/ Outcome(t, "good")
        \/ UNCHANGED <<result, count>>
    BY <1>1, Zenon DEF ReadField
  <2> QED BY <2>1 DEF Outcome, Checked
<1>2. ASSUME NEW t \in Threads, Caller(t), ~ReadField(t)
      PROVE  count' = count \/ \E c \in Counters : Bump(c)
  BY <1>2 DEF Caller, Transact, Lock, Call, ResetEvent, SetExpTransaction,
     SetExpOpcode, Send, SendError, WaitReply, WaitTimeout, Outcome,
     InvalidateTransaction, InvalidateOpcode, Give
<1>3. ASSUME NEW m \in statuses, Recv(m) PROVE count' = count
  BY <1>3 DEF Recv
<1>4. ASSUME NEW m \in commands, Serve(m) PROVE count' = count
  BY <1>4 DEF Serve
<1>5. CASE Remote
  BY <1>3, <1>4, <1>5 DEF Remote, ReadThread, RecvError, CheckTransaction,
     ReadCell, CheckOpcode, Signal, Drop
<1> QED BY <1>1, <1>2, <1>5, NextSplit

\* As long as nothing has timed out, at most one thing is under way and a
\* thread waits for it.
LEMMA QuietStep ==
  ASSUME Dup = FALSE, Spurious = FALSE,
         TypeOK, MutexInv, QuietInv, [Next]_vars
  PROVE  QuietInv'
<1> USE DEF callerRest, callerVars, sharedVars, readerVars, netVars, Goto
<1>1. CASE UNCHANGED vars
  BY <1>1 DEF vars, QuietInv, Idle, UnderWay
<1> SUFFICES ASSUME Next, count'["timeout"] = 0
             PROVE  /\ ~raced'
                    /\ Idle' \/ (UnderWay' /\ \E t \in Threads : pc'[t] = "wait")
  BY <1>1 DEF QuietInv
<1>2. count["timeout"] = 0 /\ ~Bump("timeout")
  BY CountStep DEF Bump, TypeOK, Counters
<1>3. ~raced /\ (Idle \/ (UnderWay /\ \E t \in Threads : pc[t] = "wait"))
  BY <1>2 DEF QuietInv
<1>4. ASSUME NEW t \in Threads, Caller(t)
      PROVE  /\ ~raced'
             /\ Idle' \/ (UnderWay' /\ \E u \in Threads : pc'[u] = "wait")
  <2>1. UNCHANGED <<rpc, statuses>>
    BY <1>4, CallerFrame
  <2>2. \A u \in Threads : u # t => pc'[u] = pc[u]
    BY <1>4, OthersFrame
  <2>3. CASE Lock(t) \/ \E r \in Requests : Call(t, r)
    <3>1. UNCHANGED <<commands, replyevent, raced>> /\ pc[t] # "wait"
      BY <2>3 DEF Lock, Call
    <3>2. (Idle' <=> Idle) /\ (UnderWay' <=> UnderWay)
      BY <2>1, <3>1 DEF Idle, UnderWay
    <3> QED BY <1>3, <2>2, <3>1, <3>2
  <2>4. ASSUME Transact(t), pc[t] # "wait" PROVE Idle
    BY <1>3, <2>4, OthersOutside
  <2>5. CASE ResetEvent(t)
    <3>1. Idle
      BY <2>4, <2>5 DEF Transact, ResetEvent
    <3> QED BY <1>3, <2>1, <2>5, <3>1 DEF ResetEvent, Idle, Accepting
  <2>6. CASE Send(t)
    <3>1. Idle
      BY <2>4, <2>6 DEF Transact, Send
    <3>2. \E m : commands' = {m}
      BY <2>6, <3>1 DEF Send, Idle
    <3>3. pc'[t] = "wait" /\ UNCHANGED <<replyevent, raced>>
      BY <2>6 DEF Send, TypeOK, CallerTypeOK
    <3> QED BY <1>3, <2>1, <3>1, <3>2, <3>3 DEF Idle, UnderWay
  <2>7. CASE WaitReply(t)
    <3>1. UnderWay /\ replyevent = 1
      BY <1>3, <2>7 DEF WaitReply, Idle
    <3> QED BY <1>3, <2>1, <2>7, <3>1 DEF WaitReply, Idle, UnderWay
  <2>8. CASE WaitTimeout(t)
    BY <1>2, <2>8 DEF WaitTimeout, Outcome
  <2>9. CASE \/ SetExpTransaction(t) \/ SetExpOpcode(t) \/ SendError(t)
             \/ InvalidateTransaction(t) \/ InvalidateOpcode(t) \/ Give(t)
    <3>1. pc[t] # "wait" /\ Transact(t) /\ UNCHANGED <<commands, replyevent, raced>>
      BY <2>9 DEF Transact, SetExpTransaction, SetExpOpcode, SendError,
         InvalidateTransaction, InvalidateOpcode, Give
    <3> QED BY <1>3, <2>1, <2>4, <3>1 DEF Idle
  <2>10. CASE ReadField(t)
    <3>1. pc[t] # "wait" /\ Transact(t) /\ UNCHANGED <<commands, replyevent, raced>>
      BY <2>10 DEF Transact, ReadField
    <3> QED BY <1>3, <2>1, <2>4, <3>1 DEF Idle
  <2> QED BY <1>4, <2>3, <2>5, <2>6, <2>7, <2>8, <2>9, <2>10 DEF Caller, Transact
<1>5. CASE Remote
  <2>1. UNCHANGED <<pc, raced>>
    BY <1>5, RemoteFrame
  <2>2. ASSUME NEW m \in statuses, Recv(m) PROVE UnderWay /\ UnderWay'
    BY <1>3, <2>2 DEF Recv, Idle, UnderWay
  <2>3. ASSUME NEW m \in commands, Serve(m) PROVE UnderWay /\ UnderWay'
    <3>1. UnderWay /\ commands = {m} /\ statuses = {} /\ rpc = "recv" /\ replyevent = 0
      BY <1>3 DEF Idle, UnderWay
    <3>2. \E s : statuses' = {s}
      BY <2>3, <3>1 DEF Serve
    <3>3. commands' = {} /\ UNCHANGED <<rpc, replyevent>>
      BY <2>3, <3>1 DEF Serve
    <3> QED BY <3>1, <3>2, <3>3 DEF UnderWay
  <2>4. CASE RecvError
    BY <1>3, <2>1, <2>4 DEF RecvError, Idle, UnderWay
  <2>5. CASE CheckTransaction \/ ReadCell \/ CheckOpcode \/ Signal
    <3>1. rpc # "recv" /\ UNCHANGED <<commands, statuses>>
      BY <2>5 DEF CheckTransaction, ReadCell, CheckOpcode, Signal
    <3>2. UnderWay /\ commands = {} /\ statuses = {} /\ replyevent = 0
      BY <1>3, <3>1 DEF Idle, UnderWay
    <3>3. \/ rpc' = "recv" /\ replyevent' \in {0, 1}
          \/ rpc' # "recv" /\ replyevent' = 0
      BY <2>5, <3>2 DEF CheckTransaction, ReadCell, CheckOpcode, Signal, Drop, Receive
    <3> QED BY <1>3, <2>1, <3>1, <3>2, <3>3 DEF Idle, UnderWay
  <2> QED
    BY <1>3, <1>5, <2>1, <2>2, <2>3, <2>4, <2>5 DEF Remote, ReadThread, Idle, UnderWay
<1> QED BY <1>4, <1>5, NextSplit

-----------------------------------------------------------------------------
(* Where the messages of a transaction are, without duplicates.            *)

\* Reader thread and servers make no message of another transaction.
LEMMA GoneRemote ==
  ASSUME Remote, NEW x, Gone(x)
  PROVE  Gone(x)'
<1> USE DEF Gone, sharedVars, readerVars, netVars
<1>1. ASSUME NEW m \in statuses, Recv(m) PROVE Gone(x)'
  BY <1>1 DEF Recv
<1>2. ASSUME NEW m \in commands, Serve(m) PROVE Gone(x)'
  <2>1. \E c : statuses' = statuses \cup {[xid |-> m.xid, trans |-> m.trans, cell |-> c]}
    BY <1>2 DEF Serve
  <2>2. commands' \subseteq commands /\ UNCHANGED <<rpc, imsg>>
    BY <1>2 DEF Serve
  <2> QED BY <2>1, <2>2
<1>3. CASE RecvError \/ CheckTransaction \/ ReadCell \/ CheckOpcode \/ Signal
  BY <1>3 DEF RecvError, CheckTransaction, ReadCell, CheckOpcode, Signal, Drop,
     Receive
<1> QED BY <1>1, <1>2, <1>3 DEF Remote, ReadThread

\* Of the threads' steps only Send makes a message.
LEMMA GoneCaller ==
  ASSUME NEW t \in Threads, Caller(t), NEW x, Gone(x), ~Send(t) \/ mine[t].xid # x
  PROVE  Gone(x)'
<1> USE DEF callerRest, callerVars, sharedVars, readerVars, netVars
<1>1. UNCHANGED <<imsg, rpc, statuses>>
  BY CallerFrame
<1>2. CASE ReadField(t)
  BY <1>1, <1>2 DEF ReadField, Gone
<1>3. CASE Send(t)
  BY <1>1, <1>3 DEF Send, Gone
<1>4. CASE ~ReadField(t) /\ ~Send(t)
  <2>1. commands' = commands
    BY <1>4 DEF Caller, Transact, Lock, Call, ResetEvent, SetExpTransaction,
       SetExpOpcode, SendError, WaitReply, WaitTimeout,
       InvalidateTransaction, InvalidateOpcode, Give
  <2> QED BY <1>1, <2>1 DEF Gone
<1> QED BY <1>2, <1>3, <1>4

\* A step of a thread begins at most one transaction, under the next number.
LEMMA BegunStep ==
  ASSUME TypeOK, NEW t \in Threads, Caller(t)
  PROVE  \/ /\ SetExpTransaction(t) /\ begun' = begun + 1
            /\ mine' = [mine EXCEPT ![t] = [xid |-> begun, trans |-> transaction]]
         \/ begun' = begun /\ (mine' = mine \/ Give(t))
<1> USE DEF callerRest, callerVars
<1>1. CASE ReadField(t)
  BY <1>1 DEF ReadField
<1> QED
  BY <1>1 DEF Caller, Transact, Lock, Call, ResetEvent, SetExpTransaction,
     SetExpOpcode, Send, SendError, WaitReply, WaitTimeout,
     InvalidateTransaction, InvalidateOpcode, Give

\* A message is delivered once, so a transaction is at one place.
LEMMA OnceStep ==
  ASSUME Dup = FALSE, TypeOK, OnceInv, LatestInv, [Next]_vars
  PROVE  OnceInv'
<1> USE DEF sharedVars, readerVars, netVars
<1>1. CASE UNCHANGED vars
  BY <1>1 DEF vars, callerVars, callerRest, OnceInv
<1>2. ASSUME NEW t \in Threads, Caller(t) PROVE OnceInv'
  <2>1. UNCHANGED <<imsg, rpc, statuses>>
    BY <1>2, CallerFrame
  <2>2. begun \in Nat /\ begun' \in {begun, begun + 1}
    BY <1>2, BegunStep DEF TypeOK, CallerTypeOK
  <2>3. CASE Send(t)
    <3> DEFINE e == [xid |-> mine[t].xid, trans |-> mine[t].trans, req |-> req[t]]
    <3>1. commands' = commands \cup {e} /\ pc[t] = "send"
      BY <2>3 DEF Send, Goto
    <3>2. Gone(e.xid) /\ e.xid < begun
      BY <2>2, <3>1 DEF LatestInv, Numbered, Published
    <3>3. begun' = begun
      BY <2>3 DEF Send, callerRest
    <3> HIDE DEF e
    <3> QED BY <2>1, <3>1, <3>2, <3>3 DEF OnceInv, Gone
  <2>4. CASE ~Send(t)
    <3>1. commands' = commands
      <4>1. CASE ReadField(t)
        BY <4>1 DEF ReadField
      <4> QED
        BY <1>2, <2>4, <4>1 DEF Caller, Transact, Lock, Call, ResetEvent,
           SetExpTransaction, SetExpOpcode, SendError, WaitReply, WaitTimeout,
           InvalidateTransaction, InvalidateOpcode, Give
    <3>2. \A m \in commands \cup statuses : m.xid \in Nat
      BY DEF TypeOK, NetworkTypeOK, Command, Status
    <3>3. rpc # "recv" => imsg.xid \in Int
      BY DEF TypeOK, ReaderTypeOK, Status, NoMessage
    <3> QED BY <2>1, <2>2, <3>1, <3>2, <3>3 DEF OnceInv
  <2> QED BY <2>3, <2>4
<1>3. CASE Remote
  <2>1. begun' = begun
    BY <1>3, RemoteFrame DEF callerVars, callerRest
  <2>2. ASSUME NEW m \in statuses, Recv(m) PROVE OnceInv'
    <3>1. rpc = "recv" /\ imsg' = m /\ statuses' = statuses \ {m} /\ commands' = commands
      BY <2>2 DEF Recv
    <3> QED BY <2>1, <3>1 DEF OnceInv
  <2>3. ASSUME NEW m \in commands, Serve(m) PROVE OnceInv'
    <3>1. PICK c : statuses' = statuses \cup {[xid |-> m.xid, trans |-> m.trans, cell |-> c]}
      BY <2>3 DEF Serve
    <3> DEFINE e == [xid |-> m.xid, trans |-> m.trans, cell |-> c]
    <3>2. statuses' = statuses \cup {e} /\ e.xid = m.xid
      BY <3>1
    <3>3. commands' = commands \ {m} /\ UNCHANGED <<rpc, imsg>>
      BY <2>3 DEF Serve
    <3> HIDE DEF e
    <3> QED BY <2>1, <3>2, <3>3 DEF OnceInv
  <2>4. CASE RecvError \/ CheckTransaction \/ ReadCell \/ CheckOpcode \/ Signal
    <3>1. UNCHANGED <<commands, statuses>> /\ (rpc' = "recv" \/ (rpc # "recv" /\ imsg' = imsg))
      BY <2>4 DEF RecvError, CheckTransaction, ReadCell, CheckOpcode, Signal,
         Drop, Receive
    <3> QED BY <2>1, <3>1 DEF OnceInv
  <2> QED BY <1>3, <2>2, <2>3, <2>4 DEF Remote, ReadThread
<1> QED BY <1>1, <1>2, <1>3, NextSplit

\* The thread inside is in the latest transaction.
LEMMA LatestStep ==
  ASSUME TypeOK, MutexInv, OnceInv, LatestInv, [Next]_vars
  PROVE  LatestInv'
<1> USE DEF Goto, Numbered, Published
<1>1. CASE UNCHANGED vars
  BY <1>1 DEF vars, callerVars, callerRest, readerVars, netVars, LatestInv, Gone
<1>2. CASE Remote
  <2>1. UNCHANGED <<pc, mine, begun>>
    BY <1>2, RemoteFrame DEF callerVars, callerRest
  <2> QED BY <1>2, <2>1, GoneRemote DEF LatestInv
<1> DEFINE L(u) == /\ pc[u] \in Numbered => mine[u].xid = begun - 1
                   /\ pc[u] \in {"expop", "send"} => Gone(mine[u].xid)
<1>3. ASSUME NEW t \in Threads, Caller(t), NEW u \in Threads, u # t PROVE L(u)'
  <2>1. pc'[u] = pc[u] /\ mine'[u] = mine[u]
    BY <1>3, OthersFrame
  <2>2. CASE Transact(t)
    BY <1>3, <2>1, <2>2, OthersOutside
  <2>3. CASE ~Transact(t)
    <3>1. begun' = begun /\ ~Send(t)
      BY <1>3, <2>3, BegunStep DEF Transact
    <3>2. L(u)
      BY DEF LatestInv
    <3>3. Gone(mine[u].xid) => Gone(mine[u].xid)'
      BY <1>3, <3>1, GoneCaller, <2>1
    <3> QED BY <2>1, <3>1, <3>2, <3>3
  <2> QED BY <2>2, <2>3
<1>4. ASSUME NEW t \in Threads, Caller(t) PROVE L(t)'
  <2>0. L(t)
    BY DEF LatestInv
  <2>1. CASE SetExpTransaction(t)
    <3>1. pc' = [pc EXCEPT ![t] = "expop"] /\ begun' = begun + 1
          /\ mine' = [mine EXCEPT ![t] = [xid |-> begun, trans |-> transaction]]
      BY <2>1 DEF SetExpTransaction
    <3>2. mine'[t].xid = begun /\ begun \in Nat
      BY <3>1 DEF TypeOK, CallerTypeOK
    <3>3. Gone(begun)
      BY <3>2 DEF OnceInv, Gone
    <3>4. ~Send(t)
      BY <2>1 DEF Send, SetExpTransaction
    <3>5. \A x : x = begun => Gone(x)'
      BY <1>4, <3>3, <3>4, GoneCaller
    <3>6. Gone(mine[t].xid)'
      BY <3>2, <3>5
    <3> QED BY <3>1, <3>2, <3>6
  <2>2. CASE ~SetExpTransaction(t)
    <3>1. begun' = begun /\ (mine' = mine \/ Give(t))
      BY <1>4, <2>2, BegunStep
    <3>2. CASE Give(t)
      BY <3>2 DEF Give, TypeOK, CallerTypeOK
    <3>3. CASE Lock(t) \/ \E r \in Requests : Call(t, r)
      BY <3>3 DEF Lock, Call, TypeOK, CallerTypeOK
    <3>4. CASE Transact(t) /\ ~Give(t)
      <4>1. PICK m \in Moves : Goto(t, m[1], m[2])
        BY <3>4, TransactMoves
      <4>2. pc[t] = m[1] /\ pc'[t] = m[2]
        BY <4>1 DEF TypeOK, CallerTypeOK
      <4>3. pc'[t] = "exptrans" \/ pc[t] \in Numbered
        <5>1. m # <<"exptrans", "expop">>
          <6>1. pc[t] = "exptrans" => SetExpTransaction(t)
            BY <3>4 DEF Transact, ResetEvent, SetExpOpcode, Send, SendError,
               WaitReply, WaitTimeout, InvalidateTransaction,
               InvalidateOpcode, ReadField, Give
          <6> QED BY <2>2, <4>2, <6>1
        <5> QED BY <4>2, <5>1 DEF Moves
      <4>4. pc'[t] = "send" => pc[t] = "expop"
        <5>1. \A k \in Moves : k[2] = "send" => k[1] = "expop"
        BY DEF Moves
      <5> QED BY <4>2, <5>1
      <4>5. pc'[t] # "expop"
        BY <4>2, <4>3 DEF Moves
      <4>6. pc[t] = "expop" => ~Send(t)
        BY DEF Send
      <4>7. mine'[t] = mine[t]
        BY <3>1, <3>4
      <4>8. pc'[t] = "send" => Gone(mine[t].xid)'
        BY <1>4, <2>0, <4>4, <4>6, GoneCaller, <4>7
      <4> QED BY <2>0, <3>1, <4>3, <4>5, <4>7, <4>8
    <3> QED BY <1>4, <3>2, <3>3, <3>4 DEF Caller
  <2> QED BY <2>1, <2>2
<1>5. ASSUME \A u \in Threads : L(u)' PROVE LatestInv'
  BY <1>5 DEF LatestInv
<1> QED BY <1>1, <1>2, <1>3, <1>4, <1>5, NextSplit

-----------------------------------------------------------------------------
(* The reply a transaction reads is the server's answer to its command.    *)

\* What the reader thread holds was answered, and what it expects is the opcode
\* of the thread that has published it.
LEMMA AnswerStep ==
  ASSUME TypeOK, MutexInv, ReaderInv, AnswerInv, [Next]_vars
  PROVE  AnswerInv'
<1> USE DEF Expecting, Goto
<1>1. CASE UNCHANGED vars
  BY <1>1 DEF vars, callerVars, callerRest, sharedVars, readerVars, netVars, AnswerInv
<1> DEFINE A == /\ statuses \subseteq answered
                /\ rpc # "recv" => imsg \in answered
                /\ rpc \in {"opcode", "signal"} => icell.cell.op # NoOp
           B == /\ \A t \in Threads : pc[t] \in Expecting => expopcode = req[t].op
                /\ (\A t \in Threads : pc[t] \notin Expecting) => expopcode = NoOp
<1>2. (AnswerInv <=> A /\ B) /\ (AnswerInv' <=> A' /\ B')
  BY DEF AnswerInv
<1>3. ASSUME NEW t \in Threads, Caller(t) PROVE A'
  <2>1. UNCHANGED <<imsg, rpc, statuses, icell>>
    BY <1>3, CallerFrame
  <2>2. answered' = answered
    <3> USE DEF callerRest, callerVars, sharedVars, readerVars, netVars
    <3>1. CASE ReadField(t)
      BY <3>1 DEF ReadField
    <3> QED
      BY <1>3, <3>1 DEF Caller, Transact, Lock, Call, ResetEvent, SetExpTransaction,
         SetExpOpcode, Send, SendError, WaitReply, WaitTimeout,
         InvalidateTransaction, InvalidateOpcode, Give
  <2> QED BY <1>2, <2>1, <2>2
<1>4. ASSUME NEW t \in Threads, Caller(t) PROVE B'
  <2> USE DEF TypeOK, CallerTypeOK, sharedVars, callerRest, callerVars
  <2>1. \A u \in Threads : u # t => pc'[u] = pc[u] /\ req'[u] = req[u]
    BY <1>4, OthersFrame
  <2>2. Transact(t) => \A u \in Threads : u # t => pc[u] \in {"idle", "lock"}
    BY OthersOutside
  <2>3. CASE SetExpOpcode(t)
    BY <2>1, <2>2, <2>3 DEF SetExpOpcode, Transact
  <2>4. CASE InvalidateOpcode(t)
    <3>1. expopcode' = NoOp
      BY <2>4 DEF InvalidateOpcode
    <3>2. pc' = [pc EXCEPT ![t] = "read"] \/ pc' = [pc EXCEPT ![t] = "give"]
      BY <2>4, Zenon DEF InvalidateOpcode
    <3> QED BY <2>1, <2>2, <2>4, <3>1, <3>2 DEF Transact
  <2>5. CASE Send(t) \/ SendError(t) \/ WaitReply(t) \/ WaitTimeout(t)
             \/ InvalidateTransaction(t)
    <3>1. /\ UNCHANGED <<expopcode, req>> /\ pc[t] \in Expecting /\ pc'[t] \in Expecting
      BY <2>5 DEF Send, SendError, WaitReply, WaitTimeout, InvalidateTransaction
    <3> QED BY <1>2, <2>1, <3>1
  <2>6. CASE Lock(t) \/ (\E r \in Requests : Call(t, r)) \/ ResetEvent(t)
             \/ SetExpTransaction(t) \/ Give(t)
    <3>1. /\ expopcode' = expopcode /\ pc[t] \notin Expecting /\ pc'[t] \notin Expecting
      BY <2>6 DEF Lock, Call, ResetEvent, SetExpTransaction, Give
    <3> QED BY <1>2, <2>1, <3>1
  <2>7. CASE ReadField(t)
    <3>1. expopcode' = expopcode /\ pc[t] = "read"
      BY <2>7 DEF ReadField
    <3>2. pc' = [pc EXCEPT ![t] = "read"] \/ pc' = [pc EXCEPT ![t] = "give"]
      BY <2>7, Zenon DEF ReadField
    <3> QED BY <1>2, <2>1, <3>1, <3>2
  <2> QED BY <1>4, <2>3, <2>4, <2>5, <2>6, <2>7 DEF Caller, Transact
<1>5. CASE Remote
  <2>1. B'
    BY <1>2, <1>5, RemoteFrame DEF callerVars, callerRest
  <2> USE DEF sharedVars, readerVars, netVars
  <2>2. ASSUME NEW m \in statuses, Recv(m) PROVE A'
    BY <1>2, <2>2 DEF Recv
  <2>3. ASSUME NEW m \in commands, Serve(m) PROVE A'
    <3>1. PICK e : statuses' = statuses \cup {e} /\ answered' = answered \cup {e}
      BY <2>3 DEF Serve
    <3>2. UNCHANGED <<icell, imsg, rpc>>
      BY <2>3 DEF Serve
    <3> QED BY <1>2, <3>1, <3>2
  <2>4. CASE ReadCell
    <3>1. UNCHANGED <<statuses, answered>>
      BY <2>4 DEF ReadCell
    <3>2. CASE rpc' = "recv"
      BY <1>2, <2>1, <3>1, <3>2
    <3>3. CASE rpc' # "recv"
      <4>1. icell' = imsg /\ imsg' = imsg /\ rpc # "recv" /\ imsg.cell # NoCell
        BY <2>4, <3>3 DEF ReadCell, Drop, Receive
      <4>2. imsg.cell.op # NoOp
        BY <4>1 DEF ReaderInv, Status, Cells, Ops, NoOp
      <4> QED BY <1>2, <2>1, <3>1, <4>1, <4>2
    <3> QED BY <3>2, <3>3
  <2>5. CASE RecvError \/ CheckTransaction \/ CheckOpcode \/ Signal
    <3>1. UNCHANGED <<statuses, answered, icell>>
      BY <2>5 DEF RecvError, CheckTransaction, CheckOpcode, Signal
    <3>2. \/ rpc' = "recv"
          \/ imsg' = imsg /\ rpc # "recv"
             /\ (rpc' \in {"opcode", "signal"} => rpc \in {"opcode", "signal"})
      BY <2>5 DEF RecvError, CheckTransaction, CheckOpcode, Signal, Drop, Receive
    <3> QED BY <1>2, <2>1, <3>1, <3>2
  <2> QED BY <1>2, <1>5, <2>1, <2>2, <2>3, <2>4, <2>5 DEF Remote, ReadThread
<1> QED BY <1>1, <1>2, <1>3, <1>4, <1>5, NextSplit

\* What the reader thread is accepting belongs to the thread inside, if it was
\* not overtaken and the number has not wrapped.
LEMMA AcceptedXid ==
  ASSUME TypeOK, CallInv, ReaderInv, NumberInv, FreshInv,
         ~raced, begun <= TransMod, NEW t \in Threads, pc[t] \in Numbered, Accepting
  PROVE  imsg.xid = mine[t].xid
<1>1. imsg.trans = mine[t].trans
  BY DEF FreshInv
<1>2. mine[t] \in Xact
  BY DEF CallInv, TypeOK, CallerTypeOK
<1>3. mine[t].trans # Invalid
  BY <1>2, TransModAssumption DEF Xact, Transactions, Invalid
<1>4. Unwrapped(mine[t]) /\ Unwrapped(imsg)
  BY DEF NumberInv
<1> QED BY <1>1, <1>3, <1>4 DEF Unwrapped

\* The reader thread accepts nothing for a thread that has its reply, or has
\* not sent its command yet.
LEMMA NothingAccepted ==
  ASSUME TypeOK, CallInv, ReaderInv, NumberInv, FreshInv, LatestInv, ResultInv,
         ~raced, begun <= TransMod, NEW t \in Threads,
         HasReply(t) \/ pc[t] \in {"expop", "send"}
  PROVE  ~Accepting /\ pc[t] \in Numbered
<1>1. pc[t] \in Numbered
  BY DEF HasReply, Numbered, Published
<1>2. Gone(mine[t].xid)
  BY DEF ResultInv, ReadsAnswer, LatestInv
<1>3. Accepting => rpc # "recv"
  BY DEF Accepting
<1> QED BY <1>1, <1>2, <1>3, AcceptedXid DEF Gone

\* ResultInv for one thread.
Mine(u) ==
  /\ HasReply(u) => ReadsAnswer(u)
  /\ pc[u] \in {"expop", "send"} => replyevent = 0
  /\ rpc = "signal" /\ pc[u] \in Expecting => icell.cell.op = req[u].op

\* What reader thread and servers do leaves a reply that was signalled alone,
\* and signals only the answer to the command of the thread that waits.
LEMMA ResultRemoteStep ==
  ASSUME TypeOK, CallInv, ReaderInv, NumberInv, FreshInv, OnceInv, LatestInv,
         AnswerInv, ResultInv, Remote, ~raced, begun <= TransMod
  PROVE  /\ rpc' \in {"opcode", "signal"} => readindex' = 0
         /\ \A u \in Threads : Mine(u)'
<1> USE DEF sharedVars, readerVars, netVars
<1>1. UNCHANGED <<pc, mine, req, got, result, expopcode>>
  BY RemoteFrame DEF callerVars, callerRest
<1>2. rpc' \in {"opcode", "signal"} => readindex' = 0
  <2>1. rpc \in {"opcode", "signal"} => readindex = 0
    BY DEF ResultInv
  <2>2. ASSUME NEW m \in statuses, Recv(m) PROVE rpc' \notin {"opcode", "signal"}
    BY <2>2 DEF Recv
  <2>3. ASSUME NEW m \in commands, Serve(m) PROVE UNCHANGED <<rpc, readindex>>
    BY <2>3 DEF Serve
  <2>4. CASE RecvError \/ CheckTransaction \/ ReadCell \/ CheckOpcode \/ Signal
    BY <2>1, <2>4 DEF RecvError, CheckTransaction, ReadCell, CheckOpcode, Signal,
       Drop, Receive
  <2> QED BY <2>1, <2>2, <2>3, <2>4 DEF Remote, ReadThread
<1>3. ASSUME NEW u \in Threads PROVE Mine(u)'
  <2>0. Mine(u)
    BY DEF ResultInv, Mine
  <2>1. answered \subseteq answered'
    <3>1. ASSUME NEW m \in statuses, Recv(m) PROVE answered \subseteq answered'
      BY <3>1 DEF Recv
    <3>2. ASSUME NEW m \in commands, Serve(m) PROVE answered \subseteq answered'
      BY <3>2 DEF Serve
    <3>3. CASE RecvError \/ CheckTransaction \/ ReadCell \/ CheckOpcode \/ Signal
      BY <3>3 DEF RecvError, CheckTransaction, ReadCell, CheckOpcode, Signal
    <3> QED BY <3>1, <3>2, <3>3 DEF Remote, ReadThread
  <2>2. ~ReadCell => icell' = icell /\ readindex' = readindex
    <3>1. ASSUME NEW m \in statuses, Recv(m) PROVE UNCHANGED <<icell, readindex>>
      BY <3>1 DEF Recv
    <3>2. ASSUME NEW m \in commands, Serve(m) PROVE UNCHANGED <<icell, readindex>>
      BY <3>2 DEF Serve
    <3>3. CASE RecvError \/ CheckTransaction \/ CheckOpcode \/ Signal
      BY <3>3 DEF RecvError, CheckTransaction, CheckOpcode, Signal
    <3> QED BY <3>1, <3>2, <3>3 DEF Remote, ReadThread
  <2>3. ~Signal => replyevent' = replyevent
    <3>1. ASSUME NEW m \in statuses, Recv(m) PROVE UNCHANGED replyevent
      BY <3>1 DEF Recv
    <3>2. ASSUME NEW m \in commands, Serve(m) PROVE UNCHANGED replyevent
      BY <3>2 DEF Serve
    <3>3. CASE RecvError \/ CheckTransaction \/ ReadCell \/ CheckOpcode
      BY <3>3 DEF RecvError, CheckTransaction, ReadCell, CheckOpcode
    <3> QED BY <3>1, <3>2, <3>3 DEF Remote, ReadThread
  <2>4. ReadCell \/ Signal \/ CheckOpcode => Accepting
    BY DEF ReadCell, Signal, CheckOpcode, Accepting
  <2>5. CASE HasReply(u)
    <3>1. ~Accepting
      BY <2>5, NothingAccepted
    <3>2. UNCHANGED <<icell, readindex, replyevent>>
      BY <2>2, <2>3, <2>4, <3>1
    <3>3. ReadsAnswer(u)
      BY <2>0, <2>5 DEF Mine
    <3>4. Gone(mine[u].xid)'
      BY <1>1, <3>3, GoneRemote DEF ReadsAnswer
    <3>5. ReadsAnswer(u)'
      BY <1>1, <2>1, <3>2, <3>3, <3>4 DEF ReadsAnswer
    <3>6. pc[u] \notin {"expop", "send"}
      BY <2>5 DEF HasReply
    <3>7. icell'.cell.op = req'[u].op
      BY <3>5 DEF ReadsAnswer
    <3> QED BY <1>1, <3>5, <3>6, <3>7 DEF Mine
  <2>6. CASE ~HasReply(u) /\ Signal
    <3>1. rpc = "signal" /\ rpc' = "recv" /\ UNCHANGED <<commands, statuses, answered>>
      BY <2>6 DEF Signal, Receive
    <3>2. pc[u] \notin {"expop", "send"}
      BY <2>4, <2>6, NothingAccepted
    <3>3. ASSUME HasReply(u)' PROVE ReadsAnswer(u)'
      <4>1. pc[u] = "wait"
        BY <1>1, <2>6, <3>3 DEF HasReply
      <4>2. icell = imsg /\ icell' = icell /\ readindex' = readindex
        BY <2>2, <2>4, <2>6, <3>1 DEF ReaderInv, ReadCell
      <4>3. imsg.xid = mine[u].xid
        BY <2>4, <2>6, <4>1, AcceptedXid DEF Numbered, Published
      <4>4. icell.cell.op = req[u].op
        BY <2>0, <3>1, <4>1 DEF Mine, Expecting
      <4>5. got[u] = <<>> /\ readindex = 0
        BY <3>1, <4>1 DEF CallInv, ResultInv
      <4>6. imsg \in answered
        BY <3>1 DEF AnswerInv
      <4>7. Gone(mine[u].xid)'
        BY <1>1, <3>1, <4>3 DEF OnceInv, Gone
      <4> QED BY <1>1, <3>1, <4>2, <4>3, <4>4, <4>5, <4>6, <4>7 DEF ReadsAnswer
    <3> QED BY <1>1, <3>1, <3>2, <3>3 DEF Mine
  <2>7. CASE ~HasReply(u) /\ ~Signal
    <3>1. ~HasReply(u)'
      BY <1>1, <2>3, <2>7 DEF HasReply
    <3>2. pc'[u] \in {"expop", "send"} => replyevent' = 0
      BY <1>1, <2>0, <2>3, <2>7 DEF Mine
    <3>3. ASSUME rpc' = "signal", pc'[u] \in Expecting
          PROVE  icell'.cell.op = req'[u].op
      <4>1. CASE CheckOpcode
        <5>1. icell.cell.op = expopcode /\ icell' = icell
          BY <3>3, <4>1 DEF CheckOpcode, Drop, Receive
        <5> QED BY <1>1, <3>3, <5>1 DEF AnswerInv
      <4>2. CASE ~CheckOpcode
        <5>1. rpc = "signal" /\ ~ReadCell
          <6>1. ASSUME NEW m \in statuses, Recv(m) PROVE FALSE
            BY <3>3, <6>1 DEF Recv
          <6>2. ASSUME NEW m \in commands, Serve(m) PROVE rpc' = rpc
            BY <6>2 DEF Serve
          <6> QED
            BY <2>7, <3>3, <4>2, <6>1, <6>2 DEF Remote, ReadThread, RecvError,
               CheckTransaction, ReadCell, Drop, Receive, Serve
        <5> QED BY <1>1, <2>0, <2>2, <3>3, <5>1 DEF Mine
      <4> QED BY <4>1, <4>2
    <3> QED BY <3>1, <3>2, <3>3 DEF Mine
  <2> QED BY <2>5, <2>6, <2>7
<1> QED BY <1>2, <1>3

\* A thread that has its reply reads the fields of the answer in their order.
LEMMA ResultReadStep ==
  ASSUME TypeOK, CallInv, NEW t \in Threads, ReadField(t), ReadsAnswer(t), UNCHANGED answered
  PROVE  ReadsAnswer(t)'
<1> DEFINE op == req[t].op
           n == Len(got[t]) + 1
           f == Layout[op][n]
           e == [xid |-> icell.xid, trans |-> icell.trans, val |-> icell.cell[f]]
<1> USE DEF ReadsAnswer, TypeOK, CallerTypeOK
<1>1. pc[t] = "read" /\ UNCHANGED <<req, mine, icell, rpc, imsg, commands, statuses>>
  BY DEF ReadField, readerVars, netVars
<1>2. /\ Len(got[t]) \in Nat /\ Len(got[t]) < Len(Layout[op])
      /\ Len(Layout[op]) \in Nat
  <2>1. op \in Ops
    BY <1>1, RequestAssumption DEF CallInv, Request
  <2> QED BY <1>1, <2>1, LayoutType DEF CallInv
<1>3. Readable(f) = {icell.cell[f]}
  BY <1>2 DEF Readable
<1>4. got' = [got EXCEPT ![t] = Append(@, e)]
  BY <1>3, Zenon DEF ReadField
<1>5. readindex' = readindex + 1
  BY <1>2 DEF ReadField
<1>6. got'[t] = Append(got[t], e)
  BY <1>4
<1>7. Len(got'[t]) = n
  BY <1>6
<1>8. \A i \in DOMAIN got'[t] : got'[t][i].val = icell.cell[Layout[op][i]]
  <2> TAKE i \in DOMAIN got'[t]
  <2>1. got[t] \in Seq([xid : Int, trans : Int, val : Datum])
    OBVIOUS
  <2>2. DOMAIN got'[t] = 1..n /\ DOMAIN got[t] = 1..(n - 1)
    BY <1>6, <2>1
  <2>3. CASE i = n
    <3>1. got'[t][i] = e
      BY <1>6, <2>1, <2>3
    <3> QED BY <2>3, <3>1
  <2>4. CASE i # n
    <3>1. i \in DOMAIN got[t]
      BY <1>2, <2>2, <2>4
    <3>2. got'[t][i] = got[t][i]
      BY <1>6, <2>1, <3>1
    <3> QED BY <3>1, <3>2
  <2> QED BY <2>3, <2>4
<1>9. Gone(mine[t].xid)'
  BY <1>1 DEF Gone
<1> HIDE DEF e, n, f
<1> QED BY <1>1, <1>5, <1>7, <1>8, <1>9 DEF n

LEMMA ResultCallerStep ==
  ASSUME Spurious = FALSE,
         TypeOK, MutexInv, CallInv, GoodInv, ReaderInv, NumberInv, FreshInv, LatestInv,
         ResultInv, NEW t \in Threads, Caller(t), ~raced, begun <= TransMod
  PROVE  /\ rpc' \in {"opcode", "signal"} => readindex' = 0
         /\ \A u \in Threads : Mine(u)'
<1> USE DEF callerRest, callerVars, sharedVars, readerVars, netVars, Goto
<1>1. UNCHANGED <<icell, imsg, rpc, statuses>>
  BY CallerFrame
<1>2. answered' = answered
  <2>1. CASE ReadField(t)
    BY <2>1 DEF ReadField
  <2> QED
    BY <2>1 DEF Caller, Transact, Lock, Call, ResetEvent, SetExpTransaction,
       SetExpOpcode, Send, SendError, WaitReply, WaitTimeout,
       InvalidateTransaction, InvalidateOpcode, Give
<1>3. ~ReadField(t) => readindex' = readindex
  BY DEF Caller, Transact, Lock, Call, ResetEvent, SetExpTransaction,
     SetExpOpcode, Send, SendError, WaitReply, WaitTimeout,
     InvalidateTransaction, InvalidateOpcode, Give
<1>4. rpc' \in {"opcode", "signal"} => readindex' = 0
  <2>1. rpc \in {"opcode", "signal"} => readindex = 0
    BY DEF ResultInv
  <2>2. CASE ReadField(t)
    <3>1. HasReply(t)
      BY <2>2 DEF ReadField, HasReply
    <3> QED BY <1>1, <3>1, NothingAccepted DEF Accepting
  <2> QED BY <1>1, <1>3, <2>1, <2>2
<1>5. \A u \in Threads : Mine(u)
  BY DEF ResultInv, Mine
<1>6. ASSUME NEW u \in Threads, u # t PROVE Mine(u)'
  <2>1. /\ pc'[u] = pc[u] /\ mine'[u] = mine[u] /\ result'[u] = result[u]
        /\ got'[u] = got[u] /\ req'[u] = req[u]
    BY <1>6, OthersFrame
  <2>2. CASE Transact(t)
    <3>1. pc[u] \in {"idle", "lock"}
      BY <1>6, <2>2, OthersOutside
    <3> QED BY <2>1, <3>1 DEF Mine, HasReply, Expecting
  <2>3. CASE Lock(t) \/ \E r \in Requests : Call(t, r)
    <3>1. UNCHANGED <<replyevent, readindex, commands>>
      BY <2>3 DEF Lock, Call
    <3> QED BY <1>1, <1>2, <1>5, <2>1, <3>1 DEF Mine, HasReply, ReadsAnswer, Gone
  <2> QED BY <2>2, <2>3 DEF Caller
<1>7. Mine(t)'
  <2> USE DEF TypeOK, CallerTypeOK
  <2>0. Mine(t)
    BY <1>5
  <2>1. CASE Lock(t) \/ (\E r \in Requests : Call(t, r)) \/ ResetEvent(t) \/ Give(t)
    <3>1. pc'[t] \in {"idle", "lock", "reset", "exptrans"}
      BY <2>1 DEF Lock, Call, ResetEvent, Give
    <3> QED BY <3>1 DEF Mine, HasReply, Expecting
  <2>2. CASE SetExpTransaction(t)
    <3>1. pc'[t] = "expop" /\ replyevent' = 0
      BY <2>2 DEF SetExpTransaction, FreshInv
    <3> QED BY <3>1 DEF Mine, HasReply, Expecting
  <2>3. CASE SetExpOpcode(t)
    <3>1. pc[t] = "expop" /\ pc'[t] = "send" /\ replyevent' = replyevent
      BY <2>3 DEF SetExpOpcode
    <3>2. rpc # "signal"
      BY <3>1, NothingAccepted DEF Accepting
    <3> QED BY <1>1, <2>0, <3>1, <3>2 DEF Mine, HasReply
  <2>4. CASE Send(t)
    <3>1. pc[t] = "send" /\ pc'[t] = "wait" /\ replyevent' = replyevent
      BY <2>4 DEF Send
    <3>2. rpc # "signal"
      BY <3>1, NothingAccepted DEF Accepting
    <3> QED BY <1>1, <2>0, <3>1, <3>2 DEF Mine, HasReply
  <2>5. CASE SendError(t) \/ WaitTimeout(t)
    <3>1. pc'[t] = "invtrans" /\ pc[t] \in Expecting /\ result'[t] # "none" /\ req' = req
      BY <2>5 DEF SendError, WaitTimeout, Outcome, Expecting
    <3> QED BY <1>1, <2>0, <3>1 DEF Mine, HasReply
  <2>6. CASE WaitReply(t)
    <3>1. pc[t] = "wait" /\ pc'[t] = "invtrans" /\ replyevent = 1
          /\ UNCHANGED <<mine, req, got, result, commands, readindex>>
      BY <2>6 DEF WaitReply
    <3>2. ReadsAnswer(t)
      BY <2>0, <3>1 DEF Mine, HasReply
    <3> QED BY <1>1, <1>2, <2>0, <3>1, <3>2 DEF Mine, HasReply, ReadsAnswer, Gone, Expecting
  <2>7. CASE InvalidateTransaction(t)
    <3>1. pc[t] = "invtrans" /\ pc'[t] = "invop"
          /\ UNCHANGED <<mine, req, got, result, commands, readindex>>
      BY <2>7 DEF InvalidateTransaction
    <3> QED BY <1>1, <1>2, <2>0, <3>1 DEF Mine, HasReply, ReadsAnswer, Gone, Expecting
  <2>8. CASE InvalidateOpcode(t)
    <3>1. \/ pc' = [pc EXCEPT ![t] = "read"] /\ result[t] = "none"
          \/ pc' = [pc EXCEPT ![t] = "give"] /\ result[t] # "none"
      BY <2>8, Zenon DEF InvalidateOpcode
    <3>2. pc[t] = "invop" /\ UNCHANGED <<mine, req, got, result, commands, readindex>>
      BY <2>8 DEF InvalidateOpcode
    <3>3. result[t] # "good"
      BY <3>2 DEF GoodInv
    <3>4. HasReply(t)' => HasReply(t)
      BY <3>1, <3>2, <3>3 DEF HasReply
    <3>5. pc'[t] \notin Expecting \cup {"expop", "send"}
      BY <3>1 DEF Expecting
    <3>6. ReadsAnswer(t) => ReadsAnswer(t)'
      BY <1>1, <1>2, <3>2 DEF ReadsAnswer, Gone
    <3> QED BY <2>0, <3>4, <3>5, <3>6 DEF Mine
  <2>9. CASE ReadField(t)
    <3>1. pc[t] = "read"
      BY <2>9 DEF ReadField
    <3>2. pc' = [pc EXCEPT ![t] = "read"] \/ pc' = [pc EXCEPT ![t] = "give"]
      BY <2>9, Zenon DEF ReadField
    <3>3. ReadsAnswer(t)
      BY <2>0, <3>1 DEF Mine, HasReply
    <3>4. ReadsAnswer(t)'
      BY <1>2, <2>9, <3>3, ResultReadStep
    <3>5. pc'[t] \notin Expecting \cup {"expop", "send"}
      BY <3>2 DEF Expecting
    <3> QED BY <3>4, <3>5 DEF Mine
  <2> QED
    BY <2>1, <2>2, <2>3, <2>4, <2>5, <2>6, <2>7, <2>8, <2>9 DEF Caller, Transact
<1> QED BY <1>4, <1>6, <1>7

\* Reader thread and callers together.
LEMMA ResultStep ==
  ASSUME Dup = FALSE, Spurious = FALSE, IInv, [Next]_vars
  PROVE  ResultInv'
<1>1. CASE UNCHANGED vars
  BY <1>1 DEF IInv, vars, callerVars, callerRest, sharedVars, readerVars, netVars,
     ResultInv, HasReply, ReadsAnswer, Gone
<1>2. ASSUME Next, ~raced', begun' <= TransMod PROVE ~raced /\ begun <= TransMod
  <2>1. raced => raced'
    <3>1. ASSUME NEW t \in Threads, Caller(t) PROVE raced => raced'
      <4>1. CASE ReadField(t)
        BY <4>1 DEF ReadField
      <4> QED
        BY <3>1, <4>1 DEF Caller, Transact, Lock, Call, ResetEvent,
           SetExpTransaction, SetExpOpcode, Send, SendError, WaitReply,
           WaitTimeout, InvalidateTransaction, InvalidateOpcode, Give
    <3> QED BY <1>2, <3>1, RemoteFrame, NextSplit
  <2>2. begun \in Nat /\ begun' \in {begun, begun + 1}
    <3>1. Remote => begun' = begun
      BY RemoteFrame DEF callerVars, callerRest
    <3> QED BY <1>2, <3>1, BegunStep, NextSplit DEF IInv, TypeOK, CallerTypeOK
  <2> QED BY <1>2, <2>1, <2>2, TransModAssumption
<1>3. ASSUME /\ rpc' \in {"opcode", "signal"} => readindex' = 0
             /\ \A u \in Threads : Mine(u)'
      PROVE  ResultInv'
  BY <1>3 DEF ResultInv, Mine
<1>4. ASSUME NEW t \in Threads, Caller(t), ~raced, begun <= TransMod PROVE ResultInv'
  BY <1>3, <1>4, ResultCallerStep DEF IInv
<1>5. ASSUME Remote, ~raced, begun <= TransMod PROVE ResultInv'
  BY <1>3, <1>5, ResultRemoteStep DEF IInv
<1>6. ASSUME ~(~raced' /\ begun' <= TransMod) PROVE ResultInv'
  BY <1>6 DEF ResultInv
<1> QED BY <1>1, <1>2, <1>4, <1>5, <1>6, NextSplit

-----------------------------------------------------------------------------
(* The theorems.                                                           *)

LEMMA InitIInv == Init => IInv
<1> SUFFICES ASSUME Init PROVE IInv
  OBVIOUS
<1> USE ThreadAssumption, TransModAssumption DEF Init
<1>1. TypeOK
  <2>1. CallerTypeOK
    BY DEF CallerTypeOK, Labels, Outcomes, Transactions
  <2>2. ReaderTypeOK
    BY DEF ReaderTypeOK
  <2>3. NetworkTypeOK
    BY DEF NetworkTypeOK
  <2> QED BY <2>1, <2>2, <2>3 DEF TypeOK, Counters
<1>2. MutexInv /\ ExpectationInv /\ ReaderInv
  BY DEF MutexInv, Inside, ExpectationInv, Published, ReaderInv
<1>3. CallInv
  BY DEF CallInv, Numbered, Published
<1>4. NumberInv
  BY DEF NumberInv, Unwrapped, NoMessage, NoXact
<1>5. FreshInv
  BY DEF FreshInv, Numbered, Published
<1>6. GoodInv /\ AnswerInv
  BY DEF GoodInv, AnswerInv, Expecting
<1>7. QuietInv /\ OnceInv
  BY DEF QuietInv, Idle, OnceInv
<1>8. LatestInv /\ ResultInv
  BY DEF LatestInv, ResultInv, HasReply, Expecting, Numbered, Published
<1> QED
  BY <1>1, <1>2, <1>3, <1>4, <1>5, <1>6, <1>7, <1>8 DEF IInv

LEMMA StepIInv ==
  ASSUME Spurious = FALSE PROVE IInv /\ [Next]_vars => IInv'
<1> SUFFICES ASSUME IInv, [Next]_vars PROVE IInv'
  OBVIOUS
<1>1. TypeOK' /\ CallInv'
  BY TypeStep, CallStep DEF IInv
<1>2. MutexInv' /\ ExpectationInv'
  BY MutexStep, ExpectationStep DEF IInv
<1>3. ReaderInv' /\ NumberInv' /\ FreshInv'
  BY ReaderStep, NumberStep, FreshStep DEF IInv
<1>4. GoodInv' /\ AnswerInv'
  BY GoodStep, AnswerStep DEF IInv
<1>5. ~Dup => QuietInv' /\ OnceInv' /\ LatestInv' /\ ResultInv'
  BY QuietStep, OnceStep, LatestStep, ResultStep, FlagAssumption DEF IInv
<1> QED BY <1>1, <1>2, <1>3, <1>4, <1>5 DEF IInv

\* The conjunction is an invariant of a client whose waits wake up on signals
\* only.
THEOREM Invariance == ASSUME Spurious = FALSE PROVE Spec => []IInv
BY InitIInv, StepIInv, PTL DEF Spec

\* The state of client, reader thread and network keeps its type.
THEOREM TypeCorrect == Spec => []TypeOK
<1>1. TypeOK /\ CallInv /\ [Next]_vars => (TypeOK /\ CallInv)'
  BY TypeStep, CallStep
<1>2. Init => TypeOK /\ CallInv
  BY InitIInv DEF IInv
<1> QED BY <1>1, <1>2, PTL DEF Spec

\* A transaction found good was answered by replies with its own number, and
\* by its own reply while the 8-bit number has not wrapped, unless the reader
\* thread was overtaken (GetXact and its siblings against ReadThread).
THEOREM GoodTransactionReadsItsOwnReply ==
  ASSUME Spurious = FALSE PROVE Spec => []OwnReply
<1>1. IInv => OwnReply
  <2> SUFFICES ASSUME IInv, NEW t \in Threads, pc[t] = "give", ~raced,
                      NEW i \in DOMAIN got[t]
               PROVE  /\ got[t][i].trans = mine[t].trans
                      /\ begun <= TransMod => got[t][i].xid = mine[t].xid
    BY DEF OwnReply
  <2>1. got[t][i].trans = mine[t].trans
    BY DEF IInv, FreshInv, Numbered
  <2>2. mine[t] \in Xact
    BY DEF IInv, CallInv, TypeOK, CallerTypeOK, Numbered
  <2>3. mine[t].trans # Invalid
    BY <2>2, TransModAssumption DEF Xact, Transactions, Invalid
  <2>4. Unwrapped(mine[t]) /\ Unwrapped(got[t][i])
    BY DEF IInv, NumberInv
  <2> QED BY <2>1, <2>3, <2>4 DEF Unwrapped
<1> QED BY <1>1, Invariance, PTL

\* The reader thread accepts a message only while the transaction whose number
\* it carries is in progress and has not been withdrawn.
THEOREM ReaderAcceptsOnlyExpected ==
  ASSUME Spurious = FALSE PROVE Spec => AcceptsOnlyExpected
<1>1. IInv /\ [Next]_vars =>
        [(rpc = "trans" /\ rpc' = "cell") =>
           \E t \in Threads : /\ Inside(t)
                              /\ pc[t] \in {"expop", "send", "wait", "invtrans"}
                              /\ imsg.trans = mine[t].trans]_vars
  <2> SUFFICES ASSUME IInv, Next, rpc = "trans", rpc' = "cell"
               PROVE  \E t \in Threads :
                        /\ Inside(t) /\ pc[t] \in Published
                        /\ imsg.trans = mine[t].trans
    BY DEF Published
  <2>1. ~ \E t \in Threads : Caller(t)
    BY CallerFrame
  <2>2. Remote
    BY <2>1, NextSplit
  <2>3. CheckTransaction
    BY <2>2 DEF Remote, ReadThread, Recv, RecvError, ReadCell, CheckOpcode,
       Signal, Serve, Receive, readerVars
  <2>4. imsg.trans = exptransaction
    BY <2>3 DEF CheckTransaction, Drop, Receive
  <2>5. imsg.trans # Invalid
    BY TransModAssumption DEF IInv, ReaderInv, Status, Transactions, Invalid
  <2>6. PICK t \in Threads : pc[t] \in Published
    BY <2>4, <2>5 DEF IInv, ExpectationInv
  <2> QED BY <2>4, <2>6 DEF IInv, ExpectationInv, Inside, Published
<1> QED BY <1>1, Invariance, PTL DEF Spec, AcceptsOnlyExpected

\* Every transaction begun is counted once, under its outcome, and at most one
\* is not counted yet (the returns of the Xact functions and their counters).
THEOREM EveryTransactionCountedOnce == Spec => []Accounted
<1> DEFINE Inv == TypeOK /\ MutexInv /\ CallInv /\ GoodInv /\ Accounted
<1>1. Init => Inv
  <2> SUFFICES ASSUME Init PROVE Inv
    OBVIOUS
  <2>1. {t \in Threads : /\ pc[t] \in {"expop", "send", "wait", "invtrans",
                                       "invop", "read"}
                         /\ result[t] = "none"} = {}
    BY DEF Init
  <2>2. /\ begun = 0 /\ count["good"] = 0 /\ count["send"] = 0
        /\ count["timeout"] = 0 /\ count["pid"] = 0 /\ count["sub"] = 0
        /\ count["type"] = 0
    BY DEF Init
  <2>3. Accounted
    BY <2>1, <2>2, FS_EmptySet DEF Accounted
  <2> QED BY <2>3, InitIInv DEF IInv
<1>2. Inv /\ [Next]_vars => Inv'
  BY TypeStep, MutexStep, CallStep, GoodStep, AccountedStep
<1> QED BY <1>1, <1>2, PTL DEF Spec

\* In a network without duplicates a new transaction overtakes the reader
\* thread only after one has timed out: a client whose replies come in time
\* never mixes two transactions up (Reset of the event against ReadThread).
THEOREM OvertakingTakesATimeout ==
  ASSUME Dup = FALSE, Spurious = FALSE PROVE Spec => []OvertakenOnlyAfterTimeout
<1>1. IInv => OvertakenOnlyAfterTimeout
  <2> SUFFICES ASSUME IInv, raced PROVE count["timeout"] > 0
    BY DEF OvertakenOnlyAfterTimeout
  <2>1. count["timeout"] # 0
    BY DEF IInv, QuietInv
  <2>2. count["timeout"] \in Nat
    BY DEF IInv, TypeOK, Counters
  <2> QED BY <2>1, <2>2
<1> QED BY <1>1, Invariance, PTL

\* In a network without duplicates a good transaction returns the fields of
\* the one answer the server gave to its command, unless the reader thread was
\* overtaken or the number has wrapped (the Xact functions against ReadThread).
THEOREM GoodTransactionReturnsTheAnswer ==
  ASSUME Dup = FALSE, Spurious = FALSE PROVE Spec => []TrueResult
<1>1. IInv => TrueResult
  <2> SUFFICES ASSUME IInv, NEW t \in Threads, pc[t] = "give", result[t] = "good",
                      ~raced, begun <= TransMod
               PROVE  \E a \in answered :
                        /\ a.xid = mine[t].xid
                        /\ a.cell.op = req[t].op
                        /\ \A i \in DOMAIN got[t] :
                             got[t][i].val = a.cell[Layout[req[t].op][i]]
    BY DEF TrueResult
  <2>1. ReadsAnswer(t)
    BY DEF IInv, ResultInv, HasReply
  <2> QED BY <2>1 DEF ReadsAnswer
<1> QED BY <1>1, Invariance, PTL
=============================================================================
