------------------------------ MODULE TCPDevice ------------------------------
(***************************************************************************)
(* The TCP devices (lib/posix/tcpclient.cc and tcpserver.cc) under the     *)
(* framer, as a client and a server of Host Control use them: the client's *)
(* reader thread reads while its callers write, and the server's control   *)
(* thread reads a message and writes its reply.                            *)
(*                                                                         *)
(* Both devices keep one connection, which a thread that cannot read from  *)
(* or write to closes and replaces, holding the device's mutex until there *)
(* is another; the reads and writes themselves hold none.  A closed socket *)
(* and the next have the same number, so that a thread reads from and      *)
(* writes to whatever connection the device has when it makes the call.    *)
(* A read that waits keeps the connection it began with, closed or not.    *)
(***************************************************************************)
EXTENDS SLIPFramer

CONSTANTS
  Frames,      \* the messages a client may send
  MaxFrames,   \* bound: messages sent
  MaxBreaks,   \* bound: connections that break
  MaxConns     \* bound: connections made

\* SLIPFramer::Write asserts that there is something to send.
ASSUME FramesAssumption == \A f \in Frames : f \in Seq(Bytes) /\ f # <<>>

VARIABLES
  conns,     \* the connections made, each [ok, up, down]: unbroken, the bytes on their way to the server and back
  accepted,  \* how many of them the server has accepted
  cur,       \* [device -> its connection], 0 for none
  mutex,     \* [device -> the thread that has it], or "none"
  pc,        \* [thread -> where it is in Read or Write]
  on,        \* [thread -> the connection it reads from]
  rx,        \* [thread -> what it has of a frame]
  out,       \* [thread -> the bytes it writes], none when it reads
  sent,      \* ghost: [device -> the frames given to it]
  got,       \* ghost: [device -> the frames read from it]
  breaks     \* for the bound

vars == <<conns, accepted, cur, mutex, pc, on, rx, out, sent, got, breaks>>

Devices == {"client", "server"}
Threads == {"reader", "caller", "control"}
Dev(t) == IF t = "control" THEN "server" ELSE "client"
Peer(d) == IF d = "client" THEN "server" ELSE "client"
Inbox(d) == IF d = "client" THEN "down" ELSE "up"

\* A device has closed connection c and no read of its keeps it.
Gone(c, d) ==
    /\ cur[d] # c
    /\ d = "server" => c <= accepted
    /\ \A t \in Threads : Dev(t) = d => ~(pc[t] = "in" /\ on[t] = c)

Works(c, d) == conns[c].ok /\ ~Gone(c, Peer(d))

Init ==
    /\ conns = <<>> /\ accepted = 0
    /\ cur = [d \in Devices |-> 0] /\ mutex = [d \in Devices |-> "none"]
    /\ pc = [t \in Threads |-> IF t = "caller" THEN "idle" ELSE "begin"]
    /\ on = [t \in Threads |-> 0] /\ rx = [t \in Threads |-> Empty] /\ out = [t \in Threads |-> <<>>]
    /\ sent = [d \in Devices |-> <<>>] /\ got = [d \in Devices |-> <<>>]
    /\ breaks = 0

Goto(t, p) == pc' = [pc EXCEPT ![t] = p]
Take(t) == mutex' = [mutex EXCEPT ![Dev(t)] = t]
Give(t) == mutex' = [mutex EXCEPT ![Dev(t)] = "none"]
frameVars == <<rx, out, sent, got, breaks>>

\* A caller sends a message.
Begin(f) ==
    /\ pc["caller"] = "idle" /\ Len(sent["client"]) < MaxFrames
    /\ sent' = [sent EXCEPT !["client"] = Append(@, f)]
    /\ out' = [out EXCEPT !["caller"] = Encode(f)]
    /\ Goto("caller", "begin")
    /\ UNCHANGED <<conns, accepted, cur, mutex, on, rx, got, breaks>>

\* The connection there is, or the mutex until there is one.
GetConnection(t) ==
    /\ pc[t] = "begin" /\ mutex[Dev(t)] = "none"
    /\ IF cur[Dev(t)] # 0 THEN Goto(t, "call") /\ UNCHANGED mutex ELSE Goto(t, "connect") /\ Take(t)
    /\ UNCHANGED <<conns, accepted, cur, on, frameVars>>

\* A mutant: the number of the closed socket stays and is taken for a connection.
CloseConnectionOnly(t) ==
    /\ pc[t] = "failed" /\ mutex[Dev(t)] = "none"
    /\ cur' = [cur EXCEPT ![Dev(t)] = 0]
    /\ Goto(t, "call")
    /\ UNCHANGED <<conns, accepted, mutex, on, frameVars>>

\* After a failure the device's connection is closed, whichever it is by then.
CloseConnection(t) ==
    /\ pc[t] = "failed" /\ mutex[Dev(t)] = "none"
    /\ cur' = [cur EXCEPT ![Dev(t)] = 0]
    /\ Goto(t, "connect") /\ Take(t)
    /\ UNCHANGED <<conns, accepted, on, frameVars>>

\* The attempts that fail change nothing.  A connection is made before the server accepts it.
Connect(t) ==
    /\ pc[t] = "connect" /\ Dev(t) = "client" /\ Len(conns) < MaxConns
    /\ conns' = Append(conns, [ok |-> TRUE, up |-> <<>>, down |-> <<>>])
    /\ cur' = [cur EXCEPT !["client"] = Len(conns) + 1]
    /\ Goto(t, "call") /\ Give(t)
    /\ UNCHANGED <<accepted, on, frameVars>>

Accept(t) ==
    /\ pc[t] = "connect" /\ Dev(t) = "server" /\ accepted < Len(conns)
    /\ accepted' = accepted + 1
    /\ cur' = [cur EXCEPT !["server"] = accepted + 1]
    /\ Goto(t, "call") /\ Give(t)
    /\ UNCHANGED <<conns, on, frameVars>>

\* A read or a write of a socket that another thread has closed fails.
NoSocket(t) ==
    /\ pc[t] = "call" /\ cur[Dev(t)] = 0
    /\ Goto(t, "failed")
    /\ UNCHANGED <<conns, accepted, cur, mutex, on, frameVars>>

Read(t) ==
    /\ pc[t] = "call" /\ out[t] = <<>> /\ cur[Dev(t)] # 0
    /\ on' = [on EXCEPT ![t] = cur[Dev(t)]]
    /\ Goto(t, "in")
    /\ UNCHANGED <<conns, accepted, cur, mutex, frameVars>>

\* The framer takes a byte.  The control thread answers a frame, here with the same.
ReadByte(t) ==
    LET box == Inbox(Dev(t))
        bytes == conns[on[t]][box]
        ends == EndsFrame(rx[t], Head(bytes))
    IN
    /\ pc[t] = "in" /\ bytes # <<>>
    /\ conns' = [conns EXCEPT ![on[t]][box] = Tail(@)]
    /\ rx' = [rx EXCEPT ![t] = IF ends THEN Empty ELSE Decode(@, Head(bytes))]
    /\ got' = IF ends THEN [got EXCEPT ![Dev(t)] = Append(@, rx[t].buf)] ELSE got
    /\ IF ends /\ t = "control"
       THEN out' = [out EXCEPT ![t] = Encode(rx[t].buf)] /\ sent' = [sent EXCEPT !["server"] = Append(@, rx[t].buf)]
       ELSE UNCHANGED <<out, sent>>
    /\ Goto(t, "begin")
    /\ UNCHANGED <<accepted, cur, mutex, on, breaks>>

\* There is no more to come.
ReadFails(t) ==
    /\ pc[t] = "in" /\ conns[on[t]][Inbox(Dev(t))] = <<>> /\ ~Works(on[t], Dev(t))
    /\ Goto(t, "failed")
    /\ UNCHANGED <<conns, accepted, cur, mutex, on, frameVars>>

\* On a connection that no longer works a write fails, or succeeds and is lost.
Write(t) ==
    LET c == cur[Dev(t)]
        box == Inbox(Peer(Dev(t)))
    IN
    /\ pc[t] = "call" /\ out[t] # <<>> /\ c # 0
    /\ conns' = IF Works(c, Dev(t)) THEN [conns EXCEPT ![c][box] = @ \o out[t]] ELSE conns
    /\ \/ /\ out' = [out EXCEPT ![t] = <<>>]
          /\ Goto(t, IF t = "caller" THEN "idle" ELSE "begin")
       \/ /\ ~Works(c, Dev(t))
          /\ Goto(t, "failed") /\ UNCHANGED out
    /\ UNCHANGED <<accepted, cur, mutex, on, rx, sent, got, breaks>>

\* A connection breaks: of what is on its way a part arrives.
Break(c) ==
    /\ breaks < MaxBreaks /\ conns[c].ok
    /\ breaks' = breaks + 1
    /\ \E m \in 0..Len(conns[c].up), n \in 0..Len(conns[c].down) :
          conns' = [conns EXCEPT ![c] = [ok |-> FALSE, up |-> SubSeq(@.up, 1, m), down |-> SubSeq(@.down, 1, n)]]
    /\ UNCHANGED <<accepted, cur, mutex, pc, on, rx, out, sent, got>>

Run(t) ==
    \/ GetConnection(t) \/ CloseConnection(t) \/ Connect(t) \/ Accept(t)
    \/ NoSocket(t) \/ Read(t) \/ ReadByte(t) \/ ReadFails(t) \/ Write(t)

Next ==
    \/ \E t \in Threads : Run(t)
    \/ \E f \in Frames : Begin(f)
    \/ \E c \in DOMAIN conns : Break(c)

Spec == Init /\ [][Next]_vars

\* The threads run; a connection attempt succeeds some time, and a mutex is given to all who wait for it.
FairSpec == Spec /\ \A t \in Threads : SF_vars(Run(t))

------------------------------------------------------------------------------
(* Properties. *)

\* The types; a device's mutex is held exactly while a thread connects.
TypeOK ==
    /\ accepted \in 0..Len(conns) /\ cur \in [Devices -> 0..Len(conns)]
    /\ pc \in [Threads -> {"idle", "begin", "call", "in", "failed", "connect"}]
    /\ \A t \in Threads : Len(rx[t].buf) <= MaxLen /\ (pc[t] = "connect" <=> mutex[Dev(t)] = t)

\* Whatever breaks, and however long a frame is, what is read is a part of one frame that was written: never the
\* beginning of one and the end of another (SLIPFramer::Write begins every frame with END).
OfOneFrame ==
    \A d \in Devices : \A k \in DOMAIN got[d] : \E j \in DOMAIN sent[Peer(d)] :
        LET f == sent[Peer(d)][j] IN
        \E m, n \in DOMAIN f : got[d][k] = SubSeq(f, m, n)

\* While nothing breaks, the frames that fit are read whole, each once and in their order.
InOrder ==
    breaks = 0 => \A d \in Devices :
        (\A j \in DOMAIN sent[d] : Len(sent[d][j]) <= MaxLen) => IsPrefix(got[Peer(d)], sent[d])

\* The thread that writes has closed a working connection from which the other reads, and will read on.
Abandoned == \E t \in Threads : pc[t] = "in" /\ on[t] # cur[Dev(t)] /\ Works(on[t], Dev(t))

\* In the end client and server have the same connection, and it works, unless one was abandoned: the server keeps
\* that, and the client's next is never accepted; or unless the two threads of the client have closed each other's
\* connections, before they were used, until the bound (the loops in Read and Write, CloseConnection).
Together == cur["client"] # 0 /\ cur["client"] = cur["server"] /\ conns[cur["client"]].ok
Meets == <>[](Together \/ Abandoned \/ Len(conns) = MaxConns)
==============================================================================
