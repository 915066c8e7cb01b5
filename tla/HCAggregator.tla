---------------------------- MODULE HCAggregator ----------------------------
(***************************************************************************)
(* An aggregator (lib/hc/hcaggregator.cc): a program that connects to      *)
(* several servers, its origins, and serves all of their parameters to its *)
(* own clients through proxies.  Composed here are the origins' servers,   *)
(* the aggregator's connections and its server, and one program, far, that *)
(* is connected to the aggregator.                                         *)
(*                                                                         *)
(* A server numbers its parameters and writes the numbers to its           *)
(* information file; a connection makes a proxy for every element of that  *)
(* file and uses its number from then on, though the server behind the     *)
(* address may be replaced by a program with other parameters.  A request  *)
(* at far goes from proxy to proxy; a message may be lost on either way.   *)
(***************************************************************************)
EXTENDS HCInfo, SequencesExt

CONSTANTS
  Origins,      \* the configured connections: names, in the order of the file
  Scenarios,    \* a sequence of [configs, programs, requests, errs, lossy, restarts]:
                \* the aggregator's files, [origin -> "well", "empty" or "missing"], see ParseConn;
                \* [origin -> the programs that may run there], each [tree, added], tree order and the order in which
                \* Add is called; what is asked of the parameters of a name, [name, op, eid, text]; what an
                \* application's method may return; whether messages may be lost and connections fail; and how many
                \* programs may be replaced, a bound
  PidMax,       \* HCServer::PID_MAX
  MaxRequests   \* bound: requests made

ASSUME OriginsAssumption ==
    Origins \in Seq(STRING) /\ IsInjective(Origins) /\ "far" \notin Range(Origins) /\ "agg" \notin Range(Origins)
ASSUME BoundsAssumption ==
    /\ PidMax \in Nat /\ MaxRequests \in Nat
    /\ \A k \in DOMAIN Scenarios : Scenarios[k].restarts \in Nat /\ Scenarios[k].lossy \in BOOLEAN

\* A program's parameters are of the classes and have a path, and Add is called with parameters of its tree.
IsProgram(program) ==
    /\ program.tree \in Seq(Range(program.tree))
    /\ \A i \in DOMAIN program.tree :
          /\ ByClass(program.tree[i].par) \in ClassesAndShapes
          /\ program.tree[i].cont \in Seq(Range(program.tree[i].cont))
    /\ program.added \in Seq(DOMAIN program.tree)

ASSUME ProgramsAssumption ==
    \A k \in DOMAIN Scenarios : \A o \in Range(Origins) : \A program \in Scenarios[k].programs[o] : IsProgram(program)
ASSUME RequestsAssumption ==
    \A k \in DOMAIN Scenarios : Scenarios[k].requests \subseteq [name : STRING, op : STRING, eid : Nat, text : STRING]

VARIABLES
  scenario,  \* which of Scenarios it is
  config,    \* the aggregator's file
  version,   \* [origin -> program]: what runs there
  phase,     \* [link -> "none", "asked" or "done"]: construction of the connection
  asked,     \* [link -> whose file's CRC the server reported]
  loaded,    \* [origin -> whose file the connection made proxies of]
  agg,       \* the aggregator's server, once it is started
  known,     \* the proxies far finds by their path
  pc,        \* where the request is
  req,       \* the request: the proxy at far, and what is asked
  msg,       \* the command or reply on its way
  hop,       \* what the aggregator's control thread is busy with
  result,    \* what far was told, empty while it waits
  done,      \* ghost: the method called for this request
  stale,     \* ghost: [link -> whether the server was replaced since it was asked]
  restarts, requests   \* for the bounds

connVars == <<phase, asked, loaded, agg, known>>
chainVars == <<pc, req, msg, hop, result, done>>
vars == <<scenario, config, version, connVars, chainVars, stale, restarts, requests>>

Links == Range(Origins) \cup {"far"}

------------------------------------------------------------------------------
(* Servers: a tree, the parameters in tree order, each with its containers and, if it is a proxy, where it leads; *)
(* and a PID table, the parameter with PID i being tree[table[i + 1]].                                            *)

Entry(cont, p) == [cont |-> cont, par |-> p, via |-> {}]
Offon == {<<<<FALSE, "Off">>, <<TRUE, "On">>>>}

\* The parameters with PIDs 0 to 3, and of those without a number one that stands for all.
Special == <<HCString("name", TRUE, FALSE), HCString("version", TRUE, FALSE),
             HCInteger("infofilecrc", "u32", TRUE, FALSE, {}), HCFile("infofile", TRUE, FALSE)>>
Status == <<HCBoolean("debug", TRUE, TRUE, Offon)>>

In(cont, pars) == [i \in DOMAIN pars |-> Entry(cont, pars[i])]

\* The sequences of s one after the other.  TLC evaluates each of them once.
Joined(s) == FlattenSeq(s \o <<>>)

Shorter(m, n) == IF m < n THEN m ELSE n

\* HCServer::HCServer and Add: four parameters of its own and then those added, until the table is full.
Server(tree, added) ==
    LET all == [i \in DOMAIN Special |-> Len(tree) + i] \o added
    IN  [tree  |-> tree \o In(<<".server">>, Special \o Status),
         table |-> SubSeq(all, 1, Shorter(Len(all), PidMax))]

ParamToPID(srv, i) ==
    {k - 1 : k \in {k \in DOMAIN srv.table : srv.table[k] = i /\ \A j \in 1..(k - 1) : srv.table[j] # i}}

\* A mutant: the elements are numbered in the order they are written.
InfoFileInOrder(srv) ==
    Joined([i \in DOMAIN srv.tree |->
        IF ParamToPID(srv, i) = {} THEN <<>>
        ELSE <<[cont |-> srv.tree[i].cont,
                elt |-> SaveInfo(srv.tree[i].par, Cardinality({j \in 1..(i - 1) : ParamToPID(srv, j) # {}}))]>>])

\* HCServer::SaveInfo: the tree without the parameters that have no PID.
InfoFile(srv) ==
    Joined([i \in DOMAIN srv.tree |->
        IF ParamToPID(srv, i) = {} THEN <<>>
        ELSE <<[cont |-> srv.tree[i].cont, elt |-> SaveInfo(srv.tree[i].par, The(ParamToPID(srv, i)))]>>])

\* ParseServer and ParseCont of HCConnection: a container without a name is lost with all that is in it.
ParseServer(file) ==
    LET Proxied(x) ==
            {<<[cont |-> x.cont, par |-> y.par, pid |-> y.pid]>> : y \in IF "" \in Range(x.cont) THEN {} ELSE ParseElement(x.elt)}
    IN  Joined([k \in DOMAIN file |-> IF Proxied(file[k]) = {} THEN <<>> ELSE The(Proxied(file[k]))])

------------------------------------------------------------------------------
(* The origins' servers and the aggregator's. *)

Lossy == Scenarios[scenario].lossy
ServerOf(program) == Server(program.tree, program.added)

\* A connection's container: the proxies of the origin's top, the client's own parameters, the other proxies.
ConnTree(o, source) ==
    IF config[o] # "well" THEN <<>> ELSE
    LET proxies == IF source = {} THEN <<>> ELSE ParseServer(InfoFile(ServerOf(The(source))))
        Those(top) ==
            Joined([k \in DOMAIN proxies |->
                LET x == proxies[k] IN
                IF (x.cont = <<>>) # top THEN <<>>
                ELSE <<[cont |-> <<o>> \o x.cont, par |-> x.par, via |-> {[to |-> o, pid |-> x.pid]}]>>])
    IN  Those(TRUE) \o In(<<o, ".client">>, Status) \o Those(FALSE)

AggTree == Joined([i \in DOMAIN Origins |-> ConnTree(Origins[i], loaded[Origins[i]])])

\* AddParamsToServer adds whatever is in the tree, the server's own parameters a second time.
AddParamsToServer(tree) == Server(tree, [i \in 1..(Len(tree) + Len(Special \o Status)) |-> i])

\* The proxies a search by name finds: the first of their path.
Visible(x) ==
    {x[i] : i \in {i \in DOMAIN x : ~\E j \in 1..(i - 1) : x[j].cont = x[i].cont /\ x[j].par.name = x[i].par.name}}

\* The program a link leads to, {} when it does not run.
Behind(l) == IF l = "far" THEN agg ELSE {version[l]}
OriginServer(o) == ServerOf(version[o])
AggServer == The(agg)
Started == agg # {}

\* ParseConn and the functions for the devices.  An element without text is reported and the connection is left
\* out; a missing element is a null pointer that ParseValue follows: the program ends there.
ParseConn(o) == IF config[o] = "empty" THEN "done" ELSE "none"

Init ==
    /\ scenario \in DOMAIN Scenarios
    /\ config \in Scenarios[scenario].configs
    /\ LET programs == Scenarios[scenario].programs
       IN  version \in {f \in [Range(Origins) -> UNION Range(programs)] : \A o \in Range(Origins) : f[o] \in programs[o]}
    /\ phase = [l \in Links |-> IF l = "far" THEN "none" ELSE ParseConn(l)]
    /\ asked = [l \in Links |-> {}]
    /\ loaded = [o \in Range(Origins) |-> {}]
    /\ agg = {} /\ known = {}
    /\ pc = "none" /\ req = <<>> /\ msg = <<>> /\ hop = <<>> /\ result = <<>> /\ done = {}
    /\ stale = [l \in Links |-> FALSE]
    /\ restarts = 0 /\ requests = 0

\* The connections are constructed one after the other.
Turn(l) ==
    IF l = "far" THEN Started /\ pc = "none" /\ (phase[l] = "none" \/ (phase[l] = "done" /\ stale[l]))
    ELSE config[l] = "well" /\ phase[l] = "none" /\ \A i, j \in DOMAIN Origins : j < i /\ Origins[i] = l => phase[Origins[j]] = "done"

\* What far had asked for is no longer considered.
Forget == pc' = "none" /\ req' = <<>> /\ msg' = <<>> /\ hop' = <<>> /\ result' = <<>> /\ done' = {}

\* The constructor of HCConnection gets the CRC of the server's file.
Ask(l) ==
    /\ Turn(l)
    /\ phase' = [phase EXCEPT ![l] = "asked"]
    /\ asked' = [asked EXCEPT ![l] = Behind(l)]
    /\ stale' = [stale EXCEPT ![l] = FALSE]
    /\ IF l = "far" THEN known' = {} /\ Forget ELSE UNCHANGED <<known, chainVars>>
    /\ UNCHANGED <<scenario, config, version, loaded, agg, restarts, requests>>

\* It parses the local file if that has this CRC, and else the file it downloads.
Load(l) ==
    /\ phase[l] = "asked"
    /\ phase' = [phase EXCEPT ![l] = "done"]
    /\ \E source \in {asked[l], Behind(l)} \ {{}} :
          IF l = "far" THEN known' = Visible(ParseServer(InfoFile(The(source)))) /\ UNCHANGED loaded
          ELSE loaded' = [loaded EXCEPT ![l] = source] /\ UNCHANGED known
    /\ UNCHANGED <<scenario, config, version, asked, agg, chainVars, stale, restarts, requests>>

\* A connection whose server does not answer stays without proxies.
Fail(l) ==
    /\ Lossy
    /\ Turn(l) \/ phase[l] = "asked"
    /\ l # "far"
    /\ phase' = [phase EXCEPT ![l] = "done"]
    /\ UNCHANGED <<scenario, config, version, asked, loaded, agg, known, chainVars, stale, restarts, requests>>

\* The constructor of HCAggregator, after its connections.
Start ==
    /\ ~Started
    /\ \A o \in Range(Origins) : phase[o] = "done"
    /\ agg' = {AddParamsToServer(AggTree)}
    /\ UNCHANGED <<scenario, config, version, phase, asked, loaded, known, chainVars, stale, restarts, requests>>

\* A program takes an origin's place.
Replace(o) ==
    /\ restarts < Scenarios[scenario].restarts
    /\ restarts' = restarts + 1
    /\ \E v \in Scenarios[scenario].programs[o] \ {version[o]} : version' = [version EXCEPT ![o] = v]
    /\ stale' = [stale EXCEPT ![o] = TRUE]
    /\ UNCHANGED <<scenario, config, connVars, chainVars, requests>>

\* The aggregator is started anew; what it was busy with is lost.
RestartAggregator ==
    /\ restarts < Scenarios[scenario].restarts
    /\ restarts' = restarts + 1
    /\ Started
    /\ agg' = {}
    /\ phase' = [l \in Links |-> IF l = "far" THEN phase[l] ELSE ParseConn(l)]
    /\ loaded' = [o \in Range(Origins) |-> {}]
    /\ stale' = [stale EXCEPT !["far"] = TRUE]
    /\ pc' = IF pc \in {"none", "toagg", "fromagg"} THEN pc ELSE "lost"
    /\ UNCHANGED <<scenario, config, version, asked, known, req, msg, hop, result, done, requests>>

------------------------------------------------------------------------------
(* A request's way: from a proxy at far to the aggregator, to an origin and back. *)

Reply(e, type, vals) == [err |-> e, type |-> type, vals |-> vals]
IsGet(op) == op \in {"get", "iget"}
IsCall(op) == op \in {"call", "icall"}

\* What a server without a parameter of that PID answers.  Of a set the client takes the type code for the error.
NoSuchPID(c) ==
    CASE IsGet(c.op) -> Reply("PID", <<"i8", FALSE>>, {0})
      [] IsCall(c.op) -> Reply("PID", <<>>, {})
      [] OTHER -> Reply("CODE", <<>>, {})

\* An error the parameter finds.  The type error is written with four bytes, of which the client reads the first.
Refused(p, c, e) ==
    IF IsGet(c.op) THEN Reply(e, TypeCode(p), {DefaultVal(p)})
    ELSE Reply(IF e = "TYPE" THEN "UNSPEC" ELSE e, <<>>, {})

Values(p) ==
    CASE p.cls = "bool" -> BOOLEAN
      [] p.cls = "str" -> {"a"}
      [] p.cls \in {"float", "vec2", "vec3"} -> {[c \in DOMAIN p.scale |-> Unit]}
      [] p.shape = "array" -> {<<1>>}
      [] OTHER -> {n \in {0, 1, 200} : InRange(p.type, n)}

\* The application's method for command c of entry x of the server at a place is called.
Perform(place, x, c, outcome) ==
    \E e \in Scenarios[scenario].errs, v \in IF IsGet(c.op) THEN Values(x.par) ELSE {DefaultVal(x.par)} :
        /\ done' = done \cup {[at |-> place, cont |-> x.cont, par |-> x.par, carried |-> c.type, eid |-> c.eid,
                               method |-> outcome.method, vals |-> outcome.vals, err |-> e, val |-> v]}
        /\ msg' = IF IsGet(c.op) THEN Reply(e, TypeCode(x.par), {v}) ELSE Reply(e, <<>>, {})

\* What the client gives the stub of proxy p for a reply to command c.
Accepted(p, c, m) ==
    CASE IsGet(c.op) /\ m.type # TypeCode(p) -> [err |-> "TYPE", vals |-> {DefaultVal(p)}]
      [] OTHER -> [err |-> m.err, vals |-> m.vals]
TimedOut(p, c) == [err |-> "TIMEOUT", vals |-> IF IsGet(c.op) THEN {DefaultVal(p)} ELSE {}]

\* What a user is shown for a call of a proxy's method.
Told(p, r, a) ==
    IF r.op \in {"GetStr", "GetStrTbl"} THEN Shown(p, a.err, The(a.vals)) ELSE [err |-> a.err, text |-> {}]

\* An operation of a proxy.
Request(x, r) ==
    LET outcome == Text(x.par, r)
        called == outcome.method # "none"
        cell == Command(x.par, x.pid, outcome.method, r.eid, outcome.vals)
    IN
    /\ requests' = requests + 1
    /\ req' = [cont |-> x.cont, par |-> x.par, asks |-> r]
    /\ done' = {}
    /\ IF called
       THEN pc' = "toagg" /\ msg' = cell /\ result' = <<>>
       ELSE pc' = "none" /\ msg' = <<>> /\ result' = [err |-> outcome.err, text |-> {}]
    /\ UNCHANGED <<scenario, config, version, connVars, hop, stale, restarts>>

\* A server has no parameter for the command, or the parameter takes it or not.
PIDError(srv) == msg.pid + 1 \notin DOMAIN srv.table
Addressed(srv) == srv.tree[srv.table[msg.pid + 1]]
Outcome(srv) == Cells(Addressed(srv).par, msg)

AggAnswers ==
    /\ pc = "toagg" /\ Started
    /\ IF PIDError(AggServer) THEN pc' = "fromagg" /\ msg' = NoSuchPID(msg) /\ UNCHANGED done
       ELSE \/ /\ Outcome(AggServer) = Unhandled
               /\ pc' = "lost" /\ UNCHANGED <<msg, done>>
            \/ /\ Outcome(AggServer).method = "none" /\ Outcome(AggServer) # Unhandled
               /\ pc' = "fromagg" /\ msg' = Refused(Addressed(AggServer).par, msg, Outcome(AggServer).err) /\ UNCHANGED done
            \/ /\ Outcome(AggServer).method # "none" /\ Addressed(AggServer).via = {}
               /\ pc' = "fromagg" /\ Perform("agg", Addressed(AggServer), msg, Outcome(AggServer))
    /\ UNCHANGED <<scenario, config, version, connVars, req, hop, result, stale, restarts, requests>>

\* The stub of a proxy makes a command for the origin.
AggForwards ==
    /\ pc = "toagg" /\ Started /\ ~PIDError(AggServer)
    /\ Outcome(AggServer).method # "none" /\ Addressed(AggServer).via # {}
    /\ LET x == Addressed(AggServer)
           v == The(x.via)
       IN  /\ hop' = [to |-> v.to, par |-> x.par, cell |-> msg]
           /\ msg' = Command(x.par, v.pid, Outcome(AggServer).method, msg.eid, Outcome(AggServer).vals)
    /\ pc' = "toorigin"
    /\ UNCHANGED <<scenario, config, version, connVars, req, result, done, stale, restarts, requests>>

OriginServes ==
    LET srv == OriginServer(hop.to) IN
    /\ pc = "toorigin"
    /\ IF PIDError(srv) THEN pc' = "fromorigin" /\ msg' = NoSuchPID(msg) /\ UNCHANGED done
       ELSE \/ /\ Outcome(srv) = Unhandled
               /\ pc' = "unanswered" /\ UNCHANGED <<msg, done>>
            \/ /\ Outcome(srv).method = "none" /\ Outcome(srv) # Unhandled
               /\ pc' = "fromorigin" /\ msg' = Refused(Addressed(srv).par, msg, Outcome(srv).err) /\ UNCHANGED done
            \/ /\ Outcome(srv).method # "none"
               /\ pc' = "fromorigin" /\ Perform(hop.to, Addressed(srv), msg, Outcome(srv))
    /\ UNCHANGED <<scenario, config, version, connVars, req, hop, result, stale, restarts, requests>>

\* The proxy's method returns at the aggregator and its handler finishes the reply, which has the proxy's type.
Answer(a) ==
    /\ pc' = "fromagg"
    /\ msg' = Reply(a.err, IF IsGet(hop.cell.op) THEN TypeCode(hop.par) ELSE <<>>, a.vals)
    /\ UNCHANGED <<scenario, config, version, connVars, req, hop, result, done, stale, restarts, requests>>

AggReceives == pc = "fromorigin" /\ Answer(Accepted(hop.par, hop.cell, msg))
\* A mutant: the wait ends only when a message was lost.
AggTimesOutIfLost == Lossy /\ pc \in {"toorigin", "fromorigin"} /\ Answer(TimedOut(hop.par, hop.cell))
AggTimesOut ==
    /\ pc = "unanswered" \/ (Lossy /\ pc \in {"toorigin", "fromorigin"})
    /\ Answer(TimedOut(hop.par, hop.cell))

FarIs(a) ==
    /\ result' = Told(req.par, req.asks, a)
    /\ pc' = "none" /\ msg' = <<>> /\ hop' = <<>>
    /\ UNCHANGED <<scenario, config, version, connVars, req, done, stale, restarts, requests>>

\* The operation of the command far sent.
FarCell == [op |-> IF req.asks.op \in {"GetStr", "GetStrTbl"} THEN "get" ELSE "set"]
FarReceives == pc = "fromagg" /\ FarIs(Accepted(req.par, FarCell, msg))
FarTimesOut ==
    /\ pc = "lost" \/ (pc = "toagg" /\ ~Started) \/ (Lossy /\ pc \in {"toagg", "fromagg"})
    /\ FarIs(TimedOut(req.par, FarCell))

------------------------------------------------------------------------------
Connecting == (\E l \in Links : Ask(l) \/ Load(l)) \/ Start
Answering == AggAnswers \/ AggForwards \/ OriginServes \/ AggReceives \/ AggTimesOut \/ FarReceives \/ FarTimesOut
Environment ==
    \/ /\ pc = "none" /\ requests < MaxRequests
       /\ \E r \in Scenarios[scenario].requests : \E x \in {x \in known : x.par.name = r.name} : Request(x, r)
    \/ \E o \in Range(Origins) : Replace(o)
    \/ \E l \in Links : Fail(l)
    \/ RestartAggregator

Next == Connecting \/ Answering \/ Environment

Spec == Init /\ [][Next]_vars

\* The threads run: a control thread takes the next message, a wait ends.
FairSpec == Spec /\ WF_vars(Answering)
------------------------------------------------------------------------------
(* Properties. *)

\* No server between far and the parameter was replaced since its file was asked for.
Fresh == ~stale["far"] /\ (req.cont[1] \in Range(Origins) => ~stale[req.cont[1]])

\* A command executes at the parameter that has the path it was asked for, whatever the numbers the application,
\* the aggregator and the tables gave it, unless a server was replaced (AddParamsToServer, SaveInfo, ParamToPID,
\* the stubs' PIDs).
ReachesItsParameter ==
    \A d \in done : Fresh =>
        /\ d.par.name = req.par.name
        /\ req.cont = IF d.at = "agg" THEN d.cont ELSE <<d.at>> \o d.cont

\* However stale the numbers are, a value is given to a parameter of the type it was made for, and far is told of
\* success only if one method was called, it succeeded, and the parameter has the type far takes it for (the type
\* codes in the cells, SetCell, HCClient::GetXact).
TypeKept ==
    /\ \A d \in done : d.method \in {"set", "add", "sub"} => d.carried = TypeCode(d.par)
    /\ result # <<>> /\ result.err = "NONE" =>
          \E d \in done : done = {d} /\ d.err = "NONE" /\ (d.method # "call" => TypeCode(d.par) = TypeCode(req.par))

\* The parameter a request names, where it really is: the first of that path that has a number.
Original ==
    LET at == IF req.cont[1] \in Range(Origins) /\ req.cont # <<req.cont[1], ".client">> THEN req.cont[1] ELSE "agg"
        srv == IF at = "agg" THEN AggServer ELSE OriginServer(at)
        cont == IF at = "agg" THEN req.cont ELSE Tail(req.cont)
    IN  The({srv.tree[i].par : i \in {i \in DOMAIN srv.tree :
            /\ srv.tree[i].cont = cont /\ srv.tree[i].par.name = req.par.name /\ ParamToPID(srv, i) # {}
            /\ \A j \in 1..(i - 1) : srv.tree[j].cont = cont /\ srv.tree[j].par.name = req.par.name
                                        => ParamToPID(srv, j) = {}}})

\* What the information file does not carry over: one method of a list without the other, a table of value names
\* without an entry, a scale of seven digits.
NotCarried(p) ==
    \/ p.shape = "list" /\ p.add # p.sub
    \/ p.valenums # {} /\ Entries(p.valenums) = {}
    \/ \E c \in DOMAIN p.scale : Printed(p.scale[c]) # p.scale[c]

\* A request through the aggregator does what it would do at the parameter itself: the same refusal, or the same
\* method with the same value once, and the same text or error to the user, unless a server was replaced or a
\* message lost (the text interface, SaveInfo, the Parse functions, the stubs and the cell handlers of every class).
Transparent ==
    result # <<>> /\ Started /\ Fresh /\ result.err # "TIMEOUT" /\ ~NotCarried(Original) =>
        LET outcome == Text(Original, req.asks) IN
        IF outcome.method = "none" THEN done = {} /\ result = [err |-> outcome.err, text |-> {}]
        ELSE \E d \in done :
                /\ done = {d} /\ d.par = Original /\ d.eid = req.asks.eid
                /\ d.method = outcome.method /\ d.vals = outcome.vals
                /\ result = Told(Original, req.asks, [err |-> d.err, vals |-> {d.val}])

\* Every request is answered, if only with a timeout, whatever is replaced meanwhile and though a parameter that
\* cannot take a command makes no answer at all (the default handlers of HCParameter, HCClient's timeout).
Answered == pc # "none" ~> pc = "none"
==============================================================================
