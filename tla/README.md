# Host Control: TLA+ models, checks and proofs

Host Control (HC) lets a program on one host call, read and set named *parameters* of a program on another. This
directory holds TLA+ models of its C++ library (`src/src/lib`), the TLC configurations that check them on small
instances, and TLAPS proofs about them. Paths below are relative to `src/src`. `lib/android` holds the same text as the
corresponding files of `lib/posix`; the models are mapped to the latter.

To repeat everything, in this directory: `tlasany M.tla` parses a module, `tlc -workers 2 -config X.cfg M` runs a
configuration, `tlapm M_proofs.tla` checks proofs. `PROJECT.json` lists the runs, which lines of the source each
definition stands for, the hazards, and the theorems.

Contents: [the system](#1-the-system) · [the modules](#2-the-modules-and-the-code) · [the runs](#3-the-runs) ·
[fairness](#4-fairness) · [the proofs](#5-the-proofs) · [findings](#6-what-the-models-found) ·
[limits](#7-what-is-not-modelled) · [plan](#8-plan)

## 1. The system

A *server* owns a table of parameters, each of a class (call, value, table, list, file) with a type and with methods of
the application's. A *client* turns a method call on a proxy into one transaction: a command message, a status message
back. Messages travel over a *device*: UDP directly, or a byte stream (TCP, TLS, serial line) through SLIP framing. A
*connection* downloads the server's information file and builds the proxies from it. A *query server* and a *console*
address the same parameters by path name, and save them to and load them from a file.

| component | source | state it keeps | operations | what makes it correct |
|---|---|---|---|---|
| transaction client | `lib/hc/hcclient.cc` | transaction mutex; number and opcode of the expected reply; reply event; inbound cell; 8-bit number; counters | ten kinds of call by any thread; one reader thread | a transaction returns what the server answered to *it*; every call returns; counters add up |
| command server | `lib/hc/hcserver.cc` | parameter table; information file; inbound and outbound message and cell; counters | `Add`, `Start`; a control thread with ten command handlers | each command has its answer, in order; error codes arrive; PIDs in the information file are true |
| parameter classes | `lib/hc/hc*.hh`, `hcparameter.cc` | the application's object | cell functions (run by the server), string functions (run by console, query server) | both ends agree on the layout of a cell; what is printed can be read |
| messages, cells | `lib/hc/hcmessage.cc`, `hccell.cc` | lengths, read index | `Read`, `Write`, `Serialize`, ... | an answer that must fit fits |
| connection | `lib/hc/hcconnection.cc`, `HCClient::DownloadSIF` | local copy of the information file | construction: compare CRCs, download, parse | the file parsed is the server's, whatever was there before |
| state file | `lib/hc/hcconsole.cc`, `hcqserver.cc`, `hccontainer.cc` | `default.state` | save (either thread), load (console) | a load restores what was saved |
| event, mutex, thread | `lib/posix/event.cc`, ... | a count of 0 or 1, a condition variable | wait, signal, reset | no wakeup is lost |
| pipe | `lib/posix/pipe.cc` | ring of bytes, two events | read, write, reset by any thread | a bounded stream of bytes; nobody sleeps beside work |
| queue, semaphore | `lib/posix/queue.cc`, `semaphore.cc` | ring of buffers, two semaphores | read, write, reset by any thread | messages in order, none lost, buffers accounted for |
| devices | `lib/posix/tcp*.cc`, `tls*.cc`, `lib/common/udpdevice.cc`, `slipframer.cc` | a connection, a destination, a frame | read, write, reconnect | what is read is a part of what was written; after a break both ends have the same connection; an answer goes to its query's source |
| query server | `lib/hc/hcqserver.cc` | the query it has read, the answer it writes | ten cells by path | the first cells of a query are carried out, once each; an answer tells of all |
| name tree | `lib/hc/hccontainer.cc`, `hcnode.cc`, `hcutility.cc` | tree of nodes | path lookup, printing | a printed path leads back |
| console | `lib/hc/hcconsole.cc` (`HCConsole`, `HCCommand`, `HCHistory`) | command line, ring of 50 old ones | keys, commands | the ring shows what was typed |
| aggregator | `lib/hc/hcaggregator.cc` | connections to several servers, and a server of all their proxies | construction from a file | a request through it does what it would do at the parameter itself |
| applications | `app/*` | - | create the parts above; `hcquery` waits for an answer | an answer is the query's own |
| buses, drivers | `lib/bus`, `lib/drv` | reservation, registers | transactions on a bus | register sequences are not interleaved |

**How they interact.** Application threads call `HCClient`, which blocks each behind one mutex for a whole
transaction. Its reader thread shares four variables and an event with the caller; only the event has a lock. Client and
server share no state, only messages that a device may lose, delay, reorder or (UDP) repeat. In `scratchsrv` and
`pisrv` three threads, the server's control thread, the query server's and the console's, run parameters' methods side
by side, and the last two share the state file. An aggregator is a client of its origins and a server to its own
clients; its control thread is in the middle of one transaction while it makes another. `Pipe` and `Queue` connect threads within a program.

**What is hard.** The reader thread's unlocked comparison of an expectation the caller withdraws on timeout; numbers that
wrap; replies that come late; error paths repeated in ten functions; two ends that must agree on layouts neither
declares; waits whose condition is not tested again; a file that two threads truncate and a crash cuts; numbers of parameters
that outlive the program that gave them; two threads that both replace a broken connection; queries carried out by
halves. The file
`PROJECT.json` lists each hazard at its line with the properties that cover it.

## 2. The modules and the code

Common conventions. A stretch of code under a mutex that is held to the end of the stretch is one step; where other
threads can see a state in between, it is several. Names of variables are the members' names without the underscore.
*Ghost* variables record history for the properties and guard nothing. A definition marked "A mutant:" is not part of
any specification: it is the operator below it with a plausible mistake (a dropped guard, an off-by-one, a missing
reset), kept to show that the property paired with it in `PROJECT.json` fails when the code has that mistake.

### HCClient

Models `lib/hc/hcclient.cc`: the ten `...Xact` functions and `ReadThread`, for any number of calling threads.

| action | code |
|---|---|
| `Call`, `Lock`, `Give` | entry, `_xactmutex->Wait()`, `_xactmutex->Give()` and return |
| `ResetEvent`, `SetExpTransaction`, `SetExpOpcode` | `_replyevent->Reset()`, publication of number and opcode, `_transaction++` |
| `Send`, `SendError` | `_omsg->Send`, and its failure |
| `WaitReply`, `WaitTimeout` | `_replyevent->Wait` and its two results |
| `InvalidateTransaction`, `InvalidateOpcode` | the two writes of `0xFFFF` |
| `ReadField` | one field of the inbound cell: the read, the comparison of PID, index, type; `Layout` says which fields in which order per opcode |
| `Recv`, `RecvError`, `CheckTransaction`, `ReadCell`, `CheckOpcode`, `Signal` | the reader thread, statement by statement where it shares state |
| `Serve` | the server: an answer with the command's number (HCServer models how it comes about) |

The caller's ten functions have one skeleton and differ in the fields they read, so the model has one skeleton and the
table `Layout`. The network is two sets of messages: a message never taken is lost, any may be taken next, and with `Dup` a
message taken stays. `xid` names transactions without the wrap. `Spurious` lets `pthread_cond_timedwait` return
unsignalled: `Event::Wait` does not test its count again.

### HCServer

Models `lib/hc/hcserver.cc` with the parameter classes' cell functions and the message and cell limits. `Add` and `Start`
fill the table and write the information file, if it can be opened; `Recv`, one action per command handler (`CallCmdHandler` ...
`WriteCmdHandler`), `UnknownOpcode` and `Send` are the control thread. A handler looks up the PID, lets the parameter's
cell function decide (`CallCell`, `GetCell`, `SetCell`, ... return the fields written and the error, or fail), and
`WriteReply` puts the outbound cell into the reply if there is room. A field is its width and value: layouts are what
the two ends can disagree on. When the reply message has less than `OVERHEAD` bytes left, `rpc` becomes
`"aborted"`: the assertion in `HCCell::Serialize` fails, and no build file defines `NDEBUG`. `ClientError` is what the client's functions make of the reply.

### HCConnection

Models the construction of `HCConnection` and `HCClient::DownloadSIF`: the actions follow the constructor (`Connect`, name and
version, CRC, `Compare`) and the download loop (`ReadChunk`, `ReadTimeout`, three attempts per chunk at the offset of the
local file, an empty chunk at the end). `Crash` stops the program with any part of the stream's data in the file;
`Restart` puts another server in its place. A CRC is modelled by the contents it is computed from, that is, collisions
are left out: with one, a stale local file would be parsed.

### Event, ByteStream, Pipe

`Event` is `lib/posix/event.cc`, one operator per stretch under its mutex. `Pipe` composes two of them (`wr`, `rd`) with the
ring: `Read`/`Write` begin a call, `TryRead`/`TryWrite` are the loop body under the pipe's mutex, `...Wait`, `...Timeout`,
`...Spurious` the wait, `Signal...` the signal that follows the release of the mutex. `ByteStream` is what a pipe promises: bytes
come out in the order they went in, never more than `Size` in between. `Reset` takes no lock in the code and is modelled
only while no thread is in a call; beside a call its outcome is a data race.

### Semaphore, Queue

`Semaphore` is `lib/posix/semaphore.cc`; `Queue` composes two with the ring of buffers: take a semaphore (`WaitFull`,
`WaitEmpty`), copy under the mutex (`CopyOut`, `CopyIn`), give the other (`GiveEmpty`, `GiveFull`). `Abort` is the assertion after a
wait whose count another thread took; no step follows it. A read with too small a buffer moves the index and leaves the
message, as in the code. `Reset` as for Pipe.

### HCState

Models saving to and loading from `default.state`. Two savers, the console's thread and the query server's, each truncate the
file (`SaveOpen`), print the parameters one by one into a stream buffer that is written at the stream's own offset
whenever it is full (`PrintElement`, `WriteAt`), and close it. `LoadOpen` and `LoadLine` are the console's load: a line is
tokenized and run as a command. Clients set elements at any time (`SetCell`, `SubCell`), and `Crash` ends the program and
starts it again with a load from the constructor. Text is a sequence of symbols, one per name, digit or mark: fine enough to be
cut anywhere, to leave holes, and to be misread. What each class prints and reads (`IntText`, `IntSetStr`, `IntSetStrLit`, ...) is
translated class by class.

### HCParam, HCInfo

Operators, one per class and function. `HCParam` describes a parameter by a record (`HCInteger(...)`, `HCVec2Table(...)` and so on, with
what their constructors fix) and says what its text interface does with a text (`Text`: the errors of access, type, element
and conversion, in the order in which each class tests them, or the method called and its value), what its Cell function
does with a command (`Cells`), which command a proxy's stub makes of a call (`Command`) and what a user is shown (`Shown`). `HCInfo` is what
each class's `SaveInfo` writes (`HCIntegerInfo`, ...) and what the Parse functions of HCConnection make of it (`ParseInt`, ...). A float
is a number of millionths, so that `SixDigits` can say what printing keeps of it. A set with at most one member is a
pointer or value that may be missing.

### HCAggregator

Composes servers, connections and proxies. `Ask`, `Load` and `Fail` are the construction of a connection (HCConnection has it in
detail), to the origins one after the other and then of `far`, a program connected to the aggregator; `Start` is the
end of the aggregator's constructor, with `AddParamsToServer`; `Replace` puts another program behind an origin's address;
`RestartAggregator` starts it anew. A request (`Request`) is a text operation on a proxy at `far`: `AggAnswers` or `AggForwards`,
`OriginServes`, `AggReceives` or `AggTimesOut`, `FarReceives` or `FarTimesOut` take it to the parameter and back, through the Cell functions at
both servers. HCClient and HCServer have the transactions in detail; here one transaction of `far` and one of the aggregator
are under way at a time, which is what their mutexes allow.

### HCQServer

The control thread (`Receive`, `ProcessMessage`, `ProcessCell`, `SaveState`, `NextCell`, `End`, `Send`) with one operator for each
`Process...Cell`, the room in the write buffer, the tree and `GetParam`; the device whose destination is the source of what
it last read; and `hcquery`'s transactor (`Transact`, `ReadThread`, `TimeOut`) at two addresses over a network that loses and reorders
datagrams. A query is a sequence of strings, one per mark or word, so that it can be cut and garbled between them; lengths
are those of the text. Two equal datagrams under way at once are one.

### SLIPFramer, TCPDevice

`SLIPFramer` has what `Write` gives to the device for a frame (`Encode`) and what `Read` does with a byte (`Decode`). `TCPDevice` puts it over
the TCP client and server devices with three threads: the client's reader thread, a caller that writes, and the server's
control thread, which answers each message with the same. `GetConnection`, `CloseConnection`, `Connect` and `Accept` are the stretches under
the device's mutex, `Read` and `Write` the system calls outside it, byte by byte for reads. `Break` ends a connection with any part of
the bytes under way delivered. A thread that waits in a read keeps the connection it waits on although the device has
closed it, as on Linux; a file number is used again at once, so that a thread uses whatever connection the device has at
the time of its call.

## 3. The runs

Twelve runs; "distinct" is the number of distinct states.

| run | instance | distinct | shows |
|---|---|---|---|
| `client_shared` | 2 threads, `Get` and `ISet`, error codes 0 and 255, 2 transactions, 1 message dropped, fair | 41,492 | `IInv`; `TrueResult`: code and value are together those of one answer to this command; `OvertakenOnlyAfterTimeout`; `Accounted`: counters add up to the transactions; `OwnReply`: a good transaction read replies with its number, and its own while the number has not wrapped; `AcceptsOnlyExpected`; `CallsReturn` |
| `client_stale` | 1 thread, `Call` then `Get` | violation | `SignalledReplyIsOwn` fails: finding 1 |
| `server` | 8 parameters, one per class; 3 `Add`s, 2 PIDs; one cell per message, every command, or two messages of two cells of different fate; an information file that can be opened or not | 222,183 | `TypeOK`; `ErrorReported`; `OneCellAnswered`; `RepliesMatchCommands`; `InfoFileTrue` |
| `server_errors` | sets of an unknown PID or wrong type | violation | `EveryErrorReported` fails: finding 2 |
| `server_serialize` | 4 small commands in a message | violation | `SerializeAssertion` fails: finding 3 |
| `connection` | files of 1, 4 and 5 letters, chunks of 2, 3 connections, 2 replacements, crashes, fair | 11,150 | `ParsedIsServers`; `DownloadIsPrefix`; `ConnectEnds` |
| `pipe` | 1 reader, 1 writer, ring of 3, 6 bytes, timeouts, spurious wakeups, resets, fair | 25,442 | `NoLostWakeup`; `ImplementsStream` (refinement of ByteStream); `NoStandoff` |
| `queue` | 1 reader, 2 writers, 2 buffers of 2, messages of 1 to 3, 4 sent, fair | 87,306 | `BuffersCounted`; `InOrder`; `NothingLost`; `AbortNeedsContention`; `NoStandoff` |
| `query` | 4 containers, 8 parameters; 173 queries of one or two cells, whole and garbled, and 8 scripts of three programs at two addresses; a buffer of 56 characters | 32,373 | `TypeOK`; `FirstCellsCarriedOut`; `AnswersWholeQuery`; `GoodQueryRead`: a query as the web widgets write it is not refused for its text; `OwnAnswer`: what a program prints answers its query |
| `link` | 3 threads, 2 messages of 1, 2 or 5 bytes, room for 2, 1 break, 4 connections, fair | 478,224 | `TypeOK`; `OfOneFrame`: what is read is a part of one frame; `InOrder`: while nothing breaks, frames arrive whole, once and in order; `Meets`: both ends come to have the same connection |
| `aggregator` | three scenarios: 1,093 parameters, every class with every access, type and enumeration, and each text operation on them; 2 origins, 3 programs, 1 restart, lost messages, 10 requests and 3 files; the same with 2 restarts, 3 requests and 1 file. One request, fair | 108,432 | `ReachesItsParameter`; `TypeKept`; `Transparent`: the same refusal, or the same call and answer, as at the parameter itself; `Answered` |
| `state` | 3 programs with a parameter of each class; 2 sets, 2 saves, 1 load, 1 crash; a string that is saved as three lines | 1,275,510 | `TypeOK`; `OverlappingSavesAgree`; `Restored`; `CrashTearsOneLine` |

**The bounds, and why they are enough.**
- *Client.* `MaxXact` 2 and `MaxDrop` 1 end behaviours. A stale reply needs two transactions. A number that wraps would need more; the
  theorems on `OwnReply` and `AcceptsOnlyExpected` cover it, for any `TransMod` and `MaxXact`, as they do messages that are repeated. One dropped message suffices for a mismatch; further ones
  take the reader thread through the same states. `client_shared` has two opcodes with different layouts, one with a type
  and value, one with an index, so that every `ReadField` outcome occurs. Symmetry is not used: runs with liveness must not.
- *Server.* `CellMax` 20 and `MsgMax` 23 keep the code's relation, a full cell just fills a message, and let a string be one too
  long. `PidMax` 2 of three `Add`s meets the full table. Two messages of two cells suffice for a leftover in cell, message or
  read index to show.
- *Connection.* Chunk 2 with lengths 1, 4 and 5: shorter than, a multiple of, and longer than whole chunks. Two replacements allow
  an A-B-A change; three connections a crash and a recovery.
- *Pipe.* A ring of 3 with writes of 1 to 3 bytes rolls head and tail over at different times and refuses a write for room; six
  bytes go round twice.
- *Queue.* Two buffers and four messages go round twice; `CountMax` exceeds the buffers by one so that a semaphore raised too often
  shows.
- *Query.* Every cell in every form occurs alone, and in pairs where the first has been carried out when the second fails; every string of
  four queries is left out once. 56 characters end in each of the texts of a cell. Two addresses with two programs at one of
  them are what a wrong destination or a late answer needs.
- *Link.* A message longer than the room, and bytes to escape. One break meets both threads of the client at any place; each of them
  may then close the connection of the other, for which four connections suffice.
- *Aggregator.* One request, as requests follow one another without a trace but in the servers. A table of 17 is full before all of both origins' proxies are in it. A program that is replaced keeps its numbers and changes their meaning, so that a stale number finds a parameter
  of the same type, of another, and of none; values at the limits of a type, names missing, empty and doubled. Two restarts replace two origins, or an origin
  and the aggregator, which then asks for new numbers. The S forms are taken of parameters with every method, as they differ in one field of the file.
- *State.* `Block` 14 cuts every program's text at least once; two sets give a change before and after a save; one crash and one
  load are what the properties speak of.

`CHECK_DEADLOCK FALSE` in a configuration says, in its comment, why that system may rest.

## 4. Fairness

- *Client* (`CallsReturn`): weak fairness on what the thread in a transaction does (`Transact(t)`): it runs, the device's write
  returns, and the wait has a timeout, so it returns too. Strong fairness on `Lock(t)`: the mutex is free again and again, and a
  waiter gets it in the end, which POSIX scheduling of a handful of threads provides, though `pthread_mutex` does not promise it.
  Nothing is assumed of the network, the server or the reader thread: the timeout alone must bring a call back.
- *Connection* (`ConnectEnds`): weak fairness on the connecting thread, each transaction of which returns by the above. Crashes and
  replacements are not fair.
- *Aggregator* (`Answered`): weak fairness on the steps of control threads, stubs and their timeouts together (`Answering`). Nothing is assumed of
  the network or the origins.
- *Link* (`Meets`): strong fairness on each thread's steps (`Run(t)`): it runs, gets the device's mutex some time when it is free again and
  again, and an attempt to connect, which the code repeats for ever, succeeds some time. Nothing is assumed of messages. A thread that waits
  in a read is only made to return if the other end's closing reaches it: `Break` and `CloseConnection` are noticed by both ends, if late. Nothing
  in `tcpclient.cc` and `tcpserver.cc` would end a read otherwise, as they set no timeout and no keepalive (section 7).
- *Pipe*, *Queue* (`NoStandoff`): weak fairness on each thread's own steps (`Run(t)`): threads run and get the mutexes. Timeouts and
  spurious wakeups are not in `Run`, so a stand-off is not excused by a timeout to come.

## 5. The proofs

All proofs hold for every value of the constants that satisfies the named assumptions of the module (what the code's types
and constructors guarantee); the bounds are constants too and may be any number.

**HCClient_proofs** (2,433 obligations).
- `TypeCorrect` (`TypeOK`); `EveryTransactionCountedOnce` (`Accounted`).
- `Invariance` (`IInv`), `GoodTransactionReadsItsOwnReply` (`OwnReply`) and `ReaderAcceptsOnlyExpected` (`AcceptsOnlyExpected`), assuming
  `Spurious = FALSE`.
- `OvertakingTakesATimeout` (`OvertakenOnlyAfterTimeout`) and `GoodTransactionReturnsTheAnswer` (`TrueResult`), assuming also `Dup = FALSE`:
  with duplicates `TrueResult` is false, and the reader thread can be overtaken without a timeout, by the second copy.

`OwnReply` is not inductive. It follows from seven parts of `IInv`: `TypeOK`; `MutexInv` (the thread inside a transaction holds the mutex, so
there is one); `ExpectationInv` (a number is expected exactly while its thread is between publishing and withdrawing it); `CallInv`
(what a place in a call implies of its result and fields read); `ReaderInv` (from the opcode check on, the inbound cell is
that of the message at hand); `NumberInv` (until the number wraps it names the transaction); `FreshInv` (what the reader thread
accepts, signals or leaves in the cell during a transaction belongs to that transaction). `FreshInv` has the precondition
`~raced`, where the ghost `raced` is set when a transaction begins while the reader thread is between accepting a message
and signalling it: finding 1 is what happens then.

That it takes a timeout is `QuietInv`: until there is one, a transaction is at one place, on its way there, on its way back, with the
reader thread or signalled, and only while a thread waits for it. For `TrueResult` the cell must *stay* the answer while the caller reads it:
`OnceInv` (a transaction is one message at a time, at most), `LatestInv` (the thread inside is in the latest, of which nothing
is sent yet before `Send`), `AnswerInv` (what the reader thread has is an answer) and `ResultInv` (from the signal on, the cell answers this
command, no message is left that could overwrite it, and the fields read are its first). `GoodInv` says which checks a field read has passed. The
proof has one lemma per part and in it one step per action. All parts are conjuncts of `IInv`, which `client_shared` checks.

**Pipe_proofs** (952 obligations).
- `Invariance`, `WakeupsAreKept` (`NoLostWakeup`), `PipeIsStream` (`Spec => ImplementsStream`).

For any size and any number of readers and writers, with timeouts and spurious wakeups. `RingHoldsRest` says that the ring from tail,
`full` bytes long, is what was written and not read; `CopyInRing` and `CopyOutRing` prove the modular arithmetic of the two copies, and
`StepInv` that every step is one of ByteStream or a stutter. `NoLostWakeup` needs `SleepInv` (who sleeps on which event) and
`WaitInv` (a thread between the test of the ring and the wait finds the event set, or a signal is on its way).

**Queue_proofs** (1,679 obligations).
- `TypeCorrect`, `BuffersAreCounted` (`BuffersCounted`), `NothingIsLost` (`NothingLost`).
- `AssertionFailsOnlyUnderContention` (`AbortNeedsContention`), `MessagesComeOutInOrder` (`InOrder`).

For any number of buffers up to the semaphore's maximum and finitely many readers and writers, with buffers that are too small, refused
writes, timeouts, spurious wakeups, failed assertions and resets. `BuffersCounted` is a sum of two counts and four cardinalities: `ThreadMoves` says
that when one thread moves, one more is where it goes and one fewer where it was; `Raises`, that a count below the maximum is raised, which
the sum itself guarantees whenever a thread is about to give. `NothingLost` needs `InOneBuffer`, no message is in two buffers: without
it, taking a message out of one buffer would leave it in the other, received and kept at once. Neither needs the ring's order: they hold
after reads that were cut short, where `InOrder` does not.

`AbortNeedsContention` follows from `SleepInv`: without a spurious wakeup the only waiter of a semaphore, once woken, finds its count above 0.
`InOrder` follows from `RingInv`: with n messages put in and not received, the buffers `rdbufind` to `rdbufind` + n - 1 of the ring hold
them in order and the others are empty, the write index is n ahead, and n is the count of `fullsem` with the writers about to raise it and the
readers that have lowered it. That ties the ring to the semaphores, so that with `BuffersCounted` a writer that was let through finds room, and
a reader a message. `RingInv` is about the time until a read is cut short (`short`).

**HCServer_proofs** (2,339 obligations), of HCServer and of HCConnection, the two ends of an information file.
- `TypeCorrectness` (`TypeOK`), `RepliesFollowTheCommands` (`RepliesMatchCommands`), `ErrorCodeReachesTheClient` (`ErrorReported`),
  `OneCellIsAlwaysAnswered` (`OneCellAnswered`), `InformationFileStaysTrue` (`InfoFileTrue`).

For any parameters, methods, messages and lengths of a file, and any size of a cell that holds an empty read's answer and fits in a message
(`SizeAssumption`). The commands are those a client sends (`Sent`): a read has a PID of two bytes and an offset of four, a set's value
begins with the code of the type the client takes the parameter to have; whether number, fields and type suit the parameter is left open.

Each of the ten handlers is shown to have one `Outcome`: it consumes the first cell and either answers with its opcode, its addressing fields, a body and
the error, or refuses. What the client reads of a body (`ErrorReported`) is decided per kind of parameter and handler (`CallOutcomes` to
`ReadOutcomes`); that a whole chunk fits is the arithmetic of `ReadOutcomes`. `Matching` joins `RepliesMatchCommands` and `ErrorReported`
over a table, a record of commands, cells and a length; appending an answered command with its reply, or a refused one alone, keeps it.
`FirstAnswered` remembers what became of the first cell after others have followed. A length of cells is `Total`, a recursive
function over their lengths. That such a function exists at every number would be induction; here it follows from a least number at
which it would fail (`Smallest`, from the well-foundedness of the naturals), which needs no operator as an argument.
`InfoFileTrue` needs that the first place of a parameter in the table exists and stays when the table grows (`FirstPlace`), and that there is no file before `Start`.

- `ConnInvariance`, `ParsesTheServersFile` (`ParsedIsServers`), `DownloadsInOrder` (`DownloadIsPrefix`), of a connection.

For files of any contents and length, any chunk size and number of attempts. `ParsedIsServers` needs `ReportedCRC` (the CRC kept is
the current server's unless it was replaced since) and `DownloadIsPrefix`; the lemma `ReadChunkPrefix` is the arithmetic of chunks: a
prefix extended by the chunk at its length is a prefix, and an empty chunk means that it was whole. The definitions of HCConnection
that both modules would have (`ConnInit`, `ConnNext`, `ConnSpec`, `ConnTypeOK`, `ConnInv`) say whose they are.

**TCPDevice_proofs** (4,003 obligations).
- `TypeCorrect` (`TypeOK`), `NoFrameIsJoined` (`OfOneFrame`), `FramesComeInOrder` (`InOrder`).

For any bytes and frames that are not empty (`SLIPFramer::Write` asserts that), any room in the reader's buffer and any number of frames, connections
and breaks. Every byte on its way is given a place: its frame, its place in that, 0 and length + 1 for the END before and after, and for an
escaped one the first or second of two. `Marked` says that a stream of bytes has places each of which `Follows` the one before: it is the
next of the frame, or the first of a frame. `Has` says what the reader has: a part of one frame that ends at the place of the last byte it read. `ByteTaken`
is the heart of it: a reader that `Has` the part up to a place, given the byte at a place that follows, ends a frame with a part of one, or
`Has` the part up to there, also after it ran out of room in the middle. `FlowInv` puts that together over connections: what a thread has
agrees with the bytes of the connection it reads from and of every later one, and `OrderInv` says that a thread never goes back to an earlier one.

For `InOrder`, `CalmInv` says that while nothing breaks there is one connection, which nobody closes, and `WholeInv` that what was
read, what the reader has, the bytes under way and what the writer has still to write are together all frames given, one after the other
(`calm` in `Follows`: only the next frame may follow, and only a whole one).

**HCQServer_proofs** (613 obligations).
- `TypeCorrect` (`TypeOK`), `ProgramsGetTheirOwnAnswer` (`OwnAnswer`).

For any queries of texts, any tree whose parameters have places that are numbers, any results of the methods and any positive size of the
write buffer. `OwnAnswer` needs `PlaceInv`: a query whose program nobody gave up waiting for is at one place at most, on its way, at the server,
or its answer on its way back, and only while the program waits, so that no answer to an earlier query of the address can come while it
waits; and that the device's destination is the source of the query at hand (`AddressInv`). For `TypeOK`, `ReadFieldReads` to `CellReads`
say of every kind of cell that reading it never leaves the query, `AtMostOne` that a path leads to one parameter at most, and `WriteFits` that
a write keeps the room for the terminating zero, also where it fails in the middle.

**HCState_proofs** (2,881 obligations).
- `TypeCorrect` (`TypeOK`), `OverlappingSavesLeaveTheState` (`OverlappingSavesAgree`).

For any parameters with first values and settable values of their kind and names that are symbols (`ProgramsAssumption`), any size of the stream's buffer
and any bounds. `StateInv` says of a saver that its buffer is what follows, in the text of the lines it printed, the part flushed (`IsSaver`), and of the file
`Holds`: place by place it has what one of the savers flushed there, one saver has at each of its places its own text or another's, and the
file is as long as what one flushed. That is inductive although savers with different values overwrite each other, because a write at a saver's own offset makes that
saver the one whose places are all there; and once they printed the same lines and flushed all, one text is left (`HoldsAll`). It needs that no
symbol is lost or doubled between buffer and file (`WholeBlocks`), that a write never begins past the end of the file, so that it leaves no hole, and that
printing a line appends its text (`FlattenAppend`, `TextOfAppend`). For `TypeOK`, `TokenizeType`, `PiecesType` and the lemmas on commands (`SetCmdValue` to
`ResultElements`) say that whatever a line holds, torn or mixed, a parameter it sets keeps elements of its kind. These are facts about recursive functions
over data, obtained from `Induction` over a set of numbers (a least counterexample) and `Recursion` (a function given at 0 and step by
step exists), without an operator as an argument.

**HCAggregator_proofs** (3,274 obligations).
- `TypesAreKept` (`TypeKept`), `CommandsArrive` (`ReachesItsParameter`).

For any origins, configurations, programs with parameters of every class (`IsProgram`), requests and errors, however often programs are
replaced, messages are lost and the aggregator starts anew. `TypeInv` has two parts. `PlaceInv` says that every program, server and proxy there is
has parameters of the classes, and that an aggregator's proxies lead to its origins: `ParseElementIs` and `ConnTreeIs` show it of whatever an
information file describes. `ChainInv` follows a request: a command carries the type code of the proxy that made it; the operation stays the one
asked for, which `TextAsks` and `CellsDo` show of every class's text interface, cell handlers and stub (what a stub
gives on for a method is the operation whose handler called that method); a reply without an error has the method that succeeded behind it (`Accomplished`),
on a parameter of the reply's type if something was read, and of the proxy's if something was set.

`ReachesItsParameter` needs two more parts (`PathInv`). `RouteInv` relates what was asked, loaded and started: while an origin is not replaced, the program
whose file was loaded is the one that runs; every entry of the started aggregator's tree that leads to an origin has a number which that origin's
table, as it was loaded, gives to the parameter of the same path under the connection's name (`Routed`, shown by `ConnTreeRouted`
and `AggTreeRouted`); and every proxy at the asking program has a number that leads, in the aggregator's table, to the proxy's own path.
`WayInv` says the same of the number in the command on its way. Both rest on `ParseServerLeads`: a number in an information file is in
the element of a parameter that the server's table has under that number (`InfoFileLeads`, `SaveInfoIs`), and the proxy made
of an element has its name, its number and its containers (`ParseElementIs`).

The invariants `TypeOK` of Queue, `ConnInv` of HCConnection and `IInv` of Pipe, are proved and no longer among the runs' properties.

**Only model-checked.** Liveness (`CallsReturn`, `ConnectEnds`, `NoStandoff`, `Meets`, `Answered`): fairness and ENABLED are beyond the prover.
`Restored` and `CrashTearsOneLine` of HCState speak of what `Tokenize`, `StringConvert` and the classes' readers compute from what `Line` printed, symbol by symbol:
their types are proved, but the values read are decided by cases over the model's parameters, and names that hold a special symbol would refute
them. `FirstCellsCarriedOut`, `AnswersWholeQuery` and `GoodQueryRead` of HCQServer speak of the text of a query in the same way: `WellFormed` is a
constant about which only the instance knows more, and a string has no symbols for the provers. HCAggregator's `Transparent` compares all of an origin's checks with a proxy's, for every class, and needs that the same path
comes *first* among the same elements on both sides of two information files: a fact about joined sequences for which the lemmas here
(`JoinedIs`: what is joined is an element of one of them) say too little.

## 6. What the models found

Each is a run that TLC must find violated.

1. **A late reply wakes the next transaction** (`client_stale`, `lib/hc/hcclient.cc:1841`). `ReadThread` compares the number, then reads the
   cell, then compares the opcode, then signals. A caller that times out between comparison and signal, and begins the next
   transaction (resetting the event first), is woken by that signal and reads the old reply. Its own checks of PID and index catch
   it only when the calls differ in these.
2. **Errors of a set are misread** (`server_errors`, `lib/hc/hcparameter.cc:553`). `HandleSetPIDError` writes the type code before
   `ERR_PID`, but the client reads the error directly after the addressing fields. `ERR_TYPE` is written as an `int` of four bytes, of
   which the client reads the first, 0xFF.
3. **A message of many small commands ends the server** (`server_serialize`, `lib/hc/hcmessage.cc:148`). Replies fill the message until
   less than a cell's overhead is left, and `HCCell::Serialize` asserts that there is as much.
Other limits that the models make precise, stated in the conditions of the properties:
- A reply delivered twice rewinds the inbound cell while the caller reads it. `TrueResult` holds without duplicates; with
  `Dup = TRUE` TLC finds it violated in one transaction.
- `Event::Wait` takes a spurious wakeup for a signal. A pipe survives that, as its loops test the ring again; a client does
  not, hence the assumption `Spurious = FALSE` of the client's theorems.
- "The count should never be 0 here" (`lib/posix/semaphore.cc:124`, and its assertion): the count is not tested again after the condition
  variable returns, and a thread that calls `Wait` in between takes it. `AbortNeedsContention` is what holds.
- With two readers, or two writers, of a pipe a wakeup can be lost: the event merges signals and wakes one. `NoLostWakeup` speaks of
  a thread alone on its side.
- After a queue read with too small a buffer, messages come out of order and a writer may be refused although the semaphore let
  it through. No message is lost (`NothingLost`), no buffer either (`BuffersCounted`).
- Nothing compares the CRC again after a download: when the server is replaced in between, a mixture may be parsed
  (`fresh` in `ParsedIsServers`).
- The state file does not restore: vectors (the blank in "x, y" splits them into two tokens), empty arrays, arrays with
  negative elements (printed in base 16 beyond the type's range), strings with quotes or newlines, floats beyond six digits,
  values without a name of enumerated integers, and of enumerated booleans in a table (a lone boolean is restored). These are
  in `Restorable` and `Rounded`.
- Nor does a string with a newline keep its damage to itself. `HCString::PrintConfig` prints it as it is, and a load runs each of its lines as a
  command: the value of one parameter sets others, which `Restored` and `CrashTearsOneLine` except (`Strays`). The run has such a string, and a parameter that
  it sets and whose own line cannot be read back.
- A save cut by a crash may end in a number that lost its last digits and is still a number: `CrashTearsOneLine` is the most that
  holds. Two saves that print different values mix in the file, and a query-server save during the console's first load
  saves first values of parameters not yet loaded.
- An information file does not carry over everything a parameter checks: a list with one of its two methods, a table of value names
  without an entry, which the parameter has and its proxy has not, and a scale of seven digits (`NotCarried`). A proxy then refuses, or asks for, what its origin would not.
- The numbers a connection has are never asked for again. After an origin was replaced a request may reach another
  parameter; the type code in every cell makes sure that it is one of the same type (`TypeKept`).
- A command to a parameter that does not override its Cell function has no answer. Through an aggregator this costs a timeout there, and
  the client's own, which is no longer, may come first.
- `ParseValue` of HCAggregator follows a null pointer when an element is missing, also the optional one (`qport`). `ParseConn` leaves 0 for a
  connection it cannot make; the destructor deletes those only.
- The empty text is a number: `strtoimax` and `strtoumax` end at its end, and `StringConvert` gives 0. A query with an empty transaction number or an empty
  value is carried out and answered (`Xact`, `IntegerConvert`).
- A query that fails half way is not answered, although its first cells were carried out; neither is one whose answer does not
  fit, nor a save that cannot open its file. The answer to a save lacks the beginning of its cell, `["sa",`. A value with
  quotes is not escaped. With one character of room left, a text in quotes is written past the buffer.
- `hcquery` accepts any answer with a comma where its query has one. `OwnAnswer` holds of a program unless one before it at its address gave up waiting.
- When the thread that writes finds the connection broken and closes the one on which the reader already waits, the server keeps that and
  never accepts the client's next, as long as the reader's wait lasts (`Abandoned`).
- After a frame that was too long the rest of it is read as a frame (`OfOneFrame` says no more than that it is a part of it).

## 7. What is not modelled

| part | why |
|---|---|
| `HCFile::Upload`, `Download` against the server's chunks | planned (plan 1) |
| the console's editor and history, completion | planned (plan 2); the rest is terminal output |
| buses, `pca9685`, `pisrv`'s relays | planned (plan 2) |
| TLS: authentication, and the SSL object one thread frees while the other uses it | code of a library; the second is undefined behaviour |
| a half-open connection (the other host is gone and no end of the connection reaches this one): the read of `TCPDevice` would last for ever | a read has no timeout and no keepalive; nothing in the code would end it, so that `Meets` says nothing of it |
| a line of a string in the state file that is another command than setting or adding to a parameter (`cd`, `call`, `load`, `save`, `exit`, `p>v`, `p()`) | the values of the run hold none; the console's other commands are not modelled |
| serial lines, raw sockets; a signal from a write to a closed connection, writes that are cut short, attempts to connect that fail | single system calls |
| typed interfaces of the parameters for an application's own calls, `PrintVal`, `PrintInfo` | delegation and terminal output |
| byte order, bit patterns of values, CRC tables, number formatting apart from what HCState needs | pure functions whose outcomes no property here tells apart |
| `tinyxml2`, `gtest`, web pages | third-party or static |
| `Event::Clear`, `Semaphore::Clear` | nothing calls them |
| `Reset` of a pipe or queue during a call; a method of an application's object called by two threads | undefined behaviour whose outcomes depend on the build or on code outside the repository |

## 8. Plan

Done, in this order: HCClient and its proofs; HCServer; HCConnection and its proofs; Event, Pipe and their proofs with ByteStream; Semaphore,
Queue and its proofs; HCState; HCParam, HCInfo and HCAggregator; HCQServer; SLIPFramer and TCPDevice; the proofs of HCServer, TCPDevice,
HCQServer, HCState and HCAggregator.

To come, most important first:

1. `HCFile`: `Upload` and `Download` of the console and `ReadCell`/`WriteCell` of the control thread over one `_buffer`; composed with the
   chunked reads that HCConnection has.
2. `HCHistory`: the ring of 50 against a sequence of commands, as a refinement; pulsed relays of pisrv; `pca9685` under `Reserve`/`Release`.
3. Two `HCConnection`s over one local file.
