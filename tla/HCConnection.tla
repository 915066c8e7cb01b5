---------------------------- MODULE HCConnection ----------------------------
(***************************************************************************)
(* How a connection learns what parameters a server has                    *)
(* (lib/hc/hcconnection.cc, HCClient::DownloadSIF).                        *)
(*                                                                         *)
(* The server's information file is cached in a local file.  A connection  *)
(* gets the server's name and version and the CRC of its information file, *)
(* compares that with the CRC of the local file, downloads the file chunk  *)
(* by chunk when they differ, and parses the local file into a tree of     *)
(* parameters.  Reads may time out and are retried; the connecting program *)
(* may stop at any point and connect again; the server may be replaced by  *)
(* one with another information file at any point.                         *)
(*                                                                         *)
(* A CRC is modelled by the contents it was computed from: two different   *)
(* files are taken to have different CRCs.                                 *)
(***************************************************************************)
EXTENDS Integers, Sequences, SequencesExt

CONSTANTS
  Versions,     \* programs that may run as the server
  Bytes,        \* what a file consists of
  Content,      \* [Versions -> Seq(Bytes)]: the information file of each
  Chunk,        \* PAYLOAD_MAX - 9: bytes read by a transaction
  Attempts,     \* times a chunk is read before giving up: 3
  MaxRestarts,  \* bound: server replacements
  MaxTries      \* bound: connections made

ASSUME ContentAssumption == \A v \in Versions : Content[v] \in Seq(Bytes)
ASSUME ChunkAssumption == Chunk \in Nat \ {0} /\ Attempts \in Nat \ {0}
ASSUME BoundAssumption == MaxRestarts \in Nat /\ MaxTries \in Nat

VARIABLES
  version,     \* the server that runs
  sif,         \* contents of the local file, as the operating system has it
  file,        \* contents the open stream has written, buffered bytes included
  srvinfocrc,  \* the CRC the server reported
  attempt,     \* which read of this chunk is next
  pc,          \* where the connection is
  fresh,       \* ghost: the server has not been replaced since it reported
  restarts,    \* server replacements, for the bound
  tries        \* connections made, for the bound

serverVars == <<version, restarts>>
connVars == <<version, sif, file, srvinfocrc, attempt, pc, fresh, restarts, tries>>

None == <<>>

ConnInit ==
  /\ version \in Versions
  /\ sif = None
  /\ file = None
  /\ srvinfocrc = None
  /\ attempt = 1
  /\ pc = "idle"
  /\ fresh = FALSE
  /\ restarts = 0
  /\ tries = 0

Goto(from, to) == pc = from /\ pc' = to

-----------------------------------------------------------------------------
\* Construction of the connection begins.
Connect ==
  /\ tries < MaxTries
  /\ tries' = tries + 1
  /\ pc \in {"idle", "parsed", "failed"}
  /\ pc' = "name"
  /\ UNCHANGED <<serverVars, sif, file, srvinfocrc, attempt, fresh>>

\* Get of PID_NAME and PID_VERSION.
GetNameAndVersion ==
  /\ Goto("name", "crc")
  /\ UNCHANGED <<serverVars, sif, file, srvinfocrc, attempt, fresh, tries>>

\* Get of PID_INFOFILECRC.
GetCRC ==
  /\ Goto("crc", "compare")
  /\ srvinfocrc' = Content[version]
  /\ fresh' = TRUE
  /\ UNCHANGED <<serverVars, sif, file, attempt, tries>>

\* Any error but a timeout of a chunk, and opening the local file, end the
\* construction; an open stream is closed.
Fail ==
  /\ pc \in {"name", "crc", "compare", "read"}
  /\ pc = "compare" => sif # srvinfocrc
  /\ pc' = "failed"
  /\ sif' = IF pc = "read" THEN file ELSE sif
  /\ UNCHANGED <<serverVars, file, srvinfocrc, attempt, fresh, tries>>

\* A mutant: the local file is opened for appending.
CompareAppend ==
  /\ pc = "compare"
  /\ IF sif = srvinfocrc
     THEN pc' = "parse" /\ UNCHANGED <<sif, file, attempt>>
     ELSE pc' = "read" /\ file' = sif /\ attempt' = 1 /\ UNCHANGED sif
  /\ UNCHANGED <<serverVars, srvinfocrc, fresh, tries>>

\* The local file is used as it is, or opened for writing, which empties it.
Compare ==
  /\ pc = "compare"
  /\ IF sif = srvinfocrc
     THEN pc' = "parse" /\ UNCHANGED <<sif, file, attempt>>
     ELSE pc' = "read" /\ sif' = None /\ file' = None /\ attempt' = 1
  /\ UNCHANGED <<serverVars, srvinfocrc, fresh, tries>>

\* A mutant: the offset is taken one too far.
FileReadPlus1(offset, n) ==
  LET c == Content[version]
      last == IF offset + 1 + n < Len(c) THEN offset + 1 + n ELSE Len(c)
  IN SubSeq(c, offset + 2, last)

\* What the server's file has from an offset on, at most n bytes.
FileRead(offset, n) ==
  LET c == Content[version]
      last == IF offset + n < Len(c) THEN offset + n ELSE Len(c)
  IN SubSeq(c, offset + 1, last)

\* A Read at the current position succeeds: its data is written, and a short
\* chunk is the last one, after which the stream is closed.
ReadChunk ==
  LET data == FileRead(Len(file), Chunk) IN
  /\ pc = "read"
  /\ file' = file \o data
  /\ attempt' = 1
  /\ IF Len(data) < Chunk THEN pc' = "parse" /\ sif' = file'
                          ELSE UNCHANGED <<pc, sif>>
  /\ UNCHANGED <<serverVars, srvinfocrc, fresh, tries>>

\* A mutant: the reads of a chunk start over.
ReadForever ==
  /\ pc = "read"
  /\ attempt' = (attempt % Attempts) + 1
  /\ UNCHANGED <<serverVars, pc, sif, file, srvinfocrc, fresh, tries>>

\* A Read times out; it is repeated at the same position, or the download is
\* given up.
ReadTimeout ==
  /\ pc = "read"
  /\ IF attempt < Attempts
     THEN attempt' = attempt + 1 /\ UNCHANGED <<pc, sif>>
     ELSE pc' = "failed" /\ sif' = file /\ UNCHANGED attempt
  /\ UNCHANGED <<serverVars, file, srvinfocrc, fresh, tries>>

\* The local file is parsed into the parameter tree.
Parse ==
  /\ Goto("parse", "parsed")
  /\ UNCHANGED <<serverVars, sif, file, srvinfocrc, attempt, fresh, tries>>

\* The connecting program stops; of what it wrote, some may not be in the file.
Crash ==
  /\ pc \notin {"idle", "failed", "parsed"}
  /\ pc' = "idle"
  /\ sif' \in IF pc = "read" THEN Prefixes(file) ELSE {sif}
  /\ UNCHANGED <<serverVars, file, srvinfocrc, attempt, fresh, tries>>

\* Another program takes the server's place.
Restart(v) ==
  /\ restarts < MaxRestarts
  /\ restarts' = restarts + 1
  /\ v # version
  /\ version' = v
  /\ fresh' = FALSE
  /\ UNCHANGED <<sif, file, srvinfocrc, attempt, pc, tries>>

Connecting ==
  GetNameAndVersion \/ GetCRC \/ Fail \/ Compare \/ ReadChunk \/ ReadTimeout \/ Parse

ConnNext == Connect \/ Connecting \/ Crash \/ \E v \in Versions : Restart(v)

ConnSpec == ConnInit /\ [][ConnNext]_connVars

\* The connecting thread runs: each of its transactions returns.
FairConnSpec == ConnSpec /\ WF_connVars(Connecting)

-----------------------------------------------------------------------------
(* Properties.                                                             *)

ConnTypeOK ==
  /\ version \in Versions
  /\ pc \in {"idle", "name", "crc", "compare", "read", "parse", "parsed", "failed"}
  /\ sif \in Seq(Bytes) /\ file \in Seq(Bytes) /\ srvinfocrc \in Seq(Bytes)
  /\ attempt \in 1..Attempts
  /\ fresh \in BOOLEAN

\* The file that is parsed is the server's information file, whole, unless the
\* server was replaced after it reported the CRC: whatever an earlier program
\* left in the local file, however many reads were repeated, and when the
\* length is a multiple of the chunk (the comparison of CRCs in HCConnection,
\* the loop of DownloadSIF).
ParsedIsServers == pc \in {"parse", "parsed"} /\ fresh => sif = Content[version]

\* What has been downloaded is the beginning of the server's file: a repeated
\* read neither repeats nor skips data.
DownloadIsPrefix == pc = "read" /\ fresh => IsPrefix(file, Content[version])

\* A connection that is being made ends, parsed or failed, or its program stops.
ConnectEnds ==
  pc \in {"name", "crc", "compare", "read", "parse"} ~>
    pc \in {"parsed", "failed", "idle"}

-----------------------------------------------------------------------------
\* The CRC last reported is the server's, unless the server was replaced since.
ReportedCRC == fresh => srvinfocrc = Content[version]

\* The conjunction TLAPS proves inductive.
ConnInv == ConnTypeOK /\ ReportedCRC /\ ParsedIsServers /\ DownloadIsPrefix
=============================================================================
