---------------------------- MODULE PayloadReplay ----------------------------
(***************************************************************************)
(* trnm-peer-lease: the replay journal of authenticated frames, the store  *)
(* of their bodies, which publishes the same way, and the recovery owner   *)
(* (command line or daemon) that repairs a journal whose head lags and     *)
(* keeps the Core acknowledgements.                                        *)
(*                                                                         *)
(* A journal is an append-only log and a head file that names its tip.     *)
(* The hash of a record is the chain of records up to it.  A record is     *)
(* written and synced, then the head is replaced through a temporary file. *)
(* Every process holds the exclusive lock of the journal while it lives.   *)
(* A process may die between any two steps, an operation of the file       *)
(* system may fail, the journal's path may be given to a copy of the file, *)
(* and the machine may lose power.                                         *)
(***************************************************************************)
EXTENDS Integers, Sequences, FiniteSets, SequencesExt

CONSTANTS Namespaces,    \* namespaces a journal is opened with
          Local,         \* identity of the node
          Offered,       \* frames that are offered for admission
          Bodies,        \* bodies that are offered with them: digest, length
          MaxPayload,    \* PAYLOAD_REPLAY_MAX_PAYLOAD_BYTES_V1
          Requests,      \* what the callers of the recovery owner ask
          Frames,        \* what a client puts on the wire beside them
          SocketPaths, AckRoots,   \* configured paths
          MaxRecords,    \* PAYLOAD_REPLAY_MAX_RECORDS_V1, genesis included
          MaxFaults      \* bound on deaths, failures, copies and power losses

VARIABLES kind,      \* what the journal holds: frames or bodies
          journal,   \* its files
          holder,    \* the process that has it locked
          ack,       \* the acknowledgement of the target, and its files
          wire,      \* the client of a daemon
          admitted,  \* receipts answered by admit: index and chain
          faults

replayVars == <<kind, journal, holder, ack, wire, admitted, faults>>

Zero == ""
NoBody == [digest |-> Zero, length |-> 0]
Absent == <<>>

\* PayloadReplayNamespaceV1::new
NamespaceValid(n) == n # Zero

\* PayloadReplayFrameV1::new
FrameValid(f) ==
  /\ f.context # Zero /\ f.session # Zero /\ f.generation # 0
  /\ f.length <= MaxPayload /\ f.content # Zero

\* validate_frame_context
InContext(n, f) == f.context = n /\ f.peer \notin {Zero, Local}

\* encode_record, encode_body_record
Record(i, f) == [index |-> i, frame |-> f, body |-> NoBody]

BodyRecord(i, f, b) == [index |-> i, frame |-> f, body |-> b]

Genesis(n) ==
  Record(0, [context |-> n, peer |-> Zero, session |-> Zero, generation |-> 0,
             sequence |-> 0, content |-> Zero, length |-> 0])

\* encode_head
HeadOf(log) == [count |-> Len(log), hash |-> log, namespace |-> log[1].frame.context]

NoHead == [count |-> 0, hash |-> <<>>, namespace |-> Zero]

NoTarget == [index |-> 0, hash |-> <<>>, frame |-> Genesis(Zero).frame]
NoRequest == [op |-> "none", value |-> Zero]

NoHolder == [role |-> "none", stage |-> "none", target |-> NoTarget, asked |-> NoRequest,
             pending |-> <<>>, bound |-> TRUE, orphan |-> FALSE, pinned |-> FALSE]

ReplayInit ==
  /\ kind \in {"frames", "bodies"}
  /\ journal = [namespace |-> Zero, log |-> Absent, torn |-> FALSE, kept |-> 0,
                head |-> NoHead, keptHead |-> NoHead, temps |-> 0, socket |-> FALSE,
                lost |-> FALSE, copied |-> FALSE]
  /\ holder = NoHolder
  /\ ack = [target |-> NoTarget, link |-> Absent, kept |-> FALSE, temp |-> FALSE,
            answered |-> Absent]
  /\ wire = [frame |-> Absent, waiting |-> FALSE, pin |-> FALSE]
  /\ admitted = {} /\ faults = 0
-----------------------------------------------------------------------------
(***************************************************************************)
(* What a record may follow: the frames of a peer run through sequence and *)
(* generation without a gap, and a session is never taken up again.        *)
(***************************************************************************)
OfPeer(log, p) == SelectSeq(log, LAMBDA r : r.frame.peer = p)

\* payload_replay_generation_successor: the next frame of a session, or the
\* first of the next generation
Succeeds(previous, f) ==
  \/ /\ f.generation = previous.generation /\ f.session = previous.session
     /\ f.sequence = previous.sequence + 1
  \/ /\ f.generation = previous.generation + 1 /\ f.sequence = 0
     /\ f.session # previous.session

CurrentSessionOnly(log, f) ==
  LET mine == OfPeer(log, f.peer) IN
  IF mine = <<>> THEN f.generation = 1 /\ f.sequence = 0
  ELSE Succeeds(Last(mine).frame, f)

NextFrame(log, f) ==
  LET mine == OfPeer(log, f.peer)
      last == Last(mine).frame
  IN  IF mine = <<>> THEN f.generation = 1 /\ f.sequence = 0
      ELSE /\ Succeeds(last, f)
           /\ f.session # last.session => \A i \in DOMAIN mine : mine[i].frame.session # f.session

\* body_key
Key(r) == <<r.frame.peer, r.frame.session, r.frame.generation, r.frame.sequence>>

NewBody(log, f) == \A i \in DOMAIN log : Key(log[i]) # Key(Record(0, f))

\* decode_record, and what parse_log asks of every record
RecordReads(n, log, i) ==
  /\ log[i].index = i - 1
  /\ IF i = 1 THEN log[i] = Genesis(n)
     ELSE FrameValid(log[i].frame) /\ InContext(n, log[i].frame)

\* preview_replayed_state, after the sessions seen so far
Replays(mine, f) ==
  /\ (mine = <<>> \/ Last(mine).frame.session # f.session) =>
       \A i \in DOMAIN mine : mine[i].frame.session # f.session
  /\ IF mine = <<>> THEN f.generation = 1 /\ f.sequence = 0 ELSE Succeeds(Last(mine).frame, f)

FramesReplay(n, log) ==
  \A i \in DOMAIN log :
    /\ RecordReads(n, log, i)
    /\ i > 1 => Replays(OfPeer(SubSeq(log, 1, i - 1), log[i].frame.peer), log[i].frame)

\* decode_body_header
BodyReads(n, log, i) ==
  RecordReads(n, log, i) /\ log[i].body.length = log[i].frame.length

BodiesReplay(n, log) ==
  \A i \in DOMAIN log : BodyReads(n, log, i) /\ (i > 1 => NewBody(SubSeq(log, 1, i - 1), log[i].frame))

\* read_log_bytes
LogComplete(log) == ~journal.torn /\ log # <<>> /\ Len(log) <= MaxRecords

LogReplays(n, log) ==
  LogComplete(log) /\ IF kind = "bodies" THEN BodiesReplay(n, log) ELSE FramesReplay(n, log)
-----------------------------------------------------------------------------
(***************************************************************************)
(* open: a leftover temporary is refused before anything else; a new       *)
(* journal gets its genesis record and head; of an existing one the head   *)
(* must name exactly the tip.                                              *)
(***************************************************************************)
\* decode_head
HeadReads(n) == journal.head # NoHead /\ journal.head.namespace = n

AnyHead == TRUE

HeadMatches == journal.head = HeadOf(journal.log)

Unlocked == holder = NoHolder

\* reject_stale_head_temps
NoStaleTemps == journal.temps = 0

Created == journal.namespace # Zero

CreateJournal(n) ==
  /\ NamespaceValid(n)
  /\ Unlocked /\ NoStaleTemps /\ ~Created /\ journal.head = NoHead
  /\ journal' = [journal EXCEPT !.namespace = n]
  /\ holder' = [NoHolder EXCEPT !.role = "store", !.stage = "write", !.pending = <<Genesis(n)>>]
  /\ UNCHANGED <<kind, ack, wire, admitted, faults>>

Reopen(n) ==
  /\ NamespaceValid(n)
  /\ Unlocked /\ NoStaleTemps /\ Created
  /\ LogReplays(n, journal.log) /\ HeadReads(n) /\ HeadMatches
  /\ holder' = [NoHolder EXCEPT !.role = "store", !.stage = "ready"]
  /\ UNCHANGED <<kind, journal, ack, wire, admitted, faults>>

OpenJournal(n) == kind = "frames" /\ Reopen(n)

OpenBodies(n) == kind = "bodies" /\ Reopen(n)

(***************************************************************************)
(* admit, from the checks to the receipt.  The journal it checked cannot   *)
(* change under the lock, but its path can be given to a copy: the store   *)
(* compares the path with its descriptor before and after it writes.  A    *)
(* body that is already stored is answered from the log.                   *)
(***************************************************************************)
\* The path still names the file that was opened and locked.
PathIsOurs == holder.bound

Ready == holder.role = "store" /\ holder.stage = "ready" /\ PathIsOurs

Namespace == journal.log[1].frame.context

AppendRecord(r) ==
  /\ Len(journal.log) < MaxRecords
  /\ holder' = [holder EXCEPT !.stage = "write", !.pending = <<r>>]
  /\ UNCHANGED <<kind, journal, ack, wire, admitted, faults>>

AdmitFrame(f) ==
  /\ Ready /\ kind = "frames" /\ FrameValid(f)
  /\ InContext(Namespace, f) /\ NextFrame(journal.log, f)
  /\ AppendRecord(Record(Len(journal.log), f))

BodyFits(f, b) == b.length = f.length /\ b.length <= MaxPayload

AdmitBody(f, b) ==
  /\ Ready /\ kind = "bodies" /\ FrameValid(f)
  /\ InContext(Namespace, f) /\ BodyFits(f, b)
  /\ NewBody(journal.log, f) /\ AppendRecord(BodyRecord(Len(journal.log), f, b))

Chain(i) == SubSeq(journal.log, 1, i)

RepeatBody(i) ==
  /\ Ready /\ kind = "bodies" /\ i \in 2 .. Len(journal.log)
  /\ admitted' = admitted \cup {Chain(i)}
  /\ UNCHANGED <<kind, journal, holder, ack, wire, faults>>

\* lookup_exact
LookupExact(f) ==
  LET at == {i \in 2 .. Len(journal.log) : journal.log[i].frame = f}
      slot == {i \in 2 .. Len(journal.log) :
                 /\ journal.log[i].frame.peer = f.peer
                 /\ journal.log[i].frame.generation = f.generation
                 /\ journal.log[i].frame.sequence = f.sequence}
  IN  CASE at # {} -> Chain(CHOOSE i \in at : TRUE)
        [] at = {} /\ slot # {} -> "Replay"
        [] OTHER -> Absent

\* read_body_record
ReadsBack(i) == BodyReads(Namespace, journal.log, i)

\* resolve: the record at the receipt's key must be the receipt's
Resolves(receipt) ==
  \E i \in 2 .. Len(journal.log) :
    Key(journal.log[i]) = Key(Last(receipt)) /\ Chain(i) = receipt /\ ReadsBack(i)

\* The log as the descriptor of the holder reads it
OwnLog == IF holder.orphan THEN journal.log \o holder.pending ELSE journal.log

CheckedBeforeWrite == kind = "frames" => PathIsOurs

WriteRecord ==
  /\ holder.stage = "write" /\ CheckedBeforeWrite
  /\ journal' = [journal EXCEPT !.log = IF holder.bound THEN @ \o holder.pending ELSE @]
  /\ holder' = [holder EXCEPT !.stage = "written", !.orphan = ~holder.bound]
  /\ UNCHANGED <<kind, ack, wire, admitted, faults>>

PublishUnsynced == UNCHANGED journal

SyncFiles ==
  journal' = [journal EXCEPT !.kept = IF holder.orphan THEN @ ELSE Len(journal.log),
                             !.keptHead = journal.head]

SyncRecord ==
  /\ holder.stage = "written"
  /\ SyncFiles
  /\ holder' = [holder EXCEPT !.stage = "synced"]
  /\ UNCHANGED <<kind, ack, wire, admitted, faults>>

(* persist_head, of the store and of the recovery owner alike. *)
HeadTemporary ==
  /\ holder.stage = "synced"
  /\ journal' = [journal EXCEPT !.temps = @ + 1]
  /\ holder' = [holder EXCEPT !.stage = "temporary"]
  /\ UNCHANGED <<kind, ack, wire, admitted, faults>>

RenameHead ==
  /\ holder.stage = "temporary"
  /\ journal' = [journal EXCEPT !.temps = @ - 1, !.head = HeadOf(OwnLog)]
  /\ holder' = [holder EXCEPT !.stage = "renamed"]
  /\ UNCHANGED <<kind, ack, wire, admitted, faults>>

AnyPath == TRUE

\* verify_bound_paths after the head is published
StillBound == PathIsOurs

SyncDirectory ==
  /\ holder.stage = "renamed"
  /\ journal' = [journal EXCEPT !.keptHead = journal.head]
  /\ holder' = [holder EXCEPT !.stage = CASE holder.role # "store" -> "quarantine"
                                          [] ~StillBound -> "poisoned"
                                          [] OTHER -> "ready",
                              !.pending = <<>>, !.orphan = FALSE]
  /\ admitted' = IF holder.role = "store" /\ StillBound /\ Len(OwnLog) > 1
                 THEN admitted \cup {OwnLog} ELSE admitted
  /\ UNCHANGED <<kind, ack, wire, faults>>

\* The path no longer names the file the process opened: it fails closed.
FindsPathReplaced ==
  /\ ~PathIsOurs
  /\ \/ holder.stage \in {"ready", "owner"}
     \/ holder.stage = "write" /\ ~CheckedBeforeWrite
  /\ holder' = [holder EXCEPT !.stage = "poisoned", !.pending = <<>>]
  /\ UNCHANGED <<kind, journal, ack, wire, admitted, faults>>
-----------------------------------------------------------------------------
(***************************************************************************)
(* The recovery owner takes both locks and reads the journal once; the     *)
(* target must be the record it says it is.                                *)
(***************************************************************************)
Recovering == holder.role \in {"cli", "daemon"}

\* verify_frame_record
VerifiesFrame(log, i) ==
  LET f == log[i].frame
      mine == OfPeer(SubSeq(log, 1, i - 1), f.peer)
  IN  /\ f.peer \notin {Zero, Local} /\ FrameValid(f)
      /\ IF mine = <<>> THEN f.generation = 1 /\ f.sequence = 0
         ELSE LET last == Last(mine).frame IN
              \/ /\ f.generation = last.generation /\ f.session = last.session
                 /\ f.sequence = last.sequence + 1
              \/ /\ f.generation = last.generation + 1 /\ f.sequence = 0
                 /\ \A k \in DOMAIN mine : mine[k].frame.session # f.session

\* verify_log
OwnerVerifies(n, log) ==
  \A i \in DOMAIN log :
    /\ log[i].index = i - 1 /\ log[i].frame.context = n
    /\ IF i = 1 THEN log[i] = Genesis(n) ELSE VerifiesFrame(log, i)

\* read_snapshot, read_head_with_identity
SnapshotVerifies ==
  /\ Created /\ LogComplete(journal.log)
  /\ OwnerVerifies(journal.namespace, journal.log) /\ HeadReads(journal.namespace)

\* PayloadReplayRecoveryTargetV1::from_admission
Target(i, f) == [index |-> i, frame |-> f, hash |-> Chain(i + 1)]

TargetValid(t) == t.index # 0 /\ t.hash # <<>> /\ FrameValid(t.frame)

MatchesTarget(t) ==
  /\ t.index < Len(journal.log)
  /\ LET r == journal.log[t.index + 1] IN r.index = t.index /\ r.frame = t.frame
  /\ Chain(t.index + 1) = t.hash

\* validate_cli_path, and the distinctness of the owner's paths
AckRootValid(p) == p \notin {"relative", "payload", "head", "lock"}

OpenOwner(role, t, root, r) ==
  /\ Unlocked /\ kind = "frames" /\ AckRootValid(root)
  /\ TargetValid(t) /\ SnapshotVerifies /\ MatchesTarget(t)
  /\ ack.target \in {NoTarget, t}
  /\ holder' = [NoHolder EXCEPT !.role = role, !.stage = "owner", !.target = t, !.asked = r]
  /\ ack' = [ack EXCEPT !.target = t]
  /\ UNCHANGED <<kind, wire, admitted, faults>>

\* PayloadReplayCoreAcknowledgementV1::new
AckValid(v) == v # Zero

\* run_with_format: one operation, then the program ends
RunCli(t, root, r) ==
  /\ r.op = "ack" => AckValid(r.value)
  /\ OpenOwner("cli", t, root, r) /\ UNCHANGED journal

\* validate_socket_configuration, validate_socket_path
SocketPathValid(p, root) == p \notin {"relative", "payload", "head", "lock", root}

\* A socket that a dead daemon left behind is refused.
RunDaemon(t, root, p) ==
  /\ SocketPathValid(p, root) /\ ~journal.socket
  /\ OpenOwner("daemon", t, root, NoRequest)
  /\ journal' = [journal EXCEPT !.socket = TRUE]

\* An operator removes the socket of a daemon that was killed.
RemoveSocket ==
  /\ journal.socket /\ Unlocked
  /\ journal' = [journal EXCEPT !.socket = FALSE]
  /\ UNCHANGED <<kind, holder, ack, wire, admitted, faults>>
-----------------------------------------------------------------------------
(***************************************************************************)
(* What the owner finds, and what it may answer.                           *)
(***************************************************************************)
\* A head that lags by the one record that is the target
OneRecordLag ==
  /\ holder.target.index + 1 = Len(journal.log)
  /\ journal.head.count = holder.target.index
  /\ journal.head.hash = Front(journal.log)

Classify ==
  CASE HeadMatches /\ NoStaleTemps -> "durable"
    [] HeadMatches /\ ~NoStaleTemps -> "residual"
    [] ~HeadMatches /\ OneRecordLag -> "head_lag"
    [] OTHER -> "diverged"

AnyPublication == TRUE

Published == Classify = "durable"

\* encode_ack
AckFacts(t, v) == [index |-> t.index, hash |-> t.hash, value |-> v]

\* AckFactsV1::matches, over what read_ack decodes
AckIs(v) == ack.link = <<AckFacts(holder.target, v)>>

\* scan_ack_temporaries
AckFree == ~ack.temp

Status ==
  CASE Classify = "head_lag" -> "RecoverableHeadLag"
    [] Classify = "residual" -> "RecoverableResidualTemporaries"
    [] Classify = "durable" /\ ack.link = Absent -> "AdmittedUnacknowledged"
    [] Classify = "durable" /\ ack.link # Absent -> "CoreAcknowledged"
    [] OTHER -> "PayloadHeadDiverged"

(* The request of a daemon is a frame on its socket: of its own user, with *)
(* the magic, a version and a kind it knows, and the body of that kind.    *)
EncodeRequest(r) == [user |-> "self", magic |-> TRUE, kind |-> r.op, body |-> r.value]

Authorized(f) == f.user = "self"

ReadsRequest(f) ==
  /\ f.magic /\ f.kind \in {"status", "recover", "ack"}
  /\ IF f.kind = "ack" THEN AckValid(f.body) ELSE f.body = Zero

Readable(f) == Authorized(f) /\ ReadsRequest(f)

Request ==
  IF holder.role = "cli" THEN holder.asked
  ELSE IF wire.frame # Absent /\ Readable(wire.frame[1])
       THEN [op |-> wire.frame[1].kind, value |-> wire.frame[1].body]
       ELSE NoRequest

Serving(ops) == Recovering /\ holder.stage = "owner" /\ holder.bound /\ Request.op \in ops

\* Why an operation fails, before it changes anything
Error ==
  CASE Classify = "diverged" -> "PayloadHeadDiverged"
    [] Request.op = "ack" /\ ~Published -> "RecoveryRequired"
    [] Classify = "durable" /\ ~AckFree -> "AckCommitAmbiguous"
    [] Request.op = "ack" /\ ack.link # Absent /\ ~AckIs(Request.value) -> "AckConflict"
    [] OTHER -> "none"

\* recovery_error_is_fatal
Fatal(e) == e \notin {"RecoveryRequired", "AckConflict"}

\* The answer: the receipt of an acknowledgement, or the projection of the
\* status, which carries the digest of what it states.
Project(t, s) == [target |-> t, status |-> s, truth |-> "witness", digest |-> <<t, s, "witness">>]

Response ==
  [op |-> Request.op, pinned |-> holder.pinned,
   projection |-> Project(holder.target, Status), receipt |-> ack.link]

\* PayloadReplayRecoveryStatusProjectionV1::from_canonical_bytes
ProjectionReads(p) ==
  /\ TargetValid(p.target) /\ p.truth = "witness"
  /\ p.digest = <<p.target, p.status, p.truth>>

\* read_recovery_response: of the daemon that was pinned, for this target
ClientTakes(a) ==
  /\ wire.waiting /\ (wire.pin => a.pinned)
  /\ a.op # "ack" => ProjectionReads(a.projection) /\ a.projection.target = holder.target

Tells(a) ==
  IF a.op = "ack" \/ a.projection.status = "CoreAcknowledged" THEN a.receipt ELSE ack.answered

\* The end of an operation: the program ends, or the daemon waits for the
\* next connection; a client may pin the daemon that answered it.
Answer ==
  LET a == Response IN
  \/ /\ holder.role = "cli"
     /\ ack' = [ack EXCEPT !.answered = Tells(a)]
     /\ holder' = NoHolder /\ UNCHANGED wire
  \/ /\ holder.role = "daemon"
     /\ ack' = [ack EXCEPT !.answered = IF ClientTakes(a) THEN Tells(a) ELSE @]
     /\ \E pin \in {wire.pin, wire.pin \/ ClientTakes(a)} :
          /\ wire' = [frame |-> Absent, waiting |-> FALSE, pin |-> pin]
          /\ holder' = [holder EXCEPT !.stage = "owner", !.pending = <<>>,
                                      !.pinned = @ \/ (pin /\ ~wire.pin)]

AnswerStatus ==
  /\ Serving({"status", "recover"}) /\ Error = "none"
  /\ Request.op = "recover" => Published
  /\ Answer
  /\ UNCHANGED <<kind, journal, admitted, faults>>

\* An error ends the program.  A daemon answers it, and ends when it is its own.
Refuse ==
  /\ Serving({"status", "recover", "ack"}) /\ Error # "none"
  /\ IF holder.role = "cli" \/ Fatal(Error)
     THEN /\ holder' = NoHolder
          /\ journal' = [journal EXCEPT !.socket = @ /\ holder.role # "daemon"]
     ELSE UNCHANGED <<holder, journal>>
  /\ wire' = [wire EXCEPT !.frame = Absent, !.waiting = FALSE]
  /\ UNCHANGED <<kind, ack, admitted, faults>>

\* A connection whose request cannot be read is the client's fault only.
DropConnection ==
  /\ holder.role = "daemon" /\ holder.stage = "owner"
  /\ wire.frame # Absent /\ ~Readable(wire.frame[1])
  /\ wire' = [wire EXCEPT !.frame = Absent, !.waiting = FALSE]
  /\ UNCHANGED <<kind, journal, holder, ack, admitted, faults>>

ClientSends(f) ==
  /\ holder.role = "daemon" /\ holder.stage = "owner" /\ wire.frame = Absent
  /\ wire' = [wire EXCEPT !.frame = <<f>>, !.waiting = TRUE]
  /\ UNCHANGED <<kind, journal, holder, ack, admitted, faults>>

\* The client's deadline ends its wait, not the operation.
ClientGone ==
  /\ wire.waiting
  /\ wire' = [wire EXCEPT !.waiting = FALSE]
  /\ UNCHANGED <<kind, journal, holder, ack, admitted, faults>>
-----------------------------------------------------------------------------
(***************************************************************************)
(* recover publishes the tip and sets leftover temporaries aside, then     *)
(* answers the status.                                                     *)
(***************************************************************************)
Recover ==
  /\ Serving({"recover"})
  /\ \/ Classify = "head_lag" /\ holder' = [holder EXCEPT !.stage = "synced"]
     \/ Classify = "residual" /\ holder' = [holder EXCEPT !.stage = "quarantine"]
  /\ UNCHANGED <<kind, journal, ack, wire, admitted, faults>>

Quarantine ==
  /\ holder.stage = "quarantine"
  /\ journal' = [journal EXCEPT !.temps = 0]
  /\ holder' = [holder EXCEPT !.stage = "owner"]
  /\ UNCHANGED <<kind, ack, wire, admitted, faults>>

(***************************************************************************)
(* acknowledge_core: the record must be published and no temporary of an   *)
(* earlier acknowledgement may be left.  The same acknowledgement again is *)
(* answered as before, another one is refused.                             *)
(***************************************************************************)
WriteAck ==
  /\ Serving({"ack"}) /\ Error = "none" /\ ack.link = Absent
  /\ ack' = [ack EXCEPT !.temp = TRUE]
  /\ holder' = [holder EXCEPT !.stage = "ack_temporary",
                              !.pending = <<AckFacts(holder.target, Request.value)>>]
  /\ UNCHANGED <<kind, journal, wire, admitted, faults>>

LinkAck ==
  /\ holder.stage = "ack_temporary"
  /\ ack' = [ack EXCEPT !.link = holder.pending]
  /\ holder' = [holder EXCEPT !.stage = "ack_linked"]
  /\ UNCHANGED <<kind, journal, wire, admitted, faults>>

SyncAck ==
  /\ holder.stage = "ack_linked"
  /\ ack' = [ack EXCEPT !.kept = TRUE]
  /\ holder' = [holder EXCEPT !.stage = "ack_kept"]
  /\ UNCHANGED <<kind, journal, wire, admitted, faults>>

UnlinkAck ==
  /\ holder.stage = "ack_kept"
  /\ ack' = [ack EXCEPT !.temp = FALSE]
  /\ holder' = [holder EXCEPT !.stage = "ack_unlinked"]
  /\ UNCHANGED <<kind, journal, wire, admitted, faults>>

\* The paths and the head are checked again, and the link is read back.
AnswerAck ==
  /\ holder.stage = "ack_unlinked"
  /\ IF holder.bound /\ Published /\ AckIs(Request.value)
     THEN Answer ELSE holder' = [holder EXCEPT !.stage = "poisoned"] /\ UNCHANGED <<ack, wire>>
  /\ UNCHANGED <<kind, journal, admitted, faults>>

RepeatAck ==
  /\ Serving({"ack"}) /\ Error = "none" /\ ack.link # Absent
  /\ Answer
  /\ UNCHANGED <<kind, journal, admitted, faults>>
-----------------------------------------------------------------------------
(***************************************************************************)
(* The end of a process.  It closes its files, or dies; a failing write    *)
(* may leave part of a record.  A store that failed answers                *)
(* CommitAmbiguous and nothing but Poisoned until it is closed; a daemon   *)
(* that met an error of the owner removes its socket and ends.             *)
(***************************************************************************)
WireDown == wire' = [wire EXCEPT !.frame = Absent, !.waiting = FALSE]

Close ==
  /\ holder.stage \in {"ready", "poisoned"}
  /\ holder' = NoHolder /\ WireDown
  /\ journal' = [journal EXCEPT !.socket = @ /\ holder.role # "daemon"]
  /\ UNCHANGED <<kind, ack, admitted, faults>>

Fault == faults < MaxFaults /\ faults' = faults + 1

TornWrite(partial) ==
  journal' = [journal EXCEPT !.torn = @ \/ (partial /\ holder.stage = "write" /\ holder.bound)]

OperationFails ==
  /\ ~Unlocked /\ holder.stage \notin {"ready", "owner", "poisoned"} /\ Fault
  /\ \E partial \in BOOLEAN : TornWrite(partial)
  /\ holder' = [holder EXCEPT !.stage = "poisoned", !.pending = <<>>, !.orphan = FALSE]
  /\ UNCHANGED <<kind, ack, wire, admitted>>

ProcessDies ==
  /\ ~Unlocked /\ Fault /\ WireDown
  /\ \E partial \in BOOLEAN : TornWrite(partial)
  /\ holder' = NoHolder
  /\ UNCHANGED <<kind, ack, admitted>>

\* The path of the log is given to a synced copy of it.
PathReplaced ==
  /\ ~Unlocked /\ holder.bound /\ Created /\ Fault
  /\ journal' = [journal EXCEPT !.kept = Len(journal.log), !.copied = TRUE]
  /\ holder' = [holder EXCEPT !.bound = FALSE]
  /\ UNCHANGED <<kind, ack, wire, admitted>>

(***************************************************************************)
(* A power loss keeps what was synced; what was not may be there, in part  *)
(* or not at all, in whatever order it was written.                        *)
(***************************************************************************)
PowerLoss ==
  /\ Created /\ Fault /\ WireDown
  /\ \E n \in journal.kept .. Len(journal.log), partial \in BOOLEAN,
        h \in {journal.head, journal.keptHead}, t \in 0 .. journal.temps :
       journal' = [journal EXCEPT
         !.log = SubSeq(@, 1, n), !.kept = n,
         !.torn = @ \/ (partial /\ (n < Len(journal.log) \/ holder.stage = "write")),
         !.head = h, !.keptHead = h, !.temps = t, !.lost = TRUE]
  /\ \E temp \in IF ack.kept /\ ack.temp THEN {TRUE}
                  ELSE {FALSE, ack.temp \/ holder.stage = "ack_unlinked"},
        there \in {ack.kept, ack.link # Absent} :
       ack' = [ack EXCEPT !.temp = temp, !.kept = there,
                          !.link = IF there THEN @ ELSE Absent]
  /\ holder' = NoHolder
  /\ UNCHANGED <<kind, admitted>>

Targets == {Target(i, f) : i \in 0 .. Len(journal.log) - 1, f \in Offered}

ReplayNext ==
  \/ \E n \in Namespaces : CreateJournal(n)
  \/ \E n \in Namespaces : OpenJournal(n)
  \/ \E n \in Namespaces : OpenBodies(n)
  \/ \E f \in Offered : AdmitFrame(f)
  \/ \E f \in Offered, b \in Bodies : AdmitBody(f, b)
  \/ \E i \in 2 .. MaxRecords : RepeatBody(i)
  \/ WriteRecord
  \/ SyncRecord
  \/ HeadTemporary
  \/ RenameHead
  \/ SyncDirectory
  \/ FindsPathReplaced
  \/ Unlocked /\ \E t \in Targets, root \in AckRoots, r \in Requests : RunCli(t, root, r)
  \/ Unlocked /\ \E t \in Targets, root \in AckRoots, p \in SocketPaths : RunDaemon(t, root, p)
  \/ RemoveSocket
  \/ AnswerStatus
  \/ Refuse
  \/ DropConnection
  \/ \E f \in Frames \cup {EncodeRequest(r) : r \in Requests} : ClientSends(f)
  \/ ClientGone
  \/ Recover
  \/ Quarantine
  \/ WriteAck
  \/ LinkAck
  \/ SyncAck
  \/ UnlinkAck
  \/ AnswerAck
  \/ RepeatAck
  \/ Close
  \/ OperationFails
  \/ ProcessDies
  \/ PathReplaced
  \/ PowerLoss

ReplaySpec == ReplayInit /\ [][ReplayNext]_replayVars
-----------------------------------------------------------------------------
(* A receipt that admit answered stays true: whatever dies, loses power or *)
(* is given another path afterwards, the record is at its index of the     *)
(* log, no other frame is ever admitted at its place in the peer's         *)
(* sequence, and an open store finds it again (lookup_exact, resolve).     *)
ReceiptsStand ==
  /\ \A r \in admitted : IsPrefix(r, journal.log)
  /\ \A i, j \in DOMAIN journal.log :
       i # j => Key(journal.log[i]) # Key(journal.log[j])
  /\ Ready => \A r \in admitted :
       IF kind = "bodies" THEN Resolves(r) ELSE LookupExact(Last(r).frame) = r

(* A session of a peer belongs to one generation only, over restarts and   *)
(* recoveries too: a frame of an abandoned session is never admitted.      *)
SessionsNeverReturn ==
  kind = "frames" =>
    \A i, j \in DOMAIN journal.log :
      LET a == journal.log[i].frame
          b == journal.log[j].frame
      IN  (a.peer = b.peer /\ a.session = b.session) => a.generation = b.generation

(* Processes that die, and operations that fail, at any step leave the     *)
(* head at the tip or at the record before it: recovery with the right     *)
(* target always finds the one-record lag it can repair.  (A power loss    *)
(* need not: recovery does not sync the log, and a store that reopens does *)
(* not sync a head renamed by the one before it.  Nor need a store whose   *)
(* path was given to a copy: its last record stays in the old file.)  The  *)
(* store and the owner read a log with code of their own, and both accept  *)
(* every log the store wrote.                                              *)
PublicationRecoverable ==
  (journal.head # NoHead /\ ~journal.torn /\ ~journal.copied) =>
    /\ LogReplays(journal.namespace, journal.log)
    /\ kind = "frames" => OwnerVerifies(journal.namespace, journal.log)
    /\ ~journal.lost =>
         journal.head.hash \in {journal.log, Front(journal.log)}

(* An acknowledgement exists only for a record that was published, and     *)
(* what a client was told of it, by whichever daemon or program, is what   *)
(* the ledger holds over every fault: acknowledge_core is write-once.  No  *)
(* later owner of the target reports it as unacknowledged.                 *)
AcknowledgedIsPublished ==
  /\ ack.answered # Absent => ack.kept /\ ack.link = ack.answered
  /\ (ack.link # Absent /\ ~journal.lost) => ack.target.index < journal.head.count
  /\ (ack.answered # Absent /\ ~journal.lost /\ holder.stage = "owner") =>
        Status # "AdmittedUnacknowledged"
=============================================================================
