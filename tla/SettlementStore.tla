-------------------------- MODULE SettlementStore ---------------------------
(***************************************************************************)
(* trnm-service-settlement/src/store.rs: the SQLite store of one escrow.   *)
(* Callers in separate processes execute commands and empty blocks, each   *)
(* from a head read before its write transaction, and preview candidate    *)
(* blocks without writing.  A caller may crash between any two steps and   *)
(* repeat its call.                                                        *)
(*                                                                         *)
(* Roots, checksums and operation identities are the values they commit    *)
(* to: a root of the journal through n is the prefix of n operations, the  *)
(* identity of an operation is its command.  `fenced' is written only by   *)
(* the fault injection of the tests, and is left out.                      *)
(***************************************************************************)
EXTENDS SettlementKernel, FiniteSets

CONSTANTS Caller,         \* processes that execute
          CommandBlock,   \* blocks in which a caller executes commands
          EmptyBlock,     \* blocks a caller advances over without commands
          PreviewBlock,   \* candidate blocks that are previewed
          Bundle,         \* the trust bundle of each configuration
          Creating,       \* the configurations callers pass to open
          Reopening,      \* and to open_existing
          Submitted,      \* the receipts that callers submit
          MaxPreview,     \* commands in a previewed batch
          MaxActive       \* calls and previews in progress at a time

\* A store file has a configuration of its own; no caller's is named like
\* the two markers of a file without tables.
ASSUME StoreAssumption ==
  /\ {"absent", "blank", "none"} \cap (Creating \cup Reopening) = {}
  /\ CommandBlock \subseteq Block /\ EmptyBlock \subseteq Block /\ PreviewBlock \subseteq Block
  /\ MaxPreview \in Nat

VARIABLES db,       \* committed tables: operations, committed_blocks, metadata
          writer,   \* the caller inside its write transaction, if any
          hot,      \* a crashed writer left its rollback journal
          call,     \* each caller's execute or advance_empty in progress
          acked,    \* requests whose receipt was returned to a caller
          preview   \* the one preview_before_vote_v1 in progress

storeVars == <<db, writer, hot, call, acked, preview>>

E == INSTANCE SettlementEngine WITH kernel <- db.meta.kernel, tip <- db.meta.tip

\* ConsumptionCommittedExecutionContextV1 and the command it is for.
Request(b, e, c) == [block |-> b, expected |-> e, command |-> c]
Empty == [kind |-> "empty"]
NoRequest == [kind |-> "none"]
Closed == [pc |-> "closed", request |-> NoRequest, head |-> NoRequest, config |-> "none"]
Idle(config) == [Closed EXCEPT !.pc = "idle", !.config = config]
NoPreview == [pc |-> "idle", source |-> NoRequest, block |-> GenesisBlock,
              commands |-> <<>>, state |-> InitialKernel]
-----------------------------------------------------------------------------
(***************************************************************************)
(* The rows of the three tables.                                           *)
(***************************************************************************)
\* write_metadata
Metadata(config, sequence, tip, kernel, journal) ==
  [config |-> config, sequence |-> sequence, tip |-> tip, kernel |-> kernel,
   journal |-> journal]

\* load_metadata: the row is bound to the caller's configuration.
LoadMetadata(d, config) == d.meta.config = config

\* ConsumptionTransitionReceiptV1
TransitionReceipt(n, r, post) ==
  [sequence |-> n, command |-> r.command, block |-> r.block, post |-> post]

\* insert_operation
InsertOperation(d, r, post) ==
  Append(d.ops, [request |-> r, receipt |-> TransitionReceipt(Len(d.ops) + 1, r, post)])

\* load_operation: the row of an operation, and that it is one.
LoadOperation(d, c) ==
  {i \in DOMAIN d.ops : /\ d.ops[i].request.command = c
                        /\ d.ops[i].receipt.command = c /\ d.ops[i].receipt.sequence = i}

\* operation_journal_root_through: the receipts, by what identifies them
JournalRoot(d, n) == [i \in 1 .. n |-> <<d.ops[i].receipt.command, d.ops[i].receipt.block>>]

\* insert_committed_block_marker
Marker(n, b, parent, source, target) ==
  [sequence |-> n, block |-> b, parent |-> parent, source |-> source, target |-> target]

\* What a marker says of one end of its operations: how many there are, the
\* state and the journal's root.
Position(n, state, root) == [count |-> n, state |-> state, root |-> root]
HeadOf(d) == Position(d.meta.sequence, d.meta.kernel, d.meta.journal)

\* insert_anchor_committed_block_marker
Anchor == LET start == Position(0, InitialKernel, <<>>)
          IN  Marker(0, GenesisBlock, GenesisBlock, start, start)

\* load_committed_block_markers, sorted
LastMarker(d) == d.markers[Len(d.markers)]

\* committed_block_journal_root
CommittedBlockRoot(d) == <<Len(d.markers), LastMarker(d).block, LastMarker(d).target.count>>

\* fresh_readback
Readback(d) == [meta |-> d.meta, blocks |-> CommittedBlockRoot(d)]

\* The file does not exist; it exists and has no tables; open's new store.
NoStore(config) ==
  [meta |-> Metadata(config, 0, GenesisBlock, InitialKernel, <<>>), ops |-> <<>>, markers |-> <<>>]
Absent == NoStore("absent")
Blank == NoStore("blank")
FreshStore(config) == [NoStore(config) EXCEPT !.markers = <<Anchor>>]

\* require_existing_regular_store
Exists(d) == d.meta.config # "absent"

\* verify_schema
HasSchema(d) == d.meta.config \notin {"absent", "blank"}
-----------------------------------------------------------------------------
(***************************************************************************)
(* The state after each prefix of the operations, by deterministic replay. *)
(***************************************************************************)
ReplayStates(ops) ==
  LET after[n \in 0 .. Len(ops)] ==
        IF n = 0 THEN InitialKernel
        ELSE ApplyTransition(after[n - 1], HeightOf[ops[n].block], ops[n].command)
  IN  after

\* The first operation of a marker was executed from the marker's parent,
\* the others from the marker's own block.
ExpectedParent(m, n) == IF n = m.source.count + 1 THEN m.parent ELSE m.block

\* audit_committed_block_journal
MarkerSucceeds(m, p) ==
  /\ m.sequence = p.sequence + 1
  /\ HeightOf[m.block] = HeightOf[p.block] + 1 /\ m.block # p.block
  /\ m.parent = p.block /\ m.source = p.target

MarkerCovers(d, m) ==
  /\ m.source.count <= m.target.count /\ m.target.count <= Len(d.ops)
  /\ m.source.root = JournalRoot(d, m.source.count)
  /\ m.target.root = JournalRoot(d, m.target.count)
  /\ \A n \in m.source.count + 1 .. m.target.count :
       /\ d.ops[n].request.expected = ExpectedParent(m, n)
       /\ d.ops[n].request.block = m.block /\ d.ops[n].receipt.block = m.block
  /\ m.target.state = IF m.source.count = m.target.count THEN m.source.state
                      ELSE d.ops[m.target.count].receipt.post

AuditMarkers(d) ==
  /\ d.markers # <<>>
  /\ [d.markers[1] EXCEPT !.target = Anchor.target] = Anchor
  /\ \A i \in 1 .. Len(d.markers) :
       /\ i > 1 => MarkerSucceeds(d.markers[i], d.markers[i - 1])
       /\ MarkerCovers(d, d.markers[i])
  /\ LastMarker(d).block = d.meta.tip /\ LastMarker(d).target = HeadOf(d)
  /\ Len(d.ops) = d.meta.sequence

\* audit: every operation is accepted where it stands, its receipt is that
\* of the replay, and the replay leads to the stored state; then the block
\* journal.
Audit(d) ==
  LET ops == [n \in 1 .. Len(d.ops) |-> d.ops[n].request]
      after == ReplayStates(ops)
  IN  /\ d.meta.journal = JournalRoot(d, Len(d.ops))
      /\ \A n \in 1 .. Len(d.ops) :
           /\ Accepted(after[n - 1], HeightOf[ops[n].block], ops[n].command)
           /\ d.ops[n].receipt = TransitionReceipt(n, ops[n], after[n])
      /\ after[Len(d.ops)] = d.meta.kernel
      /\ AuditMarkers(d)

StoreInit ==
  /\ db = Absent /\ writer = {} /\ hot = FALSE
  /\ call = [p \in Caller |-> Closed] /\ acked = {} /\ preview = NoPreview

\* What reject_sidecars finds: SQLite keeps a rollback journal beside the
\* file while a transaction writes, and a crash there leaves it.
Sidecar == writer # {} \/ hot

\* reject_sidecars, open_ro, verify_schema, audit.
Readable == ~Sidecar /\ HasSchema(db) /\ Audit(db)
-----------------------------------------------------------------------------
(***************************************************************************)
(* open and open_existing.                                                 *)
(***************************************************************************)
\* validate_trust_bundle
TrustBundleValid(t) ==
  /\ t.chain # "" /\ t.provider # t.consumer
  /\ Cardinality(Range(t.accounts)) = Len(t.accounts)
  /\ t.funding # 0 /\ t.window # 0
  /\ t.fee.denominator # 0 /\ t.fee.numerator <= t.fee.denominator
  /\ t.prices # {} /\ \A price \in t.prices : price.resource # "" /\ price.unit # 0
  /\ t.certificates # {}

\* A store that is there must read back under the caller's configuration.
OpensAs(config) == LoadMetadata(db, config) /\ Readable

Open(p, config) ==
  /\ call[p].pc = "closed" /\ TrustBundleValid(Bundle[config]) /\ ~Sidecar
  /\ IF Exists(db)
     THEN /\ OpensAs(config)
          /\ call' = [call EXCEPT ![p] = Idle(config)]
          /\ UNCHANGED db
     ELSE /\ db' = Blank
          /\ call' = [call EXCEPT ![p] = [Closed EXCEPT !.pc = "create", !.config = config]]
  /\ UNCHANGED <<writer, hot, acked, preview>>

OpenExisting(p, config) ==
  /\ call[p].pc = "closed" /\ TrustBundleValid(Bundle[config])
  /\ Exists(db) /\ OpensAs(config)
  /\ call' = [call EXCEPT ![p] = Idle(config)]
  /\ UNCHANGED <<db, writer, hot, acked, preview>>

\* The transaction that creates the tables fails where they exist.
CreateTables(p) ==
  /\ call[p].pc = "create"
  /\ IF HasSchema(db) THEN call' = [call EXCEPT ![p] = Closed] /\ UNCHANGED db
     ELSE /\ db' = FreshStore(call[p].config)
          /\ call' = [call EXCEPT ![p] = Idle(call[p].config)]
  /\ UNCHANGED <<writer, hot, acked, preview>>
-----------------------------------------------------------------------------
\* validate_execution_static
StaticallyValid(r) ==
  /\ HeightOf[r.block] >= HeightOf[r.expected]
  /\ HeightOf[r.block] = HeightOf[r.expected] => r.block = r.expected

\* The commands the signers can have agreed on in state k that are submitted.
Proposed(k, b) ==
  {c \in E!Commands(k, HeightOf[b]) : c.kind = "receipt" => c.receipt \in Submitted}

\* A command the signers just agreed on, or one that is being repeated.
CommandsFor(b) ==
  Proposed(db.meta.kernel, b)
  \cup {db.ops[i].request.command : i \in DOMAIN db.ops}

Requests ==
  (UNION {{Request(b, e, c) : e \in Block, c \in CommandsFor(b)} : b \in CommandBlock})
  \cup {Request(b, e, Empty) : b \in EmptyBlock, e \in Block}

Active == Cardinality({p \in Caller : call[p].pc \notin {"closed", "create", "idle"}})
            + IF preview.pc = "idle" THEN 0 ELSE 1

Goto(p, pc) == call' = [call EXCEPT ![p].pc = pc]
Return(p) == call' = [call EXCEPT ![p] = Idle(call[p].config)]

(***************************************************************************)
(* execute_inner up to its writable connection; advance_empty up to its    *)
(* first readback, where a retry finds its target already there.           *)
(***************************************************************************)
Start(p, r) ==
  /\ Active < MaxActive /\ StaticallyValid(r)
  /\ r.command = Empty =>
       HeightOf[r.block] = HeightOf[r.expected] + 1 /\ db.meta.tip = r.expected
  /\ call' = [call EXCEPT ![p].pc = "head", ![p].request = r, ![p].head = Readback(db)]
  /\ UNCHANGED <<db, writer, hot, acked, preview>>

\* advance_empty returns at once when its target is the tip.
RetryEmpty(p, r) ==
  /\ r.command = Empty /\ StaticallyValid(r)
  /\ HeightOf[r.block] = HeightOf[r.expected] + 1 /\ db.meta.tip = r.block
  /\ acked' = acked \cup {r}
  /\ UNCHANGED <<db, writer, hot, call, preview>>

BeginCall(p) ==
  /\ call[p].pc = "idle" /\ Readable
  /\ \E r \in Requests : Start(p, r) \/ RetryEmpty(p, r)

\* The head the writable connection reads; opening it recovers a journal
\* that a crashed writer left.
ReadHead(p) ==
  /\ call[p].pc = "head"
  /\ hot' = FALSE
  /\ IF ~Audit(db) THEN Return(p)
     ELSE IF call[p].request.command = Empty THEN Goto(p, "begin")
     ELSE call' = [call EXCEPT ![p].head = Readback(db), ![p].pc = "lookup"]
  /\ UNCHANGED <<db, writer, acked, preview>>

Stored(d, r) == LoadOperation(d, r.command) # {}

\* Mutant: a stored operation answers for any execution context.
SameCommand(d, r) == Stored(d, r)

\* The stored bytes of the operation are those of the request.
SameBytes(d, r) == \E i \in LoadOperation(d, r.command) : d.ops[i].request = r

\* validate_execution_cas
ExpectsTip(r, d) == r.expected = d.meta.tip

\* Mutant: the expected tip is compared before the stored operation.
LookupAfterCas(p) ==
  LET r == call[p].request  head == call[p].head
  IN  /\ call[p].pc = "lookup"
      /\ IF ~ExpectsTip(r, head) THEN Return(p)
         ELSE IF Stored(db, r)
              THEN IF SameBytes(db, r) THEN Goto(p, "confirm") ELSE Return(p)
              ELSE IF Accepted(head.meta.kernel, HeightOf[r.block], r.command)
                   THEN Goto(p, "begin") ELSE Return(p)
      /\ UNCHANGED <<db, writer, hot, acked, preview>>

(***************************************************************************)
(* load_operation: a stored operation is confirmed again if its bytes are  *)
(* the same and a conflict otherwise; a new one needs the expected tip and *)
(* an accepted transition of the head that was read.                       *)
(***************************************************************************)
Lookup(p) ==
  LET r == call[p].request  head == call[p].head
  IN  /\ call[p].pc = "lookup"
      /\ IF Stored(db, r)
         THEN IF SameBytes(db, r) THEN Goto(p, "confirm") ELSE Return(p)
         ELSE IF /\ ExpectsTip(r, head)
                 /\ Accepted(head.meta.kernel, HeightOf[r.block], r.command)
              THEN Goto(p, "begin") ELSE Return(p)
      /\ UNCHANGED <<db, writer, hot, acked, preview>>
-----------------------------------------------------------------------------
\* advance_committed_block_marker: same block, or direct successor.
MarkerFollows(d, r) ==
  LET tail == LastMarker(d)
  IN  /\ tail.target = HeadOf(d) /\ r.expected = tail.block
      /\ r.block = tail.block \/ HeightOf[r.block] = HeightOf[tail.block] + 1

\* Mutant: a second operation of the block does not extend its marker.
AdvanceMarkerOnce(d, r, target) ==
  IF r.block = LastMarker(d).block THEN d.markers
  ELSE Append(d.markers, Marker(Len(d.markers), r.block, d.meta.tip, HeadOf(d), target))

AdvanceMarker(d, r, target) ==
  LET tail == LastMarker(d)
  IN  IF r.block = tail.block
      THEN [d.markers EXCEPT ![Len(d.markers)].target = target]
      ELSE Append(d.markers, Marker(tail.sequence + 1, r.block, tail.block, HeadOf(d), target))

\* Mutant: an execution trusts the head it read before the transaction.
BeginTrusting(p) ==
  LET r == call[p].request
  IN  /\ call[p].pc = "begin" /\ writer = {}
      /\ hot' = FALSE
      /\ IF (r.command = Empty => ExpectsTip(r, db)) /\ MarkerFollows(db, r)
         THEN writer' = {p} /\ Goto(p, "commit")
         ELSE Return(p) /\ UNCHANGED writer
      /\ UNCHANGED <<db, acked, preview>>

(***************************************************************************)
(* BEGIN IMMEDIATE and the second look at the head.  An execution compares *)
(* everything it read before; an empty block compares its expected tip.    *)
(***************************************************************************)
Begin(p) ==
  LET r == call[p].request
  IN  /\ call[p].pc = "begin" /\ writer = {}
      /\ hot' = FALSE
      /\ IF /\ IF r.command = Empty THEN ExpectsTip(r, db)
               ELSE db.meta = call[p].head.meta
            /\ MarkerFollows(db, r)
         THEN writer' = {p} /\ Goto(p, "commit")
         ELSE Return(p) /\ UNCHANGED writer
      /\ UNCHANGED <<db, acked, preview>>

\* Busy: BEGIN IMMEDIATE gives up after the busy timeout.
BeginBusy(p) ==
  /\ call[p].pc = "begin" /\ writer # {}
  /\ Return(p)
  /\ UNCHANGED <<db, writer, hot, acked, preview>>

\* insert_operation, advance_committed_block_marker, write_metadata, commit.
CommittedCommand(d, r) ==
  LET post == ApplyTransition(d.meta.kernel, HeightOf[r.block], r.command)
      n == [d EXCEPT !.ops = InsertOperation(d, r, post)]
      root == JournalRoot(n, Len(n.ops))
  IN  [n EXCEPT !.meta = Metadata(d.meta.config, Len(n.ops), r.block, post, root),
                !.markers = AdvanceMarker(d, r, Position(Len(n.ops), post, root))]

Committed(d, r) ==
  IF r.command = Empty
  THEN [d EXCEPT !.meta.tip = r.block, !.markers = AdvanceMarker(d, r, HeadOf(d))]
  ELSE CommittedCommand(d, r)

Commit(p) ==
  /\ call[p].pc = "commit"
  /\ db' = Committed(db, call[p].request)
  /\ writer' = {}
  /\ Goto(p, "confirm")
  /\ UNCHANGED <<hot, acked, preview>>

\* The readback that ends advance_empty shows its target.
ShowsTarget(before, now, r) ==
  /\ now.meta = [before.meta EXCEPT !.tip = r.block]
  /\ now.blocks # before.blocks

\* fresh_confirm: the receipt is returned only if the store reads back.
Confirm(p) ==
  LET r == call[p].request
  IN  /\ call[p].pc = "confirm"
      /\ acked' = IF Readable /\ (r.command = Empty =>
                       ShowsTarget(call[p].head, Readback(db), r))
                  THEN acked \cup {r} ELSE acked
      /\ Return(p)
      /\ UNCHANGED <<db, writer, hot, preview>>

Crash(p) ==
  /\ call[p].pc \notin {"closed", "idle"}
  /\ writer' = writer \ {p}
  /\ hot' = (hot \/ p \in writer)
  /\ call' = [call EXCEPT ![p] = Closed]
  /\ UNCHANGED <<db, acked, preview>>
-----------------------------------------------------------------------------
(***************************************************************************)
(* preview_before_vote_v1: readback, state, commands in memory against the *)
(* operations table, readback again.                                       *)
(***************************************************************************)
PreviewStart(b) ==
  /\ \/ preview.pc = "idle" /\ Active < MaxActive
     \/ preview.pc = "done"
  /\ HeightOf[b] = HeightOf[db.meta.tip] + 1 /\ Readable
  /\ preview' = [NoPreview EXCEPT !.pc = "state", !.source = Readback(db), !.block = b]
  /\ UNCHANGED <<db, writer, hot, call, acked>>

PreviewState ==
  /\ preview.pc = "state"
  /\ preview' = IF Readable THEN [preview EXCEPT !.pc = "apply", !.state = db.meta.kernel]
                ELSE NoPreview
  /\ UNCHANGED <<db, writer, hot, call, acked>>

PreviewApply(c) ==
  /\ preview.pc = "apply" /\ Len(preview.commands) < MaxPreview
  /\ preview' =
       IF /\ \A i \in DOMAIN preview.commands : preview.commands[i] # c
          /\ LoadOperation(db, c) = {}
          /\ Accepted(preview.state, HeightOf[preview.block], c)
       THEN [preview EXCEPT !.commands = Append(@, c),
               !.state = ApplyTransition(@, HeightOf[preview.block], c)]
       ELSE NoPreview
  /\ UNCHANGED <<db, writer, hot, call, acked>>

\* Mutant: the store is not read again after the commands.
PreviewUnchecked ==
  /\ preview.pc = "apply"
  /\ preview' = [preview EXCEPT !.pc = "done"]
  /\ UNCHANGED <<db, writer, hot, call, acked>>

PreviewEnd ==
  /\ preview.pc = "apply"
  /\ preview' = IF Readback(db) = preview.source /\ Readable
                THEN [preview EXCEPT !.pc = "done"] ELSE NoPreview
  /\ UNCHANGED <<db, writer, hot, call, acked>>
-----------------------------------------------------------------------------
Step(p) == \/ \E config \in Creating : Open(p, config)
           \/ \E config \in Reopening : OpenExisting(p, config)
           \/ CreateTables(p)
           \/ BeginCall(p) \/ ReadHead(p) \/ Lookup(p) \/ Begin(p) \/ BeginBusy(p)
           \/ Commit(p) \/ Confirm(p) \/ Crash(p)

PreviewStep == \/ \E b \in PreviewBlock : PreviewStart(b)
               \/ PreviewState
               \/ \E c \in Proposed(preview.state, preview.block) : PreviewApply(c)
               \/ PreviewEnd

StoreNext == (\E p \in Caller : Step(p)) \/ PreviewStep

StoreSpec == StoreInit /\ [][StoreNext]_storeVars
-----------------------------------------------------------------------------
StoreTypeOK ==
  /\ db.meta.kernel \in E!KernelType /\ db.meta.tip \in Block
  /\ DOMAIN db = {"ops", "meta", "markers"}
  /\ writer \subseteq Caller /\ hot \in BOOLEAN
  /\ \A p \in Caller :
       call[p].pc \in {"closed", "create", "idle", "head", "lookup", "begin", "commit", "confirm"}
  /\ preview.pc \in {"idle", "state", "apply", "done"}

(***************************************************************************)
(* Every store that callers can commit passes the audit that each later    *)
(* call, and every reopen, starts with: what execute_inner and             *)
(* advance_empty write is what audit accepts, operation by operation and   *)
(* marker by marker.                                                       *)
(***************************************************************************)
CommittedPassesAudit == HasSchema(db) => Audit(db)

(***************************************************************************)
(* A receipt is returned only for an operation that the journal holds      *)
(* under exactly the requested block and expected tip, and holds once,     *)
(* however often and by whomever it was retried, across forks and crashes. *)
(***************************************************************************)
AckedAsRequested ==
  \A r \in acked : r.command # Empty =>
    /\ \E i \in DOMAIN db.ops : db.ops[i].request = r
    /\ \A i, j \in DOMAIN db.ops :
         db.ops[i].request.command = r.command /\ db.ops[j].request.command = r.command => i = j

(***************************************************************************)
(* An acknowledgement that was lost can be had again: a call for an        *)
(* operation that is already stored under the same context reaches the     *)
(* confirmation, although its expected tip is no longer the tip.           *)
(***************************************************************************)
RetryResolves ==
  [][\A p \in Caller :
       Lookup(p) /\ SameBytes(db, call[p].request)
         => call'[p].pc = "confirm"]_storeVars

(***************************************************************************)
(* A finished preview is what committing its batch gives: its state is the *)
(* replay of the journal through its source sequence followed by its       *)
(* commands, whatever was committed while it ran or since.                 *)
(***************************************************************************)
PreviewIsCommit ==
  preview.pc = "done" =>
    LET batch == [i \in DOMAIN preview.commands |->
                    [block |-> preview.block, command |-> preview.commands[i]]]
        parent == [i \in 1 .. preview.source.meta.sequence |->
                     [block |-> db.ops[i].request.block, command |-> db.ops[i].request.command]]
        ops == parent \o batch
    IN  preview.state = ReplayStates(ops)[Len(ops)]

\* The store implements the engine: every commit is one accepted command or
\* one empty block on top of the tip, and nothing else changes it.
ImplementsEngine == E!Spec
=============================================================================
