-------------------------- MODULE TaskKernelStore ---------------------------
(***************************************************************************)
(* trnm-task-kernel/src/store.rs: the SQLite store of the agent market.    *)
(* Callers execute commands of committed blocks, advance over empty blocks *)
(* and preview candidate blocks; each looks at the store first and writes  *)
(* in a later IMMEDIATE transaction, so the calls of several handles       *)
(* interleave.  A caller may die between any two of its steps.             *)
(*                                                                         *)
(* A root is the value it commits to: a state root is the objects, the     *)
(* journal's root the operations through a sequence number.  The checksum  *)
(* of a row is the row.  A read-only connection answers from the pages its *)
(* audit has read, so one readback is one state of the store.  The fence   *)
(* is written by test faults only.                                         *)
(***************************************************************************)
EXTENDS AgentMarket

CONSTANTS Executes,    \* the signed commands each caller executes
          Previews,    \* and previews
          BlockHeight, \* the height of each order block
          Genesis,     \* initial_order_block_id
          ContextsOf,  \* the committed execution contexts a caller is given
          Configs,     \* the configurations each caller opens the store with
          MarketCaller,
          Mortal       \* the callers whose process may be killed

VARIABLES market,        \* metadata row, objects, operations, block markers
          marketCall     \* each caller's call in progress, or its last answer

marketVars == <<market, marketCall>>

\* compute_state_root, compute_operation_journal_root_through
StateRoot(d) == d.objects

JournalRoot(d, n) ==
  [k \in 1 .. n |-> <<OperationDigest(d.ops[k].command), d.ops[k].block>>]

\* insert_committed_block_marker
Marker(n, b, parent, source, target, from, to, fromRoot, toRoot) ==
  [sequence |-> n, block |-> b, parent |-> parent, source |-> source, target |-> target,
   from |-> from, to |-> to, fromRoot |-> fromRoot, toRoot |-> toRoot]

\* The anchor marker is its own parent.
Anchor == Marker(0, Genesis, Genesis, 0, 0, GenesisObjects, GenesisObjects, << >>, << >>)

\* update_metadata_progress
Metadata(config, sequence, tip, state, journal) ==
  [config |-> config, sequence |-> sequence, tip |-> tip, state |-> state, journal |-> journal]

NoConfig == [store |-> "", funding |-> 0, bond |-> 0, hold |-> 0, agents |-> << >>]

NoStore ==
  [meta |-> Metadata(NoConfig, 0, Genesis, << >>, << >>), objects |-> << >>, ops |-> << >>,
   markers |-> << >>, file |-> FALSE, sidecar |-> FALSE]

\* create_schema
GenesisStore(config) ==
  [meta |-> Metadata(config, 0, Genesis, GenesisObjects, << >>), objects |-> GenesisObjects,
   ops |-> << >>, markers |-> <<Anchor>>, file |-> TRUE, sidecar |-> FALSE]

\* verify_schema: the tables are there, and the metadata row with them.
StoreExists(d) == d.meta.config # NoConfig

Closed == [pc |-> "closed"]
Idle == [pc |-> "idle"]

MarketInit ==
  /\ market = NoStore
  /\ marketCall = [p \in MarketCaller |-> Closed]
-----------------------------------------------------------------------------
(***************************************************************************)
(* What every call checks when it opens the store.                         *)
(***************************************************************************)
\* audit_objects, for the rows that carry a conservation law
AuditObjects(d) ==
  /\ \A t \in DOMAIN d.objects.escrows :
       EscrowConserves(d.objects.tasks[t].body.funded, d.objects.escrows[t])
  /\ BondConserves(d.objects.bond)

\* audit_operations and audit_operation_tail_root
AuditOperations(d) ==
  /\ \A n \in 1 .. Len(d.ops) :
       LET before == IF n = 1 THEN Genesis ELSE d.ops[n - 1].block
           now == d.ops[n].block
       IN  /\ d.ops[n].sequence = n
           /\ BlockHeight[before] <= BlockHeight[now]
           /\ BlockHeight[before] = BlockHeight[now] <=> before = now
  /\ d.ops # << >> => d.ops[Len(d.ops)].post = d.objects

\* audit_committed_block_journal
MarkerFollows(m, p) ==
  /\ m.sequence = p.sequence + 1
  /\ BlockHeight[m.block] = BlockHeight[p.block] + 1
  /\ m.parent = p.block /\ m.block # p.block
  /\ m.source = p.target /\ m.from = p.to /\ m.fromRoot = p.toRoot

MarkerCovers(d, m) ==
  /\ m.source <= m.target /\ m.target <= Len(d.ops)
  /\ \A n \in m.source + 1 .. m.target : d.ops[n].block = m.block
  /\ m.to = IF m.source = m.target THEN m.from ELSE d.ops[m.target].post
  /\ m.toRoot = JournalRoot(d, m.target)

\* load_committed_block_markers, sorted by marker_sequence
LastMarker(d) == d.markers[Len(d.markers)]

\* load_order_tip
OrderTip(d) == d.meta.tip

\* The metadata row is the head the markers end at.
TailIsHead(d) ==
  LET tail == LastMarker(d)
  IN  /\ tail.block = OrderTip(d) /\ tail.target = d.meta.sequence
      /\ tail.to = d.meta.state /\ tail.toRoot = d.meta.journal
      /\ Len(d.ops) = d.meta.sequence

AuditMarkers(d) ==
  /\ d.markers # << >>
  /\ [d.markers[1] EXCEPT !.target = 0, !.to = GenesisObjects, !.toRoot = << >>] = Anchor
  /\ \A i \in 1 .. Len(d.markers) :
       /\ i > 1 => MarkerFollows(d.markers[i], d.markers[i - 1])
       /\ MarkerCovers(d, d.markers[i])
  /\ TailIsHead(d)

\* verify_metadata: the row is this configuration's, and its roots are those
\* of the rows.
VerifyMetadata(d) ==
  /\ BlockHeight[Genesis] <= BlockHeight[d.meta.tip]
  /\ BlockHeight[d.meta.tip] = BlockHeight[Genesis] => d.meta.tip = Genesis
  /\ d.meta.state = StateRoot(d) /\ d.meta.journal = JournalRoot(d, Len(d.ops))

\* audit_store
AuditStore(d) ==
  /\ VerifyMetadata(d) /\ AuditObjects(d) /\ AuditOperations(d) /\ AuditMarkers(d)

\* reject_sidecars: SQLite's rollback journal must be gone.
NoSidecar(d) == ~d.sidecar

\* SQLite plays a dead writer's journal back when the next transaction begins.
RolledBack(d) == [d EXCEPT !.sidecar = FALSE]

\* open_ro_verified, open_rw_verified
OpensVerified(d) == NoSidecar(d) /\ AuditStore(d)

\* validate_trust_bundle
TrustBundleValid(config) ==
  /\ Genesis # "" /\ config.store # ""
  /\ config.agents[1] # config.agents[2]
  /\ config.funding # 0 /\ config.hold # 0 /\ config.hold <= config.bond

\* The part that open and open_existing share: the store is the caller's.
OpensAs(config) == market.meta.config = config /\ OpensVerified(market)

Opened(p) == marketCall' = [marketCall EXCEPT ![p] = Idle]

\* open of a path that exists.
Open(p) ==
  /\ marketCall[p].pc = "closed" /\ StoreExists(market)
  /\ \E config \in Configs[p] : TrustBundleValid(config) /\ OpensAs(config)
  /\ Opened(p) /\ UNCHANGED market

\* open of a path that does not: the file is created, and then the tables in
\* a transaction of their own.  Another creator may come between; the tables
\* it made are an error.  open refuses a file whose creator died in between.
OpenMissing(p) ==
  /\ marketCall[p].pc = "closed" /\ ~market.file /\ NoSidecar(market)
  /\ \E config \in Configs[p] :
       /\ TrustBundleValid(config)
       /\ marketCall' = [marketCall EXCEPT ![p] = [pc |-> "missing", config |-> config]]
  /\ UNCHANGED market

CreateFile(p) ==
  /\ marketCall[p].pc = "missing"
  /\ market' = [market EXCEPT !.file = TRUE]
  /\ marketCall' = [marketCall EXCEPT ![p] = [pc |-> "creating", config |-> marketCall[p].config]]

CreateSchema(p) ==
  /\ marketCall[p].pc = "creating"
  /\ IF StoreExists(market)
     THEN /\ marketCall' = [marketCall EXCEPT ![p] = Closed]
          /\ market' = RolledBack(market)
     ELSE Opened(p) /\ market' = GenesisStore(marketCall[p].config)

\* open_existing creates nothing.
OpenExisting(p) ==
  /\ marketCall[p].pc = "closed" /\ StoreExists(market)
  /\ \E config \in Configs[p] : TrustBundleValid(config) /\ OpensAs(config)
  /\ Opened(p) /\ UNCHANGED market

\* validate_execution_context_static: same block, or a higher one.
ContextIsWellFormed(x) ==
  /\ BlockHeight[x.expected] <= BlockHeight[x.block]
  /\ BlockHeight[x.expected] = BlockHeight[x.block] <=> x.expected = x.block

\* validate_execution_context_cas
ContextIsCurrent(d, x) == OrderTip(d) = x.expected

\* load_operation
Recorded(d, c) == {n \in 1 .. Len(d.ops) : d.ops[n].command = c}
-----------------------------------------------------------------------------
(***************************************************************************)
(* The write transaction.                                                  *)
(***************************************************************************)
\* advance_committed_block_marker: the tail's own block extends its marker,
\* the block after it opens the next one.
CanAdvanceMarkerFromTip(d, x, source, from, root) ==
  /\ x.expected = LastMarker(d).block
  /\ x.block # LastMarker(d).block =>
       BlockHeight[x.block] = BlockHeight[LastMarker(d).block] + 1

CanAdvanceMarker(d, x, source, from, root) ==
  LET tail == LastMarker(d)
  IN  /\ source = tail.target /\ from = tail.to /\ root = tail.toRoot
      /\ x.expected = tail.block
      /\ x.block # tail.block => BlockHeight[x.block] = BlockHeight[tail.block] + 1

\* The last marker of d, after operations to the target m.
AdvanceMarker(d, x, m) ==
  IF x.block = LastMarker(d).block
  THEN [d.markers EXCEPT ![Len(d.markers)].target = m.sequence,
                         ![Len(d.markers)].to = m.state,
                         ![Len(d.markers)].toRoot = m.journal]
  ELSE LET tail == LastMarker(d) IN
       Append(d.markers, Marker(tail.sequence + 1, x.block, tail.block, tail.target, m.sequence,
                                tail.to, m.state, tail.toRoot, m.journal))

Receipt(d, x, c) ==
  [sequence |-> Len(d.ops) + 1, command |-> c, block |-> x.block,
   post |-> Successor(d.objects, BlockHeight[x.block], c)]

CanCommit(d, x, c) ==
  /\ ContextIsCurrent(d, x)
  /\ Accepted(d.objects, BlockHeight[x.block], c)
  /\ CanAdvanceMarker(d, x, Len(d.ops), StateRoot(d), JournalRoot(d, Len(d.ops)))

\* insert_operation
WithOperation(d, r) == [d EXCEPT !.objects = r.post, !.ops = Append(@, r)]

Commit(d, x, c) ==
  LET n == WithOperation(d, Receipt(d, x, c))
      m == Metadata(d.meta.config, Len(n.ops), x.block, StateRoot(n), JournalRoot(n, Len(n.ops)))
  IN  [n EXCEPT !.meta = m, !.markers = AdvanceMarker(d, x, m)]
-----------------------------------------------------------------------------
(***************************************************************************)
(* execute_inner.  An error is the call that does not go on.               *)
(***************************************************************************)
Contexts(p) == {x \in ContextsOf[p] : ContextIsWellFormed(x)}

\* A command already recorded is answered from its row, while its block is
\* still the tip and is the block the caller names.
ReplayIsExact(d, x, n) ==
  x.block = d.ops[n].block /\ d.meta.tip = d.ops[n].block

ExecuteBegin(p) ==
  /\ marketCall[p].pc = "idle" /\ OpensVerified(market)
  /\ \E x \in Contexts(p), c \in Executes[p] :
       /\ EnvelopeVerifies(BlockHeight[x.block], c)
       /\ \/ /\ Recorded(market, c) = {} /\ ContextIsCurrent(market, x)
             /\ marketCall' = [marketCall EXCEPT ![p] =
                  [pc |-> "checked", context |-> x, command |-> c]]
          \/ \E n \in Recorded(market, c) :
               /\ ReplayIsExact(market, x, n)
               /\ marketCall' = [marketCall EXCEPT ![p] =
                    [pc |-> "confirm", receipt |-> market.ops[n]]]
  /\ UNCHANGED market

ExecuteCommit(p) ==
  /\ marketCall[p].pc = "checked"
  /\ LET x == marketCall[p].context  c == marketCall[p].command
     IN  IF CanCommit(market, x, c)
         THEN /\ market' = Commit(RolledBack(market), x, c)
              /\ marketCall' = [marketCall EXCEPT ![p] =
                   [pc |-> "confirm", receipt |-> Receipt(market, x, c)]]
         ELSE /\ marketCall' = [marketCall EXCEPT ![p] = Idle]
              /\ market' = RolledBack(market)

\* fresh_confirm_receipt
Confirm(p) ==
  /\ marketCall[p].pc = "confirm"
  /\ LET r == marketCall[p].receipt
     IN  marketCall' = [marketCall EXCEPT ![p] =
           IF /\ \E n \in 1 .. Len(market.ops) : market.ops[n] = r
              /\ OpensVerified(market)
           THEN [pc |-> "answered", receipt |-> r] ELSE Idle]
  /\ UNCHANGED market
-----------------------------------------------------------------------------
(***************************************************************************)
(* advance_empty_committed_execution_v1                                    *)
(***************************************************************************)
\* committed_block_journal_root: the tail's checksum covers the chain.
CommittedBlockRoot(d) == <<Len(d.markers), LastMarker(d).block, LastMarker(d).target>>

\* fresh_readback
Readback(d) == [meta |-> d.meta, blocks |-> CommittedBlockRoot(d)]

\* logical_row_inventory_digest: the rows of the four tables, the operations
\* and the markers by what identifies them
RowInventory(d) ==
  <<d.meta, d.objects, JournalRoot(d, Len(d.ops)), CommittedBlockRoot(d)>>

\* A head already at the target is the answer; any other head than the
\* expected parent is an error.
EmptyBegin(p) ==
  /\ marketCall[p].pc = "idle" /\ OpensVerified(market)
  /\ \E x \in Contexts(p) :
       /\ BlockHeight[x.block] = BlockHeight[x.expected] + 1
       /\ OrderTip(market) = x.expected
       /\ marketCall' = [marketCall EXCEPT ![p] =
            [pc |-> "empty", context |-> x, before |-> Readback(market)]]
  /\ UNCHANGED market

\* The transaction writes the sequence and the roots of the readback.
EmptyCommit(p) ==
  /\ marketCall[p].pc = "empty"
  /\ LET x == marketCall[p].context  b == marketCall[p].before.meta
         m == [b EXCEPT !.tip = x.block]
     IN  IF /\ ContextIsCurrent(market, x)
            /\ CanAdvanceMarker(market, x, b.sequence, b.state, b.journal)
            /\ OpensVerified(market)
         THEN /\ market' = [market EXCEPT !.meta = m, !.markers = AdvanceMarker(market, x, m)]
              /\ marketCall' = [marketCall EXCEPT ![p].pc = "emptied"]
         ELSE /\ marketCall' = [marketCall EXCEPT ![p] = Idle]
              /\ UNCHANGED market

\* A fresh readback must show the target.
EmptyConfirm(p) ==
  /\ marketCall[p].pc = "emptied"
  /\ LET b == marketCall[p].before  now == Readback(market)
     IN  marketCall' = [marketCall EXCEPT ![p] =
           IF /\ now.meta = [b.meta EXCEPT !.tip = marketCall[p].context.block]
              /\ now.blocks # b.blocks /\ OpensVerified(market)
           THEN [pc |-> "advanced"] ELSE Idle]
  /\ UNCHANGED market
-----------------------------------------------------------------------------
(***************************************************************************)
(* preview_before_vote_v1, for a batch of one command: executed in a       *)
(* transaction that is rolled back, on the parent the caller holds.        *)
(***************************************************************************)
PreviewBegin(p) ==
  /\ marketCall[p].pc = "idle" /\ OpensVerified(market)
  /\ \E x \in Contexts(p), c \in Previews[p] :
       /\ BlockHeight[x.block] = BlockHeight[x.expected] + 1
       /\ OrderTip(market) = x.expected /\ EnvelopeVerifies(BlockHeight[x.block], c)
       /\ marketCall' = [marketCall EXCEPT ![p] =
            [pc |-> "previewing", context |-> x, command |-> c,
             before |-> Readback(market), rows |-> RowInventory(market)]]
  /\ UNCHANGED market

\* The transaction looks again at the tip only; the sequence number is that
\* of the first readback.
PreviewRun(p) ==
  /\ marketCall[p].pc = "previewing"
  /\ LET x == marketCall[p].context  c == marketCall[p].command
         b == marketCall[p].before  h == BlockHeight[x.block]
     IN  marketCall' = [marketCall EXCEPT ![p] =
           IF /\ OrderTip(market) = b.meta.tip /\ Recorded(market, c) = {}
              /\ Accepted(market.objects, h, c) /\ OpensVerified(market)
           THEN [pc |-> "previewed", before |-> b, rows |-> marketCall[p].rows,
                 receipt |-> [Receipt(market, x, c) EXCEPT !.sequence = b.meta.sequence + 1]]
           ELSE Idle]
  /\ UNCHANGED market

PreviewUnchecked(p) ==
  /\ marketCall[p].pc = "previewed"
  /\ marketCall' = [marketCall EXCEPT ![p] =
       [pc |-> "voted", receipt |-> marketCall[p].receipt]]
  /\ UNCHANGED market

\* The final readback and rows must equal the first; a preview leaves no answer
\* in the store, so its receipt is compared with what is executed later.
PreviewEnd(p) ==
  /\ marketCall[p].pc = "previewed"
  /\ marketCall' = [marketCall EXCEPT ![p] =
       IF /\ Readback(market) = marketCall[p].before
          /\ RowInventory(market) = marketCall[p].rows /\ OpensVerified(market)
       THEN [pc |-> "voted", receipt |-> marketCall[p].receipt] ELSE Idle]
  /\ UNCHANGED market

\* The caller is done with its answer.
Done(p) ==
  /\ marketCall[p].pc \in {"answered", "advanced", "voted"}
  /\ marketCall' = [marketCall EXCEPT ![p] = Idle]
  /\ UNCHANGED market

\* A process killed inside its transaction may leave the rollback journal.
Die(p) ==
  /\ p \in Mortal /\ marketCall[p].pc \notin {"closed", "idle"}
  /\ \E left \in {FALSE, marketCall[p].pc \in {"creating", "checked", "empty", "previewing"}} :
       market' = [market EXCEPT !.sidecar = @ \/ left]
  /\ marketCall' = [marketCall EXCEPT ![p] = Closed]

MarketNext ==
  \E p \in MarketCaller :
    \/ Open(p) \/ OpenMissing(p) \/ CreateFile(p) \/ CreateSchema(p) \/ OpenExisting(p)
    \/ ExecuteBegin(p) \/ ExecuteCommit(p) \/ Confirm(p)
    \/ EmptyBegin(p) \/ EmptyCommit(p) \/ EmptyConfirm(p)
    \/ PreviewBegin(p) \/ PreviewRun(p) \/ PreviewEnd(p) \/ Done(p) \/ Die(p)

MarketSpec == MarketInit /\ [][MarketNext]_marketVars
-----------------------------------------------------------------------------
(***************************************************************************)
(* Properties.                                                             *)
(***************************************************************************)
\* No interleaving of creators, executions, empty advances and deaths leaves
\* rows that open, or any later call, would refuse: once create_schema has
\* committed, what is committed passes the whole audit of audit_store.  (A
\* file without tables, or a rollback journal, is refused all the same.)
MarketReopens == StoreExists(market) => AuditStore(market)

\* Every unit that left the requester's account is the funding of a task's
\* escrow, an escrow reserves exactly the price of the bid its task's lease
\* accepted, and the provider's bond holds BondHold for every lease: the
\* five rows of a lease and the two of a task change together.
MarketConserved ==
  LET o == market.objects
  IN  StoreExists(market) =>
      /\ o.account.available + o.account.spent = Funding
      /\ o.account.spent = MapThenSumSet(LAMBDA t : o.escrows[t].available + o.escrows[t].reserved,
                                         DOMAIN o.escrows)
      /\ \A t \in DOMAIN o.tasks :
           o.escrows[t].reserved =
             IF o.tasks[t].lease = NoneId THEN 0
             ELSE o.bids[o.leases[o.tasks[t].lease].body.bid].body.price
      /\ o.bond.held = BondHold * Cardinality(DOMAIN o.leases)
      /\ \A b \in DOMAIN o.bids : o.bids[b].status = "accepted" <=>
           \E l \in DOMAIN o.leases : o.leases[l].body.bid = b

\* A preview that returns shows what executing its command right after the
\* operations it counts would record, whatever other callers committed while
\* it ran: its sequence number and its state root belong together.
VotedIsExecuted ==
  \A p \in MarketCaller : marketCall[p].pc = "voted" =>
    LET r == marketCall[p].receipt
        before == IF r.sequence = 1 THEN GenesisObjects
                  ELSE market.ops[r.sequence - 1].post
    IN  /\ Accepted(before, BlockHeight[r.block], r.command)
        /\ r.post = Successor(before, BlockHeight[r.block], r.command)
=============================================================================
