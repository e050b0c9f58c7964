---------------------------- MODULE StateImport ----------------------------
(***************************************************************************)
(* trnm-state-import: rows exported from one chain are verified, projected *)
(* and installed into a durable store, which then follows the source chain *)
(* by deltas; a handoff record fences the cutover.                         *)
(*                                                                         *)
(* A digest or root is the value it binds: a context carries the rows its  *)
(* state root commits to.  A refused call changes nothing and is not a     *)
(* step.  A transaction is one step; between the read of the base and the  *)
(* transaction other processes may commit, and processes may die anywhere. *)
(***************************************************************************)
EXTENDS Naturals, Sequences, SequencesExt, FiniteSetsExt

CONSTANTS Process,
          Reserved,      \* keys of forbidden_authority_namespace
          MaxRows,       \* MAX_EXPORT_ROWS_V0
          MaxDeltaRows,  \* MAX_INCREMENTAL_DELTA_ROWS_V0
          Contexts,      \* checkpoints of the source: [height, epoch, rows]
          FirstContext,  \* the one the migration starts from
          Vouched,       \* the contexts the owner's checkpoint verifier accepts
          Exports,       \* what an exporter may deliver: [rows, header], the header
                         \* being [height, state, count, root, final]
          Planned,       \* the header the migration plan names
          RollbackFloor,
          Readiness,     \* the module lists receipts may be presented for
          ProjectedKey,  \* [key -> target key, or 0 for a row left behind]
          SignerWeight,  \* [signer -> weight] as the signature verifier reports it
          RequiredWeight,
          MaxGeneration  \* bound on the deltas installed

VARIABLES files,    \* [path -> <<>> or the published store]
          process,  \* each process's call, with the temporary file it fills
          history,  \* [path -> the published states, oldest first]
          handoff,  \* <<>> or the row of the handoff store
          host      \* what the migrating host has in hand

importVars == <<files, process, history, handoff, host>>

Path == {"main", "copy"}
None == [none |-> TRUE]
Deleted == "deleted"
-----------------------------------------------------------------------------
\* Rows, exports and projections

StrictlyOrdered(rows) == \A i, j \in DOMAIN rows : i < j => rows[i].key < rows[j].key

\* forbidden_authority_namespace: no signer or safety state is imported.
ValidRow(row) == row.key \notin Reserved

ValidTargetRow(row) == ValidRow(row)

\* validate_target_rows_v0
ValidRows(rows) ==
  Len(rows) <= MaxRows /\ (\A i \in DOMAIN rows : ValidTargetRow(rows[i])) /\ StrictlyOrdered(rows)

HeaderValid(header, rows) ==
  header.height > 0 /\ header.count \in 1 .. MaxRows /\ header.count = Len(rows)

\* verify_export_v0: the header is final and commits to the rows.
VerifiedExport(e) ==
  /\ HeaderValid(e.header, e.rows) /\ e.header.final
  /\ (\A i \in DOMAIN e.rows : ValidRow(e.rows[i])) /\ StrictlyOrdered(e.rows)
  /\ e.header.root = e.rows

\* FinalizedSourceBindingV0
SourceBinding(e) == [height |-> e.header.height, state |-> e.header.state, rows |-> e.rows]

\* MigrationPlanV0::validate
PlanFits(e) == Planned = e.header

\* SourceCheckpointContextV0::validate
ContextValid(c) == c.height > 0

\* verify_source_checkpoint_context_v0
Verified(c) == ContextValid(c) /\ c \in Vouched

\* project_and_recompute_v0, before the trailing sort
ProjectedRows(rows) ==
  LET kept == SelectSeq(rows, LAMBDA r : ProjectedKey[r.key] # 0)
  IN  [i \in DOMAIN kept |-> [kept[i] EXCEPT !.key = ProjectedKey[@]]]

CanProject(e) ==
  LET out == ProjectedRows(e.rows)
  IN  /\ PlanFits(e) /\ VerifiedExport(e)
      /\ \A i \in DOMAIN out : ValidTargetRow(out[i])
      /\ \A i, j \in DOMAIN out : out[i].key = out[j].key => i = j

Projection(rows) == SortSeq(ProjectedRows(rows), LAMBDA r, q : r.key < q.key)
-----------------------------------------------------------------------------
\* Deltas

\* The next context a context may be followed by
Progression(s, t) == t.height > s.height /\ t.epoch \in {s.epoch, s.epoch + 1}

\* derive_incremental_delta_v0: one merge over both ordered sequences
RECURSIVE DeltaEntries(_, _)
DeltaEntries(base, target) ==
  CASE base = <<>> /\ target = <<>> -> <<>>
    [] base # <<>> /\ (target = <<>> \/ base[1].key < target[1].key) ->
         <<[key |-> base[1].key, value |-> Deleted]>> \o DeltaEntries(Tail(base), target)
    [] target # <<>> /\ (base = <<>> \/ target[1].key < base[1].key) ->
         <<target[1]>> \o DeltaEntries(base, Tail(target))
    [] OTHER ->
         (IF base[1] = target[1] THEN <<>> ELSE <<target[1]>>)
           \o DeltaEntries(Tail(base), Tail(target))

CanDerive(s, t) ==
  /\ ContextValid(s) /\ ContextValid(t) /\ ValidRows(s.rows) /\ ValidRows(t.rows) /\ Progression(s, t)
  /\ Len(DeltaEntries(s.rows, t.rows)) <= MaxDeltaRows

Delta(s, t) == [source |-> s, target |-> t, entries |-> DeltaEntries(s.rows, t.rows)]

ValidEntry(entry) == entry.key \notin Reserved

\* IncrementalStateDeltaV0::validate
DeltaValid(d) ==
  /\ ContextValid(d.source) /\ ContextValid(d.target) /\ Progression(d.source, d.target)
  /\ Len(d.entries) <= MaxDeltaRows
  /\ (\A i \in DOMAIN d.entries : ValidEntry(d.entries[i])) /\ StrictlyOrdered(d.entries)

Deltas == {Delta(p[1], p[2]) : p \in {q \in Contexts \X Contexts : CanDerive(q[1], q[2])}}

\* apply_incremental_delta_v0: the merge of the base with the entries
RECURSIVE AppliedTwice(_, _)
AppliedTwice(entries, base) ==
  CASE entries = <<>> -> base
    [] entries # <<>> /\ base # <<>> /\ base[1].key < entries[1].key ->
         <<base[1]>> \o AppliedTwice(entries, Tail(base))
    [] OTHER ->
         (IF entries[1].value = Deleted THEN <<>> ELSE <<entries[1]>>)
           \o AppliedTwice(Tail(entries), base)

RECURSIVE Applied(_, _)
Applied(entries, base) ==
  CASE entries = <<>> -> base
    [] entries # <<>> /\ base # <<>> /\ base[1].key < entries[1].key ->
         <<base[1]>> \o Applied(entries, Tail(base))
    [] OTHER ->
         (IF entries[1].value = Deleted THEN <<>> ELSE <<entries[1]>>)
           \o Applied(Tail(entries),
                      IF base # <<>> /\ base[1].key = entries[1].key THEN Tail(base) ELSE base)

DeltaApplies(d, base) ==
  /\ DeltaValid(d) /\ ValidRows(base) /\ base = d.source.rows
  /\ ValidRows(Applied(d.entries, base)) /\ Applied(d.entries, base) = d.target.rows
-----------------------------------------------------------------------------
\* The store: a table of rows and one metadata row.

\* SELECT ... ORDER BY
TableRows(table) ==
  LET keys == SetToSortSeq(DOMAIN table, <)
  IN  [i \in DOMAIN keys |-> [key |-> keys[i], value |-> table[keys[i]]]]

TableOf(rows) ==
  [k \in {rows[i].key : i \in DOMAIN rows} |->
     rows[CHOOSE i \in DOMAIN rows : rows[i].key = k].value]

\* INSERT ... ON CONFLICT DO UPDATE and DELETE, entry by entry
TableAfter(table, entries) ==
  LET keys(dead) == {entries[i].key : i \in {j \in DOMAIN entries :
                                              dead <=> entries[j].value = Deleted}}
      upsert == TableOf(entries)
  IN  [k \in (DOMAIN table \ keys(TRUE)) \cup keys(FALSE) |->
         IF k \in keys(FALSE) THEN upsert[k] ELSE table[k]]

Store(rows, source, target, generation, last) ==
  [table |-> TableOf(rows), rows |-> rows, source |-> source, target |-> target,
   generation |-> generation, last |-> last]

\* read_snapshot_with_root_builder_v0 accepts
ReadbackHolds(f) == TableRows(f.table) = f.rows /\ ValidRows(f.rows)

Readback(f) == [rows |-> f.rows, source |-> f.source, target |-> f.target,
                generation |-> f.generation, last |-> f.last]

Idle == [at |-> "idle"]

ImportInit ==
  /\ files = [x \in Path |-> <<>>]
  /\ process = [p \in Process |-> Idle]
  /\ history = [x \in Path |-> <<>>]
  /\ handoff = <<>>
  /\ host = [receipt |-> <<>>, readback |-> <<>>]

\* prepare_store_parent_v0, and open_connection of a published store
PathFree(x) == files[x] = <<>>

Published(x) == files[x] # <<>>

\* DurableDeltaSnapshotV0, as export_snapshot_v0 makes it, and its validate
Snapshot(f) == Readback(f)

SnapshotValid(s) == ValidRows(s.rows) /\ s.target.rows = s.rows

\* initialize_from_snapshot_bound_v0: the snapshot is of the given contexts.
SnapshotBound(s, source, target) ==
  /\ SnapshotValid(s) /\ s.source = source /\ s.target = target /\ target.rows = s.rows
  /\ source = target \/ Progression(source, target)

\* reserve_temporary_store_file_v0: a file under a name that did not exist, so
\* every initializer fills its own and one that a dead process left is never
\* looked at.  It is filled, checked and then published under path x.
Reserve(p, x, content) ==
  /\ process[p] = Idle
  /\ process' = [process EXCEPT ![p] = [at |-> "staged", path |-> x, store |-> content]]
  /\ UNCHANGED <<files, history, handoff, host>>

\* initialize: a complete store in a temporary file.  The caller's rows are
\* not compared with the state root of the context.
StageStore(p, rows) ==
  /\ PathFree("main") /\ ContextValid(FirstContext) /\ ValidRows(rows)
  /\ Reserve(p, "main", Store(rows, FirstContext, FirstContext, 0, None))

\* export_snapshot_v0 of one store, initialize_from_verified_snapshot_v0 of another
StageSnapshot(p, source, target) ==
  /\ Published("main") /\ PathFree("copy") /\ Verified(source) /\ Verified(target)
  /\ LET s == Snapshot(files["main"][1])
     IN  /\ SnapshotBound(s, source, target) /\ ReadbackHolds(files["main"][1])
         /\ Reserve(p, "copy", Store(s.rows, s.source, s.target, s.generation, s.last))

\* The temporary file reads back; hard_link: only the first one publishes.
PublishStore(p) ==
  /\ process[p].at = "staged" /\ process[p].path \in Path
  /\ LET x == process[p].path
         f == process[p].store
     IN  IF ReadbackHolds(f) /\ PathFree(x)
         THEN /\ files' = [files EXCEPT ![x] = <<f>>]
              /\ history' = [history EXCEPT ![x] = <<Readback(f)>>]
              /\ process' = [process EXCEPT ![p] = [at |-> "linked"]]
         ELSE process' = [process EXCEPT ![p] = Idle] /\ UNCHANGED <<files, history>>
  /\ UNCHANGED <<handoff, host>>

\* The second name goes, the directory is synced.
RemoveLink(p) ==
  /\ process[p].at = "linked"
  /\ process' = [process EXCEPT ![p] = Idle]
  /\ UNCHANGED <<files, history, handoff, host>>

Receipt(previous, f) == [previous |-> previous, installed |-> f.rows,
                         generation |-> f.generation, delta |-> f.last]

Answer(x, receipt) == host' = IF x = "main" THEN [host EXCEPT !.receipt = <<receipt>>] ELSE host

NeverInstalled(f, d) == FALSE

AlreadyInstalled(f, d) == f.last = d

\* apply_delta_v0 up to its transaction
ReadBase(p, x, d) ==
  /\ process[p] = Idle /\ Published(x)
  /\ LET f == files[x][1]
     IN  /\ f.rows = d.source.rows
         /\ f.last = d \/ f.target = d.source
         /\ ReadbackHolds(f) /\ DeltaApplies(d, f.rows)
         /\ IF AlreadyInstalled(f, d)
            THEN /\ f.rows = d.target.rows /\ f.target = d.target
                 /\ Answer(x, Receipt(f.rows, f))
                 /\ UNCHANGED process
            ELSE /\ f.generation < MaxGeneration
                 /\ process' = [process EXCEPT ![p] = [at |-> "computed", path |-> x, delta |-> d,
                                                       before |-> Readback(f)]]
                 /\ UNCHANGED host
  /\ UNCHANGED <<files, history, handoff>>

NoCas(f, before) == TRUE

\* UPDATE ... WHERE generation, rows, root and context are the ones read
CasHolds(f, before) ==
  f.generation = before.generation /\ f.rows = before.rows /\ f.target = before.target

Installed(f, d) ==
  [table |-> TableAfter(f.table, d.entries), rows |-> Applied(d.entries, d.source.rows),
   source |-> f.source, target |-> d.target, generation |-> f.generation + 1, last |-> d]

\* The write transaction of apply_delta_v0
CommitDelta(p) ==
  /\ process[p].at = "computed"
  /\ LET x == process[p].path
         f == files[x][1]
         g == Installed(f, process[p].delta)
     IN  IF CasHolds(f, process[p].before)
         THEN /\ files' = [files EXCEPT ![x] = <<g>>]
              /\ history' = [history EXCEPT ![x] = Append(@, Readback(g))]
              /\ process' = [process EXCEPT ![p].at = "committed"]
         ELSE process' = [process EXCEPT ![p] = Idle] /\ UNCHANGED <<files, history>>
  /\ UNCHANGED <<handoff, host>>

\* The readback that ends apply_delta_v0; after a later commit it is an error
ConfirmDelta(p) ==
  /\ process[p].at = "committed"
  /\ LET x == process[p].path
         f == files[x][1]
         d == process[p].delta
     IN  IF /\ ReadbackHolds(f) /\ f.rows = d.target.rows /\ f.last = d
            /\ f.target = d.target /\ f.generation = process[p].before.generation + 1
         THEN Answer(x, Receipt(process[p].before.rows, f))
         ELSE UNCHANGED host
  /\ process' = [process EXCEPT ![p] = Idle]
  /\ UNCHANGED <<files, history, handoff>>

\* A process dies; what it has not committed is gone, its temporary file stays.
Crash(p) ==
  /\ process[p] # Idle
  /\ process' = [process EXCEPT ![p] = Idle]
  /\ UNCHANGED <<files, history, handoff, host>>

\* readback_with_root_builder_v0 by the host
ReadStore ==
  /\ Published("main") /\ ReadbackHolds(files["main"][1])
  /\ host' = [host EXCEPT !.readback = <<Readback(files["main"][1])>>]
  /\ UNCHANGED <<files, process, history, handoff>>

HostRestart ==
  /\ host' = [receipt |-> <<>>, readback |-> <<>>]
  /\ UNCHANGED <<files, process, history, handoff>>
-----------------------------------------------------------------------------
\* The handoff record

Phases == <<"VerifiedSource", "ProjectedDelta", "DurableInstall", "ReadbackCas",
            "CutoverAgreed", "RuntimeReady">>
PhaseOf(r) == IF r.state = "Fenced" THEN 7 ELSE CHOOSE i \in DOMAIN Phases : Phases[i] = r.state

\* MigrationHandoffRecordV0::validate
RecordValid(r) ==
  IF r.state = "Fenced" THEN r.fenced # <<>>
  ELSE LET n == PhaseOf(r)
       IN  /\ r.fenced = <<>>
           /\ n = 1 => r.target = None /\ r.install = <<>> /\ r.readback = <<>> /\ r.cutover = <<>>
           /\ n >= 2 => r.target # None
           /\ n >= 3 => r.install # <<>> /\ r.readback # <<>>
           /\ n >= 5 => r.cutover # <<>>
           /\ n = 6 => \A i \in DOMAIN r.readiness : r.readiness[i] # <<>>

\* MigrationHandoffRecordV0::new_verified_source
NewRecord ==
  [state |-> "VerifiedSource", revision |-> 0, source |-> FirstContext, target |-> None,
   install |-> <<>>, readback |-> <<>>, cutover |-> <<>>,
   readiness |-> <<<<>>, <<>>, <<>>>>, fenced |-> <<>>]

\* An optional field is a flag, and the value behind the flag 1.
Flagged(value) == IF value = <<>> THEN <<0>> ELSE <<1>> \o value

\* canonical_bytes, one element for each fixed field
CanonicalBytes(r) ==
  <<r.state, r.revision, r.source, r.target>> \o Flagged(r.install) \o Flagged(r.readback)
    \o Flagged(r.cutover) \o FlattenSeq([i \in 1 .. 3 |-> Flagged(r.readiness[i])])
    \o Flagged(r.fenced)

\* encode: the digest, which is the bytes it binds, goes last.
Encode(r) == Append(CanonicalBytes(r), CanonicalBytes(r))

FlaggedAt(bytes, i) == IF bytes[i] = 1 THEN <<bytes[i + 1]>> ELSE <<>>

Behind(bytes, i) == i + 1 + bytes[i]

\* decode_handoff_record_v0, its last check in RecordReads
Decode(bytes) ==
  LET readback == Behind(bytes, 5)
      cutover == Behind(bytes, readback)
      first == Behind(bytes, cutover)
      second == Behind(bytes, first)
      third == Behind(bytes, second)
      fenced == Behind(bytes, third)
  IN  [record |-> [state |-> bytes[1], revision |-> bytes[2], source |-> bytes[3],
                   target |-> bytes[4], install |-> FlaggedAt(bytes, 5),
                   readback |-> FlaggedAt(bytes, readback),
                   cutover |-> FlaggedAt(bytes, cutover),
                   readiness |-> <<FlaggedAt(bytes, first), FlaggedAt(bytes, second),
                                   FlaggedAt(bytes, third)>>,
                   fenced |-> FlaggedAt(bytes, fenced)],
       digest |-> bytes[Behind(bytes, fenced)], end |-> Behind(bytes, fenced)]

\* The row of the handoff store
HandoffRow(r) == [revision |-> r.revision, digest |-> CanonicalBytes(r), record |-> Encode(r)]

\* readback_v0: nothing trails the record, digest and revision are its own.
RecordReads(row) ==
  LET d == Decode(row.record)
  IN  /\ d.end = Len(row.record) /\ d.digest = CanonicalBytes(d.record) /\ RecordValid(d.record)
      /\ d.record.revision = row.revision /\ d.digest = row.digest

Current == Decode(handoff[1].record).record

BindingMatches(b) ==
  RollbackFloor \in 1 .. Planned.height /\ FirstContext.height = b.height /\ FirstContext.rows = b.state

\* SqliteMigrationHandoffStoreV0::initialize, in a temporary file
StageHandoff(p, e) ==
  /\ handoff = <<>> /\ Verified(FirstContext)
  /\ VerifiedExport(e) /\ BindingMatches(SourceBinding(e)) /\ RecordValid(NewRecord)
  /\ Reserve(p, "handoff", HandoffRow(NewRecord))

PublishHandoff(p) ==
  /\ process[p].at = "staged" /\ process[p].path = "handoff"
  /\ IF RecordReads(process[p].store) /\ handoff = <<>>
     THEN /\ handoff' = <<process[p].store>>
          /\ process' = [process EXCEPT ![p] = [at |-> "linked"]]
     ELSE process' = [process EXCEPT ![p] = Idle] /\ UNCHANGED handoff
  /\ UNCHANGED <<files, history, host>>

\* transition: read, apply and conditional update in one transaction
Transition(r) ==
  LET next == [r EXCEPT !.revision = handoff[1].revision + 1]
  IN  /\ RecordReads(handoff[1]) /\ RecordValid(next)
      /\ handoff' = <<HandoffRow(next)>>
      /\ UNCHANGED <<files, process, history, host>>

\* The state is the first field of the record.
InPhase(state) == handoff # <<>> /\ handoff[1].record[1] = state

ProjectedDelta ==
  /\ InPhase("VerifiedSource")
  /\ \E e \in Exports, t \in Contexts :
       /\ Verified(t) /\ CanProject(e) /\ ValidRows(Projection(e.rows))
       /\ Progression(Current.source, t) /\ t.rows = Projection(e.rows)
       /\ Transition([Current EXCEPT !.state = "ProjectedDelta", !.target = t])

InstallOfAnyGeneration(r, receipt, readback) ==
  /\ receipt.previous = r.source.rows /\ receipt.installed = r.target.rows
  /\ readback.rows = r.target.rows

\* What durable_install compares
InstallMatches(r, receipt, readback) ==
  /\ receipt.previous = r.source.rows /\ receipt.installed = r.target.rows
  /\ receipt.generation # 0 /\ receipt.delta # None
  /\ readback.source = r.source /\ readback.target = r.target /\ readback.rows = r.target.rows
  /\ readback.generation = receipt.generation /\ readback.last = receipt.delta

DurableInstall ==
  /\ InPhase("ProjectedDelta") /\ host.receipt # <<>> /\ host.readback # <<>>
  /\ InstallMatches(Current, host.receipt[1], host.readback[1])
  /\ Transition([Current EXCEPT !.state = "DurableInstall", !.install = host.receipt,
                                !.readback = host.readback])

ReadbackCas ==
  /\ InPhase("DurableInstall") /\ host.readback # <<>> /\ Current.readback = host.readback
  /\ Transition([Current EXCEPT !.state = "ReadbackCas"])

\* verify_cutover_agreement_v0
AgreementHolds(signers) ==
  /\ signers # {} /\ \A s \in signers : SignerWeight[s] > 0
  /\ MapThenSumSet(LAMBDA s : SignerWeight[s], signers) >= RequiredWeight

CutoverAgreed ==
  /\ InPhase("ReadbackCas")
  /\ \E signers \in SUBSET DOMAIN SignerWeight, t \in Contexts :
       /\ AgreementHolds(signers) /\ t.rows = Current.target.rows
       /\ Transition([Current EXCEPT !.state = "CutoverAgreed", !.cutover = <<signers>>])

\* The receipts of the three modules, in their order
ReadinessModules == <<"M01", "M02", "M08">>

RuntimeReady(modules) ==
  /\ modules = ReadinessModules /\ InPhase("CutoverAgreed")
  /\ Transition([Current EXCEPT !.state = "RuntimeReady",
                                !.readiness = [i \in 1 .. 3 |-> <<modules[i]>>]])

\* fenced, from every phase.  A bound: the code fences a fenced record again,
\* which changes nothing but its revision.
Fence ==
  /\ handoff # <<>> /\ Current.state # "Fenced"
  /\ Transition([Current EXCEPT !.state = "Fenced", !.fenced = <<"reason">>])

HandoffNext ==
  \/ ProjectedDelta
  \/ DurableInstall
  \/ ReadbackCas
  \/ CutoverAgreed
  \/ \E modules \in Readiness : RuntimeReady(modules)
  \/ Fence

ImportNext ==
  \/ \E p \in Process : \/ \E c \in Contexts : StageStore(p, c.rows)
                        \/ \E s, t \in Contexts : StageSnapshot(p, s, t)
                        \/ PublishStore(p)
                        \/ \E e \in Exports : StageHandoff(p, e)
                        \/ PublishHandoff(p)
                        \/ RemoveLink(p)
                        \/ \E x \in Path, d \in Deltas : ReadBase(p, x, d)
                        \/ CommitDelta(p)
                        \/ ConfirmDelta(p)
                        \/ Crash(p)
  \/ ReadStore
  \/ HostRestart
  \/ HandoffNext

ImportSpec == ImportInit /\ [][ImportNext]_importVars
-----------------------------------------------------------------------------
(***************************************************************************)
(* However appliers race and wherever they die, the published store passes *)
(* its readback: the rows that the upserts left are the ones the metadata  *)
(* binds.  They are the rows of its context once a delta was installed or  *)
(* the store copied: one initialised with other rows stays as it is.       *)
(***************************************************************************)
DeltaStoreReopens ==
  \A x \in Path : files[x] # <<>> =>
    /\ ReadbackHolds(files[x][1])
    /\ files[x][1].generation > 0 \/ x = "copy" => files[x][1].rows = files[x][1].target.rows

(***************************************************************************)
(* A retry manufactures no generation: the contexts of one store only move *)
(* forward, each by the delta that starts where the last one ended, so no  *)
(* delta (an empty one included) is ever installed twice.                  *)
(***************************************************************************)
DeltaAppliedOnce ==
  \A x \in Path : \A i \in 1 .. Len(history[x]) - 1 :
    LET b == history[x][i]
        a == history[x][i + 1]
    IN  /\ a.generation = b.generation + 1 /\ a.target.height > b.target.height
        /\ a.last.source = b.target /\ a.last.target = a.target

(***************************************************************************)
(* A delta derived from the store's context for the next one is never      *)
(* refused by the store that holds the rows of that context: deriving and  *)
(* applying are two merges over ordered rows that have to agree.           *)
(***************************************************************************)
NextDeltaApplies ==
  \A x \in Path : files[x] # <<>> /\ files[x][1].rows = files[x][1].target.rows =>
    \A d \in Deltas : d.source = files[x][1].target => DeltaApplies(d, files[x][1].rows)

(***************************************************************************)
(* A handoff past the install names a generation the store really had: its *)
(* receipt and its readback are the ones of that generation, one delta     *)
(* after the source context, although the host crashed, read stale values  *)
(* or the store moved on.                                                  *)
(***************************************************************************)
HandoffIsInstalled ==
  handoff # <<>> /\ PhaseOf(Current) \in 3 .. 6 =>
    LET r == Current
        g == r.readback[1].generation
    IN  /\ g \in 1 .. Len(history["main"]) - 1
        /\ history["main"][g + 1] = r.readback[1]
        /\ history["main"][g].rows = r.install[1].previous /\ r.readback[1].target = r.target
        /\ r.readback[1].last = r.install[1].delta
        /\ PhaseOf(r) >= 5 => AgreementHolds(r.cutover[1])
=============================================================================
