# TLA+ models and proofs for Trillionnium Chain

This directory holds TLA+ modules that model the repository's state machines,
TLC configurations that check them on small instances, and theorems checked by
TLAPS. `PROJECT.json` is the index: components, runs, the source lines behind
every definition, findings, hazards and theorems.

The modules keep all control (guards, early returns, order of file and database
operations, error paths) and abstract data. A digest stands for the value it
binds. A signature, a decoding or a path check that must succeed for an
operation to go on is taken as done, or is a property of the input. Fixed-width
integers are bounded by a constant that stands for their maximum, and checked
arithmetic refuses above it.

## 1. The system

The program is a Rust workspace (`src/trillionnium/crates`) of mostly
independent crates, each owning a durable or in-memory state machine, together
with a Python reference of the proof-of-work ledger
(`src/formal/pon-nakamoto-v1`). There is no node binary that wires all crates
together. The interactions below are those that exist in code.

| Part | Module | State | What makes it hard |
|---|---|---|---|
| checkpoint values (`trnm-checkpoint-types`) | `Checkpoints`, `CheckpointRegister` | a scoped chain of checkpoints | exactness of compare-and-swap |
| node commit ledger (`trnm-checkpoint-store/node_commit_ledger_v1.rs`) | `NodeCommitLedger` | directory: anchor, records, `head.v1`, lock | crash or power loss between any two file operations, retries |
| checkpoint authority (`trnm-checkpoint-store/lib.rs`) | `CheckpointAuthority` | append-only journal, anchor file, memory map | lost answers, poisoning, unsynced records that are replayed |
| service settlement engine (`trnm-service-settlement/engine.rs`) | `SettlementKernel`, `SettlementEngine` | receipts, rollup, escrow, balances | conservation, rounding, versions, deadlines |
| service settlement store (`.../store.rs`) | `SettlementStore` | SQLite: state, operations, block markers | reads outside the transaction, lost acknowledgements, audit of the past |
| escrow vault (`trnm-escrow-vault`) | `EscrowVault` | balances, locks, audit log | overflow in mid-operation, completeness of the log |
| peer lease (`trnm-peer-lease/store.rs`, `unix.rs`) | `LeaseJournal`, `PeerLeaseAuthority` | lease journal, anchor, memory | fencing under retries, restarts and clock changes |
| payload replay (`trnm-peer-lease/payload*.rs`) | `PayloadReplay` | frame and body journals, head, acknowledgements | ambiguous commits, recovery |
| mempool lanes (`trnm-mempool/lib.rs`) | `LaneGate` | two queues, three duplicate caches, a streak | cache consistency, lending, fairness |
| typed admission and retry gate (`trnm-mempool`) | `TypedAdmission` | lanes, digests, slots, nonce reservations; retry memory | release exactly once, slot wrap-around |
| task market (`trnm-task-kernel`) | `AgentMarket`, `TaskKernelStore` | capabilities, sessions, tasks, bids, leases, escrow | conservation, replay at the tip, preview before a vote |
| task archive | `TaskArchive` | live set, sealed batches | a plan that is stale when sealed |
| data availability (`trnm-data-availability`) | `DataAvailability` | batches, attestations, obligations, queues | intents across signing, damage, bounded queue |
| state import (`trnm-state-import`) | `StateImport` | delta store, handoff record | compare-and-swap outside and inside a transaction |
| mvcc fee (`trnm-mvcc-fee`) | `MvccFee`, `ParallelBlock`, `PonExecutor` | versioned objects, blocks, proof-of-network rules | equality with serial order |
| executor (`trnm-executor`) | `ParallelGroups` | none between calls | conflict groups, reordering |
| ledger reference (`ledger.py`) | `ChainLedger` | block tree, active state, reorganisation intent | reorganisation over many transactions |
| research protocol (`trnm-research-protocol`) | `ResearchProtocol` | object graph | reference integrity, reload of snapshots |
| worker agent (`trnm-worker-agent`) | `WorkerAgent` | ack log, ingress file, task locks | two agents, kills between system calls |
| identities, settlements, relay, task metadata (`trnm-types`) | `InteropIdentity`, `RelayTranscript`, `TaskMetadata` | registries, sessions, documents | cascades, gaps, migrations |
| governance guard, control plane | `GovernanceGuard` | roles, proposals, pause; modules, plans | role changes between steps, plans out of order |
| verification profiles (`trnm-verification-profiles`) | `VerificationProfiles` | registry, challenges | overlapping deadlines |
| transport (`trnm-transport`) | `FrameAdmission` | replay state of a session, ingress permits | stale tokens, stop and resume |
| oracle | `Oracle` | snapshots and reports | limits of the policy |

Interactions: both checkpoint stores implement one compare-and-swap contract
(`trnm-checkpoint-types`). The settlement store drives the settlement engine;
the task-market store drives the task kernel and keeps the same kind of
committed-block journal. Typed admission wraps the lanes (`TypedAdmission`
uses the operators of `LaneGate`). Payload replay rides on lease generations.

The correctness properties sought are: nothing acknowledged is lost; nothing is
applied twice; recovery finds a state it accepts; value is conserved; a
generation belongs to one holder; what is shown before a vote is what is
executed; concurrency is invisible; waiting work is served.

## 2. How the modules correspond to the code

**Checkpoint stores.** `Checkpoints` is the successor relation of
`validate_successor_of`. `CheckpointRegister` is the abstract specification: a
history per scope that grows by exact successors. Two modules implement it.

- `NodeCommitLedger`: command-line processes over one ledger directory. Each
  action is one file operation with what the code computes up to the next one
  (`pc` names the place in `recover_inner_v1` and `append_exact_successor`).
  The state holds the visible files (`records`, `head`, `root`) beside the
  durable ones (`durableRecords`, `durableHead`, `rootDurable`), and per process
  its operation and what it has read (`seen`, `view`). `Crash` ends a process
  and `PowerLoss` keeps any prefix between the durable and the visible files.
- `CheckpointAuthority`: the daemon serves one connection at a time. Journal
  write, sync, anchor rename and directory sync are separate steps. Clients time
  out and resolve by a fresh load. Requests of clients that left stay queued.

**Service settlement.** `SettlementKernel` holds the engine's functions (usage,
prices, fee, versions, admission) and the kernel record. `SettlementEngine` is
the sequential specification: commands of one block after the other.
`SettlementStore` models concurrent callers of the SQLite store: creating and
opening it, sidecar check and audit, look-up of the operation, read of the head,
transaction, marker, commit, confirmation, and the preview, whose reads of the
head, of the state and of the head again are separate steps.

**Peer lease.** `LeaseJournal` has the records, the decisions and the replay.
`PeerLeaseAuthority` adds the daemon, its files, the clock and the sessions.

**Durable stores.** `EscrowVault` has one action per public operation and a
reader that consumes the audit log in pieces. `AgentMarket` holds the task
kernel's authorisation, budgets and six commands; `TaskKernelStore` its callers,
markers and preview. `TaskArchive`, `DataAvailability`, `StateImport` and
`PayloadReplay` model their stores with the steps that another process, a death
or a power loss can separate. Opening a task-market path that does not exist is
three such steps: the look, the file, the tables. In `EscrowVault` a credit is
checked before the first change and once more when it is made; the second check
has an error of its own that leaves what was done before it. In
`DataAvailability` the epoch and the height of `release_retention_v1` are the
caller's: the store has no clock to compare them with, so the model lets them be
any. Permits to collect garbage are issued too, although outside the crate's
tests nothing constructs the clearance they need.

**Execution.** `MvccFee` (durable blocks with competing executors),
`ParallelBlock` (worker threads, join, ordered commit), `PonExecutor` (commands
with optimistic read sets), `ParallelGroups` (reordering and placement as
operators applied to every small batch), `ChainLedger` (the staged
reorganisation; opening a ledger recovers nothing, `recover` and `activate` are
calls of its user), `ResearchProtocol` (commands over the object graph).

**Machines of their own.** The remaining modules of the table model one crate
or file each: one action per public operation, over a state named after it.
`FrameAdmission` keeps what was acknowledged in memory apart from what its owner
has saved: a frame of the first kind may be admitted again after a restart. The
adapter program of `WorkerAgent` may answer anything and may fail to start; only
a hash it prints is taken for a fact about the chain. The oracle's deviation is
computed with the saturating product of the code.

The `MC*` modules give constants small values. Where several machines that share
no state are checked in one run, a variable `which`, chosen in the initial state
and never changed, says which one a behaviour explores.

## 3. Runs

| Run | Properties | Shows |
|---|---|---|
| `ledger_and_lanes` | `RecoveryAccepts`, `AckedIsDurable`, `ImplementsRegister`, `LockIsReturned`; `SnapshotIsHonest`, `NormalIsServed` | Recovery accepts every reachable ledger directory, a reported target survives, the ledger implements the register, and every process that takes the lock gives it back. The snapshot of the lanes predicts admission, and normal items are served. |
| `settlement` | `AckedAsRequested`, `PreviewIsCommit`, `ImplementsEngine`; `ValueConserved`, `SettlementNeverStuck` | Receipts are returned only for what the journal holds, once and as requested; a preview equals the commit of its batch; the store implements the engine. On the engine: value is conserved, and once its challenge window has closed a rollup can be settled at every later height, if the trust bundle left room for the balances and versions that settling it changes (`RoomFor`). |
| `peer_lease` | `Fenced`, `OneHolder`, `GrantSurvives`, `LiveIsReplay` | Generations fence while the power stays on, also when the clock is set back. Two sessions never hold a scope at once as long as the clock only advances. The journal replays to the memory that serves. A grant answered by the process that wrote it survives a power loss. |
| `durable_stores` | `StoresReopen`, `MarketConserved`, `VotedIsExecuted`, `OneCertifiedBatch`, `ResponseVerifies`, `VaultReplays`, `KeptWhileNeeded` | The task market, the archive, the data-availability stores and the vault reopen with what they promised. A preview before a vote shows what executing its command records. |
| `journals` | `ReceiptsStand`, `PublicationsHold`, `ImportsInstalled`, `AppliedSurvives`, `AbsentIsFinal`, `AuthorityImplementsRegister` | Replay receipts and acknowledgements survive; a delta is installed once; an advance the authority applied survives and one shown absent never happens; every step of the authority but a power loss is a register step. |
| `execution` | `AgreesWithSerial`, `PonAccounts`, `StoredIsServed`, `GroupsAreOrdered`, `ChallengesEnd`, `AcknowledgedOnce`, `AcceptedIsOnChain`, `HistoryExplains`, `FiledIsProvable`, `AdmissionKept`, `ReportsStand`, `EndsAreFinal` | Nineteen machines, among them the executors: what is accepted is what serial execution gives, stored state is served, and what has ended stays ended. |
| `checkpoint_authority_rollback` | `LoadedSurvives` | *Violation*, finding 1. |
| `settlement_repeated_resource` | `UsageConserved` | *Violation*, finding 2. |
| `settlement_command_in_empty_block` | `CommittedPassesAudit` | *Violation*, finding 3. |
| `mempool_critical_starved` | `CriticalIsServed` | *Violation*, finding 4. |
| `parallel_block` | `CanonicalIsAccepted` | *Violation*, finding 5. |
| `parallel_groups` | `GroupsAreParallel` | *Violation*, finding 6. |

Every property of a passing run has a mutant in `PROJECT.json`: a plausible
slip in one mapped definition that makes TLC report a violation.

**Bounds.** Two processes, clients, sessions or callers are enough for the races
in question: each store serialises writers by a lock, a single connection or a
SQLite transaction, so a third actor only repeats the role of the second. Where
the theorems of section 4 apply, the number of actors is not bounded at all. The
checkpoint chains have a fork and one value past the record bound, so that the
bound and a conflicting successor are both met. The engine has up to three
receipts, seven blocks with a fork and a fee that rounds; one charge leaves a
refund that overflows the consumer's balance, the result revision starts one
below its maximum, and at the last height no challenge window can close. The
settlement store has one receipt and four blocks, since it asks about
interleavings and not about sums. The lease run has two generations and a clock
that can be set back once; its power-loss instance, whose state space is larger,
has room for two records and a clock that only advances. The lanes have four ids
for at most three slots, so a full gate can refuse. Vault balances, market
budgets, fees and object values meet their maximum; data-availability queues
hold one batch while two are offered, and a batch of five chunks gives proofs of
unequal shape; the replay journals meet their record bound; slot ids wrap at 3.
Deadlines lie within the heights and times that are enumerated. Counters that
only bound the search (`MaxAttempts`, `MaxQueue`, `MaxPending`, `MaxActive`,
`MaxBacks`, `MaxLosses`, `MaxClock`, `MaxPreview`, `MaxCalls`, `MaxFaults`,
`MaxDeaths`, `MaxBlocks`) are guards of the actions they limit. Clients,
processes, callers and sessions are symmetric in the runs of `MCJournals`,
`MCSettlementStore` and `MCPeerLeaseAuthority`: the modules treat all actors
alike, and these runs check safety only.

**What the passing runs leave out on purpose.** Two of them are restricted to
inputs that avoid a finding: `MCUsage` has no list with a repeated resource, and
in `MCSettlementStore.cfg` `CommandBlock` and `EmptyBlock` are disjoint. The
code enforces neither restriction; the violation runs show the rest. (The
theorems about the settlement store need neither.) `Fenced` and `OneHolder` are
claimed while the power stays on, `OneHolder` also only while the clock is not
set back; the first lease hazard in `PROJECT.json` says what happens otherwise.
`AuthorityImplementsRegister` excepts the power-loss step itself.
`AgreesWithSerial` speaks of accepted blocks of `ParallelBlock`: finding 5 is
about rejected ones. `GroupsAreOrdered` says that a transaction comes after the
writers it depends on; finding 6 is about readers.

**Deadlock** is checked in `ledger_and_lanes`. In the other runs the program may
really stop: an engine that has settled and reached its last block; a store
whose writer died inside its transaction (`reject_sidecars` then refuses every
call until the rollback journal is dealt with); a lease or payload journal that
ends in a part of a record, which `open` treats as fail-stop; a batch that has
been executed, a challenge that has been decided, a budget that is used up.

**Fairness.** `NodeCommitLedger` assumes weak fairness of each started process:
the operating system schedules it and no step waits for another process, since
the lock is only tried. `LaneGate` assumes that its owner keeps polling: weak
fairness of `Pop`, the only way items leave. No other run assumes fairness.

## 4. Proofs

TLAPS checks the theorems below for every value of the constants: any set of
processes, callers or sessions, any checkpoint chain, price list, usage, fee,
command, lease time and journal length. Thirteen of them state the very
definition that a run checks.

| Theorem | States | Module |
|---|---|---|
| `TypeCorrect`, `HeadSafe`, `UnusableUnused`, `AppendedOnce`, `ForeignTouchesNothing` | `TypeOK`, the head never names a record a power loss could take, and three further safety properties of the ledger | `NodeCommitLedgerProofs` |
| `RecoveryComplete`, `AckedDurable`, `LedgerImplementsRegister` | `RecoveryAccepts`, `AckedIsDurable`, `ImplementsRegister` | `NodeCommitLedgerProofs` |
| `EngineConservesValue`, `EngineNeverStuck`, `EngineSignedIsFinal` | `ValueConserved`, `SettlementNeverStuck`, signed facts never change | `SettlementEngineProofs` |
| `AckedStoredOnce`, `StoreImplementsEngine` | `AckedAsRequested`, `ImplementsEngine` | `SettlementStoreProofs` |
| `PreviewFaithful` | `PreviewIsCommit` | `SettlementPreviewProofs` |
| `AcceptedReplays`, `AnswersFenced`, `ExclusiveLease`, `GrantsSurvive` | `LiveIsReplay`, `Fenced`, `OneHolder`, `GrantSurvives` | `PeerLeaseProofs` |
| `VoteFaithful` | `VotedIsExecuted` | `TaskKernelStoreProofs` |

`LoopFacts` and `LeaseJournalProofs` hold lemmas only. Each inductive invariant
(`IInv`, `StoreIInv`, `LeaseIInv`, `MarketIInv`) was also checked by TLC as an
invariant of the run's instance before it was proved.

*Node commit ledger.* `HeadNeverAhead` is not inductive alone. A process that is
about to publish a head must know that its last directory sync covered every
visible record (`SyncedAt`) and that no other process appended since, because it
holds the lock (`Holds`); what it read must still be the end of the journal
(`Remembers`, `Appends`); and at most one record may be visible and not durable
(`OneAheadInv`). `RootInv` ties the half-initialised directories to ledgers that
never held a record. `IInv` is the type invariant with what the processes share
(`SharedInv`) and what each one owns (`OwnInv`). Every step then moves the
durable tail by at most one exact successor, hence the refinement; records have
consecutive generations, hence a retried advance appends once; and a process
past validation has an operation at the frontier, hence a foreign one changes
nothing. Assumptions: `LedgerAssumption` and `CheckpointAssumption` (what
decoding guarantees of a checkpoint).

*Settlement engine.* From `EngineIInv`: until settlement nothing is paid, all
versions are the initial ones and every charge is within the funding. The key
lemma is that the rounded fee is at most the charge. Assumptions: `TrustBundle`,
which is what `validate_trust_bundle` requires, and `BlockAssumption`.

*Settlement store.* A caller judges its command on a head it read before its
transaction. `StoreIInv` says what such a reading is still worth: the journal
only grew since, and a caller about to commit is the only writer, holds a head
equal to the stored one, and judged its command to be acceptable there and not
recorded among the operations of that head. Together with the journal's own
shape (commands occur once, receipts name their position, the last marker is the
tip) this gives `AckedAsRequested`, and shows every commit to be one accepted
command or one empty block of the engine. The kernel's fields must be tracked as
well (`KernelOK`), since the refinement reads them. `StoreAssumption` keeps the
names of trust bundles apart from the names of the states before the store
exists. The disjointness of section 3 is not assumed.

*Preview of the settlement store.* The preview reads the head, later the state,
applies its commands, and reads the head again. `PreviewOK`: a preview in
progress holds the state after some prefix of the journal no shorter than its
source, followed by its commands so far. A journal that is back at the length of
the source when the preview ends never left it, since operations are only
appended (`OpsGrow`). The replay is a recursive function over the journal.
`LoopFacts` proves once that such a loop is defined for every journal, makes one
turn per entry, and depends on its prefix only. Induction over data is out of
reach of the installed provers as a rule with an operator parameter; `LoopFacts`
uses the least counterexample instead.

*Peer lease.* `LeaseIInv` has five parts. Every prefix of the journal replays,
the synced one included (`LogOK`). The memory is the replay of the journal, or
of all but its last record while that one is not synced (`MemOK`). A request to
renew or release names a token its session has given up (`CallOK`). An answered
grant has its acquisition in the journal, in the synced part if the process that
wrote it answered (`HistoryOK`). A token that is held is the entry of its scope
(`HoldOK`), because who replaces an entry has waited for it to expire or had
asked with that very token. `LeaseJournalProofs` shows that whatever the daemon
decides to append can be replayed on what it has, which is where the observed
times and the generation counter meet. Assumptions: `LeaseAssumption` and
`AuthorityAssumption` (the constants are naturals, lease times are positive).

*Task market.* `MarketIInv`: the stored objects are those that the last
operation left, and a preview that ran did so on a journal no shorter than the
one its sequence number counts. As the end of the preview sees the first
readback again, the journal had that very length, so number and state belong
together. No assumption is needed.

*Only model-checked, and why.*

- Liveness under fairness: `LockIsReturned`, `NormalIsServed`.
- Sums and other folds over data of any size (`MarketConserved`, `VaultReplays`,
  `PonAccounts`): they need an induction per operator.
- `StateImport` (`ImportsInstalled`) has `RECURSIVE` operators, with which the
  prover loses its arithmetic backend.
- Properties that are a conjunction over several machines (`StoresReopen`,
  `PublicationsHold`, `ImportsInstalled` and those of `execution`): their parts
  have no theorems.
- `CheckpointAuthority` (`AppliedSurvives`, `AbsentIsFinal`, its refinement),
  `PayloadReplay`, `DataAvailability`, `LaneGate`
  (`SnapshotIsHonest`) and the machines of `execution`: no proof was written.

## 5. Findings

1. `trnm-checkpoint-store/src/lib.rs:538`: an authority that died between write
   and sync of a record is reopened, takes the record for a synced one and
   publishes an anchor for it. If it dies too, before the directory sync, the
   next one finds journal and anchor equal, syncs nothing and serves the record.
   A power loss then rolls back a value that was loaded. The peer-lease
   authority has the same gap for grants answered from a replayed journal.
2. `trnm-service-settlement/src/engine.rs:888`: a usage list with two entries of
   one resource loses usage in the cumulative total. The charge is not affected.
3. `trnm-service-settlement/src/store.rs:1482`: a command executed in a block
   already advanced over as empty is committed and then fails every audit.
4. `trnm-mempool/src/lib.rs:179`: a critical item waits for ever while single
   normal items keep arriving on an empty normal lane.
5. `trnm-mvcc-fee/src/deterministic_parallel_v1.rs:426`: an error that a worker
   meets while speculating on the parent state rejects the block, although the
   transaction would succeed after its predecessors.
6. `trnm-executor/src/lib.rs:1017`: the latest reader group of a key is set to
   the group of the last reader placed, which may be an earlier one; a writer
   can then share a group with a reader of the same key.

`PROJECT.json` quotes the comment or test each of them contradicts.

## 6. What the code accepts

Behaviours met while modelling that no document rules out. They are in the
models and no property speaks against them.

- *Stops until someone intervenes.* A torn record ends the checkpoint, lease and
  payload journals; an anchor or acknowledgement temporary that is left behind,
  an empty journal, or a genesis without head are refused. A process killed
  inside its SQLite transaction leaves a `-journal` file that the mvcc and
  task-market stores refuse, and the settlement store too unless a call already
  past the check recovers it; one killed between creating the settlement file
  and committing the tables leaves a file every later open refuses, and so does
  one killed between creating the task-market file and its tables. A daemon
  refuses the socket of a killed one. `ledger.py` refuses an intent file cut
  during its write. A worker's task lock is only removed by `Drop`. The lease
  journal can fill up and nothing compacts it.
- *Late syncs.* Recovery of the payload journal publishes a head without syncing
  the log, and a reopening store does not sync a head renamed by a dead process:
  after a power loss a recovered record can be missing.
- *Answers that say less than happened.* A retry of a non-empty delta after a
  lost answer is refused (`BaseStateMismatch`). An empty advance of the task
  market answers `ThirdStateFenced` although committed when another caller
  commits before its readback. A confirmation of an mvcc block can fail while
  another writer's sidecar exists.
- *Escrows that cannot be settled.* A trust bundle whose escrow version or result
  revision is `u64::MAX`, whose fee product overflows, or whose balances have no
  room for the payment is accepted, and every settlement under it is refused.
- *Oracle.* Where `abs_diff * MAX_DEVIATION_BPS_CAP` saturates at `u128::MAX`, the
  reported deviation is smaller than the true one.
- *State import.* `initialize` does not compare its rows with the state root of
  the context. A store whose rows do not match can be read and can never take a
  delta.
- *Data availability.* `release_retention_v1` trusts the epoch and the height it
  is given: a caller that is wrong about them ends an obligation early. A corrupted certified batch stays `Certified` while the
  repair queue is full. An `Unavailable` batch is repaired, never admitted again.
- *Leases.* A renew may shorten a lease. A late renew or release of a call that
  was given up may still be served.
- *Worker agent.* Two agents can draw the same task id; rewriting the ingress
  file loses a concurrent update; a crash between the log and the ingress file
  re-runs the request; a commit whose hash was lost is never accepted.
- *Admission, governance, challenges.* A fairness deferral of the retry gate
  uses up the reservation of a known retry. A scheduled restore whose guardian
  lost the role blocks others until it is cancelled. Between the evidence and
  the response deadline of a challenge both expiry and `begin_response` are open.
- *Others.* Accepting a lease does not compare the bid's task with the lease's.
  A fenced handoff may be fenced again. The error code of a rejected parallel
  block may depend on the number of workers.

## 7. Not modelled

- Codecs, hashes, signatures and schema checks: their result is a precondition
  or a property of the input.
- Path, inode and permission checks of the file stores: they guard against
  replacement of files by other programs, which is outside the fault model
  (process death, I/O error, power loss).
- The directory entry of the ledger root itself: the model takes it as durable
  once the root has been synced.
- Test-only fault injections (`ThirdState` and others).
- The read-only confirmations and schema checks of the mvcc store, the effect
  journal of `ledger.py`, the audit log of the governance guard, the audit
  export of the worker agent, and the evidence path of settlement records.
- The wire protocol, cryptographic primitives, the release bundle, the
  benchmark, the evaluation reference and the scripts: no state between calls.
- Files that no `mod` declaration reaches: in `trnm-mempool` `gate.rs`, `gate/`,
  `lane_*.rs`, `lane_recovery/`, `admission_gate.rs`, `demo.rs`; in
  `trnm-executor` `conflict.rs`, `env_config.rs`, `adaptive.rs`,
  `aggressive_profile.rs`, `reorder.rs`; in `trnm-worker-agent` all but `main`,
  `assigned`, `audit`, `cli`, `dispatch`, `flush`, `flush_submission`,
  `proof_adapter`, `workflow`, `workflow_ops` and `command_runtime_exec`; in
  `trnm-types` the directories `interop_identity/` and `relay/`.

The map of `PROJECT.json` lists the 800 definitions that stand for most code;
a few small helpers beside them are not listed.
