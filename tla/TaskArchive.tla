---------------------------- MODULE TaskArchive -----------------------------
(***************************************************************************)
(* trnm-task-kernel/src/archive.rs and archive_store.rs: terminal task     *)
(* records are kept live while retention is paid for, and moved in sealed  *)
(* batches to the archive when there are too many.  A planner works on the *)
(* live records and holds it has seen; the store decides in one            *)
(* transaction.  Several planners run, hold snapshots change in between,   *)
(* and a caller that loses its answer repeats the call.                    *)
(*                                                                         *)
(* A record's hash is the record and a seal's hash the sealed batch.  The  *)
(* hash of a Merkle node is the pair it commits to.                        *)
(***************************************************************************)
EXTENDS Naturals, FiniteSets, Sequences, SequencesExt

CONSTANTS Records,        \* [task, terminal, paidThrough, bytes, charge]
          MinRetention,   \* the fields of TaskArchivePolicyV1
          MaxLive, MaxLiveBytes, MaxBatch, MaxBatchBytes, ChargeRate,
          ArchiveHeights, \* heights at which planners run
          HoldSnapshots,  \* sets of tasks under legal hold
          Planner

VARIABLES archive,   \* live records, holds, seals with their live roots
          plan,      \* the batch each planner has prepared, if any
          installed  \* what install_live_records_v1 was given

archiveVars == <<archive, plan, installed>>

SumOf(f(_), s) == FoldSeq(LAMBDA r, n : f(r) + n, 0, s)
Bytes(s) == SumOf(LAMBDA r : r.bytes, s)
Charge(s) == SumOf(LAMBDA r : r.charge, s)
Tasks(s) == {r.task : r \in s}

\* validate_against: the mandatory retention is prepaid, per byte and block.
RecordIsPaid(r, h) ==
  /\ r.terminal <= h /\ r.bytes > 0
  /\ r.paidThrough >= r.terminal + MinRetention - 1
  /\ r.charge >= r.bytes * (r.paidThrough - r.terminal + 1) * ChargeRate

FirstPrunable(r) == r.paidThrough + 1

\* Records ordered by (terminal height, task).
Before(r, s) == r.terminal < s.terminal \/ (r.terminal = s.terminal /\ r.task < s.task)
Canonical(recs) == SetToSortSeq(recs, Before)
-----------------------------------------------------------------------------
(***************************************************************************)
(* The Merkle tree: an odd node is paired with itself.                     *)
(***************************************************************************)
ParentLevel(s) ==
  [i \in 1 .. (Len(s) + 1) \div 2 |->
     <<s[2 * i - 1], IF 2 * i <= Len(s) THEN s[2 * i] ELSE s[2 * i - 1]>>]

\* expected_proof_depth_v1, for batches of at most eight records
Depth(n) == CHOOSE d \in 0 .. 3 : n <= 2 ^ d /\ \A e \in 0 .. d - 1 : n > 2 ^ e

Levels(s) ==
  LET level[d \in 0 .. Depth(Len(s))] == IF d = 0 THEN s ELSE ParentLevel(level[d - 1])
  IN  level

MerkleRoot(s) == Levels(s)[Depth(Len(s))][1]

\* merkle_proof_v1, with leaf indices from 0
Sibling(level, i) ==
  IF i % 2 = 1 THEN level[i]
  ELSE IF i + 2 <= Len(level) THEN level[i + 2] ELSE level[i + 1]

MerkleProof(s, i) ==
  [d \in 1 .. Depth(Len(s)) |-> Sibling(Levels(s)[d - 1], i \div (2 ^ (d - 1)))]

\* verify_task_archive_inclusion_v1
ProofVerifies(seal, r, i, siblings) ==
  /\ i < seal.count /\ Len(siblings) = Depth(seal.count)
  /\ seal.height >= FirstPrunable(r)
  /\ LET node[d \in 0 .. Len(siblings)] ==
           IF d = 0 THEN r
           ELSE IF (i \div (2 ^ (d - 1))) % 2 = 0
                THEN <<node[d - 1], siblings[d]>> ELSE <<siblings[d], node[d - 1]>>
     IN  node[Len(siblings)] = seal.root
-----------------------------------------------------------------------------
(***************************************************************************)
(* plan_task_archive_pruning_v1                                            *)
(***************************************************************************)
Fits(count, bytes) == count <= MaxLive /\ bytes <= MaxLiveBytes

\* The walk over the canonical records: it stops once the rest fits or the
\* batch is full, and passes over what is held, unpaid for or too large.
Walk(recs, holds, h) ==
  LET step(w, r) ==
        IF w.done \/ Fits(w.count, w.bytes) THEN [w EXCEPT !.done = TRUE]
        ELSE IF r.task \in holds \/ h < FirstPrunable(r) THEN w
        ELSE IF Len(w.selected) = MaxBatch THEN [w EXCEPT !.done = TRUE]
        ELSE IF Bytes(w.selected) + r.bytes > MaxBatchBytes THEN w
        ELSE [w EXCEPT !.selected = Append(@, r), !.count = @ - 1, !.bytes = @ - r.bytes]
  IN  FoldLeft(step, [selected |-> << >>, count |-> Cardinality(recs),
                      bytes |-> Bytes(Canonical(recs)), done |-> FALSE], Canonical(recs))

Seal(s, h, n, previous) ==
  [height |-> h, sequence |-> n, previous |-> previous, count |-> Len(s),
   first |-> s[1], last |-> s[Len(s)], bytes |-> Bytes(s), charge |-> Charge(s),
   root |-> MerkleRoot(s)]

\* TaskArchiveBatchV1::validate
BatchIsValid(b) ==
  LET s == b.records
  IN  /\ 0 < Len(s) /\ Len(s) <= MaxBatch
      /\ b.seal.sequence # 0 /\ b.seal.count = Len(s)
      /\ \A i \in 1 .. Len(s) :
           /\ RecordIsPaid(s[i], b.seal.height) /\ b.seal.height >= FirstPrunable(s[i])
           /\ i > 1 => Before(s[i - 1], s[i])
           /\ \A j \in 1 .. i - 1 : s[j].task # s[i].task
      /\ Bytes(s) <= MaxBatchBytes /\ Bytes(s) = b.seal.bytes
      /\ Charge(s) = b.seal.charge /\ MerkleRoot(s) = b.seal.root
      /\ b.seal.first = s[1] /\ b.seal.last = s[Len(s)]

CanPlan(recs, holds, h) ==
  /\ \A r \in recs : RecordIsPaid(r, h)
  /\ holds \subseteq Tasks(recs)
  /\ ~Fits(Cardinality(recs), Bytes(Canonical(recs)))
  /\ LET w == Walk(recs, holds, h)
     IN  w.selected # << >> /\ Fits(w.count, w.bytes)

Batch(recs, holds, h, n, previous) ==
  LET s == Walk(recs, holds, h).selected
  IN  [seal |-> Seal(s, h, n, previous), records |-> s]
-----------------------------------------------------------------------------
(***************************************************************************)
(* TaskArchiveStoreV1                                                      *)
(***************************************************************************)
NoSeal == [none |-> TRUE]
LastSeal(d) == IF d.seals = << >> THEN NoSeal ELSE Last(d.seals).batch.seal
ArchivedIn(d) == UNION {ToSet(d.seals[i].batch.records) : i \in 1 .. Len(d.seals)}

\* The live records before each seal, going back from the present ones.
Reconstructed(d, i) ==
  d.live \cup UNION {ToSet(d.seals[j].batch.records) : j \in i .. Len(d.seals)}

\* audit: the seals chain, no task appears twice, and each batch leads from
\* the live root it names to the one after it.
AuditArchive(d) ==
  /\ d.generation = Len(d.seals)
  /\ \A i \in 1 .. Len(d.seals) :
       LET b == d.seals[i].batch
       IN  /\ BatchIsValid(b) /\ b.seal.sequence = i
           /\ b.seal.previous = IF i = 1 THEN NoSeal ELSE d.seals[i - 1].batch.seal
           /\ d.seals[i].before = Reconstructed(d, i)
           /\ d.seals[i].after = Reconstructed(d, i + 1)
           /\ Tasks(ToSet(b.records)) \cap Tasks(Reconstructed(d, i + 1)) = {}

Init ==
  /\ archive = [live |-> {}, holds |-> {}, generation |-> 0, seals |-> << >>]
  /\ plan = [p \in Planner |-> NoSeal]
  /\ installed = {}

\* install_live_records_v1: once, into an archive without records.
InstallLive ==
  /\ AuditArchive(archive) /\ archive.generation = 0 /\ archive.live = {}
  /\ \E recs \in SUBSET Records, h \in ArchiveHeights :
       /\ \A r \in recs : RecordIsPaid(r, h)
       /\ Cardinality(Tasks(recs)) = Cardinality(recs)
       /\ archive' = [archive EXCEPT !.live = recs]
       /\ installed' = recs
  /\ UNCHANGED plan

\* replace_legal_hold_snapshot_v1
ReplaceHolds ==
  /\ AuditArchive(archive)
  /\ \E s \in HoldSnapshots : archive' = [archive EXCEPT !.holds = s]
  /\ UNCHANGED <<plan, installed>>

\* A planner prepares the next batch from what it sees.
Plan(p) ==
  /\ plan[p] = NoSeal
  /\ \E h \in ArchiveHeights :
       LET held == archive.holds \cap Tasks(archive.live)
       IN  /\ CanPlan(archive.live, held, h)
           /\ plan' = [plan EXCEPT ![p] =
                Batch(archive.live, held, h, Len(archive.seals) + 1, LastSeal(archive))]
  /\ UNCHANGED <<archive, installed>>

\* Mutant: the holds the planner used are taken as the durable ones.
HoldsOfThePlan(d, b) == TRUE

HoldsAreClear(d, b) == Tasks(ToSet(b.records)) \cap d.holds = {}

\* Mutant: a batch is not tied to the seal it was planned after.
CanArchiveUnchained(d, b) ==
  AuditArchive(d) /\ BatchIsValid(b) /\ ToSet(b.records) \subseteq d.live /\ HoldsAreClear(d, b)

CanArchive(d, b) ==
  /\ AuditArchive(d) /\ BatchIsValid(b)
  /\ b.seal.sequence = Len(d.seals) + 1 /\ b.seal.previous = LastSeal(d)
  /\ ToSet(b.records) \subseteq d.live
  /\ HoldsAreClear(d, b)

\* archive_and_delete_v1: the batch is sealed and its records leave the live
\* table in one transaction.  A batch already sealed is answered from its
\* row, any other refusal is an error; the planner is done either way, or
\* keeps its batch to repeat the call after an answer it never got.
ArchiveAndDelete(p) ==
  /\ plan[p] # NoSeal
  /\ LET b == plan[p]
     IN  archive' = IF CanArchive(archive, b)
                    THEN [archive EXCEPT
                            !.live = @ \ ToSet(b.records), !.generation = @ + 1,
                            !.seals = Append(@, [batch |-> b, before |-> archive.live,
                                                 after |-> archive.live \ ToSet(b.records)])]
                    ELSE archive
  /\ \/ plan' = [plan EXCEPT ![p] = NoSeal]
     \/ UNCHANGED plan
  /\ UNCHANGED installed

Next ==
  \/ InstallLive \/ ReplaceHolds
  \/ \E p \in Planner : Plan(p) \/ ArchiveAndDelete(p)

Spec == Init /\ [][Next]_archiveVars
-----------------------------------------------------------------------------
(***************************************************************************)
(* Properties.                                                             *)
(***************************************************************************)
\* Whatever planners and hold snapshots interleave, the store passes the
\* audit of its next open, and every record ever installed is in exactly one
\* of the live table and the sealed batches, where a proof built for its
\* position, and for no other, verifies against the seal.
ArchiveKeepsRecords ==
  /\ AuditArchive(archive)
  /\ archive.live \cup ArchivedIn(archive) = installed
  /\ archive.live \cap ArchivedIn(archive) = {}
  /\ \A k \in 1 .. Len(archive.seals) :
       LET b == archive.seals[k].batch
       IN  \A i, j \in 1 .. Len(b.records) :
             ProofVerifies(b.seal, b.records[i], j - 1, MerkleProof(b.records, j - 1)) <=> i = j

\* A record under a durable legal hold never leaves the live table, even for
\* a batch planned before the hold; nor does one whose retention is still
\* paid for at the batch's height.
HeldStaysLive ==
  [][\A r \in archive.live \ archive'.live :
       /\ r.task \notin archive.holds
       /\ Last(archive'.seals).batch.seal.height > r.paidThrough]_archiveVars
=============================================================================
