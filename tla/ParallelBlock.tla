---------------------------- MODULE ParallelBlock ----------------------------
(***************************************************************************)
(* The bounded parallel executor of deterministic_parallel_v1.rs: workers  *)
(* execute the transactions of a block against the parent state, a commit  *)
(* loop in index order keeps a result whose read versions still stand and  *)
(* executes the others once more on the committed prefix.  Unlike the      *)
(* engine of MvccFee, conflicts are found by version alone, instructions   *)
(* may write without reading, and the first worker error ends the block.   *)
(***************************************************************************)
EXTENDS Integers, FiniteSets, TLC, SequencesExt, FiniteSetsExt

CONSTANTS
    PbParent,      \* object -> [version, value]
    PbBodies,      \* transaction lists a block may carry
    PbWorkers,     \* worker counts a caller may ask for
    PbPrice,       \* fee schedule: base and the four unit prices
    PbMaxValue     \* largest object value (i128::MAX in the code)

VARIABLE pb        \* the execute_parallel_block_v1 call

PbErr == [ok |-> FALSE]

PbReads(tx) == {tx.instructions[i].source : i \in
                   {k \in DOMAIN tx.instructions : tx.instructions[k].kind = "AddFromRead"}}

PbWrites(tx) == {tx.instructions[i].target : i \in DOMAIN tx.instructions}

\* The declared access sets are those of the instructions, no object is written twice.
PbTransactionValid(tx) ==
    /\ tx.reads = PbReads(tx) /\ tx.writes = PbWrites(tx)
    /\ Cardinality(PbWrites(tx)) = Len(tx.instructions)

PbBlockValid(body, workers) ==
    /\ body # <<>> /\ workers # 0
    /\ \A i \in DOMAIN body : PbTransactionValid(body[i])
    /\ \A i, j \in DOMAIN body : body[i].id = body[j].id => i = j

PbUsage(tx) == << tx.compute + Len(tx.instructions), Cardinality(tx.reads),
                  Cardinality(tx.writes), tx.artifacts >>

FeeFor(usage) == FoldLeft(LAMBDA fee, r : fee + usage[r] * PbPrice.units[r], PbPrice.base, <<1, 2, 3, 4>>)

PbStatus(tx) ==
    IF \E r \in 1..4 : PbUsage(tx)[r] > tx.limit[r] THEN "OutOfResource"
    ELSE IF tx.revert THEN "Reverted" ELSE "Success"

Value(state, instruction) ==
    IF instruction.kind = "Set" THEN instruction.value
    ELSE state[instruction.source].value + instruction.value

Written(state, tx) ==
    IF PbStatus(tx) # "Success" THEN <<>>
    ELSE [o \in tx.writes |->
            Value(state, CHOOSE x \in {tx.instructions[i] : i \in DOMAIN tx.instructions} : x.target = o)]

ExecuteTransaction(state, tx) ==
    IF \/ FeeFor(PbUsage(tx)) > tx.maxFee
       \/ ~(tx.reads \cup tx.writes \subseteq DOMAIN state)
       \/ \E o \in DOMAIN Written(state, tx) : Written(state, tx)[o] > PbMaxValue
    THEN PbErr
    ELSE [ ok |-> TRUE, versions |-> [o \in tx.reads |-> state[o].version],
           writes |-> Written(state, tx), status |-> PbStatus(tx),
           fee |-> FeeFor(PbUsage(tx)), payer |-> tx.payer ]

\* Mutant: a write keeps the version of the object.
OverwriteInPlace(state, writes) ==
    [o \in DOMAIN writes |-> [version |-> state[o].version, value |-> writes[o]]] @@ state

ApplyWrites(state, writes) ==
    [o \in DOMAIN writes |-> [version |-> state[o].version + 1, value |-> writes[o]]] @@ state

Commit(acc, x) ==
    IF ~acc.ok \/ ~x.ok THEN PbErr
    ELSE [ ok |-> TRUE, state |-> ApplyWrites(acc.state, x.writes),
           receipts |-> Append(acc.receipts, [status |-> x.status, fee |-> x.fee, writes |-> x.writes]),
           fees |-> (x.payer :> (x.fee + IF x.payer \in DOMAIN acc.fees THEN acc.fees[x.payer] ELSE 0))
                    @@ acc.fees ]

Fresh == [ok |-> TRUE, state |-> PbParent, receipts |-> <<>>, fees |-> <<>>]

Conflicted(acc, x) == \E o \in DOMAIN x.versions : acc.state[o].version # x.versions[o]

CommitSpeculated(body, speculated, acc, i) ==
    IF ~acc.ok THEN PbErr
    ELSE Commit(acc, IF Conflicted(acc, speculated[i]) THEN ExecuteTransaction(acc.state, body[i])
                     ELSE speculated[i])

\* The transactions one after the other, each on the committed prefix.
Canonical(body) ==
    FoldLeft(LAMBDA acc, i : IF acc.ok THEN Commit(acc, ExecuteTransaction(acc.state, body[i])) ELSE PbErr,
             Fresh, [i \in DOMAIN body |-> i])

\* Worker w of n takes positions w, w + n, w + 2n, ... of the block.
WorkerStep(w) ==
    /\ pb.pc = "speculating"
    /\ \E i \in DOMAIN pb.body \ DOMAIN pb.speculated :
         /\ i % pb.workers = w
         /\ \A j \in 1..(i - 1) : j % pb.workers = w => j \in DOMAIN pb.speculated
         /\ pb' = [pb EXCEPT !.speculated = (i :> ExecuteTransaction(PbParent, pb.body[i])) @@ @]

\* All workers joined: any speculative error ends the block, otherwise the commit loop runs.
JoinAndCommit ==
    /\ pb.pc = "speculating"
    /\ DOMAIN pb.speculated = DOMAIN pb.body
    /\ pb' = [pb EXCEPT !.pc = "done", !.outcome =
           IF \E i \in DOMAIN pb.body : ~pb.speculated[i].ok THEN PbErr
           ELSE FoldLeft(LAMBDA acc, i : CommitSpeculated(pb.body, pb.speculated, acc, i),
                         Fresh, [i \in DOMAIN pb.body |-> i])]

PbInit ==
    \E body \in PbBodies, workers \in PbWorkers :
        /\ PbBlockValid(body, workers)
        /\ pb = [pc |-> "speculating", body |-> body, workers |-> workers,
                 speculated |-> <<>>, outcome |-> PbErr]

PbNext ==
    \/ \E w \in 0..(pb.workers - 1) : WorkerStep(w)
    \/ JoinAndCommit

PbSpec == PbInit /\ [][PbNext]_pb

\* A block the parallel executor accepts has the state, receipts and fees of its
\* transactions executed one after the other, whatever the number of workers and
\* the order they finish in.
AcceptedIsCanonical == pb.outcome.ok => pb.outcome = Canonical(pb.body)

\* The module comment: the commit loop "re-executes a transaction against the
\* committed prefix whenever any declared read version changed".  A block whose
\* transactions all succeed in order is therefore accepted.
CanonicalIsAccepted == pb.pc = "done" /\ Canonical(pb.body).ok => pb.outcome.ok
=============================================================================
