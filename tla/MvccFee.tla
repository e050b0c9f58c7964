------------------------------ MODULE MvccFee ------------------------------
(***************************************************************************)
(* Block execution of trnm-mvcc-fee: worker threads speculate on the       *)
(* transactions of a block against one immutable parent, a commit loop in  *)
(* block order reuses what still stands and recomputes the rest, fees are  *)
(* split at the end of the block, and a SQLite store shared by several     *)
(* handles appends the block to a journal its audit replays serially.      *)
(*                                                                         *)
(* A hash stands for the value it commits to: a block identifier is the    *)
(* sequence of transaction lists from the genesis on, a state root the     *)
(* object map.  Objects never close, their borsh encoding has one length.  *)
(***************************************************************************)
EXTENDS Integers, FiniteSets, TLC, SequencesExt, FiniteSetsExt

CONSTANTS
    Executors,     \* store handles, each in a process of its own
    WorkerCount,   \* the worker threads of each handle
    Genesis,       \* object -> [version, value]
    Bodies,        \* transaction lists a block may carry
    Prices,        \* the four resource prices, in their committed order
    Splits,        \* fee destination -> numerator of its share
    Denominator,   \* common denominator of the shares
    Remainder,     \* destination that takes what rounding leaves
    MaxValue,      \* largest object value (u128::MAX in the code)
    ObjectSize,    \* length of an encoded object
    MaxHeight      \* bound: blocks in the journal

VARIABLES
    mvccCall,      \* executor -> the execute_block call it is in
    mvccObjects,   \* rows of the objects table
    mvccJournal,   \* rows of the blocks table, by height
    mvccSidecar    \* a rollback journal lies beside the database

mvccVars == <<mvccCall, mvccObjects, mvccJournal, mvccSidecar>>

Err == [ok |-> FALSE]

SumOf(seq) == FoldLeft(LAMBDA x, y : x + y, 0, seq)

Idle == [pc |-> "idle"]

(***************************************************************************)
(* The transaction engine.                                                 *)
(***************************************************************************)
GenesisValid ==
    /\ Len(Prices) = 4
    /\ \A i \in 1..4 : Prices[i].den # 0 /\ Prices[i].min <= Prices[i].max
    /\ \A d \in DOMAIN Splits : Splits[d] # 0
    /\ Denominator # 0 /\ Remainder \in DOMAIN Splits
    /\ MapThenSumSet(LAMBDA d : Splits[d], DOMAIN Splits) = Denominator
    /\ DOMAIN Splits \subseteq DOMAIN Genesis

Touched(tx) ==
    CASE tx.program = "Add" -> {tx.target}
      [] tx.program = "Transfer" -> {tx.source, tx.target}
      [] tx.program = "Revert" -> {}

Access(tx) == {tx.payer} \cup Touched(tx)

TransactionValid(tx) ==
    /\ tx.limit # 0 /\ tx.maxFee # 0
    /\ tx.payer \notin DOMAIN Splits \cup Touched(tx)
    /\ tx.program = "Transfer" => tx.source # tx.target

BlockValid(parent, block) ==
    /\ Last(block.id) # <<>>
    /\ block.parentRoot = parent
    /\ \A i \in DOMAIN Last(block.id) : TransactionValid(Last(block.id)[i])

ReadSet(state, tx) == [o \in Access(tx) |-> state[o]]

ReadsPresent(state, body) == \A i \in DOMAIN body : Access(body[i]) \subseteq DOMAIN state

\* Mutant: what a worker computed on the parent is always reused.
NoConflicts(initial, current) == {}

Conflicts(initial, current) == {o \in DOMAIN initial : initial[o] # current[o]}

RequiredCompute(tx) ==
    CASE tx.program = "Add" -> 10
      [] tx.program = "Transfer" -> 20
      [] tx.program = "Revert" -> 5

Status(tx) ==
    IF tx.program = "Revert" THEN "Reverted"
    ELSE IF tx.limit < RequiredCompute(tx) THEN "OutOfResource" ELSE "Success"

Usage(tx) ==
    LET written == IF Status(tx) = "Success" THEN Cardinality(Touched(tx)) ELSE 0
    IN  << tx.size,
           Cardinality(Access(tx)) * ObjectSize,
           (written + 1) * ObjectSize,
           IF Status(tx) = "OutOfResource" THEN tx.limit ELSE RequiredCompute(tx) >>

Charge(price, amount) ==
    LET n == amount * price.num
        rounded == (n \div price.den) + (IF n % price.den = 0 THEN 0 ELSE 1)
    IN  Max({price.min, Min({price.max, rounded})})

CalculateFee(usage) == SumOf([i \in 1..4 |-> Charge(Prices[i], usage[i])])

\* Mutant: what rounding leaves is lost.
SplitFeeNoRemainder(fee) == [d \in DOMAIN Splits |-> (fee * Splits[d]) \div Denominator]

SplitFee(fee) ==
    LET floor == [d \in DOMAIN Splits |-> (fee * Splits[d]) \div Denominator]
        assigned == MapThenSumSet(LAMBDA d : floor[d], DOMAIN Splits)
    IN  [floor EXCEPT ![Remainder] = @ + fee - assigned]

Bump(object, value) == [version |-> object.version + 1, value |-> value]

ProgramFits(state, tx) ==
    Status(tx) = "Success" =>
        /\ tx.program = "Transfer" => state[tx.source].value >= tx.amount
        /\ state[tx.target].value + tx.amount <= MaxValue

ProgramWrites(state, tx) ==
    IF Status(tx) # "Success" THEN <<>>
    ELSE [o \in Touched(tx) |->
            Bump(state[o], state[o].value + (IF o = tx.target THEN tx.amount ELSE -tx.amount))]

ComputeTransaction(state, tx) ==
    LET fee == CalculateFee(Usage(tx))
        payer == state[tx.payer]
    IN  IF fee > tx.maxFee \/ payer.value < fee \/ ~ProgramFits(state, tx) THEN Err
        ELSE [ ok |-> TRUE, status |-> Status(tx), reads |-> ReadSet(state, tx),
               writes |-> (tx.payer :> Bump(payer, payer.value - fee)) @@ ProgramWrites(state, tx),
               usage |-> Usage(tx), fee |-> fee, refund |-> tx.maxFee - fee,
               deltas |-> SplitFee(fee) ]

(***************************************************************************)
(* The commit loop.  An accumulator carries the running state, the fees    *)
(* owed to each destination, and the receipts; an error ends the block.    *)
(***************************************************************************)
Start(parent) ==
    [ok |-> TRUE, state |-> parent, owed |-> [d \in DOMAIN Splits |-> 0], receipts |-> <<>>]

PendingFees(owed, deltas) == [d \in DOMAIN owed |-> owed[d] + deltas[d]]

CommitComputed(acc, computed, conflicts) ==
    LET owed == PendingFees(acc.owed, computed.deltas)
        state == computed.writes @@ acc.state
    IN  [ ok |-> TRUE, state |-> state, owed |-> owed,
          receipts |-> Append(acc.receipts,
              [computation |-> computed, conflicts |-> conflicts, post |-> <<state, owed>>]) ]

\* reduce_destination_credits: what the pending fees of all payers add up to, and
\* apply_destination_credits.
CreditsFit(state, owed) == \A d \in DOMAIN owed : state[d].value + owed[d] <= MaxValue

Credited(state, owed) ==
    [d \in DOMAIN owed |-> Bump(state[d], state[d].value + owed[d])] @@ state

AggregateResources(receipts) ==
    [c \in 1..4 |-> SumOf([i \in DOMAIN receipts |-> receipts[i].computation.usage[c]])]

FinishBlock(acc) ==
    IF ~acc.ok \/ ~CreditsFit(acc.state, acc.owed) THEN Err
    ELSE [ ok |-> TRUE, receipts |-> acc.receipts, credits |-> acc.owed,
           objects |-> Credited(acc.state, acc.owed),
           totals |-> AggregateResources(acc.receipts) ]

SerialStep(parent, body, acc, i) ==
    LET computed == ComputeTransaction(acc.state, body[i])
        conflicts == Conflicts(ReadSet(parent, body[i]), ReadSet(acc.state, body[i]))
    IN  IF ~acc.ok \/ ~computed.ok THEN Err ELSE CommitComputed(acc, computed, conflicts)

\* The sequential oracle of the audit.
ExecuteBlock(parent, body) ==
    IF ~ReadsPresent(parent, body) THEN Err
    ELSE FinishBlock(FoldLeft(LAMBDA acc, i : SerialStep(parent, body, acc, i),
                              Start(parent), [i \in DOMAIN body |-> i]))

ParallelStep(speculated, body, acc, i) ==
    LET reads == ReadSet(acc.state, body[i])
        conflicts == Conflicts(speculated[i].reads, reads)
        computed == IF conflicts = {} THEN speculated[i].computed
                    ELSE ComputeTransaction(acc.state, body[i])
    IN  IF ~acc.ok \/ ~computed.ok THEN Err ELSE CommitComputed(acc, computed, conflicts)

ExecuteBlockWithWorkers(parent, body, speculated) ==
    FinishBlock(FoldLeft(LAMBDA acc, i : ParallelStep(speculated, body, acc, i),
                         Start(parent), [i \in DOMAIN body |-> i]))

(***************************************************************************)
(* The store.  The head is the last journal row.                           *)
(***************************************************************************)
HeadAt(k) ==
    IF k = 0 THEN [id |-> <<>>, root |-> Genesis]
    ELSE [id |-> mvccJournal[k].block.id, root |-> mvccJournal[k].result.objects]

DurableHead == HeadAt(Len(mvccJournal))

BlockOn(head, body) == [id |-> Append(head.id, body), parentRoot |-> head.root]

ParentIsHead(block, head) == head = [id |-> Front(block.id), root |-> block.parentRoot]

Begun(preview, body) ==
    [pc |-> "begun", preview |-> preview, block |-> BlockOn(DurableHead, body), head |-> DurableHead]

Body(e) == Last(mvccCall[e].block.id)

\* execute_block reads the head: no sidecar, the audit passed, and the block extends
\* the head.  A stale block is refused and a journalled one only confirmed again.
BeginBlock(e) ==
    /\ mvccCall[e] = Idle
    /\ ~mvccSidecar
    /\ Len(mvccJournal) < MaxHeight
    /\ \E body \in Bodies :
         mvccCall' = [mvccCall EXCEPT ![e] = Begun(FALSE, body)]
    /\ UNCHANGED <<mvccObjects, mvccJournal, mvccSidecar>>

\* fresh_readback of the head; it refuses a store with a sidecar.
FreshReadback(head) == ~mvccSidecar /\ head = DurableHead

\* preview_before_vote_v1: a candidate on the head just read, executed and not written.
BeginPreview(e) ==
    /\ mvccCall[e] = Idle /\ FreshReadback(DurableHead) /\ Len(mvccJournal) < MaxHeight
    /\ \E body \in Bodies : mvccCall' = [mvccCall EXCEPT ![e] = Begun(TRUE, body)]
    /\ UNCHANGED <<mvccObjects, mvccJournal, mvccSidecar>>

\* The objects are read by a later statement, for a preview by another connection; a block
\* that is invalid on them ends the call.
LoadParent(e) ==
    /\ mvccCall[e].pc = "begun"
    /\ mvccCall' = [mvccCall EXCEPT ![e] =
           IF /\ @.preview => ~mvccSidecar
              /\ BlockValid(mvccObjects, @.block) /\ ReadsPresent(mvccObjects, Body(e))
           THEN [pc |-> "speculating", preview |-> @.preview, block |-> @.block, head |-> @.head,
                 parent |-> mvccObjects, speculated |-> <<>>]
           ELSE Idle]
    /\ UNCHANGED <<mvccObjects, mvccJournal, mvccSidecar>>

\* Worker w takes positions w, w + n, w + 2n, ... of the block.
Speculate(e, w) ==
    /\ mvccCall[e].pc = "speculating"
    /\ \E i \in DOMAIN Body(e) \ DOMAIN mvccCall[e].speculated :
         /\ i % WorkerCount[e] = w
         /\ \A j \in 1..(i - 1) : j % WorkerCount[e] = w => j \in DOMAIN mvccCall[e].speculated
         /\ mvccCall' = [mvccCall EXCEPT ![e].speculated =
                (i :> [reads |-> ReadSet(mvccCall[e].parent, Body(e)[i]),
                       computed |-> ComputeTransaction(mvccCall[e].parent, Body(e)[i])]) @@ @]
    /\ UNCHANGED <<mvccObjects, mvccJournal, mvccSidecar>>

\* All workers joined: the commit loop runs; an error ends the call.
CommitLoop(e) ==
    /\ mvccCall[e].pc = "speculating"
    /\ DOMAIN mvccCall[e].speculated = DOMAIN Body(e)
    /\ LET c == mvccCall[e]
           result == ExecuteBlockWithWorkers(c.parent, Body(e), c.speculated)
       IN  mvccCall' = [mvccCall EXCEPT ![e] =
               [pc |-> "executed", preview |-> c.preview, block |-> c.block, head |-> c.head,
                parent |-> c.parent, result |-> result]]
    /\ UNCHANGED <<mvccObjects, mvccJournal, mvccSidecar>>

\* Mutant: the transaction trusts the head read before it.
AnyParent(c) == c.result.ok

ParentStands(c) == c.result.ok /\ c.head = DurableHead /\ c.parent = mvccObjects

\* An immediate transaction: the database is locked, the head and the objects are
\* compared again; a failed comparison or an execution error ends the call.
BeginTransaction(e) ==
    /\ mvccCall[e].pc = "executed" /\ ~mvccCall[e].preview
    /\ \A other \in Executors : mvccCall[other].pc # "writing"
    /\ IF ParentStands(mvccCall[e])
       THEN /\ mvccCall' = [mvccCall EXCEPT ![e].pc = "writing"]
            /\ mvccSidecar' = TRUE
       ELSE mvccCall' = [mvccCall EXCEPT ![e] = Idle] /\ UNCHANGED mvccSidecar
    /\ UNCHANGED <<mvccObjects, mvccJournal>>

\* The preview is handed out when the head reads as before.
PreviewStands(c) == c.result.ok /\ FreshReadback(c.head)

EndPreview(e) ==
    /\ mvccCall[e].pc = "executed" /\ mvccCall[e].preview
    /\ mvccCall' = [mvccCall EXCEPT ![e] = Idle]
    /\ UNCHANGED <<mvccObjects, mvccJournal, mvccSidecar>>

\* insert_block
JournalRow(c) == [block |-> c.block, result |-> c.result]

CommitTransaction(e) ==
    /\ mvccCall[e].pc = "writing"
    /\ mvccObjects' = mvccCall[e].result.objects
    /\ mvccJournal' = Append(mvccJournal, JournalRow(mvccCall[e]))
    /\ mvccSidecar' = FALSE
    /\ mvccCall' = [mvccCall EXCEPT ![e] = Idle]

\* A process dies.  Inside its transaction it leaves the rollback journal, which
\* every later open refuses.
Die(e) ==
    /\ mvccCall[e] # Idle
    /\ mvccCall' = [mvccCall EXCEPT ![e] = Idle]
    /\ UNCHANGED <<mvccObjects, mvccJournal, mvccSidecar>>

MvccInit ==
    /\ GenesisValid
    /\ mvccCall = [e \in Executors |-> Idle]
    /\ mvccObjects = Genesis
    /\ mvccJournal = <<>>
    /\ mvccSidecar = FALSE

MvccNext ==
    \/ \E e \in Executors : BeginBlock(e)
    \/ \E e \in Executors : BeginPreview(e)
    \/ \E e \in Executors : LoadParent(e)
    \/ \E e \in Executors : \E w \in 0..(WorkerCount[e] - 1) : Speculate(e, w)
    \/ \E e \in Executors : CommitLoop(e)
    \/ \E e \in Executors : EndPreview(e)
    \/ \E e \in Executors : BeginTransaction(e)
    \/ \E e \in Executors : CommitTransaction(e)
    \/ \E e \in Executors : Die(e)

MvccSpec == MvccInit /\ [][MvccNext]_mvccVars

(***************************************************************************)
(* Properties.                                                             *)
(***************************************************************************)
\* Whatever the worker count and the order the threads finish in, a block
\* executed with speculation has the objects, receipts, conflict sets, fees and
\* the error that the serial oracle of the audit computes on the same parent.
SchedulingInvisible ==
    \A e \in Executors : mvccCall[e].pc \in {"executed", "writing"} =>
        mvccCall[e].result = ExecuteBlock(mvccCall[e].parent, Body(e))

\* A preview that is handed out is the one of the state after the head it names: the
\* objects it was executed on, read by a later statement than the head, are that head's.
PreviewIsOfHead ==
    \A e \in Executors :
        mvccCall[e].pc = "executed" /\ mvccCall[e].preview /\ PreviewStands(mvccCall[e]) =>
            mvccCall[e].result = ExecuteBlock(DurableHead.root, Body(e))

\* audit(): each journalled block extends the one before it, its serial execution
\* gives its stored receipt, and the last one the rows of the objects table.
Audit ==
    /\ \A k \in DOMAIN mvccJournal :
         /\ ParentIsHead(mvccJournal[k].block, HeadAt(k - 1))
         /\ mvccJournal[k].result = ExecuteBlock(HeadAt(k - 1).root, Last(mvccJournal[k].block.id))
    /\ mvccObjects = DurableHead.root

\* Whichever handles commit blocks, and wherever they die, the audit that every open
\* replays over the journal accepts the store.
AuditPasses == Audit

Total(objects) == MapThenSumSet(LAMBDA o : objects[o].value, DOMAIN objects)

Minted(tx) == IF tx.program = "Add" /\ Status(tx) = "Success" THEN tx.amount ELSE 0

\* Every unit of fee a payer loses reaches a destination by the end of the block,
\* rounding included: the values held change by what successful Add programs mint
\* and by nothing else.
FeesConserved ==
    Total(mvccObjects) = Total(Genesis) + SumOf([k \in DOMAIN mvccJournal |->
        SumOf([i \in DOMAIN Last(mvccJournal[k].block.id) |-> Minted(Last(mvccJournal[k].block.id)[i])])])
=============================================================================
