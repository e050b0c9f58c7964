----------------------------- MODULE ChainLedger -----------------------------
(***************************************************************************)
(* The fork-choice ledger of formal/pon-nakamoto-v1/ledger.py: a tree of   *)
(* admitted blocks with their deltas, the active tip and the key-value     *)
(* generation readers see, and the staged reorganisation that moves from   *)
(* one branch to a heavier one, transaction by transaction, so that a      *)
(* process may die between any two of them.                                *)
(*                                                                         *)
(* A block identifier is the list of headers from the genesis on.  The     *)
(* effect of a body is an assignment to one key; PonExecutor is about the  *)
(* execution itself.  Work proofs are valid.                               *)
(***************************************************************************)
EXTENDS Integers, FiniteSets, TLC, SequencesExt, FiniteSetsExt

CONSTANTS
    Keys, Absent,      \* state keys, and the value of a key not in the state
    Effects,           \* [key, value] assignments a body may make
    Times,             \* gaps between the timestamps of a block and its parent
    TargetSpace,       \* 2^256 in the code
    PowLimit,          \* easiest target, also the first
    RetargetInterval, Spacing, Now, Skew,
    Width,             \* ancestors in the median time
    SnapshotEvery, SnapshotsKept,   \* heights between snapshots; how many stay
    MaxBlocks, MaxDeaths   \* bounds

VARIABLES
    clBlocks,      \* admitted blocks: id -> [work, delta, root]
    clSnapshots,   \* blocks whose state is kept whole
    clActive,      \* [tip, generation, slot]
    clKv,          \* generation -> state
    clReorg,       \* the staged reorganisation
    clMarker,      \* the initialisation intent file
    clOwner        \* the process with the owner lock: [pc, call, target, deaths]; idle
                   \* with a call is the return of that call

clVars == <<clBlocks, clSnapshots, clActive, clKv, clReorg, clMarker, clOwner>>

Genesis == <<>>

EmptyState == [k \in Keys |-> Absent]

Work(target) == TargetSpace \div (target + 1)

Target(id) == IF id = Genesis THEN PowLimit ELSE Last(id).target

Time(id) == IF id = Genesis THEN 0 ELSE Last(id).time

Height(id) == Len(id)

Ancestor(id, n) == SubSeq(id, 1, Len(id) - n)

Clamp(x, low, high) == Max({low, Min({high, x})})

Retarget(parent) ==
    LET desired == (RetargetInterval - 1) * Spacing
        observed == Max({1, Time(parent) - Time(Ancestor(parent, RetargetInterval - 1))})
        bounded == Clamp(observed, (desired + 3) \div 4, 4 * desired)
    IN  Clamp((Target(parent) * bounded) \div desired, 1, PowLimit)

NextTarget(parent) ==
    IF (Height(parent) + 1) % RetargetInterval = 0 THEN Retarget(parent) ELSE Target(parent)

\* The timestamp is later than the median of the last ancestors, not ahead of the clock.
TimeAdmissible(parent, time) ==
    LET recent == SortSeq([i \in 1..Min({Width, Len(parent) + 1}) |-> Time(Ancestor(parent, i - 1))], <)
    IN  time > recent[(Len(recent) \div 2) + 1] /\ time <= Now + Skew

Execute(state, effect) == [state EXCEPT ![effect.key] = effect.value]

DeltaOf(before, after) ==
    [k \in {key \in Keys : before[key] # after[key]} |-> [before |-> before[k], after |-> after[k]]]

DeltaApplies(state, delta) == \A k \in DOMAIN delta : state[k] = delta[k].before

DeltaReverts(state, delta) == \A k \in DOMAIN delta : state[k] = delta[k].after

Attached(state, delta) == [k \in Keys |-> IF k \in DOMAIN delta THEN delta[k].after ELSE state[k]]

Detached(state, delta) == [k \in Keys |-> IF k \in DOMAIN delta THEN delta[k].before ELSE state[k]]

\* state_at: from the nearest snapshot on the path, through the retained deltas.
StateAt(id) ==
    LET from == CHOOSE n \in 0..Len(id) :
                    /\ SubSeq(id, 1, n) \in DOMAIN clSnapshots
                    /\ \A m \in (n + 1)..Len(id) : SubSeq(id, 1, m) \notin DOMAIN clSnapshots
    IN  FoldLeft(LAMBDA s, m : Attached(s, clBlocks[SubSeq(id, 1, from + m)].delta),
                 clSnapshots[SubSeq(id, 1, from)], [m \in 1..(Len(id) - from) |-> m])

Ready == clReorg.status # "staging"

Heavier(a, b) == clBlocks[a].work > clBlocks[b].work

Common(a, b) == CHOOSE n \in 0..Min({Len(a), Len(b)}) :
    /\ SubSeq(a, 1, n) = SubSeq(b, 1, n)
    /\ \A m \in (n + 1)..Min({Len(a), Len(b)}) : SubSeq(a, 1, m) # SubSeq(b, 1, m)

\* Mutant: the new branch is attached from its tip down.
StepsUnreversed(old, new) ==
    [i \in 1..(Len(old) - Common(old, new)) |-> [kind |-> "detach", block |-> Ancestor(old, i - 1)]]
    \o [i \in 1..(Len(new) - Common(old, new)) |-> [kind |-> "attach", block |-> Ancestor(new, i - 1)]]

Steps(old, new) ==
    [i \in 1..(Len(old) - Common(old, new)) |-> [kind |-> "detach", block |-> Ancestor(old, i - 1)]]
    \o [i \in 1..(Len(new) - Common(old, new)) |->
            [kind |-> "attach", block |-> SubSeq(new, 1, Common(old, new) + i)]]

(***************************************************************************)
(* Opening: the intent file, then the database, then the file is removed,  *)
(* then the root of the visible generation is verified.                    *)
(***************************************************************************)
clChain == <<clBlocks, clSnapshots, clActive, clKv, clReorg>>

OpenMarker ==
    /\ clOwner.pc = "closed" /\ clBlocks = <<>> /\ clMarker = "none"
    /\ clMarker' = "empty"
    /\ clOwner' = [clOwner EXCEPT !.pc = "creating"]
    /\ UNCHANGED clChain

WriteMarker ==
    /\ clOwner.pc = "creating" /\ clMarker = "empty"
    /\ clMarker' = "written"
    /\ UNCHANGED <<clChain, clOwner>>

\* An intent file that was cut while it was written is refused for good.
ReopenMarker ==
    /\ clOwner.pc = "closed" /\ clMarker = "written"
    /\ clOwner' = [clOwner EXCEPT !.pc = "creating"]
    /\ UNCHANGED <<clChain, clMarker>>

CreateDatabase ==
    /\ clOwner.pc = "creating" /\ clMarker = "written" /\ clBlocks = <<>>
    /\ clBlocks' = (Genesis :> [work |-> 0, delta |-> <<>>, root |-> EmptyState])
    /\ clSnapshots' = (Genesis :> EmptyState)
    /\ clKv' = (0 :> EmptyState)
    /\ UNCHANGED <<clActive, clReorg, clMarker, clOwner>>

RemoveMarker ==
    /\ clOwner.pc = "creating" /\ clBlocks # <<>>
    /\ clMarker' = "none"
    /\ clOwner' = [clOwner EXCEPT !.pc = "closed"]
    /\ UNCHANGED clChain

OpenLedger ==
    /\ clOwner.pc = "closed" /\ clMarker = "none" /\ clBlocks # <<>>
    /\ clKv[clActive.slot] = clBlocks[clActive.tip].root
    /\ clOwner' = [clOwner EXCEPT !.pc = "idle"]
    /\ UNCHANGED <<clChain, clMarker>>

CloseLedger ==
    /\ clOwner.pc = "idle"
    /\ clOwner' = [clOwner EXCEPT !.pc = "closed", !.call = "none", !.target = Genesis]
    /\ UNCHANGED <<clChain, clMarker>>

(***************************************************************************)
(* Admission of a block on any known parent, in one transaction.           *)
(***************************************************************************)
\* The genesis and the highest snapshots stay.
Pruned(snapshots, kept) ==
    /\ kept \subseteq DOMAIN snapshots
    /\ Cardinality(kept) = Min({SnapshotsKept, Cardinality(DOMAIN snapshots)})
    /\ \A out \in DOMAIN snapshots \ kept, in \in kept : Height(out) <= Height(in)

Admit ==
    /\ clOwner.pc = "idle" /\ Ready
    /\ Cardinality(DOMAIN clBlocks) <= MaxBlocks
    /\ \E parent \in DOMAIN clBlocks, effect \in Effects, gap \in Times :
         LET prior == StateAt(parent)
             after == Execute(prior, effect)
             target == NextTarget(parent)
             time == Time(parent) + gap
             id == Append(parent, [time |-> time, target |-> target, effect |-> effect])
             snapshots == (id :> after) @@ clSnapshots
         IN  /\ id \notin DOMAIN clBlocks
             /\ TimeAdmissible(parent, time)
             /\ clBlocks' = (id :> [work |-> clBlocks[parent].work + Work(target),
                                    delta |-> DeltaOf(prior, after), root |-> after]) @@ clBlocks
             /\ IF Height(id) % SnapshotEvery = 0
                THEN \E kept \in SUBSET DOMAIN snapshots :
                        /\ Pruned(snapshots, kept)
                        /\ clSnapshots' = [b \in kept \cup {Genesis} |-> snapshots[b]]
                ELSE clSnapshots' = clSnapshots
    /\ clOwner' = [clOwner EXCEPT !.call = "none", !.target = Genesis]
    /\ UNCHANGED <<clActive, clKv, clReorg, clMarker>>

(***************************************************************************)
(* activate and recover, which the caller calls when it chooses: a ledger  *)
(* that opens does neither.  Both first carry on a staged reorganisation.  *)
(***************************************************************************)
Activate ==
    /\ clOwner.pc = "idle"
    /\ \E b \in DOMAIN clBlocks :
         clOwner' = [clOwner EXCEPT !.pc = "activating", !.call = "activate", !.target = b]
    /\ UNCHANGED <<clChain, clMarker>>

Recover ==
    /\ clOwner.pc = "idle"
    /\ clOwner' = [clOwner EXCEPT !.pc = "recovering", !.call = "recover", !.target = Genesis]
    /\ UNCHANGED <<clChain, clMarker>>

\* A block that is not heavier leaves the active tip.
KeepTip ==
    /\ clOwner.pc = "activating" /\ Ready
    /\ ~Heavier(clOwner.target, clActive.tip)
    /\ clOwner' = [clOwner EXCEPT !.pc = "idle"]
    /\ UNCHANGED <<clChain, clMarker>>

\* An extension of the active tip is one transaction on the visible generation.
Extend ==
    /\ clOwner.pc = "activating" /\ Ready
    /\ Heavier(clOwner.target, clActive.tip)
    /\ Front(clOwner.target) = clActive.tip
    /\ LET delta == clBlocks[clOwner.target].delta
       IN  /\ DeltaApplies(clKv[clActive.slot], delta)
           /\ Attached(clKv[clActive.slot], delta) = clBlocks[clOwner.target].root
           /\ clKv' = [clKv EXCEPT ![clActive.slot] = Attached(@, delta)]
    /\ clActive' = [clActive EXCEPT !.tip = clOwner.target, !.generation = @ + 1]
    /\ clOwner' = [clOwner EXCEPT !.pc = "idle"]
    /\ UNCHANGED <<clBlocks, clSnapshots, clReorg, clMarker>>

\* Mutant: the staged generation is the visible one.
StageInPlace == clActive.slot

StagedGeneration == clActive.generation + 1

\* Otherwise the next generation starts as a copy, with the steps to take.
Stage ==
    /\ clOwner.pc = "activating" /\ Ready
    /\ Heavier(clOwner.target, clActive.tip)
    /\ Front(clOwner.target) # clActive.tip
    /\ clKv' = (StagedGeneration :> clKv[clActive.slot]) @@ clKv
    /\ clReorg' = [old |-> clActive.tip, new |-> clOwner.target, generation |-> StagedGeneration,
                   before |-> clActive.generation, steps |-> Steps(clActive.tip, clOwner.target),
                   position |-> 0, status |-> "staging"]
    /\ clOwner' = [clOwner EXCEPT !.pc = "staged"]
    /\ UNCHANGED <<clBlocks, clSnapshots, clActive, clMarker>>

\* One step on the staged generation and its position, in one transaction.
ReorgStep ==
    /\ clOwner.pc \in {"activating", "recovering", "staged"} /\ ~Ready
    /\ clActive.tip = clReorg.old /\ clActive.generation = clReorg.before
    /\ clReorg.position < Len(clReorg.steps)
    /\ LET step == clReorg.steps[clReorg.position + 1]
           delta == clBlocks[step.block].delta
           g == clReorg.generation
       IN  IF step.kind = "detach"
           THEN DeltaReverts(clKv[g], delta) /\ clKv' = [clKv EXCEPT ![g] = Detached(@, delta)]
           ELSE DeltaApplies(clKv[g], delta) /\ clKv' = [clKv EXCEPT ![g] = Attached(@, delta)]
    /\ clReorg' = [clReorg EXCEPT !.position = @ + 1]
    /\ UNCHANGED <<clBlocks, clSnapshots, clActive, clMarker, clOwner>>

Publish ==
    /\ clOwner.pc \in {"activating", "recovering", "staged"} /\ ~Ready
    /\ clActive.tip = clReorg.old /\ clActive.generation = clReorg.before
    /\ clReorg.position = Len(clReorg.steps)
    /\ clKv[clReorg.generation] = clBlocks[clReorg.new].root
    /\ clActive' = [tip |-> clReorg.new, generation |-> clReorg.generation, slot |-> clReorg.generation]
    /\ clReorg' = [clReorg EXCEPT !.status = "done"]
    /\ clKv' = [g \in {clReorg.generation} |-> clKv[g]]
    /\ clOwner' = [clOwner EXCEPT !.pc = IF @ = "staged" THEN "idle" ELSE @]
    /\ UNCHANGED <<clBlocks, clSnapshots, clMarker>>

\* Mutant: the recovery ends with the staged reorganisation.
IntentOnly == clActive.tip

Best == CHOOSE b \in DOMAIN clBlocks : \A c \in DOMAIN clBlocks : ~Heavier(c, b)

\* recover, once no reorganisation is staged: the heaviest admitted block is activated.
ActivateBest ==
    /\ clOwner.pc = "recovering" /\ Ready
    /\ clOwner' = IF Heavier(Best, clActive.tip)
                  THEN [clOwner EXCEPT !.pc = "activating", !.target = Best]
                  ELSE [clOwner EXCEPT !.pc = "idle"]
    /\ UNCHANGED <<clChain, clMarker>>

DieOwner ==
    /\ clOwner.pc # "closed" /\ clOwner.deaths < MaxDeaths
    /\ clOwner' = [pc |-> "closed", call |-> "none", target |-> Genesis, deaths |-> clOwner.deaths + 1]
    /\ UNCHANGED <<clChain, clMarker>>

ClInit ==
    /\ clBlocks = <<>> /\ clSnapshots = <<>> /\ clKv = <<>> /\ clReorg = [status |-> "none"]
    /\ clActive = [tip |-> Genesis, generation |-> 0, slot |-> 0]
    /\ clMarker = "none"
    /\ clOwner = [pc |-> "closed", call |-> "none", target |-> Genesis, deaths |-> 0]

ClNext ==
    \/ OpenMarker \/ WriteMarker \/ ReopenMarker \/ CreateDatabase \/ RemoveMarker
    \/ OpenLedger \/ CloseLedger \/ Admit \/ Activate \/ Recover
    \/ KeepTip \/ Extend \/ Stage \/ ReorgStep \/ Publish \/ ActivateBest
    \/ DieOwner

ClSpec == ClInit /\ [][ClNext]_clVars

(***************************************************************************)
(* Properties.                                                             *)
(***************************************************************************)
\* The state of a block from its bodies alone.
Replayed(id) == FoldLeft(LAMBDA s, header : Execute(s, header.effect), EmptyState, id)

\* Readers always see the state that the bodies of the active branch produce, in
\* whatever order branches were admitted, detached and attached and wherever the
\* process died (read_active).
VisibleIsTip == clBlocks # <<>> => clKv[clActive.slot] = Replayed(clActive.tip)

\* A staged reorganisation can always be carried on: the next delta finds the values
\* it expects, and after the last one the generation has the root of the new tip
\* (_recover_intent raises UNDO_ROOT, GENERATION or ROOT otherwise, at every restart).
ReorganisationResumes ==
    ~Ready =>
        /\ clActive.tip = clReorg.old /\ clActive.generation = clReorg.before
        /\ LET done == [i \in 1..clReorg.position |-> clReorg.steps[i]]
               at == FoldLeft(LAMBDA b, step : IF step.kind = "detach" THEN Front(step.block) ELSE step.block,
                              clReorg.old, done)
           IN  clKv[clReorg.generation] = Replayed(at)

\* When recover returns, the ledger is on a heaviest admitted branch, whatever was
\* admitted and not activated and whatever reorganisation a death cut short; when
\* activate returns, the tip is no lighter than the block it was given.
ServesHeaviest ==
    clOwner.pc = "idle" =>
        /\ clOwner.call = "recover" => \A b \in DOMAIN clBlocks : ~Heavier(b, clActive.tip)
        /\ clOwner.call = "activate" => ~Heavier(clOwner.target, clActive.tip)
=============================================================================
