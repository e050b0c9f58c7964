--------------------------- MODULE ParallelGroups ---------------------------
(***************************************************************************)
(* The batch planner of trnm-executor: a batch of transactions with read   *)
(* and write sets is put in an order by the chosen strategy and then       *)
(* placed, one transaction at a time, into groups.  Every step of Place is *)
(* one iteration of the placement loop, with the counters of the profile.  *)
(*                                                                         *)
(* An access is <<object, version>>.  Objects are naturals below 128, so   *)
(* that a key XOR another rotated left by 7 is their sum shifted.          *)
(***************************************************************************)
EXTENDS Integers, FiniteSets, TLC, SequencesExt, FiniteSetsExt

CONSTANTS
    PgShapes,        \* [reads, writes] access sets of a transaction
    PgSizes,         \* batch lengths
    PgStrategies,    \* [strategy, descending, deep, window, skip, rotate, seed]: the strategy,
                     \* whether transaction ids descend in the batch, the environment
    HotBuckets,      \* TRNM_HOT_BUCKETS
    MinBatchLen, SampleLen   \* 512 and 2048 in the code

VARIABLES pgBatch, pgConfig, pgPlan

pgVars == <<pgBatch, pgConfig, pgPlan>>

KeysOf(accesses) == {access[1] : access \in accesses}

WriteKeys(tx) == KeysOf(tx.writes)

ReadOnlyKeys(tx) == KeysOf(tx.reads) \ KeysOf(tx.writes)

AccessDomainKeys(tx) == KeysOf(tx.reads) \cup KeysOf(tx.writes)

Silent(tx) == tx.reads = {} /\ tx.writes = {}

VersionsConsistent(tx) ==
    \A a, b \in tx.reads \cup tx.writes : a[1] = b[1] => a[2] = b[2]

Intersects(x, y) == x \cap y # {}

DetectConflict(a, b) ==
    \/ Intersects(WriteKeys(a), WriteKeys(b))
    \/ Intersects(WriteKeys(a), KeysOf(b.reads))
    \/ Intersects(KeysOf(a.reads), WriteKeys(b))

(***************************************************************************)
(* The order of a strategy.                                                *)
(***************************************************************************)
Lexicographic(a, b) ==
    \E i \in 1..Len(a) : a[i] < b[i] /\ \A j \in 1..(i - 1) : a[j] = b[j]

\* Ties are broken by the transaction id.
Sorted(batch, Rank(_)) ==
    LET Key(i) == Append(Rank(batch[i]), IF pgConfig.descending THEN -i ELSE i)
    IN  SortSeq([i \in 1..Len(batch) |-> i], LAMBDA i, j : Lexicographic(Key(i), Key(j)))

Smallest(keys) == IF keys = {} THEN 0 ELSE Min(keys)

BucketHint(tx, n) ==
    LET keys == AccessDomainKeys(tx)
        a == Smallest(keys)
        b == Smallest(keys \ {a})
    IN  (a + 128 * b) % n

\* The bucket the round robin starts from: a sparsest one next to the first hint
\* when the load is skewed, else the first hint.
RoundRobinStart(depth, first, n) ==
    LET filled == {i \in 0..(n - 1) : depth[i] > 0}
        least == Min({depth[i] : i \in filled})
        sparse == {i \in filled : depth[i] = least}
        Back(i) == (first + n - i) % n
        Distance(i) == Min({(i + n - first) % n, Back(i)})
    IN  IF Max({depth[i] : i \in filled}) >= 2 * least
        THEN CHOOSE i \in sparse : \A j \in sparse :
                Distance(i) < Distance(j) \/ (Distance(i) = Distance(j) /\ Back(i) <= Back(j))
        ELSE first

\* Mutant: one round of the buckets is merged, and the rest of the batch stays in place.
OneRound(batch) ==
    LET n == Min({HotBuckets, Len(batch)})
        firsts == {i \in 1..Len(batch) : \A j \in 1..(i - 1) : BucketHint(batch[j], n) # BucketHint(batch[i], n)}
        merged == SetToSortSeq(firsts, LAMBDA i, j : BucketHint(batch[i], n) < BucketHint(batch[j], n))
    IN  merged \o [i \in 1..(Len(batch) - Len(merged)) |-> Len(merged) + i]

\* Pass p takes the p-th transaction of every bucket, from a start that moves by one.
Interleaved(batch) ==
    LET n == Min({HotBuckets, Len(batch)})
        order == [i \in 1..Len(batch) |-> i]
        Hint(i) == BucketHint(batch[i], n)
        depth == [b \in 0..(n - 1) |-> Cardinality({i \in 1..Len(batch) : Hint(i) = b})]
        filled == {Hint(i) : i \in 1..Len(batch)}
        signalled == {Hint(i) : i \in {j \in 1..Len(batch) : ~Silent(batch[j])}}
        start == RoundRobinStart(depth, Hint(1), n)
        Pass(i) == Cardinality({j \in 1..(i - 1) : Hint(j) = Hint(i)})
        Turn(i) == (Hint(i) - start - Pass(i) + 2 * n * Len(batch)) % n
    IN  IF \/ Len(batch) < 4
           \/ Cardinality(filled) <= 1
           \/ Cardinality(signalled) <= 1
           \/ Cardinality(filled) = Len(batch)
        THEN order
        ELSE SortSeq(order, LAMBDA i, j : Lexicographic(<<Pass(i), Turn(i)>>, <<Pass(j), Turn(j)>>))

Reorder(batch, strategy) ==
    CASE strategy = "FootprintDesc" -> Sorted(batch, LAMBDA tx : <<-Cardinality(AccessDomainKeys(tx))>>)
      [] strategy = "WriteFirst" ->
            Sorted(batch, LAMBDA tx : <<-Cardinality(WriteKeys(tx)), -Cardinality(KeysOf(tx.reads))>>)
      [] strategy = "WriteLast" ->
            Sorted(batch, LAMBDA tx : <<Cardinality(WriteKeys(tx)), -Cardinality(KeysOf(tx.reads))>>)
      [] strategy = "HotBucketInterleave" -> Interleaved(batch)
      [] OTHER -> [i \in 1..Len(batch) |-> i]

(***************************************************************************)
(* The adaptive decision: streaks of the same hot key in an evenly spaced  *)
(* sample, compared as fractions.                                          *)
(***************************************************************************)
HotBucketKeys(tx) ==
    LET w == WriteKeys(tx)
        r == KeysOf(tx.reads)
        first == Smallest(w \cup r)
        Second(keys) == Smallest(keys \ {first})
        \* the smallest other key of the first domain, else of the second
        Prefer(a, b) == IF a \ {first} # {} THEN Second(a) ELSE Second(b)
        narrow == Cardinality(w \ {first}) <= 1 \/ Cardinality(r \ {first}) <= 1
    IN  IF w = {} \/ r = {} \/ first = 0 \/ (first \in w \cap r /\ narrow)
        THEN <<first, Second(w \cup r)>>
        ELSE <<first, Prefer(w, r)>>

SampleKey(tx) ==
    LET keys == HotBucketKeys(tx)
        primary == Smallest(IF tx.writes # {} THEN WriteKeys(tx) ELSE KeysOf(tx.reads))
    IN  IF tx.reads # {} /\ tx.writes # {} /\ primary = keys[1] THEN <<keys[1], 0>> ELSE keys

Sample(n) ==
    LET length == Min({n, SampleLen})
    IN  IF length = n THEN [i \in 1..n |-> i]
        ELSE SetToSortSeq({1 + (i * (n - 1)) \div (length - 1) : i \in 0..(length - 1)}, <)

UseHotBucket(batch) ==
    LET at == Sample(Len(batch))
        observed == {i \in 1..Len(at) : ~Silent(batch[at[i]])}
        pairs == {i \in observed : i - 1 \in observed}
        Key(i) == SampleKey(batch[at[i]])
        streak == Cardinality({i \in pairs : Key(i) = Key(i - 1)})
        p == Cardinality(pairs)
        o == Cardinality(observed)
        hottest == Max({Cardinality({j \in observed : Key(j) = Key(i)}) : i \in observed})
    IN  /\ Len(batch) >= MinBatchLen
        /\ p > 0 /\ o > 0
        /\ streak * 100 >= 26 * p
        /\ hottest * 10000 >= 75 * o
        /\ streak * hottest * 100 >= p * o

Selected(batch, strategy) ==
    IF strategy = "AutoAdaptive"
    THEN IF UseHotBucket(batch) THEN "HotBucketInterleave" ELSE "Original"
    ELSE strategy

(***************************************************************************)
(* Placement.                                                              *)
(***************************************************************************)
NoCounts == [checks |-> 0, hits |-> 0, scanned |-> 0, fallback |-> 0, ww |-> 0, wr |-> 0, rw |-> 0]

\* Mutant: a read does not follow the last write of its object.
ReadersUnbound(tx, plan) ==
    LET after == {plan.writer[k] : k \in WriteKeys(tx) \cap DOMAIN plan.writer}
                 \cup {plan.reader[k] : k \in WriteKeys(tx) \cap DOMAIN plan.reader}
    IN  IF after = {} THEN 1 ELSE Max(after) + 1

\* The first group after those of the last accesses the transaction must follow.
RequiredGroup(tx, plan) ==
    LET after == {plan.writer[k] : k \in AccessDomainKeys(tx) \cap DOMAIN plan.writer}
                 \cup {plan.reader[k] : k \in WriteKeys(tx) \cap DOMAIN plan.reader}
    IN  IF after = {} THEN 1 ELSE Max(after) + 1

BoundHits(tx, plan) ==
    Cardinality(AccessDomainKeys(tx) \cap DOMAIN plan.writer)
    + Cardinality(WriteKeys(tx) \cap DOMAIN plan.reader)

Pointed(f, keys, group) == [k \in keys |-> group] @@ f

PutInto(plan, i, group) ==
    LET tx == pgBatch[i]
        resized == plan.groups \o [g \in 1..Max({0, group - Len(plan.groups)}) |-> <<>>]
        groups == [resized EXCEPT ![group] = Append(@, i)]
    IN  [plan EXCEPT !.groups = groups,
                     !.writer = Pointed(@, WriteKeys(tx), group),
                     !.reader = Pointed(@, ReadOnlyKeys(tx), group)]

\* Original and every other strategy without deep scan.
PlaceBound(plan, i) ==
    LET tx == pgBatch[i]
        placed == PutInto(plan, i, RequiredGroup(tx, plan))
    IN  [placed EXCEPT !.counts.checks = @ + Cardinality(ReadOnlyKeys(tx)) + 2 * Cardinality(WriteKeys(tx)),
                       !.counts.hits = @ + BoundHits(tx, plan)]

GroupWrites(plan, g) == UNION {WriteKeys(pgBatch[i]) : i \in ToSet(plan.groups[g])}

GroupReads(plan, g) == UNION {ReadOnlyKeys(pgBatch[i]) : i \in ToSet(plan.groups[g])}

\* The stage of the deep scan at which a candidate group is given up.
Stage(tx, plan, g) ==
    IF Intersects(WriteKeys(tx), GroupWrites(plan, g)) THEN "ww"
    ELSE IF Intersects(WriteKeys(tx), GroupReads(plan, g)) THEN "wr"
    ELSE IF Intersects(ReadOnlyKeys(tx), GroupWrites(plan, g)) THEN "rw"
    ELSE "fits"

StageChecks(tx, stage) ==
    LET writing == ~pgConfig.skip \/ WriteKeys(tx) # {}
        reading == ~pgConfig.skip \/ ReadOnlyKeys(tx) # {}
    IN  IF stage = "ww" THEN 1 ELSE IF stage = "wr" THEN 2
        ELSE (IF writing THEN 2 ELSE 0) + (IF reading THEN 1 ELSE 0)

\* The groups the deep scan looks at, in order, up to the first that fits.
Candidates(tx, plan) ==
    LET low == RequiredGroup(tx, plan)
        span == Max({0, Len(plan.groups) - low + 1})
        offset == IF pgConfig.rotate /\ span > 1 THEN plan.cursor % span ELSE 0
        window == IF pgConfig.window > 0 THEN Min({pgConfig.window, span}) ELSE span
        scan == [s \in 1..window |-> low + ((offset + s - 1) % span)]
        fits == {s \in 1..window : Stage(tx, plan, scan[s]) = "fits"}
    IN  IF fits = {} THEN scan ELSE SubSeq(scan, 1, Min(fits))

\* Mutant: every new group counts as a fallback.
CountedFallback(found, span) == ~found

IsFallback(found, span) == ~found /\ span > 0

PlaceScanned(plan, i) ==
    LET tx == pgBatch[i]
        low == RequiredGroup(tx, plan)
        span == Max({0, Len(plan.groups) - low + 1})
        scan == Candidates(tx, plan)
        At(stage) == {s \in 1..Len(scan) : Stage(tx, plan, scan[s]) = stage}
        free == pgConfig.skip /\ Silent(tx) /\ span > 0
        group == IF free THEN low
                 ELSE IF At("fits") # {} THEN scan[Min(At("fits"))] ELSE Len(plan.groups) + 1
        placed == PutInto(plan, i, group)
        c == plan.counts
    IN  [placed EXCEPT
            !.cursor = IF pgConfig.rotate /\ span > 1 THEN @ + 1 ELSE @,
            !.counts = IF free THEN c
                       ELSE [checks |-> c.checks + FoldLeft(LAMBDA n, g : n + StageChecks(tx, Stage(tx, plan, g)), 0, scan),
                             hits |-> c.hits + Len(scan) - Cardinality(At("fits")),
                             scanned |-> c.scanned + Len(scan),
                             fallback |-> c.fallback + (IF IsFallback(At("fits") # {}, span) THEN 1 ELSE 0),
                             ww |-> c.ww + Cardinality(At("ww")),
                             wr |-> c.wr + Cardinality(At("wr")),
                             rw |-> c.rw + Cardinality(At("rw"))]]

(***************************************************************************)
(* The planner.                                                            *)
(***************************************************************************)
Scanning == pgConfig.strategy = "AggressiveGreedy" /\ pgConfig.deep

PgInit ==
    /\ \E n \in PgSizes : pgBatch \in [1..n -> PgShapes]
    /\ pgConfig \in PgStrategies
    /\ pgPlan = [pc |-> "start", order |-> <<>>, next |-> 1, groups |-> <<>>, writer |-> <<>>, reader |-> <<>>,
                 cursor |-> pgConfig.seed, counts |-> NoCounts]

\* The assertions on versions, the order, and the batch without any access.
Order ==
    /\ pgPlan.pc = "start"
    /\ LET order == Reorder(pgBatch, Selected(pgBatch, pgConfig.strategy))
       IN  pgPlan' =
            IF \E i \in DOMAIN pgBatch : ~VersionsConsistent(pgBatch[i])
            THEN [pgPlan EXCEPT !.pc = "panicked"]
            ELSE IF \A i \in DOMAIN pgBatch : Silent(pgBatch[i])
            THEN [pgPlan EXCEPT !.pc = "done", !.groups = IF order = <<>> THEN <<>> ELSE <<order>>]
            ELSE [pgPlan EXCEPT !.pc = "placing", !.order = order]
    /\ UNCHANGED <<pgBatch, pgConfig>>

Place ==
    /\ pgPlan.pc = "placing" /\ pgPlan.next <= Len(pgPlan.order)
    /\ LET rest == [pgPlan EXCEPT !.next = @ + 1]
           i == pgPlan.order[pgPlan.next]
       IN  pgPlan' = IF Scanning THEN PlaceScanned(rest, i) ELSE PlaceBound(rest, i)
    /\ UNCHANGED <<pgBatch, pgConfig>>

Finish ==
    /\ pgPlan.pc = "placing" /\ pgPlan.next > Len(pgPlan.order)
    /\ pgPlan' = [pgPlan EXCEPT !.pc = "done"]
    /\ UNCHANGED <<pgBatch, pgConfig>>

PgNext ==
    \/ Order
    \/ Place
    \/ Finish

PgSpec == PgInit /\ [][PgNext]_pgVars

(***************************************************************************)
(* The profile's derived counts.                                           *)
(***************************************************************************)
AttributedRetryHits(c) == c.ww + c.wr + c.rw

RetryScanMisses(c) == Max({0, c.scanned - c.hits})

ReusedGroupPlacements == Max({0, Len(pgBatch) - Len(pgPlan.groups)})

RetryStageOverlapHits(c) == Max({0, AttributedRetryHits(c) - c.hits})

(***************************************************************************)
(* Properties.                                                             *)
(***************************************************************************)
\* Whatever the strategy, the finished groups hold every transaction of the batch
\* once and no group is empty (reorder_for_strategy moves transactions in place and
\* groups.resize_with could leave a hole).
EachPlacedOnce ==
    pgPlan.pc = "done" =>
        /\ \A g \in DOMAIN pgPlan.groups : pgPlan.groups[g] # <<>>
        /\ LET all == FlattenSeq(pgPlan.groups)
           IN  Len(all) = Len(pgBatch) /\ ToSet(all) = DOMAIN pgBatch

\* A transaction that reads or writes what an earlier one in the planned order
\* writes is placed in a later group, and a deep scan never puts two conflicting
\* transactions in one group (latest_writer_group and the stage checks).
WritersComeFirst ==
    LET groups == pgPlan.groups
        GroupOf(i) == CHOOSE g \in DOMAIN groups : i \in ToSet(groups[g])
    IN  /\ \A n \in 1..(pgPlan.next - 1) : \A m \in 1..(n - 1) :
              WriteKeys(pgBatch[pgPlan.order[m]]) \cap AccessDomainKeys(pgBatch[pgPlan.order[n]]) # {}
                  => GroupOf(pgPlan.order[m]) < GroupOf(pgPlan.order[n])
        /\ Scanning => \A g \in DOMAIN groups : \A i, j \in ToSet(groups[g]) :
              i # j => ~DetectConflict(pgBatch[i], pgBatch[j])

\* The retry counters of a deep scan account for it: every hit belongs to one stage,
\* and the scans that did not hit are the placements in a group that was there
\* (build_parallel_groups_aggressive_profile and the profile's derived counts).
ProfileAccounts ==
    LET c == pgPlan.counts
        free == IF pgConfig.skip THEN Cardinality({i \in DOMAIN pgBatch : Silent(pgBatch[i])}) ELSE 0
    IN  /\ c.hits <= c.checks
        /\ pgPlan.pc = "done" /\ Scanning /\ pgPlan.order # <<>> =>
              /\ AttributedRetryHits(c) = c.hits /\ RetryStageOverlapHits(c) = 0
              /\ RetryScanMisses(c) <= ReusedGroupPlacements
              /\ ReusedGroupPlacements <= RetryScanMisses(c) + free
              /\ c.fallback < Max({1, Len(pgPlan.groups)})

\* "txs within the same group are pairwise non-conflicting (can run in parallel)":
\* build_parallel_groups, for every strategy.
GroupsAreParallel ==
    \A g \in DOMAIN pgPlan.groups : \A i, j \in ToSet(pgPlan.groups[g]) :
        i # j => ~DetectConflict(pgBatch[i], pgBatch[j])
=============================================================================
