------------------------------ MODULE LaneGate ------------------------------
(***************************************************************************)
(* trnm-mempool/src/lib.rs: LaneAdmissionGate, two bounded FIFO lanes that *)
(* lend each other free slots.  Every lane keeps a set of the ids it has   *)
(* queued and the gate a set of all of them; a streak counts the critical  *)
(* items served in a row and makes the gate turn to the normal lane.       *)
(*                                                                         *)
(* A gate is a record, as in the code, so that other modules can hold one. *)
(* The rebuilding of caches from the queues is kept where the code has it. *)
(***************************************************************************)
EXTENDS Naturals, Sequences, FiniteSets

CONSTANTS TxId,      \* the ids that are offered
          Config     \* pairs of a total capacity and a critical reserve

VARIABLES gate,
          waited     \* critical items served since the normal lane last
                     \* was empty or was served
vars == <<gate, waited>>

Class == {"Normal", "Critical"}
Other(c) == IF c = "Normal" THEN "Critical" ELSE "Normal"
Ids(q) == {q[i] : i \in 1 .. Len(q)}
-----------------------------------------------------------------------------
EmptyLane == [queue |-> <<>>, seen |-> {}]

\* LaneAdmissionGate::new
New(total, reserve) ==
  LET kept == IF reserve > total THEN total ELSE reserve
  IN  [total |-> total,
       capacity |-> [c \in Class |-> IF c = "Critical" THEN kept ELSE total - kept],
       burst |-> IF kept = 0 THEN 1 ELSE 2 * kept,
       lane |-> [c \in Class |-> EmptyLane],
       seen |-> {}, streak |-> 0]

Queue(g, c) == g.lane[c].queue
Queued(g) == Ids(Queue(g, "Normal")) \cup Ids(Queue(g, "Critical"))
LaneTotal(g) == Len(Queue(g, "Normal")) + Len(Queue(g, "Critical"))
LaneIsIdle(g) == LaneTotal(g) = 0

\* normal_has_dedicated_capacity
Dedicated(g) == g.capacity["Normal"] > 0
-----------------------------------------------------------------------------
(***************************************************************************)
(* The caches: cleared when the gate is idle, rebuilt from the queues when *)
(* they disagree with them.                                                *)
(***************************************************************************)
RebuildGlobal(g) == [g EXCEPT !.seen = Queued(g)]

RebuildSeen(g) ==
  [g EXCEPT !.lane = [c \in Class |-> [queue |-> Queue(g, c), seen |-> Ids(Queue(g, c))]],
            !.seen = Queued(g)]

ClearSeen(g) ==
  [g EXCEPT !.lane = [c \in Class |-> [queue |-> Queue(g, c), seen |-> {}]],
            !.seen = {}]

ResetIdleState(g, preserve) ==
  [(IF preserve /\ g.total = 0 THEN g ELSE ClearSeen(g)) EXCEPT !.streak = 0]

LocalSeenTotal(g) ==
  Cardinality(g.lane["Normal"].seen) + Cardinality(g.lane["Critical"].seen)

\* The synchronisation at the start of admit.
Synced(g) ==
  IF LaneIsIdle(g) THEN ResetIdleState(g, FALSE)
  ELSE IF LocalSeenTotal(g) # LaneTotal(g) THEN RebuildSeen(g)
  ELSE IF Cardinality(g.seen) # LaneTotal(g) THEN RebuildGlobal(g)
  ELSE g

QueuesContain(g, id) ==
  \E c \in Class : id \in g.lane[c].seen /\ id \in Ids(Queue(g, c))

\* A hit in the gate's set counts only if a queue confirms it.
GlobalProbed(g, id) ==
  IF id \in g.seen /\ ~QueuesContain(g, id) THEN RebuildSeen(g) ELSE g

\* A miss is checked against the sets of the lanes.
LocalProbed(g, id) ==
  IF id \in g.seen \/ LaneIsIdle(g) THEN g
  ELSE IF \E c \in Class : id \in g.lane[c].seen
       THEN IF QueuesContain(g, id) THEN [g EXCEPT !.seen = @ \cup {id}]
            ELSE RebuildSeen(g)
       ELSE IF LocalSeenTotal(g) # LaneTotal(g) /\ id \in Queued(g)
            THEN RebuildSeen(g) ELSE g

\* The gate on which admit decides; id is a duplicate iff it is in its set.
Probed(g, id) == LocalProbed(GlobalProbed(Synced(g), id), id)
-----------------------------------------------------------------------------
FreeSlots(g, c) == g.capacity[c] - Len(Queue(g, c))

(***************************************************************************)
(* A normal item may use a free critical slot, but not the last one while  *)
(* critical items wait; without a normal lane it may use any.              *)
(***************************************************************************)
NormalCanBorrow(g) ==
  \/ ~Dedicated(g) /\ FreeSlots(g, "Critical") > 0
  \/ FreeSlots(g, "Critical") > 1
  \/ FreeSlots(g, "Critical") = 1 /\ Queue(g, "Critical") = <<>>

CriticalCanBorrow(g) == FreeSlots(g, "Normal") > 0

CanBorrow(g, c) == IF c = "Normal" THEN NormalCanBorrow(g) ELSE CriticalCanBorrow(g)

HasGlobalHeadroom(g) == LaneTotal(g) < g.total

\* fresh_admissible, as reported by qos_snapshot
FreshAdmissible(g, c) ==
  HasGlobalHeadroom(g) /\ (FreeSlots(g, c) > 0 \/ CanBorrow(g, c))

\* AdmissionGate::admit
LaneOutcome(g, c, id) ==
  IF id \in g.lane[c].seen THEN "Duplicate"
  ELSE IF FreeSlots(g, c) > 0 THEN "Accepted" ELSE "Backpressured"

\* Mutant: the item is only ever offered to its own lane.
LaneForOwn(g, c, id) == c

\* The lane that decides: the item's own, or the one it borrows from.
LaneFor(g, c, id) ==
  IF LaneOutcome(g, c, id) = "Backpressured" /\ CanBorrow(g, c) THEN Other(c) ELSE c

\* Mutant: an item enters at the front of its queue.
PushFront(g, c, id) ==
  [g EXCEPT !.lane[c] = [queue |-> <<id>> \o @.queue, seen |-> @.seen \cup {id}],
            !.seen = @ \cup {id}]

Push(g, c, id) ==
  [g EXCEPT !.lane[c] = [queue |-> Append(@.queue, id), seen |-> @.seen \cup {id}],
            !.seen = @ \cup {id}]

\* maybe_warm_normal_fairness: the first normal item behind a critical
\* backlog is served next.
Warmed(g, normalWasEmpty) ==
  IF Dedicated(g) /\ normalWasEmpty /\ \A c \in Class : Queue(g, c) # <<>>
  THEN [g EXCEPT !.streak = g.burst] ELSE g

\* LaneAdmissionGate::admit
Admit(g, id, c) ==
  LET p == Probed(g, id)
      l == LaneFor(p, c, id)
      Answer(h, o) == [gate |-> h, outcome |-> o]
  IN  IF g.total = 0
      THEN Answer(g, IF id \in g.seen \cup g.lane["Normal"].seen \cup g.lane["Critical"].seen
                     THEN "Duplicate" ELSE "Backpressured")
      ELSE IF id \in p.seen THEN Answer(p, "Duplicate")
      ELSE IF ~FreshAdmissible(p, c) THEN Answer(p, "Backpressured")
      ELSE IF LaneOutcome(p, l, id) = "Accepted"
           THEN Answer(Warmed(Push(p, l, id), Queue(p, "Normal") = <<>>), "Accepted")
           ELSE Answer(p, LaneOutcome(p, l, id))
-----------------------------------------------------------------------------
\* Mutant: the streak must exceed the limit, which it never does.
PreferNormalLate(g) ==
  Dedicated(g) /\ g.streak > g.burst /\ Queue(g, "Normal") # <<>>

PreferNormal(g) ==
  Dedicated(g) /\ g.streak >= g.burst /\ Queue(g, "Normal") # <<>>

PopLane(g) ==
  IF PreferNormal(g) \/ Queue(g, "Critical") = <<>> THEN "Normal" ELSE "Critical"

Ready(g) == Head(Queue(g, PopLane(g)))

\* AdmissionGate::pop_ready
Popped(g, c) ==
  LET rest == Tail(Queue(g, c))
  IN  [g EXCEPT !.lane[c] =
         [queue |-> rest,
          seen |-> IF rest = <<>> THEN {} ELSE @.seen \ {Head(Queue(g, c))}]]

\* Mutant: the streak is not cut off at the limit.
StreakUncapped(g, served) ==
  IF Dedicated(g) /\ served = "Critical" THEN g.streak + 1 ELSE 0

\* record_pop_fairness, on the queues after the pop
Streak(g, served) ==
  IF ~Dedicated(g) THEN 0
  ELSE IF served = "Critical"
       THEN IF g.streak + 1 > g.burst THEN g.burst ELSE g.streak + 1
       ELSE IF \A c \in Class : Queue(g, c) # <<>> THEN g.burst - 1 ELSE 0

\* Mutant: the popped id stays in the gate's set.
KeepGlobal(g, id) == g

\* repair_global_seen_after_pop
RepairGlobal(g, id) ==
  IF id \in g.seen /\ Cardinality(g.seen \ {id}) = LaneTotal(g)
  THEN [g EXCEPT !.seen = @ \ {id}]
  ELSE RebuildGlobal(g)

\* LaneAdmissionGate::pop_ready
PopReady(g) ==
  LET c == PopLane(g)
      p == Popped(g, c)
      h == RepairGlobal([p EXCEPT !.streak = Streak(p, c)], Ready(g))
  IN  IF LaneIsIdle(g) THEN ResetIdleState(g, TRUE)
      ELSE IF LaneIsIdle(h) THEN ResetIdleState(h, FALSE) ELSE h
-----------------------------------------------------------------------------
Init == /\ \E c \in Config : gate = New(c[1], c[2])
        /\ waited = 0

AdmitTx(id, c) ==
  /\ gate' = Admit(gate, id, c).gate
  /\ UNCHANGED waited

Pop ==
  /\ gate' = PopReady(gate)
  /\ waited' = IF LaneIsIdle(gate) \/ PopLane(gate) = "Normal"
                  \/ Queue(gate, "Normal") = <<>>
               THEN 0 ELSE waited + 1

Next == Pop \/ \E id \in TxId, c \in Class : AdmitTx(id, c)

Spec == Init /\ [][Next]_vars

\* The owner of the gate keeps polling it.
FairSpec == Spec /\ WF_vars(Pop)
-----------------------------------------------------------------------------
GateType ==
  [total : Nat, capacity : [Class -> Nat], burst : Nat \ {0},
   lane : [Class -> [queue : Seq(TxId), seen : SUBSET TxId]],
   seen : SUBSET TxId, streak : Nat]

(***************************************************************************)
(* The gate is well formed and no lane is ever longer than its capacity,   *)
(* however items were spilled over and slots lent.                         *)
(***************************************************************************)
TypeOK ==
  /\ gate \in GateType /\ waited \in Nat
  /\ gate.streak <= gate.burst
  /\ gate.capacity["Normal"] + gate.capacity["Critical"] = gate.total
  /\ \A c \in Class : Len(Queue(gate, c)) <= gate.capacity[c]

NoRepeats(q) == \A i, j \in 1 .. Len(q) : q[i] = q[j] => i = j

(***************************************************************************)
(* The three caches are exactly the queues and an id is queued at most     *)
(* once, in one lane, whichever class it was offered as: so the duplicate  *)
(* answers of admit are right, and none of the repairs is ever needed.     *)
(***************************************************************************)
CachesExact ==
  /\ \A c \in Class : /\ NoRepeats(Queue(gate, c))
                      /\ gate.lane[c].seen = Ids(Queue(gate, c))
  /\ gate.seen = Queued(gate)
  /\ Ids(Queue(gate, "Normal")) \cap Ids(Queue(gate, "Critical")) = {}

(***************************************************************************)
(* qos_snapshot is what admit will do: a fresh id is accepted exactly when *)
(* its class is reported admissible, and a critical one exactly as long as *)
(* the gate has any free slot.  Callers reserve nonces on that report.     *)
(***************************************************************************)
SnapshotIsHonest ==
  /\ \A c \in Class : \A id \in TxId \ Queued(gate) :
       (Admit(gate, id, c).outcome = "Accepted") = FreshAdmissible(gate, c)
  /\ FreshAdmissible(gate, "Critical") = (LaneTotal(gate) < gate.total)

(***************************************************************************)
(* While a normal item waits, at most critical_burst_limit critical items  *)
(* are served in a row, over any sequence of arrivals, spill-overs and     *)
(* idle polls.                                                             *)
(***************************************************************************)
BurstIsBounded == waited <= gate.burst

(***************************************************************************)
(* Every item of the normal lane is served although critical items keep    *)
(* arriving ("anti-starvation").                                           *)
(***************************************************************************)
NormalIsServed ==
  \A id \in TxId : id \in Ids(Queue(gate, "Normal"))
                     ~> id \notin Ids(Queue(gate, "Normal"))

(***************************************************************************)
(* Every item of the critical lane is served although normal items keep    *)
(* arriving: the gate keeps "high-priority latency bounded even during an  *)
(* existing normal flood".                                                 *)
(***************************************************************************)
CriticalIsServed ==
  \A id \in TxId : id \in Ids(Queue(gate, "Critical"))
                     ~> id \notin Ids(Queue(gate, "Critical"))
=============================================================================
