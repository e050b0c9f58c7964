------------------------- MODULE MCNodeCommitLedger -------------------------
(***************************************************************************)
(* NodeCommitLedger and LaneGate for TLC.  They do not share state: one    *)
(* behaviour explores one of them, the other stays as created.             *)
(*                                                                         *)
(* The ledger: a chain a0, a1, a2, a3 in one scope and a competing         *)
(* successor b1 of a0.  It holds two records, so that the advance to a3    *)
(* meets the record bound.                                                 *)
(*                                                                         *)
(* The lanes: a dedicated reserve of one and of two slots, no reserve, a   *)
(* reserve larger than the gate (which leaves no normal lane) and the gate *)
(* that admits nothing.                                                    *)
(***************************************************************************)
EXTENDS NodeCommitLedger, TLC

CONSTANTS Machines,   \* the machines that are explored
          TxId        \* the ids that are offered to the lanes

VARIABLES which, gate, waited

MCCheckpoint == {"a0", "a1", "b1", "a2", "a3"}
MCScopes == {"s"}
MCScopeOf == [c \in MCCheckpoint |-> "s"]
MCGeneration == "a0" :> 0 @@ "a1" :> 1 @@ "b1" :> 1 @@ "a2" :> 2 @@ "a3" :> 3
MCPredecessor == "a0" :> "none" @@ "a1" :> "a0" @@ "b1" :> "a0"
                   @@ "a2" :> "a1" @@ "a3" :> "a2"

MCConfig == {<<3, 1>>, <<3, 2>>, <<2, 0>>, <<2, 9>>, <<0, 0>>}

L == INSTANCE LaneGate WITH Config <- MCConfig

MCInit ==
  /\ which \in Machines /\ Init
  /\ \E c \in IF which = "lanes" THEN MCConfig ELSE {<<0, 0>>} : gate = L!New(c[1], c[2])
  /\ waited = 0

MCNext ==
  \/ which = "ledger" /\ Next /\ UNCHANGED <<which, gate, waited>>
  \/ which = "lanes" /\ L!Next /\ UNCHANGED <<which, vars>>

allVars == <<which, gate, waited, vars>>

\* The fairness of NodeCommitLedger and of LaneGate.
MCSpec ==
  /\ MCInit /\ [][MCNext]_allVars
  /\ \A p \in Proc : WF_allVars(which = "ledger" /\ ProcStep(p) /\ UNCHANGED <<which, gate, waited>>)
  /\ WF_allVars(which = "lanes" /\ L!Pop /\ UNCHANGED <<which, vars>>)

\* LaneGate: the three caches are exactly the queues.
CachesExact == L!CachesExact

\* LaneGate: the reported headroom is what admit does.
SnapshotIsHonest == L!SnapshotIsHonest

\* LaneGate: every item of the normal lane is served.
NormalIsServed == L!NormalIsServed

\* LaneGate: every item of the critical lane is served, high-priority
\* latency being "bounded even during an existing normal flood".
CriticalIsServed == L!CriticalIsServed
=============================================================================
