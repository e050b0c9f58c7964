------------------------- MODULE CheckpointRegister -------------------------
(***************************************************************************)
(* What a checkpoint store promises (trait ExternalCheckpointStoreV2): one *)
(* value per scope that never disappears, never goes back and only ever    *)
(* moves to an exact successor of itself.  NodeCommitLedger implements it  *)
(* across process crashes and power losses, CheckpointAuthority except for *)
(* the power losses themselves.                                            *)
(***************************************************************************)
EXTENDS Checkpoints

VARIABLE value

TypeOK == value \in [Scopes -> Checkpoint \cup {NoCheckpoint}]

Init == TypeOK

Advance(s) ==
  \E target \in Checkpoint :
    /\ ScopeOf[target] = s
    /\ ValidSuccessorShape(value[s], target)
    /\ value' = [value EXCEPT ![s] = target]

Next == \E s \in Scopes : Advance(s)

Spec == Init /\ [][Next]_value
=============================================================================
