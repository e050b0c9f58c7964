---------------------------- MODULE Checkpoints ----------------------------
(***************************************************************************)
(* The checkpoint values of trnm-checkpoint-types that both durable        *)
(* checkpoint stores carry.  A checkpoint is a value with a scope, a       *)
(* generation and the checksum of its predecessor.  SHA-256 checksums are  *)
(* taken to be collision free, so the predecessor checksum is modelled by  *)
(* the predecessor itself; all other fields are payload and are left out.  *)
(***************************************************************************)
EXTENDS Naturals

CONSTANTS Checkpoint,     \* canonical checkpoint values
          Scopes,         \* the scopes (one CAS register each)
          NoCheckpoint,   \* Option::None, and the all-zero predecessor
          ScopeOf,        \* fields.scope
          Generation,     \* fields.generation
          Predecessor     \* fields.predecessor_checksum

(***************************************************************************)
(* What validate_fields_v2 guarantees of every value that decodes: only    *)
(* generation zero has no predecessor.                                     *)
(***************************************************************************)
ASSUME CheckpointAssumption ==
  /\ NoCheckpoint \notin Checkpoint
  /\ ScopeOf \in [Checkpoint -> Scopes]
  /\ Generation \in [Checkpoint -> Nat]
  /\ Predecessor \in [Checkpoint -> Checkpoint \cup {NoCheckpoint}]
  /\ \A c \in Checkpoint : Generation[c] = 0 <=> Predecessor[c] = NoCheckpoint

ValidateSuccessorOf(target, predecessor) ==
  /\ ScopeOf[target] = ScopeOf[predecessor]
  /\ Generation[target] = Generation[predecessor] + 1
  /\ Predecessor[target] = predecessor

(***************************************************************************)
(* valid_successor_shape_v2: the first value of a scope has generation     *)
(* zero, every later one is the exact successor of the expected value.     *)
(***************************************************************************)
ValidSuccessorShape(expected, target) ==
  IF expected = NoCheckpoint
    THEN Generation[target] = 0 /\ Predecessor[target] = NoCheckpoint
    ELSE ValidateSuccessorOf(target, expected)
=============================================================================
