----------------------- MODULE MCPeerLeaseAuthority -----------------------
(***************************************************************************)
(* PeerLeaseAuthority for TLC: two sessions that compete for one scope.    *)
(* In one instance processes die and clocks are set back while the power   *)
(* stays on; in the second, with a shorter journal, the power fails; in    *)
(* the third a session calls again while a call it gave up is still with   *)
(* the daemon.                                                             *)
(***************************************************************************)
EXTENDS PeerLeaseAuthority, TLC

VARIABLE which

Power == INSTANCE PeerLeaseAuthority WITH
           MaxBacks <- 0, MaxRecords <- 2, MaxLosses <- 1
Late == INSTANCE PeerLeaseAuthority WITH
          MaxBacks <- 0, MaxRecords <- 2, MaxPending <- 2

SessionSymmetry == Permutations(Session)

MCInit == which \in {"crash", "power", "late"} /\ Init

MCNext ==
  \/ which = "crash" /\ Next /\ UNCHANGED which
  \/ which = "power" /\ Power!Next /\ UNCHANGED which
  \/ which = "late" /\ Late!Next /\ UNCHANGED which

MCSpec == MCInit /\ [][MCNext]_<<which, vars>>
=============================================================================
