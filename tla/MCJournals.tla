----------------------------- MODULE MCJournals -----------------------------
(***************************************************************************)
(* Model checking of StateImport, PayloadReplay and CheckpointAuthority.   *)
(* They do not share state: one behaviour explores one of them, the others *)
(* stay as created.                                                        *)
(***************************************************************************)
EXTENDS StateImport

CONSTANTS Machines,              \* the machines that are explored
          p1, p2, c1, c2, Client, MaxAttempts, MaxQueue

VARIABLES which, kind, journal, holder, ack, wire, admitted, faults,
          log, synced, partial, anchor, durableAnchor, daemon, mem, poisoned,
          request, queue, client, attempts, applied, loaded, absent

replayState == <<kind, journal, holder, ack, wire, admitted, faults>>
authorityState == <<log, synced, partial, anchor, durableAnchor, daemon, mem, poisoned,
                    request, queue, client, attempts, applied, loaded, absent>>
vars == <<which, importVars, replayState, authorityState>>

\* Checkpoints of the source: (2, 0) and (3, 1) have the same rows, so that
\* an empty delta exists.
Row(k, v) == [key |-> k, value |-> v]
Rows0 == <<Row(1, "u"), Row(3, "u")>>
Rows1 == <<Row(2, "v"), Row(3, "v")>>
Context(h, e, r) == [height |-> h, epoch |-> e, rows |-> r]
MCFirst == Context(1, 0, Rows0)
MCVouched == {MCFirst, Context(2, 0, Rows1)}
MCContexts == MCVouched \cup {Context(3, 1, Rows1)}

\* The planned export projects to Rows1.  The others: rows out of order, two
\* rows of one target key, a header that is not final, one of another height.
Header(h, rows, final) ==
  [height |-> h, state |-> Rows0, count |-> Len(rows), root |-> rows, final |-> final]
Export(rows) == [rows |-> rows, header |-> Header(1, rows, TRUE)]
MCRows == <<Row(4, "v"), Row(5, "v"), Row(6, "u")>>
MCPlanned == Header(1, MCRows, TRUE)
MCExports == {Export(MCRows), Export(<<Row(5, "v"), Row(4, "v")>>),
              Export(<<Row(4, "u"), Row(7, "u")>>),
              [rows |-> MCRows, header |-> Header(1, MCRows, FALSE)],
              [rows |-> MCRows, header |-> Header(2, MCRows, TRUE)]}
MCReadiness == {<<"M01", "M02", "M08">>, <<"M02", "M01", "M08">>}
MCTarget == [k \in 4 .. 7 |-> CASE k = 4 -> 3 [] k = 5 -> 2 [] k = 6 -> 0 [] k = 7 -> 3]
MCWeights == [s \in {"a", "b"} |-> 1]

\* Frames of one peer, and frames that are refused: of another journal, of
\* the node itself, without a generation, too long.
Offer(n, p, s, g, q, l) ==
  [context |-> n, peer |-> p, session |-> s, generation |-> g, sequence |-> q,
   content |-> "c", length |-> l]
Refused == {Offer("m", "p", "s", 1, 0, 1), Offer("n", "self", "s", 1, 0, 1),
            Offer("n", "p", "s", 0, 0, 1), Offer("n", "p", "s", 1, 0, 2)}
OfSessions(g) == {Offer("n", "p", s, k, q, 1) : s \in {"s", "t"}, k \in 1 .. g, q \in 0 .. 1}
MCBodies == {[digest |-> "x", length |-> 1], [digest |-> "y", length |-> 2]}
Ask(op, v) == [op |-> op, value |-> v]
MCAsks == {Ask("status", ""), Ask("recover", ""), Ask("ack", "v"), Ask("ack", "w"), Ask("ack", "")}
Foreign == [user |-> "other", magic |-> TRUE, kind |-> "status", body |-> ""]

\* The journal of frames and the store of bodies without a recovery owner, and
\* short journals with it
P == INSTANCE PayloadReplay WITH
       Namespaces <- {"n", "m", ""}, Local <- "self", Offered <- OfSessions(3) \cup Refused,
       Bodies <- MCBodies, MaxPayload <- 1, Requests <- {}, Frames <- {}, SocketPaths <- {},
       AckRoots <- {}, MaxRecords <- 5, MaxFaults <- 2

B == INSTANCE PayloadReplay WITH
       Namespaces <- {"n", "m", ""}, Local <- "self", Offered <- OfSessions(1) \cup Refused,
       Bodies <- MCBodies, MaxPayload <- 1, Requests <- {}, Frames <- {}, SocketPaths <- {},
       AckRoots <- {}, MaxRecords <- 4, MaxFaults <- 2

O == INSTANCE PayloadReplay WITH
       Namespaces <- {"n"}, Local <- "self", Offered <- OfSessions(1),
       Bodies <- {}, MaxPayload <- 1, Requests <- MCAsks, Frames <- {Foreign},
       SocketPaths <- {"socket", "lock"}, AckRoots <- {"acks", "head"},
       MaxRecords <- 2, MaxFaults <- 2

\* Two competing first values a0 and b0, a successor a1 of a0, and a request
\* whose target is no successor of the value it expects.
Scope == [v \in {"a0", "b0", "a1"} |-> "s"]
Generations == "a0" :> 0 @@ "b0" :> 0 @@ "a1" :> 1
Predecessors == "a0" :> "none" @@ "b0" :> "none" @@ "a1" :> "a0"
Requests == {<<"none", "a0">>, <<"none", "b0">>, <<"a0", "a1">>, <<"b0", "a1">>}
Symmetry == Permutations(Client) \cup Permutations(Process)

C == INSTANCE CheckpointAuthority WITH
       Checkpoint <- DOMAIN Scope, Scopes <- {"s"}, NoCheckpoint <- "none",
       ScopeOf <- Scope, Generation <- Generations, Predecessor <- Predecessors,
       CasInput <- Requests

Init ==
  /\ which \in Machines /\ ImportInit /\ P!ReplayInit /\ C!Init
  /\ kind = IF which = "bodies" THEN "bodies" ELSE "frames"

Next ==
  \/ which = "import" /\ ImportNext /\ UNCHANGED <<which, replayState, authorityState>>
  \/ which = "replay" /\ P!ReplayNext /\ UNCHANGED <<which, importVars, authorityState>>
  \/ which = "bodies" /\ B!ReplayNext /\ UNCHANGED <<which, importVars, authorityState>>
  \/ which = "owner" /\ O!ReplayNext /\ UNCHANGED <<which, importVars, authorityState>>
  \/ which = "authority" /\ C!Next /\ UNCHANGED <<which, importVars, replayState>>

Spec == Init /\ [][Next]_vars

\* CheckpointAuthority: a reported advance survives every fault.
AppliedSurvives == C!AppliedSurvives

\* CheckpointAuthority: an attempt reported absent never takes effect.
AbsentIsFinal == C!AbsentIsFinal

\* CheckpointAuthority: "Implementations must durably isolate one value per
\* scope": a value a client has loaded is not rolled back.
LoadedSurvives == C!LoadedSurvives

\* CheckpointAuthority implements CheckpointRegister.
AuthorityImplementsRegister == C!ImplementsRegister

\* PayloadReplay: receipts stay true over every fault.
ReceiptsStand == P!ReceiptsStand

\* PayloadReplay: dead processes leave a lag that recovery repairs, an
\* acknowledgement is of a published record and final, and a session belongs
\* to one generation.
PublicationsHold ==
  which \in {"replay", "bodies", "owner"} =>
    P!PublicationRecoverable /\ P!AcknowledgedIsPublished /\ P!SessionsNeverReturn

\* StateImport: no delta is installed twice, the store reads back what it
\* was given, the next delta applies, and a handoff that reports an
\* installation reports one that happened.
ImportsInstalled ==
  which = "import" =>
    DeltaAppliedOnce /\ HandoffIsInstalled /\ DeltaStoreReopens /\ NextDeltaApplies
=============================================================================
