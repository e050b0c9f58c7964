---------------------------- MODULE FrameAdmission ----------------------------
(***************************************************************************)
(* trnm-transport.  A session admits the frames of a peer one at a time: a *)
(* frame is verified against the replay state, the token that results is   *)
(* admitted later, the admitted frame acknowledged later still, and after  *)
(* a restart the session is recovered from the state its owner saved.      *)
(* Frames are lost, repeated and reordered, tokens kept for any time.      *)
(* Beside it, the permits of proof_admission.rs that bound how many proofs *)
(* are verified at once.                                                   *)
(***************************************************************************)
EXTENDS Naturals, Sequences, FiniteSets

CONSTANTS FaSessions,    \* session identities, generation included
          FaPayloads,
          MaxNonce,      \* the largest nonce
          MaxTokens,     \* bound: tokens held at once
          Peers, Digests,
          MaxGeneration  \* bound: stops of the ingress

VARIABLES faState,    \* PeerReplayStateV0
          faTokens,   \* verified frames not yet admitted
          faSaved,    \* what the owner of the session has on disk
          faAcked,    \* acknowledged frames, in order: [durable, inMemory]
          faPermits,  \* permits held
          faIngress   \* generation and stopped

session == <<faState, faTokens, faSaved, faAcked>>
ingress == <<faPermits, faIngress>>
faVars == <<session, ingress>>

FaFrames == [session : FaSessions, nonce : 1 .. MaxNonce, payload : FaPayloads]
NoFrame == [session |-> 0, nonce |-> 0, payload |-> 0]
-----------------------------------------------------------------------------
\* PeerReplayStateV0::new
StateOk(s) ==
  s.pending /= NoFrame =>
    s.acked < MaxNonce /\ s.pending.session = s.session /\ s.pending.nonce = s.acked + 1

\* The frame that is pending may come again; otherwise the next one.
Acceptable(f) ==
  /\ f.session = faState.session
  /\ IF faState.pending /= NoFrame THEN f = faState.pending
     ELSE faState.acked < MaxNonce /\ f.nonce = faState.acked + 1

VerifyFrame(f) ==
  /\ Cardinality(faTokens) < MaxTokens
  /\ Acceptable(f)
  /\ faTokens' = faTokens \cup {[prior |-> faState, frame |-> f]}
  /\ UNCHANGED <<faState, faSaved, faAcked, ingress>>

AnyToken(t) == faState.pending \in {NoFrame, t.frame}
TokenCurrent(t) == t.prior = faState

\* A token is consumed, admitted or not.
AdmitVerified(t) ==
  /\ faTokens' = faTokens \ {t}
  /\ faState' = IF TokenCurrent(t) /\ faState.pending = NoFrame
                  THEN [faState EXCEPT !.pending = t.frame] ELSE faState
  /\ UNCHANGED <<faSaved, faAcked, ingress>>

Acknowledge(f) ==
  /\ faState.pending = f
  /\ faState' = [faState EXCEPT !.acked = f.nonce, !.pending = NoFrame]
  /\ faAcked' = [faAcked EXCEPT !.inMemory = Append(@, f)]
  /\ UNCHANGED <<faTokens, faSaved, ingress>>

\* External: the owner saves what recovery_state returns when it chooses, and
\* may then send the acknowledgements that are covered.
SaveState ==
  /\ faSaved' = faState
  /\ faAcked' = [durable |-> faAcked.durable \o faAcked.inMemory, inMemory |-> <<>>]
  /\ UNCHANGED <<faState, faTokens, ingress>>

\* The process dies and recovers what was saved; its tokens are gone, and the
\* frames it acknowledged since may be admitted again.
RecoverVerified ==
  /\ StateOk(faSaved)
  /\ faState' = faSaved
  /\ faTokens' = {}
  /\ faAcked' = [faAcked EXCEPT !.inMemory = <<>>]
  /\ UNCHANGED <<faSaved, ingress>>
-----------------------------------------------------------------------------
\* The permits: three public verifications, two of one peer, and one that
\* is kept for recovery.
Held(recovery) == {p \in faPermits : p.recovery = recovery}
HeldOf(peer) == {p \in Held(FALSE) : p.peer = peer}
Shared(peer, digest, recovery) == Cardinality(faPermits) < 4
Room(peer, digest, recovery) ==
  IF recovery THEN Held(TRUE) = {}
  ELSE Cardinality(Held(FALSE)) < 3 /\ Cardinality(HeldOf(peer)) < 2

Acquire(peer, digest, recovery) ==
  /\ ~faIngress.stopped
  /\ \A p \in Held(recovery) : p.digest /= digest
  /\ Room(peer, digest, recovery)
  /\ faPermits' = faPermits \cup {[peer |-> peer, digest |-> digest, recovery |-> recovery,
                                   generation |-> faIngress.generation]}
  /\ UNCHANGED <<faIngress, session>>

Cancelled(p) == faIngress.stopped \/ faIngress.generation /= p.generation
StopOnly(i) == [i EXCEPT !.stopped = TRUE]
Stopped(i) == [generation |-> i.generation + 1, stopped |-> TRUE]
Stop ==
  /\ faIngress.generation < MaxGeneration
  /\ faIngress' = Stopped(faIngress)
  /\ UNCHANGED <<faPermits, session>>
Resume ==
  /\ faIngress' = [faIngress EXCEPT !.stopped = FALSE]
  /\ UNCHANGED <<faPermits, session>>
DropPermit(p) ==
  /\ faPermits' = faPermits \ {p}
  /\ UNCHANGED <<faIngress, session>>
-----------------------------------------------------------------------------
FaInit ==
  /\ \E s \in FaSessions : faState = [session |-> s, acked |-> 0, pending |-> NoFrame]
  /\ faSaved = faState
  /\ faTokens = {} /\ faAcked = [durable |-> <<>>, inMemory |-> <<>>]
  /\ faPermits = {}
  /\ faIngress = [generation |-> 0, stopped |-> FALSE]

SessionStep ==
  \/ \E f \in FaFrames : VerifyFrame(f) \/ Acknowledge(f)
  \/ \E t \in faTokens : AdmitVerified(t)
  \/ SaveState \/ RecoverVerified

IngressStep ==
  \/ \E peer \in Peers, digest \in Digests : Acquire(peer, digest, FALSE)
  \/ \E digest \in Digests : Acquire("host", digest, TRUE)
  \/ Stop \/ Resume
  \/ \E p \in faPermits : DropPermit(p)
-----------------------------------------------------------------------------
\* Every nonce is acknowledged once and in order, whatever tokens were kept
\* and however often the session was recovered to what was saved before or
\* after an acknowledgement; a nonce whose acknowledgement was saved is never
\* acknowledged again, and what is saved can be recovered.
AcknowledgedOnce ==
  LET acked == faAcked.durable \o faAcked.inMemory
  IN  /\ \A i \in DOMAIN acked : acked[i].nonce = i /\ acked[i].session = faState.session
      /\ faState.acked = Len(acked) /\ faSaved.acked = Len(faAcked.durable)
      /\ StateOk(faState) /\ StateOk(faSaved)

\* A step: work admitted before a stop is cancelled for good, also after resuming;
\* what is under way of the peers never takes the place kept for recovery.
StopIsFinal ==
  /\ \A p \in faPermits \cap faPermits' : Cancelled(p) => Cancelled(p)'
  /\ Cardinality(Held(FALSE)') <= 3
=============================================================================
