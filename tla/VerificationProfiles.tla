------------------------- MODULE VerificationProfiles -------------------------
(***************************************************************************)
(* trnm-verification-profiles: the closed registry of profiles, the        *)
(* verification of a statement against it, and the challenge of a result   *)
(* with its deadlines and its single appeal.  Heights are arguments of the *)
(* calls: a call names the height it is made at, and calls may name        *)
(* heights in any order.  A refused call changes nothing and is no step.   *)
(***************************************************************************)
EXTENDS Naturals, Sequences, FiniteSets

CONSTANTS VpProfiles,    \* lists of profiles a registry is built from
          VpKinds,       \* VerificationProfileKindV1::ALL
          VpStatements, VpEvidence, VpHeights,
          VpOpenings     \* deadlines a challenge is opened with

VARIABLES vpRegistry,    \* the registry, or Refused
          vpDecisions,   \* decisions handed out
          vpBook         \* challenges, by result

vpVars == <<vpRegistry, vpDecisions, vpBook>>

Never == 99              \* no expiry, no revocation: above every height
Refused == {}
-----------------------------------------------------------------------------
\* validate and closed: every kind once, no identity twice.
ProfileOk(p) ==
  /\ p.nonzero
  /\ p.expires >= p.from /\ p.revoked >= p.from
  /\ ~(p.kind = "Subjective" /\ p.objective)
Identity(p) == <<p.id, p.version>>
AnyIdentity(profiles) ==
  IF /\ \A i \in DOMAIN profiles : ProfileOk(profiles[i])
     /\ {profiles[i].kind : i \in DOMAIN profiles} = VpKinds
  THEN {profiles[i] : i \in DOMAIN profiles} ELSE Refused
Closed(profiles) ==
  LET n == Len(profiles) IN
  IF /\ \A i \in 1 .. n : ProfileOk(profiles[i])
     /\ \A i, j \in 1 .. n : i /= j =>
          profiles[i].kind /= profiles[j].kind /\ Identity(profiles[i]) /= Identity(profiles[j])
     /\ {profiles[i].kind : i \in 1 .. n} = VpKinds
  THEN {profiles[i] : i \in 1 .. n} ELSE Refused

InForce(p, h) == p.enabled /\ p.from <= h /\ h <= p.expires /\ h < p.revoked
ResolveExact(s, h) ==
  {p \in vpRegistry : Identity(p) = <<s.id, s.version>> /\ p.hash = s.hash /\ InForce(p, h)}

StatementOk(s) == s.wellFormed /\ s.start <= s.submitted /\ s.submitted <= s.end
Bound(e, s) == e.nonzero /\ e.subject = s.subject

\* verify_statement_v1; the backend is external and may answer anything.
VerifyStatement(s, e, h) ==
  /\ StatementOk(s)
  /\ Bound(e, s)
  /\ s.start <= h /\ h <= s.end
  /\ \E p \in ResolveExact(s, h), status \in {"Verified", "Rejected", "Unavailable"} :
       vpDecisions' = vpDecisions \cup {[status |-> status, kind |-> p.kind, statement |-> s]}
  /\ UNCHANGED <<vpRegistry, vpBook>>
-----------------------------------------------------------------------------
Deciding == {"DecisionPending", "AppealPending"}
Decided == {"Upheld", "Rejected"}

\* ChallengeBookV1::open: one challenge per result, deadlines in order.
OpenChallenge(r, o) ==
  /\ r \notin DOMAIN vpBook
  /\ o.opened <= o.window /\ o.opened <= o.evidence
  /\ o.evidence <= o.response /\ o.response <= o.decision /\ o.decision <= o.appeal
  /\ vpBook' = [x \in DOMAIN vpBook \cup {r} |->
       IF x = r THEN [phase |-> "Opened", evidence |-> o.evidence, response |-> o.response,
                      decision |-> o.decision, appeal |-> o.appeal, appealed |-> FALSE,
                      outcome |-> "none"]
       ELSE vpBook[x]]
  /\ UNCHANGED <<vpRegistry, vpDecisions>>

\* The steps of a challenge: whether one may be taken, and what it leaves.
CanSubmitEvidence(c, h) == c.phase = "Opened" /\ h <= c.evidence
CanBeginResponse(c, h) == c.phase = "EvidencePeriod" /\ h <= c.response
LateResponse(c, h) == c.phase = "ResponsePeriod" /\ h <= c.decision
CanSubmitResponse(c, h) == c.phase = "ResponsePeriod" /\ h <= c.response
CanDecide(c, h) == c.phase \in Deciding /\ h <= c.decision
AppealTwice(c, h) == c.phase \in Decided /\ h <= c.appeal
CanAppeal(c, h) == ~c.appealed /\ c.phase \in Decided /\ h <= c.appeal
CanFinalize(c, h) == c.phase \in Decided /\ h > c.appeal
CanWithdraw(c) == c.phase \notin Decided \cup {"Final", "AppealPending"}
ExpiryOf(c) ==
  CASE c.phase \in {"Opened", "EvidencePeriod"} -> c.evidence
    [] c.phase = "ResponsePeriod" -> c.response
    [] c.phase \in Deciding -> c.decision
    [] OTHER -> Never
CanExpire(c, h) == h > ExpiryOf(c)

Replace(r, c) == vpBook' = [vpBook EXCEPT ![r] = c] /\ UNCHANGED <<vpRegistry, vpDecisions>>
To(c, phase) == [c EXCEPT !.phase = phase]
Ended(c, outcome) == [c EXCEPT !.phase = "Final", !.outcome = outcome]

SubmitEvidence(r, h) == CanSubmitEvidence(vpBook[r], h) /\ Replace(r, To(vpBook[r], "EvidencePeriod"))
BeginResponse(r, h) == CanBeginResponse(vpBook[r], h) /\ Replace(r, To(vpBook[r], "ResponsePeriod"))
SubmitResponse(r, h) == CanSubmitResponse(vpBook[r], h) /\ Replace(r, To(vpBook[r], "DecisionPending"))
Decide(r, h, outcome) ==
  CanDecide(vpBook[r], h) /\ Replace(r, [To(vpBook[r], outcome) EXCEPT !.outcome = outcome])
\* An appeal sets a deadline of its own and takes the decision back.
Appeal(r, h, deadline) ==
  /\ CanAppeal(vpBook[r], h) /\ deadline >= h
  /\ Replace(r, [To(vpBook[r], "AppealPending") EXCEPT
                   !.appealed = TRUE, !.outcome = "none", !.decision = deadline, !.appeal = deadline])
Finalize(r, h) == CanFinalize(vpBook[r], h) /\ Replace(r, To(vpBook[r], "Final"))
Withdraw(r) == CanWithdraw(vpBook[r]) /\ Replace(r, Ended(vpBook[r], "Withdrawn"))
Expire(r, h) == CanExpire(vpBook[r], h) /\ Replace(r, Ended(vpBook[r], "Expired"))
-----------------------------------------------------------------------------
VpInit ==
  /\ vpRegistry \in {Closed(l) : l \in VpProfiles}
  /\ vpDecisions = {}
  /\ vpBook = <<>>

VpResults == {1}
VpNext ==
  \/ \E s \in VpStatements, e \in VpEvidence, h \in VpHeights : VerifyStatement(s, e, h)
  \/ \E r \in VpResults, o \in VpOpenings : OpenChallenge(r, o)
  \/ \E r \in DOMAIN vpBook, h \in VpHeights :
       \/ SubmitEvidence(r, h) \/ BeginResponse(r, h) \/ SubmitResponse(r, h)
       \/ \E outcome \in Decided : Decide(r, h, outcome)
       \/ \E deadline \in VpHeights : Appeal(r, h, deadline)
       \/ Finalize(r, h) \/ Expire(r, h)
  \/ \E r \in DOMAIN vpBook : Withdraw(r)
-----------------------------------------------------------------------------
\* A challenge always has an end, and never two: once every deadline has
\* passed exactly one of finalisation and expiry is open, and at any height
\* an expiry competes with no step of the parties, except in the evidence
\* period, whose answer is awaited until the response deadline.
Advances(c, h) ==
  CanSubmitEvidence(c, h) \/ CanBeginResponse(c, h) \/ CanSubmitResponse(c, h)
  \/ CanDecide(c, h) \/ CanAppeal(c, h)
ChallengeEnds ==
  \A r \in DOMAIN vpBook, h \in VpHeights :
    LET c == vpBook[r] IN
    /\ c.phase /= "Final" /\ h > c.appeal => (CanFinalize(c, h) /= CanExpire(c, h))
    /\ (CanFinalize(c, h) \/ CanExpire(c, h)) /\ c.phase /= "EvidencePeriod" => ~Advances(c, h)

\* Verification never falls back: all decisions about one statement were
\* taken under one profile, and none of a subjective kind under a profile
\* that may settle objectively.
DecisionsAgree ==
  /\ \A d, e \in vpDecisions : d.statement = e.statement => d.kind = e.kind
  /\ \A p \in vpRegistry : p.objective => ~\E d \in vpDecisions : d.kind = "Subjective" /\ p.kind = d.kind

\* A step: an outcome stands; it is taken back by an appeal only, an appeal is
\* followed by no other, and a challenge that is closed never moves again.
OutcomeStands ==
  \A r \in DOMAIN vpBook :
    LET c == vpBook[r]
        d == vpBook'[r] IN
    /\ c.phase = "Final" => d = c
    /\ c.outcome /= "none" /\ d.outcome /= c.outcome => ~c.appealed /\ d.appealed
    /\ c.appealed => d.appealed /\ d.appeal = c.appeal
=============================================================================
