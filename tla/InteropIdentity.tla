--------------------------- MODULE InteropIdentity ---------------------------
(***************************************************************************)
(* The identity registry and the cross-chain settlement records of         *)
(* trnm-types: identifiers with one controller, capability tokens issued   *)
(* to them, the audit trail, and a settlement that is finalised or         *)
(* reverted once.  Heights are arguments of the calls: nothing orders the  *)
(* height of one call after that of another.  A call that is refused       *)
(* changes nothing and is no step.                                         *)
(***************************************************************************)
EXTENDS Naturals, FiniteSets, SequencesExt

CONSTANTS Dids, Actors, Scopes,
          Malformed,     \* the names among them the field checks refuse
          Heights,       \* heights that callers name
          Transactions,    \* settlement transactions
          Reasons,         \* revert reasons as callers write them
          NormalReason,    \* what normalize_revert_reason makes of each
          IiSettlements,   \* settlement records as they are first loaded
          MaxAudit         \* bound: events in the audit trail

VARIABLES iiDids, iiTokens, iiAudit, iiSettlement

registry == <<iiDids, iiTokens, iiAudit>>
iiVars == <<registry, iiSettlement>>

Never == 99      \* no revocation, no expiry: above every height
None == "none"   \* no transaction, no reason
-----------------------------------------------------------------------------
Registered(d) == d \in DOMAIN iiDids
DidActive(d) == iiDids[d].revoked = Never
DidActiveAt(d, h) == iiDids[d].created <= h /\ h < iiDids[d].revoked
TokenActiveAt(t, h) == t.issued <= h /\ h < t.revoked /\ h <= t.expires

\* A name is trimmed and printable; an identifier has the canonical form.
IsCanonicalDid(d) == d \notin Malformed
IdentityField(a) == a \notin Malformed
Controls(a, d) == iiDids[d].controller = a

Event(action, actor, subject, h, token) ==
  [action |-> action, actor |-> actor, subject |-> subject, at |-> h, token |-> token]
PushAudit(events) ==
  /\ Len(iiAudit) + Len(events) <= MaxAudit
  /\ iiAudit' = iiAudit \o events

RegisterDid(d, c, h) ==
  /\ IsCanonicalDid(d) /\ IdentityField(c)
  /\ ~Registered(d)
  /\ iiDids' = [x \in DOMAIN iiDids \cup {d} |->
                  IF x = d THEN [controller |-> c, created |-> h, revoked |-> Never] ELSE iiDids[x]]
  /\ PushAudit(<<Event("registered", c, d, h, 0)>>)
  /\ UNCHANGED <<iiTokens, iiSettlement>>

IssueCapability(a, d, s, h, e) ==
  /\ IdentityField(a) /\ IsCanonicalDid(d)
  /\ e >= h
  /\ Registered(d) /\ DidActive(d)
  /\ Controls(a, d)
  /\ iiDids[d].created <= h
  /\ iiTokens' = Append(iiTokens, [subject |-> d, scope |-> s, issued |-> h, expires |-> e,
                                   revoked |-> Never])
  /\ PushAudit(<<Event("issued", a, d, h, Len(iiTokens) + 1)>>)
  /\ UNCHANGED <<iiDids, iiSettlement>>

\* A token that is revoked stays revoked as it was: the call succeeds and
\* leaves no second event.
RevokeCapability(a, i, h) ==
  LET t == iiTokens[i] IN
  /\ IdentityField(a) /\ Controls(a, t.subject)
  /\ t.revoked = Never /\ t.issued <= h
  /\ iiTokens' = [iiTokens EXCEPT ![i].revoked = h]
  /\ PushAudit(<<Event("revoked", a, t.subject, h, 0)>>)
  /\ UNCHANGED <<iiDids, iiSettlement>>

\* An expiry may only move later, and is never cleared.
Prolongs(t, e) == t.expires = Never \/ (e /= Never /\ e >= t.expires)
RenewCapability(a, i, h, e) ==
  LET t == iiTokens[i] IN
  /\ IdentityField(a)
  /\ e >= h
  /\ DidActive(t.subject) /\ Controls(a, t.subject)
  /\ TokenActiveAt(t, h)
  /\ Prolongs(t, e)
  /\ t.expires /= e
  /\ iiTokens' = [iiTokens EXCEPT ![i].expires = e]
  /\ PushAudit(<<Event("renewed", a, t.subject, h, i)>>)
  /\ UNCHANGED <<iiDids, iiSettlement>>

\* The height an identifier is revoked at: the first one named.
MovingAnchor(d, h) == h
Anchor(d, h) == IF DidActive(d) THEN h ELSE iiDids[d].revoked

Standing(d) == {i \in DOMAIN iiTokens : iiTokens[i].subject = d /\ iiTokens[i].revoked = Never}
NothingFollows(d) == {}
Cascade(d) == Standing(d)

\* Tokens follow their identifier, in the order of their numbers, each at
\* the height of the revocation or of its own issue, whichever is later.
RevokeDid(a, d, h) ==
  LET anchor == Anchor(d, h)
      at(i) == Max({anchor, iiTokens[i].issued})
      ids == SetToSortSeq(Cascade(d), <) IN
  /\ IdentityField(a) /\ IsCanonicalDid(d)
  /\ Registered(d) /\ Controls(a, d)
  /\ h >= (IF DidActive(d) THEN iiDids[d].created ELSE iiDids[d].revoked)
  /\ iiDids' = [iiDids EXCEPT ![d].revoked = anchor]
  /\ iiTokens' = [i \in DOMAIN iiTokens |->
                    IF i \in Cascade(d) THEN [iiTokens[i] EXCEPT !.revoked = at(i)] ELSE iiTokens[i]]
  /\ PushAudit((IF DidActive(d) THEN <<Event("did revoked", a, d, anchor, 0)>> ELSE <<>>)
               \o [k \in DOMAIN ids |-> Event("revoked", "system", d, at(ids[k]), ids[k])])
  /\ UNCHANGED iiSettlement

VerifyCapability(a, i, s, h) ==
  LET t == iiTokens[i] IN
  /\ DidActiveAt(t.subject, h)
  /\ TokenActiveAt(t, h)
  /\ t.scope = s
  /\ Controls(a, t.subject)
-----------------------------------------------------------------------------
\* A settlement: pending, then finalised with a transaction or reverted for
\* a reason; a terminal status may be applied again with the same payload.
Normalize(r) == IF r = None THEN None ELSE NormalReason[r]
Supplied(given, existing) == IF given /= None THEN given ELSE existing
AnyPayload(s, to, given, existing) == FALSE
PayloadConflicts(s, to, given, existing) ==
  s.status = to /\ given /= None /\ existing /= None /\ given /= existing
CanApply(s, to) == s.status \in {to, "pending"}

\* One step of apply_status_with_receipt_status.
ApplyStatus(s, to, h, tx, reason, receipt) ==
  LET given == IF to = "finalized" THEN tx ELSE Normalize(reason)
      existing == IF to = "finalized" THEN s.tx ELSE Normalize(s.reason)
      payload == Supplied(given, existing)
      refused == \/ h < s.height \/ ~CanApply(s, to)
                 \/ to = "finalized" /\ ~receipt
                 \/ to /= "pending" /\ (PayloadConflicts(s, to, given, existing) \/ payload = None) IN
  IF refused THEN s
  ELSE [status |-> to, height |-> h,
        tx |-> IF to = "finalized" THEN payload ELSE None,
        reason |-> IF to = "reverted" THEN payload ELSE None]

SettlementStep ==
  /\ \E to \in {"pending", "finalized", "reverted"}, h \in Heights, tx \in Transactions \cup {None},
        r \in Reasons \cup {None}, receipt \in BOOLEAN :
       /\ iiSettlement' = ApplyStatus(iiSettlement, to, h, tx, r, receipt)
       /\ iiSettlement' /= iiSettlement
  /\ UNCHANGED registry

IiInit ==
  /\ iiDids = <<>>
  /\ iiTokens = <<>>
  /\ iiAudit = <<>>
  /\ iiSettlement \in IiSettlements

RegistryStep ==
  \/ \E d \in Dids, a \in Actors, h \in Heights : RegisterDid(d, a, h) \/ RevokeDid(a, d, h)
  \/ \E a \in Actors, d \in Dids, s \in Scopes, h \in Heights, e \in Heights \cup {Never} :
       IssueCapability(a, d, s, h, e)
  \/ \E a \in Actors, i \in DOMAIN iiTokens, h \in Heights : RevokeCapability(a, i, h)
  \/ \E a \in Actors, i \in DOMAIN iiTokens, h \in Heights, e \in Heights \cup {Never} :
       RenewCapability(a, i, h, e)
-----------------------------------------------------------------------------
\* A step: where a token was refused because it or its identifier was revoked, no
\* later call makes it pass, whatever heights the calls name: revoking
\* again, renewing and issuing never move a revocation.
WithdrawnForGood ==
  \A i \in DOMAIN iiTokens, h \in Heights :
    h >= iiTokens[i].revoked \/ h >= iiDids[iiTokens[i].subject].revoked
    => ~\E a \in Actors, s \in Scopes : VerifyCapability(a, i, s, h)'

\* Verified means that somebody still answers for the token: a revoked
\* identifier has no token in force, at any height from its revocation on,
\* and the trail has one event for every revocation, no more and no fewer.
Told(action, d) == Cardinality({k \in DOMAIN iiAudit : iiAudit[k].action = action /\ iiAudit[k].subject = d})
AuditExplains ==
  \A d \in DOMAIN iiDids :
    LET tokens == {i \in DOMAIN iiTokens : iiTokens[i].subject = d} IN
    /\ Told("did revoked", d) = (IF DidActive(d) THEN 0 ELSE 1)
    /\ Told("issued", d) = Cardinality(tokens)
    /\ Told("revoked", d) = Cardinality({i \in tokens : iiTokens[i].revoked /= Never})
    /\ ~DidActive(d) => \A i \in tokens : iiTokens[i].revoked /= Never

\* A step: a settlement that reached its end keeps it: the transaction it was
\* finalised with or the reason it was reverted for never changes, however
\* the reason is written, and its height never goes back.
TerminalPayloadStable ==
  /\ iiSettlement'.height >= iiSettlement.height
  /\ iiSettlement.status /= "pending" =>
       /\ iiSettlement'.status = iiSettlement.status
       /\ iiSettlement.tx /= None => iiSettlement'.tx = iiSettlement.tx
       /\ iiSettlement.reason /= None =>
            Normalize(iiSettlement'.reason) = Normalize(iiSettlement.reason)
=============================================================================
