-------------------------- MODULE ResearchProtocol --------------------------
(***************************************************************************)
(* The state machine of trnm-research-protocol: signed commands that       *)
(* commit match evidence, evaluations, workload receipts, claims and       *)
(* licences, and the challenges and resolutions that change a claim.       *)
(*                                                                         *)
(* A reference is [kind, key, version].  Collections that the code keeps   *)
(* sorted by contributor are functions of the contributor.  The            *)
(* fingerprint of a command is the command; digests are left out.          *)
(***************************************************************************)
EXTENDS Integers, TLC, SequencesExt

CONSTANTS
    ResearchCommands,   \* signed commands: [id, signer, role, nonce, kind, key, ...payload]
    Authorities,        \* role -> set of signers of the genesis
    FullShare           \* 10000 basis points

VARIABLES
    rpObjects,   \* <<kind, key>> -> [version, payload, ...]
    rpApplied    \* command id -> [fingerprint, primary]

rpVars == <<rpObjects, rpApplied>>

Kinds == {"match", "evaluation", "workload", "claim", "license", "challenge", "resolution"}

Total(shares) == FoldFunction(LAMBDA a, b : a + b, 0, shares)

Ref(kind, key, version) == [kind |-> kind, key |-> key, version |-> version]

ObjectRef(command) == Ref(command.kind, command.key, 1)

(***************************************************************************)
(* Validation of a payload and of the envelope.                            *)
(***************************************************************************)
RefKind(ref, kind) == ref.kind = kind /\ ref.version > 0

ValidEvidence(refs) ==
    refs # {} /\ \A r \in refs : r.kind \in {"match", "evaluation"} /\ r.version > 0

ValidShares(shares) ==
    /\ DOMAIN shares # {}
    /\ \A c \in DOMAIN shares : shares[c] \in 1..FullShare
    /\ Total(shares) = FullShare

ValidMatch(p) == p.events > 0 /\ p.time > 0

ValidEvaluation(p) ==
    /\ RefKind(p.match, "match")
    /\ p.score \in 0..FullShare /\ (p.accepted => p.score > 0) /\ p.time > 0

ValidWorkload(p) ==
    /\ RefKind(p.evaluation, "evaluation")
    /\ DOMAIN p.units # {} /\ (\A c \in DOMAIN p.units : p.units[c] > 0)
    /\ Total(p.units) = p.total /\ p.time > 0

ValidClaim(p) ==
    RefKind(p.workload, "workload") /\ ValidEvidence(p.evidence) /\ ValidShares(p.shares) /\ p.time > 0

ValidLicense(p) == RefKind(p.claim, "claim") /\ p.time > 0

ValidChallenge(p) == RefKind(p.claim, "claim") /\ p.time > 0

ValidResolution(p) ==
    /\ RefKind(p.challenge, "challenge")
    /\ IF p.decision = "amend" THEN ValidShares(p.shares) ELSE DOMAIN p.shares = {}
    /\ p.time > 0

ValidPayload(p) ==
    CASE p.kind = "match" -> ValidMatch(p)
      [] p.kind = "evaluation" -> ValidEvaluation(p)
      [] p.kind = "workload" -> ValidWorkload(p)
      [] p.kind = "claim" -> ValidClaim(p)
      [] p.kind = "license" -> ValidLicense(p)
      [] p.kind = "challenge" -> ValidChallenge(p)
      [] p.kind = "resolution" -> ValidResolution(p)

RoleAllows(role, kind) ==
    \/ role = "nakama" /\ kind = "match"
    \/ role = "hepta" /\ kind \in Kinds \ {"match"}

ValidSigned(signed) ==
    signed.nonce > 0 /\ ValidPayload(signed) /\ RoleAllows(signed.role, signed.kind)

Authorizes(signed) == signed.signer \in Authorities[signed.role]

(***************************************************************************)
(* The handlers: the objects after a command, or {} when it is refused.    *)
(***************************************************************************)
Has(objects, ref) == <<ref.kind, ref.key>> \in DOMAIN objects

RequireRef(objects, ref) ==
    Has(objects, ref) /\ objects[<<ref.kind, ref.key>>].version = ref.version

Get(objects, ref) == objects[<<ref.kind, ref.key>>]

Absent(objects, p) == <<p.kind, p.key>> \notin DOMAIN objects

Inserted(objects, p, fields) ==
    (<<p.kind, p.key>> :> ([version |-> 1, payload |-> p] @@ fields)) @@ objects

ClaimObject(p) == [claimants |-> p.shares, status |-> "active", challenge |-> "none"]

ChallengeObject == [status |-> "open", resolution |-> "none"]

ApplyMatch(objects, p) == {o \in {Inserted(objects, p, <<>>)} : Absent(objects, p)}

ApplyEvaluation(objects, p) ==
    IF /\ RequireRef(objects, p.match)
       /\ p.time >= Get(objects, p.match).payload.time
       /\ Absent(objects, p)
    THEN {Inserted(objects, p, <<>>)} ELSE {}

ApplyWorkload(objects, p) ==
    IF /\ RequireRef(objects, p.evaluation)
       /\ Get(objects, p.evaluation).payload.accepted
       /\ p.time >= Get(objects, p.evaluation).payload.time
       /\ Absent(objects, p)
    THEN {Inserted(objects, p, <<>>)} ELSE {}

ApplyClaim(objects, p) ==
    IF /\ RequireRef(objects, p.workload)
       /\ \A r \in p.evidence : RequireRef(objects, r)
       /\ LET receipt == Get(objects, p.workload).payload
          IN  /\ DOMAIN p.shares \subseteq DOMAIN receipt.units
              /\ receipt.evaluation \in p.evidence
              /\ p.time >= receipt.time
       /\ Absent(objects, p)
    THEN {Inserted(objects, p, ClaimObject(p))}
    ELSE {}

ApplyLicense(objects, p) ==
    IF /\ RequireRef(objects, p.claim)
       /\ LET claim == Get(objects, p.claim)
          IN  /\ claim.status \notin {"challenged", "rejected"}
              /\ p.licensor \in DOMAIN claim.claimants
              /\ p.time >= claim.payload.time
       /\ Absent(objects, p)
    THEN {Inserted(objects, p, <<>>)} ELSE {}

\* Mutant: a claim under challenge is challenged again.
StillOpen(status) == status # "rejected"

Challengeable(status) == status \in {"active", "amended", "licenseAmendment"}

ApplyChallenge(objects, p) ==
    IF /\ RequireRef(objects, p.claim)
       /\ Challengeable(Get(objects, p.claim).status)
       /\ p.time >= Get(objects, p.claim).payload.time
       /\ Absent(objects, p)
    THEN {[Inserted(objects, p, ChallengeObject)
              EXCEPT ![<<"claim", p.claim.key>>] =
                  [@ EXCEPT !.version = @ + 1, !.status = "challenged", !.challenge = p.key]]}
    ELSE {}

\* Mutant: amended shares may go to anyone.
SharesUnchecked(p, receipt) == TRUE

AmendsWorkers(p, receipt) == p.decision = "amend" => DOMAIN p.shares \subseteq DOMAIN receipt.units

\* Mutant: the challenge stays the claim's active one.
ResolvedLinked(claim, p) ==
    [claim EXCEPT !.version = @ + 1,
                  !.status = CASE p.decision = "uphold" -> "active" [] p.decision = "reject" -> "rejected"
                               [] p.decision = "amend" -> "amended" [] OTHER -> "licenseAmendment",
                  !.claimants = IF p.decision = "amend" THEN p.shares ELSE @]

Resolved(claim, p) ==
    [claim EXCEPT !.version = @ + 1,
                  !.challenge = "none",
                  !.status = CASE p.decision = "uphold" -> "active" [] p.decision = "reject" -> "rejected"
                               [] p.decision = "amend" -> "amended" [] OTHER -> "licenseAmendment",
                  !.claimants = IF p.decision = "amend" THEN p.shares ELSE @]

ApplyResolution(objects, p) ==
    IF ~RequireRef(objects, p.challenge) THEN {}
    ELSE LET challenge == Get(objects, p.challenge)
             key == <<"claim", challenge.payload.claim.key>>
             claim == objects[key]
         IN  IF /\ challenge.status = "open"
                /\ p.time >= challenge.payload.time
                /\ key \in DOMAIN objects
                /\ claim.status = "challenged" /\ claim.challenge = p.challenge.key
                /\ AmendsWorkers(p, Get(objects, claim.payload.workload).payload)
                /\ Absent(objects, p)
             THEN {[Inserted(objects, p, <<>>) EXCEPT
                        ![<<"challenge", p.challenge.key>>] =
                            [@ EXCEPT !.version = @ + 1, !.status = "resolved", !.resolution = p.key],
                        ![key] = Resolved(@, p)]}
             ELSE {}

Handled(objects, p) ==
    CASE p.kind = "match" -> ApplyMatch(objects, p)
      [] p.kind = "evaluation" -> ApplyEvaluation(objects, p)
      [] p.kind = "workload" -> ApplyWorkload(objects, p)
      [] p.kind = "claim" -> ApplyClaim(objects, p)
      [] p.kind = "license" -> ApplyLicense(objects, p)
      [] p.kind = "challenge" -> ApplyChallenge(objects, p)
      [] p.kind = "resolution" -> ApplyResolution(objects, p)

\* A command id that was applied answers from its record and changes nothing.
Apply(signed) ==
    /\ ValidSigned(signed) /\ Authorizes(signed)
    /\ signed.id \notin DOMAIN rpApplied
    /\ \E objects \in Handled(rpObjects, signed) : rpObjects' = objects
    /\ rpApplied' = (signed.id :> [fingerprint |-> signed, primary |-> ObjectRef(signed)]) @@ rpApplied

RpInit == rpObjects = <<>> /\ rpApplied = <<>>

RpNext == \E signed \in ResearchCommands : Apply(signed)

RpSpec == RpInit /\ [][RpNext]_rpVars

(***************************************************************************)
(* Snapshots: a list of objects for each kind and a list of applied        *)
(* commands, from which the maps are built again.                          *)
(***************************************************************************)
ObjectOf(objects, kind) == {o \in {objects[k] : k \in DOMAIN objects} : o.payload.kind = kind}

ValuesOf(map, keys) == FoldSet(LAMBDA k, list : Append(list, map[k]), <<>>, keys)

ExportSnapshot ==
    [ objects |-> [kind \in Kinds |-> ValuesOf(rpObjects, {k \in DOMAIN rpObjects : k[1] = kind})],
      applied |-> ValuesOf(rpApplied, DOMAIN rpApplied) ]

\* collect_objects and collect_command_records: no key twice
Distinct(list, KeyOf(_)) == \A i, j \in DOMAIN list : KeyOf(list[i]) = KeyOf(list[j]) => i = j

Collectable(snapshot) ==
    /\ \A kind \in Kinds :
          /\ \A i \in DOMAIN snapshot.objects[kind] :
                snapshot.objects[kind][i].payload.kind = kind /\ snapshot.objects[kind][i].version # 0
          /\ Distinct(snapshot.objects[kind], LAMBDA o : o.payload.key)
    /\ Distinct(snapshot.applied, LAMBDA r : r.fingerprint.id)

ByKey(list, KeyOf(_)) ==
    [k \in {KeyOf(list[i]) : i \in DOMAIN list} |->
        list[CHOOSE i \in DOMAIN list : KeyOf(list[i]) = k]]

Collected(snapshot) ==
    LET map == [kind \in Kinds |-> ByKey(snapshot.objects[kind], LAMBDA o : o.payload.key)]
    IN  [ objects |-> [k \in UNION {{kind} \X DOMAIN map[kind] : kind \in Kinds} |-> map[k[1]][k[2]]],
          applied |-> ByKey(snapshot.applied, LAMBDA r : r.fingerprint.id) ]

ValidateSnapshotGraph(objects, applied) ==
    /\ \A k \in DOMAIN objects :
          /\ ValidPayload(objects[k].payload)
          /\ k = <<objects[k].payload.kind, objects[k].payload.key>>
          /\ k[1] \notin {"claim", "challenge"} => objects[k].version = 1
    /\ \A o \in ObjectOf(objects, "evaluation") : RequireRef(objects, o.payload.match)
    /\ \A o \in ObjectOf(objects, "workload") :
          RequireRef(objects, o.payload.evaluation) /\ Get(objects, o.payload.evaluation).payload.accepted
    /\ \A o \in ObjectOf(objects, "claim") :
          /\ o.version > 0 /\ ValidShares(o.claimants) /\ RequireRef(objects, o.payload.workload)
          /\ (o.status = "challenged") = (o.challenge # "none")
    /\ \A o \in ObjectOf(objects, "license") : Has(objects, o.payload.claim)
    /\ \A o \in ObjectOf(objects, "challenge") :
          /\ Has(objects, o.payload.claim)
          /\ IF o.status = "open" THEN o.version = 1 /\ o.resolution = "none"
             ELSE o.version = 2 /\ o.resolution # "none"
    /\ \A o \in ObjectOf(objects, "resolution") : Has(objects, o.payload.challenge)
    /\ \A id \in DOMAIN applied : Has(objects, applied[id].primary)

\* from_snapshot
Loads(snapshot) ==
    Collectable(snapshot)
        /\ ValidateSnapshotGraph(Collected(snapshot).objects, Collected(snapshot).applied)

(***************************************************************************)
(* Properties.                                                             *)
(***************************************************************************)
\* Every state a sequence of commands reaches is accepted when its snapshot is
\* loaded again (from_snapshot, validate_snapshot_graph), and comes back as it was.
SnapshotReloads ==
    Loads(ExportSnapshot)
        /\ Collected(ExportSnapshot) = [objects |-> rpObjects, applied |-> rpApplied]

\* A claim is challenged exactly while one challenge of it is open, and that one is
\* the claim's active challenge, so an open challenge can always be resolved
\* (ChallengeClaimStateMismatch is never met) and the versions of a claim count them.
ChallengesResolvable ==
    \A claim \in ObjectOf(rpObjects, "claim") :
        LET challenges == {o \in ObjectOf(rpObjects, "challenge") : o.payload.claim.key = claim.payload.key}
            open == {o \in challenges : o.status = "open"}
        IN  /\ {o.payload.key : o \in open} = IF claim.status = "challenged" THEN {claim.challenge} ELSE {}
            /\ claim.version = 1 + 2 * Cardinality(challenges) - Cardinality(open)

\* Whoever holds a share of a claim, amended or not, has accepted work in the claim's
\* receipt, which stands on an accepted evaluation of a committed match.
ClaimantsWorked ==
    \A claim \in ObjectOf(rpObjects, "claim") :
        LET receipt == Get(rpObjects, claim.payload.workload).payload
            evaluation == Get(rpObjects, receipt.evaluation).payload
        IN  /\ DOMAIN claim.claimants \subseteq DOMAIN receipt.units
            /\ evaluation.accepted /\ Has(rpObjects, evaluation.match)
            /\ evaluation.time <= receipt.time /\ receipt.time <= claim.payload.time
=============================================================================
