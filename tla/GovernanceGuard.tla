--------------------------- MODULE GovernanceGuard ---------------------------
(***************************************************************************)
(* The two ways a node's parameters are changed under guard: governance,   *)
(* and the plans of the control plane, modelled last.                      *)
(*                                                                         *)
(* trnm-governance-guard: parameter changes that wait out a timelock, and  *)
(* an emergency pause that guardians set and that is lifted by a scheduled *)
(* restore.  Roles and the set of governed keys change at any time.  Times *)
(* are arguments of the calls.  A refused call changes nothing and is no   *)
(* step.  The audit log is append-only wording and left out.               *)
(***************************************************************************)
EXTENDS Naturals, Sequences, FiniteSets, FiniteSetsExt

CONSTANTS GgMembers,      \* those who call
          FirstGuardian,
          GgRoleChanges,  \* set_role calls of the admin: who, propose, execute
          GgGuardians,    \* those set_guardian is called for
          GgKeys, GgValues, \* "" is the value of a key that was never set
          GgTimes, Delay, MaxTime,
          MaxProposals    \* bound: proposals ever made

VARIABLES ggRoles,      \* proposers, executors, guardians, allowed keys
          ggProposals,  \* by number
          ggParams,     \* every key: value and version
          ggPaused

ggVars == <<ggRoles, ggProposals, ggParams, ggPaused>>

Unset == ""
Open(p) == p.status \in {"pending", "queued"}
SetMembership(set, who, enabled) == IF enabled THEN set \cup {who} ELSE set \ {who}
-----------------------------------------------------------------------------
\* The admin's calls.
SetRole(who, propose, execute) ==
  /\ ggRoles' = [ggRoles EXCEPT !.proposers = SetMembership(@, who, propose),
                                !.executors = SetMembership(@, who, execute)]
  /\ UNCHANGED <<ggProposals, ggParams, ggPaused>>

SetGuardian(who, enabled) ==
  /\ ggRoles' = [ggRoles EXCEPT !.guardians = SetMembership(@, who, enabled)]
  /\ UNCHANGED <<ggProposals, ggParams, ggPaused>>

SetAllowedParamKey(k, enabled) ==
  /\ ggRoles' = [ggRoles EXCEPT !.keys = SetMembership(@, k, enabled)]
  /\ UNCHANGED <<ggProposals, ggParams, ggPaused>>
-----------------------------------------------------------------------------
Earliest(now) == Min({now + Delay, MaxTime})
EtaOk(eta, now) == eta >= Earliest(now)
NewProposal(p) ==
  /\ Len(ggProposals) < MaxProposals
  /\ ggProposals' = Append(ggProposals, p)
Finish(id, status) == ggProposals' = [ggProposals EXCEPT ![id].status = status]

Propose(c, k, old, new, eta, now) ==
  /\ c \in ggRoles.proposers
  /\ EtaOk(eta, now)
  /\ k \in ggRoles.keys
  /\ NewProposal([kind |-> "param", proposer |-> c, eta |-> eta, key |-> k, old |-> old,
                  new |-> new, base |-> ggParams[k].version, status |-> "pending"])
  /\ UNCHANGED <<ggRoles, ggParams, ggPaused>>

Queue(c, id) ==
  LET p == ggProposals[id] IN
  /\ c \in ggRoles.proposers
  /\ p.status = "pending" /\ p.proposer = c /\ p.kind = "param"
  /\ Finish(id, "queued")
  /\ UNCHANGED <<ggRoles, ggParams, ggPaused>>

Ready(p, now) == p.status = "queued" /\ now >= p.eta

\* The proposal was made for the version that is in force, and for its value.
VersionUnchecked(p) == ggParams[p.key].value = p.old
Current(p) == ggParams[p.key].version = p.base /\ ggParams[p.key].value = p.old

Execute(c, id, now) ==
  LET p == ggProposals[id] IN
  /\ c \in ggRoles.executors
  /\ p.kind = "param" /\ Ready(p, now)
  /\ p.key \in ggRoles.keys
  /\ Current(p)
  /\ ggParams' = [ggParams EXCEPT ![p.key] = [value |-> p.new, version |-> @.version + 1]]
  /\ Finish(id, "executed")
  /\ UNCHANGED <<ggRoles, ggPaused>>

MayCancel(c, p) ==
  \/ c \in ggRoles.guardians
  \/ p.kind = "param" /\ p.proposer = c /\ c \in ggRoles.proposers

Cancel(c, id) ==
  /\ Open(ggProposals[id])
  /\ MayCancel(c, ggProposals[id])
  /\ Finish(id, "cancelled")
  /\ UNCHANGED <<ggRoles, ggParams, ggPaused>>
-----------------------------------------------------------------------------
EmergencyPause(c) ==
  /\ c \in ggRoles.guardians
  /\ ~ggPaused
  /\ ggPaused' = TRUE
  /\ UNCHANGED <<ggRoles, ggProposals, ggParams>>

Restores == {id \in DOMAIN ggProposals : ggProposals[id].kind = "restore"}
NoneScheduled == TRUE
NoRestoreOpen == \A id \in Restores : ~Open(ggProposals[id])

\* A restore is queued from the start; only one may be open.
ScheduleUnpause(c, eta, now) ==
  /\ c \in ggRoles.guardians
  /\ ggPaused
  /\ EtaOk(eta, now)
  /\ NoRestoreOpen
  /\ NewProposal([kind |-> "restore", proposer |-> c, eta |-> eta, status |-> "queued"])
  /\ UNCHANGED <<ggRoles, ggParams, ggPaused>>

\* Executed by somebody who is no guardian, on behalf of one who still is.
ExecuteUnpause(c, id, now) ==
  LET p == ggProposals[id] IN
  /\ c \in ggRoles.executors \ ggRoles.guardians
  /\ p.kind = "restore" /\ Ready(p, now)
  /\ p.proposer \in ggRoles.guardians /\ p.proposer /= c
  /\ ggPaused
  /\ ggPaused' = FALSE
  /\ Finish(id, "executed")
  /\ UNCHANGED <<ggRoles, ggParams>>
-----------------------------------------------------------------------------
GgInit ==
  /\ ggRoles = [proposers |-> {}, executors |-> {}, guardians |-> {FirstGuardian}, keys |-> {}]
  /\ ggProposals = <<>>
  /\ ggParams = [k \in GgKeys |-> [value |-> Unset, version |-> 0]]
  /\ ggPaused = FALSE

GgNext ==
  \/ \E r \in GgRoleChanges : SetRole(r.who, r.propose, r.execute)
  \/ \E m \in GgGuardians, on \in BOOLEAN : SetGuardian(m, on)
  \/ \E k \in GgKeys, on \in BOOLEAN : SetAllowedParamKey(k, on)
  \/ \E c \in GgMembers, k \in GgKeys, old, new \in GgValues, eta, now \in GgTimes :
       Propose(c, k, old, new, eta, now)
  \/ \E c \in GgMembers, id \in DOMAIN ggProposals : Queue(c, id) \/ Cancel(c, id)
  \/ \E c \in GgMembers, id \in DOMAIN ggProposals, now \in GgTimes :
       Execute(c, id, now) \/ ExecuteUnpause(c, id, now)
  \/ \E c \in GgMembers : EmergencyPause(c)
  \/ \E c \in GgMembers, eta, now \in GgTimes : ScheduleUnpause(c, eta, now)
-----------------------------------------------------------------------------
\* The value of a parameter is explained by the proposals that were
\* executed: they were made for the versions 0, 1, ... one each, every one
\* replaced the value the one before it had set, and the last is in force.
Executed(k) ==
  {id \in DOMAIN ggProposals \ Restores :
     ggProposals[id].key = k /\ ggProposals[id].status = "executed"}
ParamsExplained ==
  \A k \in GgKeys :
    /\ {ggProposals[id].base : id \in Executed(k)} = 0 .. ggParams[k].version - 1
    /\ Cardinality(Executed(k)) = ggParams[k].version
    /\ \A id \in Executed(k) :
         LET p == ggProposals[id]
             next == {ggProposals[j].old : j \in {x \in Executed(k) : ggProposals[x].base = p.base + 1}} IN
         /\ next = (IF p.base + 1 = ggParams[k].version THEN {} ELSE {p.new})
         /\ p.base + 1 = ggParams[k].version => ggParams[k].value = p.new
         /\ p.base = 0 => p.old = Unset

\* A restore belongs to one pause: none is open while nothing is paused, so
\* a later pause is never lifted by a restore whose delay has already run.
RestoreBelongsToPause == \A id \in Restores : Open(ggProposals[id]) => ggPaused
-----------------------------------------------------------------------------
(***************************************************************************)
(* trnm-control-plane: the observer's registry of module descriptors and   *)
(* measurements, and the guard of one node that decides on signed plans.   *)
(* Plans reach the node more than once and in any order.  The guard itself *)
(* never changes; its host applies an accepted plan and makes the next     *)
(* guard with the generation the receipt names.                            *)
(***************************************************************************)
CONSTANTS CpDescriptors,   \* descriptors: [module, generation, facts, capabilities, sound]
          CpMeasurements,  \* measurements: [module, workload, percentiles, pressure, facts]
          CpPlans,         \* plans: [id, graph, generation, window, actions, signed, sealed]
          Graph,           \* the source graph and contract set of the node
          Bounds,          \* [parameter -> [min, max]]: the parameters a plan may set
          MaxModules, MaxPressure, MaxGenerations,
          CpHeights

VARIABLES cpModules, cpMeasured, cpGeneration, cpSettings, cpApplied

cpVars == <<cpModules, cpMeasured, cpGeneration, cpSettings, cpApplied>>
-----------------------------------------------------------------------------
\* sound: no digest is zero and the descriptor is sealed by its own digest.
ValidDescriptor(d) ==
  /\ d.module < MaxModules /\ d.generation > 0 /\ d.sound
  /\ Cardinality({d.capabilities[i] : i \in DOMAIN d.capabilities}) = Len(d.capabilities)

Supersedes(d, old) == d.generation > old.generation
MayRegister(d) == d.module \in DOMAIN cpModules => Supersedes(d, cpModules[d.module])

\* An equal descriptor of the same generation is answered with success.
Register(d) ==
  /\ ValidDescriptor(d)
  /\ MayRegister(d)
  /\ cpModules' = [m \in DOMAIN cpModules \cup {d.module} |->
                     IF m = d.module THEN d ELSE cpModules[m]]
  /\ UNCHANGED <<cpMeasured, cpGeneration, cpSettings, cpApplied>>

ValidMeasurement(m) ==
  /\ m.percentiles[1] <= m.percentiles[2] /\ m.percentiles[2] <= m.percentiles[3]
  /\ m.pressure <= MaxPressure

Observe(m) ==
  /\ m.module \in DOMAIN cpModules
  /\ ValidMeasurement(m)
  /\ <<m.module, m.workload>> \notin DOMAIN cpMeasured
  /\ cpMeasured' = [k \in DOMAIN cpMeasured \cup {<<m.module, m.workload>>} |->
                      IF k = <<m.module, m.workload>> THEN m ELSE cpMeasured[k]]
  /\ UNCHANGED <<cpModules, cpGeneration, cpSettings, cpApplied>>
-----------------------------------------------------------------------------
\* validate_shape: only bounded parameters, each named once.
SetsParameter(a) == a.kind = "set" /\ a.class = "operational"
ValidShape(p) ==
  /\ p.sealed /\ p.generation > 0 /\ p.window[1] > 0 /\ p.window[2] >= p.window[1]
  /\ p.actions /= <<>>
  /\ \A i \in DOMAIN p.actions : SetsParameter(p.actions[i])
  /\ \A i, j \in DOMAIN p.actions : i /= j => p.actions[i].parameter /= p.actions[j].parameter

ValidBound(b) == b.min <= b.max
ActionAccepted(a) ==
  /\ a.parameter \in DOMAIN Bounds
  /\ Bounds[a.parameter].min <= a.value /\ a.value <= Bounds[a.parameter].max

AnyLaterPlan(p) == p.generation >= cpGeneration
IsSuccessor(p) == p.generation = cpGeneration + 1

\* evaluate answers with a receipt, or refuses.
Receipt(p) == [plan |-> p.id, generation |-> p.generation,
               results |-> [i \in DOMAIN p.actions |-> ActionAccepted(p.actions[i])]]
Evaluates(p, height) ==
  /\ ValidShape(p)
  /\ p.signed
  /\ p.graph = Graph
  /\ IsSuccessor(p)
  /\ p.window[1] <= height /\ height <= p.window[2]
AllAccepted(r) == \A i \in DOMAIN r.results : r.results[i]

\* The host applies a plan whose receipt accepts every action, all at once.
Apply(p, height) ==
  LET value(k) == p.actions[CHOOSE i \in DOMAIN p.actions : p.actions[i].parameter = k].value
      named == {p.actions[i].parameter : i \in DOMAIN p.actions} IN
  /\ Evaluates(p, height)
  /\ AllAccepted(Receipt(p))
  /\ Len(cpApplied) < MaxGenerations
  /\ cpSettings' = [k \in DOMAIN cpSettings \cup named |-> IF k \in named THEN value(k) ELSE cpSettings[k]]
  /\ cpGeneration' = Receipt(p).generation
  /\ cpApplied' = Append(cpApplied, p)
  /\ UNCHANGED <<cpModules, cpMeasured>>

CpInit ==
  /\ cpModules = <<>> /\ cpMeasured = <<>>
  /\ cpGeneration = 1 /\ cpSettings = <<>> /\ cpApplied = <<>>
  /\ \A k \in DOMAIN Bounds : ValidBound(Bounds[k])

CpNext ==
  \/ \E d \in CpDescriptors : Register(d)
  \/ \E m \in CpMeasurements : Observe(m)
  \/ \E p \in CpPlans, h \in CpHeights : Apply(p, h)
-----------------------------------------------------------------------------
\* Plans that arrive late, twice or out of order: the node's settings are
\* those of its plans applied one generation after the other, none twice
\* and none in part, and each within the node's own bounds.
PlansApplyOnce ==
  LET sets(i, k) == \E a \in {cpApplied[i].actions[j] : j \in DOMAIN cpApplied[i].actions} :
                      a.parameter = k /\ a.value = cpSettings[k]
      names(i, k) == \E j \in DOMAIN cpApplied[i].actions : cpApplied[i].actions[j].parameter = k IN
  /\ \A i \in DOMAIN cpApplied : cpApplied[i].generation = i + 1
  /\ \A i, j \in DOMAIN cpApplied : i /= j => cpApplied[i].id /= cpApplied[j].id
  /\ \A i \in DOMAIN cpApplied : \A j \in DOMAIN cpApplied[i].actions :
       cpApplied[i].actions[j].parameter \in DOMAIN cpSettings
  /\ \A k \in DOMAIN cpSettings :
       /\ Bounds[k].min <= cpSettings[k] /\ cpSettings[k] <= Bounds[k].max
       /\ \E i \in DOMAIN cpApplied : sets(i, k) /\ \A j \in DOMAIN cpApplied : j > i => ~names(j, k)
=============================================================================
