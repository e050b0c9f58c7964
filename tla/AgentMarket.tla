---------------------------- MODULE AgentMarket -----------------------------
(***************************************************************************)
(* The state transition of trnm-task-kernel/src/store.rs: capabilities,    *)
(* sessions, nonce lanes, task offers with a funded escrow, bids, leases   *)
(* and the provider's bond, as the objects `o' of one store, and what one  *)
(* command does to them.                                                   *)
(*                                                                         *)
(* Identities are names: an object's digest is the name in its body.  Of   *)
(* the lists that must be sorted and free of duplicates the nonce lanes    *)
(* are sequences, the others sets.  An authorization's statement is part   *)
(* of its command: `binds' is the digest its signature covers, under the   *)
(* key of `signer'.  Hashes of terms a lease repeats from its task and bid *)
(* are one attribute `terms'.  u64/u128 sums stay below their width.       *)
(***************************************************************************)
EXTENDS Naturals, Sequences, FiniteSets, FiniteSetsExt, Functions, TLC

CONSTANTS Funding,      \* requester_account_funding
          BondFunding,  \* provider_bond_funding
          BondHold,     \* provider_bond_hold
          Asset,        \* the asset of the account and of the bond
          Chain         \* the trust bundle's genesis, chain, version and profile

Agents == {"requester", "provider"}
NoneId == "none"
ControllerKinds == {"CapabilityGrant", "SessionGrant"}
Meters == {"fee", "gas", "da_bytes", "retention", "operations"}

NewLane == [next |-> 0, version |-> 0]

\* NonceLaneKeyBodyV1 of a statement
LaneKey(c) == [agent |-> c.agent, key |-> c.key, cap |-> c.cap,
               gen |-> c.gen, lane |-> c.lane]

\* create_schema: the objects of a new store.
GenesisObjects ==
  [lanes    |-> [k \in {[agent |-> a, key |-> "controller", cap |-> NoneId,
                         gen |-> 0, lane |-> 0] : a \in Agents} |-> NewLane],
   account  |-> [available |-> Funding, spent |-> 0, version |-> 0],
   bond     |-> [available |-> BondFunding, held |-> 0, version |-> 0],
   caps     |-> << >>, sessions |-> << >>, tasks |-> << >>,
   escrows  |-> << >>, bids |-> << >>, leases |-> << >>]

With(f, k, v) == (k :> v) @@ f

\* load_object: an absent row is an error.
Loads(rows, id) == id \in DOMAIN rows

\* validate_body_context
BodyContextHolds(b) == b.chain = Chain

\* require_strictly_sorted_unique
StrictlySorted(s) == \A i \in 1 .. Len(s) - 1 : s[i] < s[i + 1]

AccountTotal(a) == a.available + a.spent

\* operation_digest
OperationDigest(c) == <<c.kind, c.body.id>>
-----------------------------------------------------------------------------
(***************************************************************************)
(* Authorization.                                                          *)
(***************************************************************************)
\* verify_command_envelope: grants are signed by the controller key, the
\* other commands by the session key.
EnvelopeVerifies(h, c) ==
  /\ c.binds = OperationDigest(c) /\ c.after <= h /\ h <= c.until
  /\ c.agent \in Agents
  /\ c.signer = IF c.kind \in ControllerKinds THEN "controller" ELSE "session"

\* The lane namespace a statement must use.
NamespaceHolds(c) ==
  IF c.kind \in ControllerKinds
  THEN /\ c.key = "controller" /\ c.cap = NoneId /\ c.capGen = 0
       /\ c.session = NoneId /\ c.gen = 0 /\ c.lane = 0
  ELSE /\ c.key # "controller" /\ c.cap # NoneId /\ c.session # NoneId
       /\ c.gen # 0 /\ c.lane # 0

NonceIsNext(o, c) ==
  /\ Loads(o.lanes, LaneKey(c))
  /\ o.lanes[LaneKey(c)].version = c.version
  /\ o.lanes[LaneKey(c)].next = c.nonce

\* resolve_operation_scope: the task a command is about, and its price if it
\* has one.
TaskOf(o, c) ==
  CASE c.kind = "TaskCreate"     -> c.body.id
    [] c.kind \in {"Bid", "LeaseAccept"} -> c.body.task
    [] c.kind = "ProviderAccept" -> o.leases[c.body.lease].body.task

OfferOf(o, c) ==
  IF c.kind = "TaskCreate" THEN c.body ELSE o.tasks[TaskOf(o, c)].body

ScopeResolves(o, c) ==
  CASE c.kind = "TaskCreate"  -> TRUE
    [] c.kind = "Bid"         -> Loads(o.tasks, c.body.task)
    [] c.kind = "LeaseAccept" -> /\ Loads(o.tasks, c.body.task)
                                 /\ Loads(o.bids, c.body.bid)
    [] c.kind = "ProviderAccept" -> Loads(o.leases, c.body.lease)

PriceOf(o, c) ==
  CASE c.kind = "TaskCreate"  -> {}
    [] c.kind = "Bid"         -> {c.body.price}
    [] c.kind = "LeaseAccept" -> {o.bids[c.body.bid].body.price}
    [] c.kind = "ProviderAccept" ->
         {o.bids[o.leases[c.body.lease].body.bid].body.price}

\* validate_operation_scope: the capability names the operation, and with it
\* an exact task and a unit price if it likes, and lists the task's resources.
ScopeAllows(o, cap, c) ==
  /\ \E s \in cap.scopes :
       /\ s.kind = c.kind
       /\ ScopeResolves(o, c)
       /\ s.task \in {NoneId, TaskOf(o, c)}
       /\ \A max \in s.price : PriceOf(o, c) # {} /\ \A q \in PriceOf(o, c) : q <= max
  /\ OfferOf(o, c).resource \in cap.resources

\* authorize, for a session command
DelegationHolds(o, h, c) ==
  /\ Loads(o.caps, c.cap) /\ Loads(o.sessions, c.session)
  /\ LET cap == o.caps[c.cap]  ses == o.sessions[c.session]
     IN  /\ cap.body.gen = c.capGen /\ cap.body.agent = c.agent
         /\ cap.body.from <= h /\ h <= cap.body.until
         /\ ses.body.gen = c.gen /\ ses.capGen = c.capGen
         /\ ses.body.cap = c.cap /\ ses.body.agent = c.agent
         /\ c.key = "session"
         /\ ses.body.from <= h /\ h <= ses.body.until
         /\ c.lane \in Range(ses.body.lanes)
         /\ ses.spent < ses.body.ops
         /\ ScopeAllows(o, cap.body, c)

Authorized(o, h, c) ==
  /\ NamespaceHolds(c) /\ NonceIsNext(o, c)
  /\ c.kind \notin ControllerKinds => DelegationHolds(o, h, c)
-----------------------------------------------------------------------------
(***************************************************************************)
(* apply_command: what each kind requires, and what it writes.             *)
(***************************************************************************)
\* apply_capability_grant
CanGrantCapability(o, h, c) ==
  LET b == c.body
  IN  /\ BodyContextHolds(b) /\ b.agent = c.agent /\ b.parent = NoneId
      /\ b.from <= h /\ h <= b.until
      /\ b.window # 0 /\ b.rate # 0 /\ b.limits["operations"] # 0
      /\ b.scopes # {} /\ b.resources # {} /\ StrictlySorted(b.lanes)
      /\ b.lanes # << >> /\ 0 \notin Range(b.lanes)
      /\ b.id \notin DOMAIN o.caps

GrantCapability(o, h, c) ==
  [o EXCEPT !.caps = With(@, c.body.id,
     [body |-> c.body, version |-> 0, start |-> h, ops |-> 0,
      spent |-> [r \in DOMAIN c.body.limits |-> 0]])]

\* apply_session_grant: a session attenuates its capability, and opens one
\* nonce lane for each lane it lists.
SessionLanes(b) == {[agent |-> b.agent, key |-> "session", cap |-> b.cap,
                     gen |-> b.gen, lane |-> l] : l \in Range(b.lanes)}

CanGrantSession(o, h, c) ==
  LET b == c.body
  IN  /\ BodyContextHolds(b) /\ b.agent = c.agent /\ b.gen = 1
      /\ Loads(o.caps, b.cap)
      /\ LET cap == o.caps[b.cap].body
         IN  /\ StrictlySorted(b.lanes) /\ b.lanes # << >> /\ 0 \notin Range(b.lanes)
             /\ Range(b.lanes) \subseteq Range(cap.lanes)
             /\ cap.from <= b.from /\ b.until <= cap.until /\ b.from <= b.until
             /\ 0 < b.ops /\ b.ops <= cap.limits["operations"]
      /\ b.id \notin DOMAIN o.sessions
      /\ SessionLanes(b) \cap DOMAIN o.lanes = {}

GrantSession(o, h, c) ==
  LET b == c.body
  IN  [o EXCEPT
        !.sessions = With(@, b.id, [body |-> b, version |-> 0, spent |-> 0,
                                    capGen |-> o.caps[b.cap].body.gen]),
        !.lanes = [k \in SessionLanes(b) |-> NewLane] @@ @]

\* apply_task_create: the offer takes its escrow's whole funding from the
\* requester's account.
Debit(a, funded) ==
  [available |-> a.available - funded, spent |-> a.spent + funded, version |-> a.version + 1]

CanCreateTask(o, h, c) ==
  LET b == c.body
  IN  /\ BodyContextHolds(b) /\ b.requester = c.agent /\ b.nonce = c.nonce
      /\ h <= b.expiry /\ b.refund = c.agent
      /\ b.cap + b.reserves <= b.funded
      /\ o.account.version = b.accountVersion
      /\ c.agent = "requester" /\ b.asset = Asset
      /\ b.funded <= o.account.available
      /\ AccountTotal(Debit(o.account, b.funded)) = AccountTotal(o.account)
      /\ b.id \notin DOMAIN o.tasks

NewEscrowOfReserves(b) ==
  [available |-> b.cap + b.reserves, reserved |-> 0, reservations |-> << >>, version |-> 0]

NewEscrow(b) ==
  [available |-> b.funded, reserved |-> 0, reservations |-> << >>, version |-> 0]

NewTask(b) ==
  [body |-> b, revision |-> 0, attempt |-> 0, status |-> "open", lease |-> NoneId]

CreateTask(o, h, c) ==
  LET b == c.body
  IN  [o EXCEPT
        !.account = Debit(@, b.funded),
        !.tasks = With(@, b.id, NewTask(b)),
        !.escrows = With(@, b.id, NewEscrow(b))]

\* apply_bid
CanBid(o, h, c) ==
  LET b == c.body
  IN  /\ BodyContextHolds(b) /\ b.provider = c.agent /\ b.nonce = c.nonce
      /\ Loads(o.tasks, b.task)
      /\ LET t == o.tasks[b.task]
         IN  /\ t.status = "open" /\ t.revision = b.revision
             /\ h <= b.expiry /\ h <= t.body.expiry
             /\ b.asset = t.body.asset /\ b.price # 0 /\ b.price <= t.body.cap
      /\ c.agent = "provider" /\ BondHold <= o.bond.available
      /\ b.id \notin DOMAIN o.bids

Bid(o, h, c) ==
  [o EXCEPT !.bids = With(@, c.body.id,
     [body |-> c.body, version |-> 0, status |-> "active", lease |-> NoneId])]

\* validate_escrow_conservation and validate_bond_conservation: a lease checks
\* the rows it is about to write, and every audit checks all rows.
EscrowConserves(funded, e) ==
  /\ e.available + e.reserved = funded
  /\ e.reserved = MapThenSumSet(LAMBDA l : e.reservations[l], DOMAIN e.reservations)

BondConserves(b) == b.available + b.held = BondFunding

\* apply_lease_accept: five objects change together.  A task's escrow bears
\* the task's name.
AcceptLease(o, h, c) ==
  LET b == c.body  price == o.bids[b.bid].body.price
  IN  [o EXCEPT
        !.escrows[b.task] =
           [available |-> @.available - price, reserved |-> @.reserved + price,
            reservations |-> With(@.reservations, b.id, price),
            version |-> @.version + 1],
        !.bond = [available |-> @.available - BondHold,
                  held |-> @.held + BondHold, version |-> @.version + 1],
        !.tasks[b.task].revision = @ + 1, !.tasks[b.task].status = "leased",
        !.tasks[b.task].lease = b.id,
        !.bids[b.bid].version = @ + 1, !.bids[b.bid].status = "accepted",
        !.bids[b.bid].lease = b.id,
        !.leases = With(@, b.id, [body |-> b, revision |-> 0, status |-> "offered",
                                  acceptedAt |-> NoneId])]

CanAcceptLease(o, h, c) ==
  LET b == c.body
  IN  /\ BodyContextHolds(b) /\ Loads(o.tasks, b.task) /\ Loads(o.bids, b.bid)
      /\ LET t == o.tasks[b.task]  bid == o.bids[b.bid]  e == o.escrows[b.task]
         IN  /\ c.agent = b.requester /\ b.requester = t.body.requester
             /\ b.provider = bid.body.provider
             /\ b.revision = t.revision /\ b.revision = bid.body.revision
             /\ t.revision = 0 /\ t.status = "open" /\ t.lease = NoneId
             /\ b.attempt = t.attempt
             /\ bid.version = c.bidVersion /\ bid.status = "active"
             /\ h <= bid.body.expiry
             /\ e.version = c.escrowVersion /\ o.bond.version = c.bondVersion
             /\ b.terms = bid.body.terms
             /\ bid.body.price <= t.body.cap /\ bid.body.price <= e.available
             /\ b.provider = "provider" /\ BondHold <= o.bond.available
             /\ e.reservations = << >>
             /\ LET n == AcceptLease(o, h, c)
                IN  /\ EscrowConserves(t.body.funded, n.escrows[b.task])
                    /\ BondConserves(n.bond)
      /\ b.id \notin DOMAIN o.leases

\* apply_provider_accept
CanAcceptAsProvider(o, h, c) ==
  LET b == c.body
  IN  /\ BodyContextHolds(b) /\ Loads(o.leases, b.lease)
      /\ LET l == o.leases[b.lease]  t == o.tasks[l.body.task]
         IN  /\ b.provider = c.agent /\ b.provider = l.body.provider
             /\ b.revision = t.revision /\ t.status = "leased"
             /\ t.lease = b.lease
             /\ l.revision = c.leaseRevision /\ l.status = "offered"

AcceptAsProvider(o, h, c) ==
  [o EXCEPT !.leases[c.body.lease].revision = @ + 1,
            !.leases[c.body.lease].status = "active",
            !.leases[c.body.lease].acceptedAt = h]

CanApply(o, h, c) ==
  CASE c.kind = "CapabilityGrant" -> CanGrantCapability(o, h, c)
    [] c.kind = "SessionGrant"    -> CanGrantSession(o, h, c)
    [] c.kind = "TaskCreate"      -> CanCreateTask(o, h, c)
    [] c.kind = "Bid"             -> CanBid(o, h, c)
    [] c.kind = "LeaseAccept"     -> CanAcceptLease(o, h, c)
    [] c.kind = "ProviderAccept"  -> CanAcceptAsProvider(o, h, c)

ApplyCommand(o, h, c) ==
  CASE c.kind = "CapabilityGrant" -> GrantCapability(o, h, c)
    [] c.kind = "SessionGrant"    -> GrantSession(o, h, c)
    [] c.kind = "TaskCreate"      -> CreateTask(o, h, c)
    [] c.kind = "Bid"             -> Bid(o, h, c)
    [] c.kind = "LeaseAccept"     -> AcceptLease(o, h, c)
    [] c.kind = "ProviderAccept"  -> AcceptAsProvider(o, h, c)
-----------------------------------------------------------------------------
(***************************************************************************)
(* consume_authorization: the lane's nonce, the capability's budget and    *)
(* rate window, the session's operations.                                  *)
(***************************************************************************)
\* checked_budget_add: what a capability lists no counter for is not spendable.
WithinLimits(cap, charge) ==
  \A r \in DOMAIN charge :
    r \in DOMAIN cap.spent /\ cap.spent[r] + charge[r] <= cap.body.limits[r]

\* The operations of the rate window that the command falls in.
WindowOperations(cap, h) ==
  IF h >= cap.start + cap.body.window THEN 1 ELSE cap.ops + 1

ChargeIsExact(c) ==
  /\ c.charge["operations"] = 1
  /\ c.kind = "TaskCreate" =>
       DOMAIN c.charge \ Meters = {c.body.asset}
       /\ c.charge[c.body.asset] = c.body.funded

CanConsume(o, h, c) ==
  c.kind \notin ControllerKinds =>
    LET cap == o.caps[c.cap]  ses == o.sessions[c.session]
    IN  /\ ChargeIsExact(c) /\ WithinLimits(cap, c.charge)
        /\ WindowOperations(cap, h) <= cap.body.rate
        /\ ses.spent + 1 <= ses.body.ops

\* apply_budget
SpendBudget(cap, h, charge) ==
  [cap EXCEPT
     !.spent = [r \in DOMAIN @ |-> @[r] + IF r \in DOMAIN charge
                                          THEN charge[r] ELSE 0],
     !.start = IF h >= @ + cap.body.window THEN h ELSE @,
     !.ops = WindowOperations(cap, h),
     !.version = @ + 1]

NextNonce(lane) == [next |-> lane.next + 1, version |-> lane.version + 1]

ConsumeAuthorization(o, h, c) ==
  LET used == [o EXCEPT !.lanes[LaneKey(c)] = NextNonce(@)]
  IN  IF c.kind \in ControllerKinds THEN used
      ELSE [used EXCEPT !.caps[c.cap] = SpendBudget(@, h, c.charge),
                        !.sessions[c.session].spent = @ + 1,
                        !.sessions[c.session].version = @ + 1]

\* What one command does inside its transaction.
Accepted(o, h, c) ==
  Authorized(o, h, c) /\ CanApply(o, h, c) /\ CanConsume(o, h, c)

Successor(o, h, c) == ConsumeAuthorization(ApplyCommand(o, h, c), h, c)
=============================================================================
