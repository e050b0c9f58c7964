------------------------------ MODULE MCStores ------------------------------
(***************************************************************************)
(* Model checking of the durable stores that do not share state: one run   *)
(* explores one of them, the others stay as created.                       *)
(***************************************************************************)
EXTENDS TaskKernelStore

VARIABLES which, archive, plan, installed,
          store, signatures, certified, caller, transfer, clock, damage,
          paused, balances, locks, auditLog, reader

archiveState == <<archive, plan, installed>>
daState == <<store, signatures, certified, caller, transfer, clock, damage>>
vaultState == <<paused, balances, locks, auditLog, reader>>
vars == <<which, marketVars, archiveState, daState, vaultState>>

\* The task market: two callers, of which one may die, submit grants, tasks,
\* bids and leases in three blocks; some are replays, forged or out of date.
MCHeight == "g" :> 1 @@ "a" :> 2 @@ "ax" :> 2 @@ "b" :> 3
InBlock(e, b) == [expected |-> e, block |-> b]
MCContexts == [p \in MarketCaller |->
  IF p = "p1" THEN {InBlock("g", "g"), InBlock("g", "a"), InBlock("a", "a"), InBlock("a", "b"), InBlock("b", "b")}
  ELSE {InBlock("g", "ax"), InBlock("a", "a"), InBlock("a", "b")}]

Controller(kind, agent, nonce, body) ==
  [kind |-> kind, agent |-> agent, key |-> "controller", cap |-> NoneId, capGen |-> 0,
   session |-> NoneId, gen |-> 0, lane |-> 0, nonce |-> nonce, version |-> nonce,
   after |-> 1, until |-> 1, binds |-> <<kind, body.id>>, signer |-> "controller", body |-> body]
Session(kind, agent, cap, ses, lane, nonce, from, until, charge, body) ==
  [kind |-> kind, agent |-> agent, key |-> "session", cap |-> cap, capGen |-> 7,
   session |-> ses, gen |-> 1, lane |-> lane, nonce |-> nonce, version |-> nonce,
   after |-> from, until |-> until, binds |-> <<kind, body.id>>, signer |-> "session",
   body |-> body, charge |-> charge]
Cap(id, agent, kinds, limit) ==
  [id |-> id, chain |-> Chain, agent |-> agent, parent |-> NoneId, from |-> 1, until |-> 3,
   window |-> 1, rate |-> 2, gen |-> 7, lanes |-> <<1, 2>>, resources |-> {"gpu"},
   scopes |-> {[kind |-> k, task |-> NoneId, price |-> IF k = "TaskCreate" THEN {} ELSE {2}] : k \in kinds},
   limits |-> ("operations" :> 3 @@ "fee" :> 0 @@ Asset :> limit)]
Ses(id, agent, cap) ==
  [id |-> id, chain |-> Chain, agent |-> agent, gen |-> 1, cap |-> cap,
   from |-> 1, until |-> 3, lanes |-> <<1, 2>>, ops |-> 3]
One == ("operations" :> 1)
Task(id, nonce, funded, ver) ==
  Session("TaskCreate", "requester", "capR", "sesR", 1, nonce, 2, 2, One @@ (Asset :> funded),
    [id |-> id, chain |-> Chain, requester |-> "requester", nonce |-> nonce, expiry |-> 3,
     refund |-> "requester", cap |-> 2, reserves |-> 1, funded |-> funded, asset |-> Asset,
     accountVersion |-> ver, resource |-> "gpu"])
BidC(id, task, nonce, price) ==
  Session("Bid", "provider", "capP", "sesP", 1, nonce, 2, 2, One,
    [id |-> id, chain |-> Chain, provider |-> "provider", nonce |-> nonce, task |-> task,
     revision |-> 0, expiry |-> 3, asset |-> Asset, price |-> price, terms |-> "x"])
Lease(id, task, bid, nonce, bond) ==
  [Session("LeaseAccept", "requester", "capR", "sesR", 2, nonce, 3, 3, One,
    [id |-> id, chain |-> Chain, task |-> task, bid |-> bid, requester |-> "requester",
     provider |-> "provider", revision |-> 0, attempt |-> 0, terms |-> "x"])
   EXCEPT !.gen = 1] @@ [bidVersion |-> 0, escrowVersion |-> 0, bondVersion |-> bond]
Accept(lease, nonce) ==
  Session("ProviderAccept", "provider", "capP", "sesP", 2, nonce, 3, 3, One,
    [id |-> lease, chain |-> Chain, lease |-> lease, provider |-> "provider", revision |-> 1])
   @@ [leaseRevision |-> 0]
Grants ==
  {Controller("CapabilityGrant", "requester", 0, Cap("capR", "requester", {"TaskCreate", "LeaseAccept"}, 7)),
   Controller("SessionGrant", "requester", 1, Ses("sesR", "requester", "capR")),
   Controller("CapabilityGrant", "provider", 0, Cap("capP", "provider", {"Bid", "ProviderAccept"}, 0)),
   Controller("SessionGrant", "provider", 1, Ses("sesP", "provider", "capP"))}
MCExecutes == [p \in MarketCaller |->
  IF p = "p1" THEN Grants \cup
  {Task("t1", 0, 3, 0), Task("t2", 1, 4, 1), 
   BidC("b1", "t1", 0, 2), BidC("b2", "t2", 1, 1),
   Lease("l1", "t1", "b1", 0, 0), Lease("l2", "t2", "b2", 1, 1), 
   Accept("l1", 0), Accept("l3", 0)}
  ELSE {[Task("t2", 0, 4, 0) EXCEPT !.binds = <<"TaskCreate", "t1">>],
        [Controller("SessionGrant", "requester", 1,
           [Ses("sesR", "requester", "capR") EXCEPT !.lanes = <<2, 1>>]) EXCEPT !.until = 3],
        [Task("t1", 0, 3, 0) EXCEPT !.body.chain = "other"], Task("t1", 0, 3, 0), Lease("l3", "t1", "b2", 0, 0)}]
Config(id, hold) ==
  [store |-> id, funding |-> Funding, bond |-> BondFunding, hold |-> hold,
   agents |-> <<"requester", "provider">>]
MCConfigs == [p \in MarketCaller |->
   {Config("s", BondHold), IF p = "p1" THEN Config("s", 0) ELSE Config("other", BondHold)}]
MCPreviews == [p \in MarketCaller |->
   IF p = "p1" THEN {} ELSE {Task("t1", 0, 3, 0)}]

\* Terminal tasks: four prunable ones of different size, one paid for longer.
Record(task, terminal, through, bytes) ==
  [task |-> task, terminal |-> terminal, paidThrough |-> through, bytes |-> bytes,
   charge |-> bytes * (through - terminal + 1)]
TaskRecords == {Record(1, 1, 2, 1), Record(2, 1, 2, 2), Record(3, 2, 3, 1),
                Record(4, 2, 3, 1), Record(5, 3, 6, 1)}

A == INSTANCE TaskArchive WITH
       Records <- TaskRecords, MinRetention <- 2, MaxLive <- 2, MaxLiveBytes <- 3,
       MaxBatch <- 3, MaxBatchBytes <- 4, ChargeRate <- 1, ArchiveHeights <- {3, 4},
       HoldSnapshots <- {{}, {1}, {2, 3}}, Planner <- {"p", "q"}

\* Batches x and y claim one author sequence, z the next; x has five chunks,
\* so that two levels of its tree are odd.  The last three
\* must not be admitted: other content than stated, another signer, an
\* author without authority.
Info(sequence, bytes, chunks) ==
  [author |-> "A", signer |-> "A", sequence |-> sequence, bytes |-> bytes,
   chunks |-> chunks, stated |-> chunks, retain |-> 1]
Small == Info(1, 1, <<"p">>)
Batches ==
  [b \in {"x", "y", "z", "u", "v", "w"} |->
     CASE b = "x" -> Info(1, 5, <<"p", "q", "p", "q", "p">>)
       [] b = "y" -> Small
       [] b = "z" -> Info(2, 1, <<"q">>)
       [] b = "u" -> [Small EXCEPT !.chunks = <<"q">>]
       [] b = "v" -> [Small EXCEPT !.signer = "B"]
       [] b = "w" -> [Small EXCEPT !.signer = "B", !.author = "B"]]
Weights == [m \in {"a", "b", "f"} |-> IF m = "f" THEN 1 ELSE 2]

Obligations == {[retain |-> 1, hold |-> 2]}

\* A committee with a faulty member, asked to certify conflicting batches.
Q == INSTANCE DataAvailability WITH
       Store <- {"a", "b"}, Faulty <- {"f"}, Weight <- Weights, BatchInfo <- Batches,
       Authority <- "A", Offered <- {"x", "y", "u", "v", "w"}, FirstSequence <- 1, MaxSequence <- 2, MaxOutstanding <- 1,
       MaxAuthorBytes <- 6, MaxQueueBatches <- 1, MaxQueueBytes <- 6, RetrievalWindow <- 1,
       RepairWindow <- 1, Extensions <- {}, Fragile <- {},
       MaxClock <- 1, MaxDamage <- 0, MaxCalls <- 2

\* A disk that damages bytes while the obligation for them runs out.
R == INSTANCE DataAvailability WITH
       Store <- {"a", "b"}, Faulty <- {}, Weight <- Weights, BatchInfo <- Batches,
       Authority <- "A", Offered <- {"x"}, FirstSequence <- 1, MaxSequence <- 2, MaxOutstanding <- 1,
       MaxAuthorBytes <- 6, MaxQueueBatches <- 1, MaxQueueBytes <- 6, RetrievalWindow <- 1,
       RepairWindow <- 1, Extensions <- Obligations, Fragile <- {"a"},
       MaxClock <- 3, MaxDamage <- 1, MaxCalls <- 1

\* Damage to a certified batch while the next one fills the queue.
F == INSTANCE DataAvailability WITH
       Store <- {"a", "b"}, Faulty <- {}, Weight <- Weights, BatchInfo <- Batches,
       Authority <- "A", Offered <- {"x", "z"}, FirstSequence <- 1, MaxSequence <- 2, MaxOutstanding <- 1,
       MaxAuthorBytes <- 6, MaxQueueBatches <- 1, MaxQueueBytes <- 6, RetrievalWindow <- 1,
       RepairWindow <- 1, Extensions <- {}, Fragile <- {"a"},
       MaxClock <- 1, MaxDamage <- 1, MaxCalls <- 1

\* Two accounts and a blank name, balances small enough to overflow.
V == INSTANCE EscrowVault WITH
       Account <- {"alice", "bob", " "}, Blank <- {" "}, RequestId <- {"r1", " r3"},
       Untrimmed <- {" r3"}, Caller <- {"owner", "other"}, Owner <- "owner",
       Amount <- {0, 1, 2}, MaxBalance <- 2, MaxPending <- 1

Init ==
  /\ which \in {"market", "archive", "quorum", "retention", "queue", "vault"}
  /\ MarketInit /\ A!Init /\ R!DaInit /\ V!Init

Next ==
  \/ which = "market" /\ MarketNext /\ UNCHANGED <<which, archiveState, daState, vaultState>>
  \/ which = "archive" /\ A!Next /\ UNCHANGED <<which, marketVars, daState, vaultState>>
  \/ which = "quorum" /\ Q!DaNext /\ UNCHANGED <<which, marketVars, archiveState, vaultState>>
  \/ which = "retention" /\ R!DaNext /\ UNCHANGED <<which, marketVars, archiveState, vaultState>>
  \/ which = "queue" /\ F!DaNext /\ UNCHANGED <<which, marketVars, archiveState, vaultState>>
  \/ which = "vault" /\ V!Next /\ UNCHANGED <<which, marketVars, archiveState, daState>>

Spec == Init /\ [][Next]_vars

\* Every store passes the audit it makes when it is opened again: the task
\* market, the archive, with every record in exactly one place, and the
\* accounting of every data-availability store.
StoresReopen ==
  /\ which = "market" => MarketReopens
  /\ which = "archive" => A!ArchiveKeepsRecords
  /\ which \in {"quorum", "retention", "queue"} => R!DaStoreReopens

\* EscrowVault: the audit log replays to the vault, and deposits are the
\* balances and the open locks.
VaultReplays == which = "vault" => V!AuditReplays /\ V!ValueConserved

\* DataAvailability: one batch per author sequence is certified.
OneCertifiedBatch ==
  IF which = "quorum" THEN Q!OneCertifiedBatch ELSE R!OneCertifiedBatch

\* DataAvailability: a response built from live bytes verifies.
ResponseVerifies == R!ResponseVerifies

\* What is still needed is kept: archive records that are held or paid for
\* stay live, and the bytes of a batch outlive the obligation in force.
KeptWhileNeeded == A!HeldStaysLive /\ R!RetainedUntilExpiry
=============================================================================
