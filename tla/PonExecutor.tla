----------------------------- MODULE PonExecutor -----------------------------
(***************************************************************************)
(* Block execution of pon_executor.rs: the mandatory transitions at the    *)
(* start of a block, the twelve signed commands, speculation of each on    *)
(* the state the block starts from with validation of every key it read,   *)
(* and the reward that closes the block.                                   *)
(*                                                                         *)
(* The state is a map from keys to rows.  An identifier stands for the     *)
(* fields it hashes, an allocation root for the list of leaves under it.   *)
(* Signatures and encodings are valid, the fee limit covers the fee.       *)
(***************************************************************************)
EXTENDS Integers, FiniteSets, TLC, SequencesExt, FiniteSetsExt

CONSTANTS
    Users,         \* account holders
    Evaluators,    \* users whose evaluations count
    Miner,         \* owner of every block reward
    Funding,       \* genesis balance of each user
    Par,           \* the installed limits (config/pon/devnet-v1.json)
    Menus,         \* bound: [tags, users, commands] a behaviour draws its commands from
    MaxBlocks      \* bound: blocks executed

VARIABLES
    ponState,      \* the key-value state of the block under execution
    ponBase,       \* the state its speculation runs on
    ponBlock       \* [height, open, fees, menu, left]

ponVars == <<ponState, ponBase, ponBlock>>

AccountOf(who) == <<"account", who>>
Current == <<"model", "current">>
Issued == <<"meta", "issued">>

Kind(s, kind) == {k \in DOMAIN s : k[1] = kind}

Account(s, who) ==
    IF AccountOf(who) \in DOMAIN s THEN s[AccountOf(who)] ELSE [balance |-> 0, nonce |-> 0]

Put(s, key, row) == (key :> row) @@ s

Without(s, keys) == [k \in DOMAIN s \ keys |-> s[k]]

Credit(s, who, amount) == Put(s, AccountOf(who), [Account(s, who) EXCEPT !.balance = @ + amount])

CanDebit(s, who, amount) == amount > 0 /\ Account(s, who).balance >= amount

Debit(s, who, amount) == Put(s, AccountOf(who), [Account(s, who) EXCEPT !.balance = @ - amount])

Escrows(s) == Kind(s, "task") \cup Kind(s, "quota") \cup Kind(s, "release")

Held(s) == {k \in Escrows(s) : s[k].remaining > 0}

\* Mutant: one entry more than a block may expire is admitted at a deadline.
OneTooMany(s, d, h, lifetime) ==
    /\ h < d /\ d <= h + lifetime
    /\ Cardinality(Held(s)) < Par.maxPending
    /\ Cardinality({k \in Held(s) : s[k].deadline = d}) <= Par.expiryPerBlock

DeadlineAdmits(s, d, h, lifetime) ==
    /\ h < d /\ d <= h + lifetime
    /\ Cardinality(Held(s)) < Par.maxPending
    /\ Cardinality({k \in Held(s) : s[k].deadline = d}) < Par.expiryPerBlock

Round(h) == h \div Par.roundBlocks

ActiveCandidate(s, v, h) ==
    /\ v.parent = s[Current] /\ v.round = Round(h)
    /\ v.status = "submitted" \/ (v.status = "evaluated" /\ v.score > 0)
    /\ h <= v.submitted + Par.candidateLifetime

(***************************************************************************)
(* The commands.  Each gives the set of its next states: none when the     *)
(* command is refused, which refuses the block that carries it.            *)
(***************************************************************************)
Transfer(s, h, tx) ==
    IF ~CanDebit(s, tx.sender, tx.amount) THEN {}
    ELSE {Credit(Debit(s, tx.sender, tx.amount), tx.to, tx.amount)}

ReserveTask(s, h, tx) ==
    LET key == <<"task", <<tx.sender, tx.nonce, tx.provider, tx.amount, tx.deadline>>>>
    IN  IF \/ key \in DOMAIN s \/ ~DeadlineAdmits(s, tx.deadline, h, Par.lifetime)
           \/ ~CanDebit(s, tx.sender, tx.amount) THEN {}
        ELSE {Put(Debit(s, tx.sender, tx.amount), key,
                  [owner |-> tx.sender, provider |-> tx.provider, remaining |-> tx.amount,
                   deadline |-> tx.deadline, status |-> "reserved", output |-> "none"])}

CancelTask(s, h, tx) ==
    LET o == s[tx.key]
    IN  IF tx.key \notin DOMAIN s THEN {}
        ELSE IF o.owner # tx.sender \/ o.status # "reserved" THEN {}
        ELSE {Put(Credit(s, tx.sender, o.remaining), tx.key,
                  [o EXCEPT !.remaining = 0, !.status = "cancelled"])}

SubmitReceipt(s, h, tx) ==
    LET o == s[tx.key]
    IN  IF tx.key \notin DOMAIN s THEN {}
        ELSE IF o.provider # tx.sender \/ o.status # "reserved" \/ h >= o.deadline THEN {}
        ELSE {Put(s, tx.key, [o EXCEPT !.output = tx.output, !.status = "receipt"])}

SettleTask(s, h, tx) ==
    LET o == s[tx.key]
    IN  IF tx.key \notin DOMAIN s THEN {}
        ELSE IF \/ o.owner # tx.sender \/ o.status # "receipt" \/ h >= o.deadline
                \/ o.output # tx.output THEN {}
        ELSE {Put(Credit(s, o.provider, o.remaining), tx.key,
                  [o EXCEPT !.remaining = 0, !.status = "settled"])}

SubmitContribution(s, h, tx) ==
    LET parent == s[Current]
        cid == <<tx.sender, parent, tx.artifact, tx.components, Round(h)>>
        key == <<"contribution", cid>>
        nullifier == <<"artifact", <<parent, Round(h), tx.artifact>>>>
        history == Kind(s, "contribution")
    IN  IF \/ Cardinality(history) >= Par.maxHistory
           \/ Cardinality({k \in history : ActiveCandidate(s, s[k], h)}) >= Par.maxCandidates
           \/ {key, nullifier} \cap DOMAIN s # {} THEN {}
        ELSE {Put(Put(s, nullifier, cid), key,
                  [owner |-> tx.sender, artifact |-> tx.artifact, components |-> tx.components,
                   parent |-> parent, votes |-> <<>>, score |-> 0, status |-> "submitted",
                   submitted |-> h, round |-> Round(h)])}

Evaluate(s, h, tx) ==
    LET o == s[tx.key]
        votes == (tx.sender :> tx.score) @@ o.votes
        decided == Cardinality(DOMAIN votes) >= Par.threshold
    IN  IF tx.key \notin DOMAIN s THEN {}
        ELSE IF \/ tx.sender \notin Evaluators \/ o.owner = tx.sender
                \/ o.status # "submitted" \/ o.parent # s[Current]
                \/ tx.sender \in DOMAIN o.votes \/ tx.score > Par.maxScore THEN {}
        ELSE {Put(s, tx.key, [o EXCEPT !.votes = votes,
                  !.score = IF decided THEN Min(Range(votes)) ELSE @,
                  !.status = IF decided THEN "evaluated" ELSE @])}

ContributionKeys(leaves) == {<<"contribution", leaves[i].cid>> : i \in DOMAIN leaves}

LeafStands(s, leaf) ==
    LET key == <<"contribution", leaf.cid>>
    IN  /\ key \in DOMAIN s
        /\ s[key].status = "evaluated" /\ s[key].parent = s[Current]
        /\ s[key].score = leaf.score /\ leaf.score > 0 /\ s[key].owner = leaf.payee

ReleaseModel(s, h, tx) ==
    LET bundle == s[tx.key]
        leaves == bundle.components
        total == FoldLeft(LAMBDA sum, leaf : sum + leaf.score, 0, leaves)
        rid == <<s[Current], tx.key[2], tx.amount, leaves, total>>
        horizon == Par.maturity + Par.claimWindow
        adopted == ContributionKeys(leaves) \cup {tx.key}
    IN  IF tx.key \notin DOMAIN s THEN {}
        ELSE IF \/ bundle.status # "evaluated" \/ bundle.score < Par.minAdoption
                \/ bundle.parent # s[Current] \/ leaves = <<>>
                \/ \E i \in DOMAIN leaves : ~LeafStands(s, leaves[i])
                \/ <<"release", rid>> \in DOMAIN s
                \/ ~DeadlineAdmits(s, h + horizon, h, horizon)
                \/ ~CanDebit(s, tx.sender, tx.amount) THEN {}
        ELSE {[k \in adopted |-> [s[k] EXCEPT !.status = "adopted"]]
              @@ Put(Put(Debit(s, tx.sender, tx.amount), Current, rid), <<"release", rid>>,
                     [owner |-> tx.sender, remaining |-> tx.amount, budget |-> tx.amount,
                      total |-> total, leaves |-> leaves, maturity |-> h + Par.maturity,
                      claims |-> {}, deadline |-> h + horizon, status |-> "open"])}

\* The Merkle path shows that the sender is the payee of the claimed leaf.
ClaimReward(s, h, tx) ==
    LET rel == s[tx.key]
        amount == (rel.budget * tx.leaf.score) \div rel.total
    IN  IF tx.key \notin DOMAIN s THEN {}
        ELSE IF \/ h < rel.maturity \/ h >= rel.deadline \/ rel.status # "open"
                \/ tx.leaf.cid \in rel.claims \/ tx.leaf.payee # tx.sender
                \/ tx.leaf \notin Range(rel.leaves) \/ amount > rel.remaining THEN {}
        ELSE {Put(Credit(s, tx.sender, amount), tx.key,
                  [rel EXCEPT !.remaining = @ - amount, !.claims = @ \cup {tx.leaf.cid}])}

ReserveQuota(s, h, tx) ==
    LET cost == tx.units * Par.unitPrice
        key == <<"quota", <<tx.sender, tx.nonce, tx.provider, tx.units, tx.deadline>>>>
    IN  IF \/ key \in DOMAIN s \/ ~DeadlineAdmits(s, tx.deadline, h, Par.lifetime)
           \/ tx.units \notin 1..Par.maxUnits \/ ~CanDebit(s, tx.sender, cost) THEN {}
        ELSE {Put(Debit(s, tx.sender, cost), key,
                  [owner |-> tx.sender, provider |-> tx.provider, remaining |-> cost,
                   units |-> tx.units, deadline |-> tx.deadline, status |-> "reserved"])}

\* The only command whose fee is taken from what it earns.
UseQuota(s, h, tx) ==
    LET o == s[tx.key]
        cost == tx.units * Par.unitPrice
    IN  IF tx.key \notin DOMAIN s THEN {}
        ELSE IF \/ o.provider # tx.sender \/ o.status # "reserved" \/ h >= o.deadline
                \/ tx.units \notin 1..o.units \/ cost < Par.fee \/ o.remaining < cost THEN {}
        ELSE {Put(Credit(s, tx.sender, cost - Par.fee), tx.key,
                  [o EXCEPT !.remaining = @ - cost, !.units = @ - tx.units,
                            !.status = IF o.units = tx.units THEN "spent" ELSE @])}

RegisterWork(s, h, tx) == IF tx.key \in DOMAIN s THEN {} ELSE {Put(s, tx.key, TRUE)}

Command(s, h, tx) ==
    CASE tx.tag = 1 -> Transfer(s, h, tx)
      [] tx.tag = 2 -> ReserveTask(s, h, tx)
      [] tx.tag = 3 -> CancelTask(s, h, tx)
      [] tx.tag = 4 -> SubmitReceipt(s, h, tx)
      [] tx.tag = 5 -> SettleTask(s, h, tx)
      [] tx.tag = 6 -> SubmitContribution(s, h, tx)
      [] tx.tag = 7 -> Evaluate(s, h, tx)
      [] tx.tag = 8 -> ReleaseModel(s, h, tx)
      [] tx.tag = 9 -> ClaimReward(s, h, tx)
      [] tx.tag = 10 -> ReserveQuota(s, h, tx)
      [] tx.tag = 11 -> UseQuota(s, h, tx)
      [] tx.tag = 12 -> RegisterWork(s, h, tx)

Apply(s, h, tx) ==
    IF \/ tx.nonce # Account(s, tx.sender).nonce + 1
       \/ tx.tag # 11 /\ ~CanDebit(s, tx.sender, Par.fee) THEN {}
    ELSE {Put(t, AccountOf(tx.sender), [Account(t, tx.sender) EXCEPT !.nonce = tx.nonce]) :
              t \in Command(IF tx.tag = 11 THEN s ELSE Debit(s, tx.sender, Par.fee), h, tx)}

(***************************************************************************)
(* Speculation.  Commands 2, 6, 8 and 10 read whole prefixes and are never *)
(* speculated; of the others the view records every key read or written.   *)
(***************************************************************************)
\* Mutant: a key that is only credited is not recorded as read.
SenderAndObject(s, tx) == {AccountOf(tx.sender)} \cup (IF tx.tag = 1 THEN {} ELSE {tx.key})

KeysRead(s, tx) ==
    {AccountOf(tx.sender)}
    \cup (IF tx.tag = 1 THEN {AccountOf(tx.to)} ELSE {tx.key})
    \cup (IF tx.tag = 5 /\ tx.key \in DOMAIN s THEN {AccountOf(s[tx.key].provider)} ELSE {})
    \cup (IF tx.tag = 7 THEN {Current} ELSE {})

Lookup(s, key) == IF key \in DOMAIN s THEN {s[key]} ELSE {}

PatchCurrent(base, s, tx) == \A k \in KeysRead(base, tx) : Lookup(base, k) = Lookup(s, k)

Patched(s, written, keys) == [k \in keys |-> written[k]] @@ s

CommitTransaction(base, s, h, tx) ==
    LET speculated == IF tx.tag \in {2, 6, 8, 10} THEN {} ELSE Apply(base, h, tx)
    IN  IF speculated # {} /\ PatchCurrent(base, s, tx)
        THEN {Patched(s, t, {k \in DOMAIN t : Lookup(base, k) # Lookup(t, k)}) : t \in speculated}
        ELSE Apply(s, h, tx)

(***************************************************************************)
(* The mandatory transitions of a block.                                   *)
(***************************************************************************)
Stale(s, h) ==
    {k \in Kind(s, "contribution") : s[k].parent # s[Current] \/ s[k].round # Round(h)}
    \cup {k \in Kind(s, "artifact") : k[2][1] # s[Current] \/ k[2][2] # Round(h)}
    \cup {k \in Kind(s, "task") \cup Kind(s, "quota") : s[k].remaining = 0 /\ s[k].deadline < h}

Retired(s) == {k \in Kind(s, "release") : k[2] # s[Current] /\ s[k].remaining = 0}

Lapsed(s, h) ==
    [k \in {c \in Kind(s, "contribution") :
              /\ h > s[c].submitted + Par.candidateLifetime
              /\ s[c].status \in {"submitted", "evaluated"}} |->
        [s[k] EXCEPT !.status = "expired", !.votes = <<>>, !.score = 0]] @@ s

\* The due entries in the order of their deadlines, as many as one block expires.
Due(s, h) ==
    LET due == {k \in Held(s) : s[k].deadline <= h}
        earlier(k) == {j \in due : s[j].deadline < s[k].deadline}
    IN  {pick \in SUBSET due :
            /\ Cardinality(pick) = Min({Par.expiryPerBlock, Cardinality(due)})
            /\ \A k \in pick : earlier(k) \subseteq pick}

\* Mutant: an expired entry keeps what its owner was paid back.
PaidBackAndKept(s, k) ==
    Put(Credit(s, s[k].owner, s[k].remaining), k, [s[k] EXCEPT !.status = "expired"])

Expire(s, k) ==
    Put(Credit(s, s[k].owner, s[k].remaining), k, [s[k] EXCEPT !.remaining = 0, !.status = "expired"])

Mature(s, h) ==
    LET mature == {k \in Kind(s, "reward") : s[k].maturity <= h}
    IN  Without(FoldSet(LAMBDA k, t : Credit(t, s[k].owner, s[k].amount), s, mature), mature)

Mandatory(s, h) ==
    LET kept == Without(s, Stale(s, h))
        live == Without(Lapsed(kept, h), Retired(s))
    IN  {Mature(FoldSet(LAMBDA k, t : Expire(t, k), live, pick), h) : pick \in Due(live, h)}

Funds(s) ==
    MapThenSumSet(LAMBDA k : s[k].balance, Kind(s, "account"))
    + MapThenSumSet(LAMBDA k : s[k].remaining, Escrows(s))
    + MapThenSumSet(LAMBDA k : s[k].amount, Kind(s, "reward"))

Subsidy(h) == Par.subsidy \div 2 ^ (h \div Par.halving)

(***************************************************************************)
(* Blocks.                                                                 *)
(***************************************************************************)
BeginBlock ==
    /\ ~ponBlock.open
    /\ ponBlock.height < MaxBlocks
    /\ ponState' \in Mandatory(ponState, ponBlock.height + 1)
    /\ ponBase' = ponState'
    /\ ponBlock' = [ponBlock EXCEPT !.height = @ + 1, !.open = TRUE, !.fees = 0]

\* The commands clients may have signed for the next place in the block.
Offered(s, h, menu) ==
    {tx \in
        [tag : {1}, sender : menu.users, to : menu.users, amount : {1, 2}]
        \cup [tag : {2}, sender : menu.users, provider : menu.users, amount : {2}, deadline : h..(h + Par.lifetime)]
        \cup [tag : {3}, sender : menu.users, key : Kind(s, "task")]
        \cup [tag : {4, 5}, sender : menu.users, key : Kind(s, "task"), output : {"done"}]
        \cup [tag : {6}, sender : {Miner}, artifact : {"base", "bundle"}, components :
                {<<>>} \cup {<<[cid |-> k[2], payee |-> s[k].owner, score |-> s[k].score]>> :
                                k \in Kind(s, "contribution")}]
        \cup [tag : {7}, sender : menu.users, key : Kind(s, "contribution"), score : {1, 2}]
        \cup [tag : {8}, sender : menu.users, key : Kind(s, "contribution"), amount : {3}]
        \cup UNION {[tag : {9}, sender : menu.users, key : {k}, leaf : Range(s[k].leaves)] :
                       k \in Kind(s, "release")}
        \cup [tag : {10}, sender : menu.users, provider : menu.users, units : {1, 2}, deadline : h..(h + Par.lifetime)]
        \cup [tag : {11}, sender : menu.users, key : Kind(s, "quota"), units : {1, 2}]
        \cup [tag : {12}, sender : menu.users, key : {<<"work", "w">>}] : tx.tag \in menu.tags}

Signed(s, tx) == ("nonce" :> Account(s, tx.sender).nonce + 1) @@ tx

ExecuteCommand ==
    /\ ponBlock.open /\ ponBlock.left > 0
    /\ \E offer \in Offered(ponState, ponBlock.height, ponBlock.menu) :
         ponState' \in CommitTransaction(ponBase, ponState, ponBlock.height, Signed(ponState, offer))
    /\ ponBlock' = [ponBlock EXCEPT !.fees = @ + Par.fee, !.left = @ - 1]
    /\ UNCHANGED ponBase

EndBlock ==
    LET h == ponBlock.height
        paid == Put(ponState, <<"reward", h>>,
                    [owner |-> Miner, amount |-> ponBlock.fees + Subsidy(h), maturity |-> h + Par.maturity])
        closed == [paid EXCEPT ![Issued] = @ + Subsidy(h)]
    IN  /\ ponBlock.open
        /\ Funds(closed) = closed[Issued]
        /\ ponState' = closed /\ ponBase' = closed
        /\ ponBlock' = [ponBlock EXCEPT !.open = FALSE, !.fees = 0]

PonInit ==
    /\ ponState = (Current :> <<>>) @@ (Issued :> Funding * Cardinality(Users))
                  @@ [k \in {AccountOf(u) : u \in Users} |-> [balance |-> Funding, nonce |-> 0]]
    /\ ponBase = ponState
    /\ \E m \in Menus :
         ponBlock = [height |-> 0, open |-> FALSE, fees |-> 0, menu |-> m, left |-> m.commands]

PonNext == BeginBlock \/ ExecuteCommand \/ EndBlock

PonSpec == PonInit /\ [][PonNext]_ponVars

(***************************************************************************)
(* Properties.                                                             *)
(***************************************************************************)
\* A command that was speculated on the state the block started from, beside others
\* that committed before it, has the effect it has when executed in its place.
SpeculationIsSerial ==
    ponBlock.open /\ ponBlock.left > 0 =>
        \A offer \in Offered(ponState, ponBlock.height, ponBlock.menu) :
            CommitTransaction(ponBase, ponState, ponBlock.height, Signed(ponState, offer))
            = Apply(ponState, ponBlock.height, Signed(ponState, offer))

\* Accounts, escrows and rewards hold together with the fees of the open block exactly
\* what was issued, after every command and every expiry: the conservation test that
\* closes a block never refuses one.
FundsConserved == Funds(ponState) + ponBlock.fees = ponState[Issued]

\* No escrow outlives its deadline: the number admitted per deadline is what one
\* block may expire, so after the mandatory transitions nothing held is due.
NothingOverdue ==
    ponBlock.open => \A k \in Held(ponState) : ponState[k].deadline > ponBlock.height
=============================================================================
