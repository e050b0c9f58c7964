-------------------------- MODULE SettlementEngine --------------------------
(***************************************************************************)
(* What the settlement store promises: the kernel state moves by accepted  *)
(* commands only, each executed in a committed block that is the current   *)
(* one or its direct successor.  SettlementStore implements it.            *)
(***************************************************************************)
EXTENDS SettlementKernel

VARIABLES kernel,   \* ConsumptionSettlementKernelStateV1
          tip       \* the durable Order tip

engineVars == <<kernel, tip>>

KernelType ==
  [receipts : Seq(ReceiptState), rollup : Seq(Rollup), settled : BOOLEAN,
   appliedHeight : Nat, escrowVersion : Nat, escrow : 0 .. MaxAmount,
   closed : BOOLEAN, resultRevision : Nat, maturity : {0, 2},
   balance : [Account -> 0 .. MaxAmount], version : [Account -> Nat]]

TypeOK == kernel \in KernelType /\ tip \in Block

Init == kernel = InitialKernel /\ tip = GenesisBlock

(***************************************************************************)
(* The commands the two signers can have agreed on after they have seen    *)
(* the state k, for execution at the given height.                         *)
(***************************************************************************)
NextStarts(k) ==
  IF k.receipts = <<>> THEN StartHeights
  ELSE {k.receipts[Len(k.receipts)].receipt.end + 1}

SignedReceipts(k, height) ==
  [sequence : {Len(k.receipts) + 1}, start : NextStarts(k), end : {height},
   usage : Usage, certificate : Certificate]

Commands(k, height) ==
  [kind : {"receipt"}, receipt : SignedReceipts(k, height)]
  \cup {[kind |-> "rollup", count |-> Len(k.receipts), height |-> height],
        [kind |-> "settle", result |-> k.resultRevision,
         escrow |-> k.escrowVersion, rollup |-> 0]}

\* advance_committed_block_marker: the same block, or its direct successor.
ExtendsTip(b) == b = tip \/ (HeightOf[b] = HeightOf[tip] + 1 /\ b # tip)

Execute(b, c) ==
  /\ ExtendsTip(b)
  /\ Accepted(kernel, HeightOf[b], c)
  /\ kernel' = ApplyTransition(kernel, HeightOf[b], c)
  /\ tip' = b

AdvanceEmpty(b) ==
  /\ HeightOf[b] = HeightOf[tip] + 1
  /\ tip' = b
  /\ UNCHANGED kernel

Next == \E b \in Block :
          \/ \E c \in Commands(kernel, HeightOf[b]) : Execute(b, c)
          \/ AdvanceEmpty(b)

Spec == Init /\ [][Next]_engineVars
-----------------------------------------------------------------------------
Paid(k) == k.balance["provider"] + k.balance["consumer"] + k.balance["protocol"]

(***************************************************************************)
(* Value is conserved: what the escrow holds and what the three accounts   *)
(* hold add up to the funding and the opening balances, before, during and *)
(* after settlement, whatever the fee rounds to.                           *)
(***************************************************************************)
ValueConserved ==
  kernel.escrow + Paid(kernel)
    = EscrowFunding + OpeningBalance["provider"] + OpeningBalance["consumer"]
        + OpeningBalance["protocol"]

\* Reference: the price of the first n receipts, entry by entry.
PricedFromScratch(k, n) ==
  FoldFunction(+, 0, [i \in 1 .. n |-> PriceUsage(k.receipts[i].receipt.usage)])

(***************************************************************************)
(* The rollup charges exactly what the receipts it covers cost, recomputed *)
(* from their usage, and never more than the escrow was funded with.       *)
(***************************************************************************)
ChargeIsPricedUsage ==
  /\ \A n \in 1 .. Len(kernel.receipts) :
       kernel.receipts[n].charge = PricedFromScratch(kernel, n)
  /\ kernel.rollup # <<>> =>
       /\ kernel.rollup[1].charge = PricedFromScratch(kernel, kernel.rollup[1].count)
       /\ kernel.rollup[1].charge <= EscrowFunding

\* Reference: everything the first n receipts metered for a resource.
MeteredTotal(k, n, r) ==
  FoldFunction(+, 0, [i \in 1 .. n |->
    LET u == k.receipts[i].receipt.usage
    IN  FoldFunction(+, 0, [j \in DOMAIN u |->
          IF u[j].resource = r THEN u[j].amount ELSE 0])])

TotalOf(entries, r) ==
  FoldFunction(+, 0, [j \in DOMAIN entries |->
    IF entries[j].resource = r THEN entries[j].amount ELSE 0])

(***************************************************************************)
(* "Bilateral usage/escrow conservation": the usage totals the rollup      *)
(* reports for a resource are all of the usage its receipts metered.       *)
(***************************************************************************)
UsageConserved ==
  kernel.rollup # <<>> =>
    \A r \in Resource : TotalOf(kernel.rollup[1].totals, r)
                         = MeteredTotal(kernel, kernel.rollup[1].count, r)

\* The trust bundle leaves room for a settlement of this charge.  The engine
\* accepts bundles that do not: their escrow can never be settled.
RoomFor(charge) ==
  /\ EscrowVersion < MaxU64 /\ ResultRevision < MaxU64
  /\ charge * FeeNumerator <= MaxAmount
  /\ OpeningBalance["provider"] + charge <= MaxAmount
  /\ OpeningBalance["protocol"] + charge <= MaxAmount
  /\ OpeningBalance["consumer"] + EscrowFunding - charge <= MaxAmount

(***************************************************************************)
(* An escrow is never stuck by what was signed: once the challenge window  *)
(* of a rollup has closed, the settlement that names the current versions  *)
(* is accepted at every later height, in whatever state receipts, rounding *)
(* and earlier refusals left the kernel, if the trust bundle left room for *)
(* the balances and versions it changes.                                   *)
(***************************************************************************)
SettlementNeverStuck ==
  kernel.rollup # <<>> /\ ~kernel.settled /\ RoomFor(kernel.rollup[1].charge) =>
    \A h \in (kernel.rollup[1].close + 1) .. MaxU64 :
      SettleAccepted(kernel, h, [kind |-> "settle", escrow |-> kernel.escrowVersion,
                                 result |-> kernel.resultRevision,
                                 rollup |-> kernel.rollup[1].version])

(***************************************************************************)
(* What the parties signed is final: receipts are only appended, none      *)
(* after the rollup, and once settled nothing of the escrow moves again.   *)
(***************************************************************************)
KeepsSigned ==
  /\ \A i \in 1 .. Len(kernel.receipts) :
       /\ i <= Len(kernel'.receipts)
       /\ kernel'.receipts[i].receipt = kernel.receipts[i].receipt
       /\ kernel'.receipts[i].charge = kernel.receipts[i].charge
  /\ kernel.rollup # <<>> =>
       /\ Len(kernel'.receipts) = Len(kernel.receipts)
       /\ kernel'.rollup[1].charge = kernel.rollup[1].charge
  /\ kernel.settled => UNCHANGED kernel

\* What both parties signed stays as it was signed, over every step of the engine.
SignedIsFinal == [][KeepsSigned]_engineVars
=============================================================================
