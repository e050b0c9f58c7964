-------------------------- MODULE SettlementKernel --------------------------
(***************************************************************************)
(* trnm-service-settlement/src/engine.rs: the deterministic transition of  *)
(* one escrow.  Provider and consumer sign a chain of usage receipts, one  *)
(* rollup of the whole chain, and after a challenge window the escrow pays *)
(* the provider, the protocol and the consumer, once.                      *)
(*                                                                         *)
(* A command carries what its signers choose.  What the engine derives and *)
(* compares for equality (prior identity, cumulative usage, charge, roots, *)
(* totals, policy hashes) is derived here as well, and the signatures are  *)
(* those of the two registered keys.  Amounts are unsigned integers up to  *)
(* MaxAmount (u128::MAX), versions and heights up to MaxU64; a command     *)
(* that would carry one of them over its width is refused.                 *)
(***************************************************************************)
EXTENDS Integers, Sequences, Functions

CONSTANTS MaxAmount,          \* u128::MAX
          MaxU64,             \* u64::MAX
          MaxReceipts,        \* MAX_RECEIPTS_V1
          Resource,           \* keys: class, id, meter, version and unit
          Price,              \* unit price of each priced resource
          Certificate,        \* accepted evidence certificates
          EscrowFunding, OpeningBalance,
          EscrowVersion, ResultRevision,   \* as the trust bundle found them
          FeeNumerator, FeeDenominator, ChallengeBlocks,
          Block, HeightOf, GenesisBlock,
          Usage,              \* usages the two signers may agree on
          StartHeights        \* first heights of the first period

Account == {"provider", "consumer", "protocol"}
Fits(n) == n \in 0 .. MaxAmount

\* validate_trust_bundle
ASSUME TrustBundle ==
  /\ MaxAmount \in Nat /\ MaxReceipts \in Nat /\ MaxU64 \in Nat \ {0}
  /\ EscrowFunding \in 1 .. MaxAmount
  /\ OpeningBalance \in [Account -> 0 .. MaxAmount]
  /\ EscrowVersion \in 0 .. MaxU64 /\ ResultRevision \in 0 .. MaxU64
  /\ DOMAIN Price \subseteq Resource
  /\ \A r \in DOMAIN Price : Price[r] \in 1 .. MaxAmount
  /\ FeeDenominator \in 1 .. MaxAmount /\ FeeNumerator \in 0 .. FeeDenominator
  /\ ChallengeBlocks \in Nat \ {0}

\* A usage is a sequence of entries.  Its order, and that of the sorted
\* cumulative usage, matters only where a resource is listed twice.
UsageEntry == [resource : Resource, amount : 1 .. MaxAmount]
UsageTotal == [resource : Resource, amount : 0 .. MaxAmount]

ASSUME BlockAssumption ==
  /\ HeightOf \in [Block -> Nat] /\ GenesisBlock \in Block
  /\ Usage \subseteq Seq(UsageEntry) /\ StartHeights \subseteq Nat

Receipt == [sequence : Nat, start : Nat, end : Nat, usage : Seq(UsageEntry),
            certificate : Certificate]
ReceiptState == [receipt : Receipt, cumulative : Seq(UsageTotal),
                 charge : 0 .. MaxAmount, version : Nat, status : {0, 1}]
Rollup == [count : Nat, totals : Seq(UsageTotal), charge : 0 .. MaxAmount,
           accepted : Nat, close : Nat, version : Nat, status : {0, 1}]

InitialKernel ==
  [receipts |-> <<>>, rollup |-> <<>>, settled |-> FALSE, appliedHeight |-> 0,
   escrowVersion |-> EscrowVersion, escrow |-> EscrowFunding, closed |-> FALSE,
   resultRevision |-> ResultRevision, maturity |-> 0,
   balance |-> OpeningBalance, version |-> [a \in Account |-> 0]]
-----------------------------------------------------------------------------
AmountsOf(entries, r) ==
  {entries[i].amount : i \in {j \in 1 .. Len(entries) : entries[j].resource = r}}

\* The map from resource to total that the last receipt left: a resource
\* listed twice keeps the entry inserted last, which is the larger one.
PriorTotal(k, r) ==
  LET last == IF k.receipts = <<>> THEN <<>>
              ELSE k.receipts[Len(k.receipts)].cumulative
      amounts == AmountsOf(last, r)
  IN  IF amounts = {} THEN 0
      ELSE CHOOSE a \in amounts : \A b \in amounts : b <= a

PriorResources(k) ==
  IF k.receipts = <<>> THEN {}
  ELSE LET last == k.receipts[Len(k.receipts)].cumulative
       IN  {last[i].resource : i \in 1 .. Len(last)}

\* Mutant: every period starts again from zero.
CumulativeOfPeriod(k, usage) == usage

(***************************************************************************)
(* derive_cumulative_usage: the first entry of a resource continues the    *)
(* prior total, which is removed from the map; a later entry of the same   *)
(* resource finds nothing there.                                           *)
(***************************************************************************)
DeriveCumulativeUsage(k, usage) ==
  [i \in 1 .. Len(usage) |->
     LET r == usage[i].resource
         first == \A j \in 1 .. i - 1 : usage[j].resource # r
     IN  [resource |-> r,
          amount |-> usage[i].amount + IF first THEN PriorTotal(k, r) ELSE 0]]

PriceUsage(usage) ==
  FoldFunction(+, 0, [i \in DOMAIN usage |->
                        usage[i].amount * Price[usage[i].resource]])

PriorCharge(k) ==
  IF k.receipts = <<>> THEN 0 ELSE k.receipts[Len(k.receipts)].charge
-----------------------------------------------------------------------------
ReceiptPeriodFollows(k, r) ==
  IF k.receipts = <<>> THEN r.start \in 1 .. r.end
  ELSE LET prior == k.receipts[Len(k.receipts)].receipt
       IN  r.start = prior.end + 1 /\ r.start <= r.end

\* Mutant: receipts are admitted until the settlement.
OpenUntilSettled(k) == ~k.settled

AdmissionOpen(k) == k.rollup = <<>> /\ ~k.settled

\* Mutant: each period's charge is compared with the whole funding.
PeriodWithinFunding(k, usage) ==
  Fits(PriceUsage(usage)) /\ PriceUsage(usage) <= EscrowFunding

ChargeWithinFunding(k, usage) ==
  /\ Fits(PriceUsage(usage))
  /\ PriorCharge(k) + PriceUsage(usage) <= EscrowFunding

(***************************************************************************)
(* admit_receipt: admission is open until the rollup, the period ends at   *)
(* the executing height and follows the previous one without a gap, every  *)
(* resource metered so far is continued and priced, and the charge stays   *)
(* within the escrow's funding.                                            *)
(***************************************************************************)
ReceiptAccepted(k, height, r) ==
  /\ AdmissionOpen(k)
  /\ r.end = height /\ ReceiptPeriodFollows(k, r)
  /\ r.certificate \in Certificate
  /\ r.usage # <<>>
  /\ r.sequence = Len(k.receipts) + 1 /\ Len(k.receipts) < MaxReceipts
  /\ PriorResources(k) \subseteq {r.usage[i].resource : i \in DOMAIN r.usage}
  /\ \A i \in DOMAIN r.usage : Fits(DeriveCumulativeUsage(k, r.usage)[i].amount)
  /\ \A i \in DOMAIN r.usage : r.usage[i].resource \in DOMAIN Price
  /\ ChargeWithinFunding(k, r.usage)

AdmitReceipt(k, height, r) ==
  [k EXCEPT !.receipts =
     Append(@, [receipt |-> r, version |-> 0, status |-> 0,
                cumulative |-> DeriveCumulativeUsage(k, r.usage),
                charge |-> PriorCharge(k) + PriceUsage(r.usage)])]

(***************************************************************************)
(* admit_rollup: exactly one, over the whole nonempty chain of receipts,   *)
(* signed for the executing height, with a challenge window that closes at *)
(* a height there is.                                                      *)
(***************************************************************************)
RollupAccepted(k, height, c) ==
  /\ k.rollup = <<>> /\ ~k.settled /\ k.receipts # <<>>
  /\ c.count = Len(k.receipts)
  /\ \A i \in 1 .. Len(k.receipts) :
       k.receipts[i].status = 0 /\ k.receipts[i].version < MaxU64
  /\ c.height = height /\ height + ChallengeBlocks <= MaxU64

\* Mutant: the rollup takes the charge of the last period only.
LastPeriodCharge(k) ==
  PriceUsage(k.receipts[Len(k.receipts)].receipt.usage)

TotalCharge(k) == PriorCharge(k)

\* Mutant: the state of a receipt is a count.
CountedReceipts(k) ==
  [i \in 1 .. Len(k.receipts) |->
     [k.receipts[i] EXCEPT !.version = @ + 1, !.status = @ + 2]]

\* Every receipt is assigned to the rollup.
AssignedReceipts(k) ==
  [i \in 1 .. Len(k.receipts) |->
     [k.receipts[i] EXCEPT !.version = @ + 1, !.status = 1]]

NewRollup(k, height) ==
  [count |-> Len(k.receipts), charge |-> TotalCharge(k),
   totals |-> k.receipts[Len(k.receipts)].cumulative,
   accepted |-> height, close |-> height + ChallengeBlocks,
   version |-> 0, status |-> 0]

AdmitRollup(k, height) ==
  [k EXCEPT !.receipts = AssignedReceipts(k), !.rollup = <<NewRollup(k, height)>>]
-----------------------------------------------------------------------------
ProtocolFee(charge) == (charge * FeeNumerator) \div FeeDenominator

(***************************************************************************)
(* The amounts settle pays: the provider gets the charge less the fee, the *)
(* consumer what the charge left in the escrow.                            *)
(***************************************************************************)
Delta(k) ==
  LET charge == k.rollup[1].charge
  IN  [a \in Account |->
         CASE a = "provider" -> charge - ProtocolFee(charge)
           [] a = "consumer" -> k.escrow - charge
           [] a = "protocol" -> ProtocolFee(charge)]

\* Escrow, result, rollup and every account that is paid get a new version.
VersionsIncrease(k) ==
  /\ k.escrowVersion < MaxU64 /\ k.resultRevision < MaxU64
  /\ k.rollup[1].version < MaxU64
  /\ \A a \in Account : Delta(k)[a] > 0 => k.version[a] < MaxU64

(***************************************************************************)
(* settle: one-shot, against the exact versions of result, escrow and      *)
(* rollup, after the challenge window; any overflow refuses it.            *)
(***************************************************************************)
SettleAccepted(k, height, c) ==
  /\ ~k.settled /\ ~k.closed /\ k.rollup # <<>>
  /\ c.result = k.resultRevision /\ c.escrow = k.escrowVersion
  /\ c.rollup = k.rollup[1].version
  /\ k.maturity = 0 /\ k.rollup[1].status = 0
  /\ height > k.rollup[1].close
  /\ k.rollup[1].charge <= k.escrow
  /\ Fits(k.rollup[1].charge * FeeNumerator)
  /\ \A a \in Account : Fits(k.balance[a] + Delta(k)[a])
  /\ VersionsIncrease(k)

\* Mutant: the protocol's fee is paid on top of the provider's full charge.
PaidBalancesWithoutFee(k) ==
  [a \in Account |-> k.balance[a] +
     IF a = "provider" THEN k.rollup[1].charge ELSE Delta(k)[a]]

PaidBalances(k) == [a \in Account |-> k.balance[a] + Delta(k)[a]]

\* Only an account that is paid gets a new version.
PaidVersions(k) ==
  [a \in Account |-> k.version[a] + IF Delta(k)[a] > 0 THEN 1 ELSE 0]

ConsumedRollup(k) == [k.rollup[1] EXCEPT !.version = @ + 1, !.status = 1]

Settle(k, height) ==
  [k EXCEPT
     !.balance = PaidBalances(k), !.version = PaidVersions(k),
     !.escrowVersion = @ + 1, !.escrow = 0, !.closed = TRUE,
     !.resultRevision = @ + 1, !.maturity = 2,
     !.rollup = <<ConsumedRollup(k)>>,
     !.settled = TRUE, !.appliedHeight = height]
-----------------------------------------------------------------------------
\* apply_transition
Accepted(k, height, c) ==
  CASE c.kind = "receipt" -> ReceiptAccepted(k, height, c.receipt)
    [] c.kind = "rollup" -> RollupAccepted(k, height, c)
    [] c.kind = "settle" -> SettleAccepted(k, height, c)

ApplyTransition(k, height, c) ==
  CASE c.kind = "receipt" -> AdmitReceipt(k, height, c.receipt)
    [] c.kind = "rollup" -> AdmitRollup(k, height)
    [] c.kind = "settle" -> Settle(k, height)
=============================================================================
