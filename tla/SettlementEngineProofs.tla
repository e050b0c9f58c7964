----------------------- MODULE SettlementEngineProofs -----------------------
(***************************************************************************)
(* Proofs about SettlementEngine, for every bundle of prices, funding,     *)
(* balances and fees, and every usage.                                     *)
(***************************************************************************)
EXTENDS SettlementEngine, SequenceTheorems, TLAPS

\* A function on 1 .. n with values in S is a sequence of length n over S,
\* which is how the model writes the lists the engine maps over.
LEMMA FunctionIsSeq ==
  ASSUME NEW S, NEW n \in Nat, NEW f, f = [i \in 1 .. n |-> f[i]],
         \A i \in 1 .. n : f[i] \in S
  PROVE  f \in Seq(S) /\ Len(f) = n
<1>1. f \in [1 .. n -> S]
  OBVIOUS
<1>2. f \in Seq(S)
  BY <1>1, SeqDef
<1>3. Len(f) \in Nat /\ 1 .. Len(f) = 1 .. n
  BY <1>1, <1>2, LenProperties
<1>4. Len(f) = n
  BY <1>3, SMT
<1> QED
  BY <1>2, <1>4

(***************************************************************************)
(* The fee that settle computes by integer division is at most the charge, *)
(* because the trust bundle keeps the numerator within the denominator: no *)
(* checked_sub of settle can fail.                                         *)
(***************************************************************************)
LEMMA FeeWithinCharge ==
  ASSUME NEW c \in Nat
  PROVE  ProtocolFee(c) \in 0 .. c
<1> DEFINE n == FeeNumerator  d == FeeDenominator  x == c * n  q == x \div d
<1>1. n \in Nat /\ d \in Nat /\ d > 0 /\ n <= d
  BY TrustBundle
<1>2. x \in Nat
  BY <1>1
<1> HIDE DEF n, d
<1>3. x <= c * d
  BY <1>1, Z3
<1> HIDE DEF x
<1>4. q \in Int /\ x = d * q + (x % d) /\ (x % d) \in 0 .. (d - 1)
  BY <1>1, <1>2, Z3
<1> HIDE DEF q
<1>5. d * q <= c * d
  BY <1>1, <1>2, <1>3, <1>4, Z3
<1>6. q <= c
  BY <1>1, <1>4, <1>5, Z3
<1>7. q >= 0
  BY <1>1, <1>2, <1>4, Z3
<1> QED
  BY <1>4, <1>6, <1>7 DEF ProtocolFee, q, x, n, d
-----------------------------------------------------------------------------
(***************************************************************************)
(* The inductive invariant.  Until the settlement nothing has been paid    *)
(* and every version a settlement names is still the one it started with;  *)
(* the last charge, and so the charge of the rollup, is within the         *)
(* funding.                                                                *)
(***************************************************************************)
Unpaid ==
  /\ kernel.escrow = EscrowFunding /\ kernel.balance = OpeningBalance
  /\ kernel.escrowVersion = EscrowVersion /\ kernel.resultRevision = ResultRevision
  /\ \A a \in Account : kernel.version[a] = 0
  /\ ~kernel.closed /\ kernel.maturity = 0
  /\ kernel.rollup # <<>> =>
       kernel.rollup[1].version = 0 /\ kernel.rollup[1].status = 0

Funded ==
  /\ \A i \in 1 .. Len(kernel.receipts) : kernel.receipts[i].charge <= EscrowFunding
  /\ kernel.rollup # <<>> => kernel.rollup[1].charge <= EscrowFunding

EngineIInv ==
  /\ TypeOK
  /\ Len(kernel.rollup) <= 1
  /\ ~kernel.settled => Unpaid
  /\ Funded
  /\ ValueConserved

\* initial_state establishes the invariant.
LEMMA InitIInv == Init => EngineIInv
<1> SUFFICES ASSUME Init PROVE EngineIInv
  OBVIOUS
<1>1. TypeOK
  BY TrustBundle, BlockAssumption
  DEF Init, TypeOK, KernelType, InitialKernel, Account, ReceiptState, Rollup
<1>2. Len(kernel.rollup) <= 1 /\ Unpaid /\ Funded
  BY DEF Init, InitialKernel, Unpaid, Funded
<1>3. ValueConserved
  <2> DEFINE o == OpeningBalance
  <2>1. o["provider"] \in Int /\ o["consumer"] \in Int /\ o["protocol"] \in Int
          /\ EscrowFunding \in Int
    BY TrustBundle DEF Account
  <2> QED
    BY <2>1 DEF Init, InitialKernel, ValueConserved, Paid
<1> QED
  BY <1>1, <1>2, <1>3 DEF EngineIInv

(***************************************************************************)
(* A receipt that admit_receipt accepts keeps the invariant: its charge is *)
(* within the funding and no balance moves.                                *)
(***************************************************************************)
LEMMA ReceiptStep ==
  ASSUME EngineIInv, NEW h \in Nat, NEW r \in Receipt, tip' \in Block,
         ReceiptAccepted(kernel, h, r), kernel' = AdmitReceipt(kernel, h, r)
  PROVE  EngineIInv'
<1> DEFINE n == Len(kernel.receipts)
           cum == DeriveCumulativeUsage(kernel, r.usage)
           charge == PriorCharge(kernel) + PriceUsage(r.usage)
           new == [receipt |-> r, version |-> 0, status |-> 0,
                   cumulative |-> cum, charge |-> charge]
<1>1. /\ kernel \in KernelType /\ kernel.receipts \in Seq(ReceiptState)
      /\ r.usage \in Seq(UsageEntry)
  BY DEF EngineIInv, TypeOK, KernelType, Receipt
<1>2. PriorCharge(kernel) \in 0 .. EscrowFunding
  <2>1. CASE kernel.receipts = <<>>
    BY <2>1, TrustBundle DEF PriorCharge
  <2>2. CASE kernel.receipts # <<>>
    <3>1. n \in 1 .. n /\ kernel.receipts[n] \in ReceiptState
      BY <1>1, <2>2
    <3> QED
      BY <2>2, <3>1, TrustBundle DEF PriorCharge, ReceiptState, EngineIInv, Funded
  <2> QED
    BY <2>1, <2>2
<1>3. PriceUsage(r.usage) \in 0 .. MaxAmount /\ charge <= EscrowFunding
  BY DEF ReceiptAccepted, ChargeWithinFunding, Fits
<1>4. charge \in 0 .. EscrowFunding /\ charge \in 0 .. MaxAmount
  BY <1>2, <1>3, TrustBundle
<1>5. cum \in Seq(UsageTotal)
  <2>1. \A i \in 1 .. Len(r.usage) : cum[i] \in UsageTotal
    <3> SUFFICES ASSUME NEW i \in 1 .. Len(r.usage) PROVE cum[i] \in UsageTotal
      OBVIOUS
    <3>1. r.usage[i] \in UsageEntry /\ i \in DOMAIN r.usage
      BY <1>1
    <3>2. cum[i].amount \in 0 .. MaxAmount
      BY <3>1 DEF ReceiptAccepted, Fits
    <3>3. r.usage[i].resource \in Resource
      BY <3>1 DEF UsageEntry
    <3> QED
      BY <3>2, <3>3 DEF DeriveCumulativeUsage, UsageTotal
  <2> HIDE DEF cum
  <2>2. cum = [i \in 1 .. Len(r.usage) |-> cum[i]] /\ Len(r.usage) \in Nat
    BY <1>1 DEF cum, DeriveCumulativeUsage
  <2> QED
    BY <2>1, <2>2, FunctionIsSeq
<1>6. new \in ReceiptState /\ new.charge <= EscrowFunding
  BY <1>4, <1>5 DEF ReceiptState
<1> HIDE DEF new, cum, charge
<1>7. kernel' = [kernel EXCEPT !.receipts = Append(@, new)]
  BY DEF AdmitReceipt, new, cum, charge
<1>8. /\ kernel'.receipts = Append(kernel.receipts, new)
      /\ kernel'.receipts \in Seq(ReceiptState)
      /\ \A i \in 1 .. Len(kernel'.receipts) :
           kernel'.receipts[i] = new \/ (i \in 1 .. n /\ kernel'.receipts[i] = kernel.receipts[i])
  BY <1>1, <1>6, <1>7 DEF KernelType
<1>9. TypeOK'
  BY <1>1, <1>7, <1>8 DEF TypeOK, KernelType
<1>10. Funded'
  BY <1>1, <1>6, <1>7, <1>8, SMTT(30) DEF Funded, KernelType, EngineIInv
<1>11. /\ Len(kernel'.rollup) <= 1 /\ (~kernel'.settled => Unpaid')
       /\ ValueConserved'
  BY <1>1, <1>7 DEF EngineIInv, Unpaid, ValueConserved, Paid, KernelType
<1> QED
  BY <1>9, <1>10, <1>11 DEF EngineIInv

(***************************************************************************)
(* Assigning the receipts to a rollup changes their versions and states,   *)
(* and neither their number, their charges nor what was signed.            *)
(***************************************************************************)
LEMMA AssignedReceiptsType ==
  ASSUME NEW k, k.receipts \in Seq(ReceiptState)
  PROVE  /\ AssignedReceipts(k) \in Seq(ReceiptState)
         /\ Len(AssignedReceipts(k)) = Len(k.receipts)
         /\ \A i \in 1 .. Len(k.receipts) :
              /\ AssignedReceipts(k)[i].receipt = k.receipts[i].receipt
              /\ AssignedReceipts(k)[i].charge = k.receipts[i].charge
<1> DEFINE n == Len(k.receipts)  rs == AssignedReceipts(k)
<1>1. ASSUME NEW i \in 1 .. n
      PROVE  /\ rs[i] \in ReceiptState /\ rs[i].receipt = k.receipts[i].receipt
             /\ rs[i].charge = k.receipts[i].charge
  <2> DEFINE old == k.receipts[i]  new == rs[i]
  <2>1. old \in ReceiptState /\ new = [old EXCEPT !.version = @ + 1, !.status = 1]
    <3>1. old \in ReceiptState
      OBVIOUS
    <3>2. new = [old EXCEPT !.version = @ + 1, !.status = 1]
      BY Zenon DEF AssignedReceipts
    <3> QED
      BY <3>1, <3>2
  <2> HIDE DEF old, new
  <2>2. old.version + 1 \in Nat
    BY <2>1, SMTT(30) DEF ReceiptState
  <2>3. new \in ReceiptState /\ new.receipt = old.receipt /\ new.charge = old.charge
    BY <2>1, <2>2 DEF ReceiptState
  <2> QED
    BY <2>3 DEF old, new
<1>2. rs = [i \in 1 .. n |-> rs[i]]
  BY DEF AssignedReceipts
<1>3. n \in Nat /\ \A i \in 1 .. n : rs[i] \in ReceiptState
  BY <1>1
<1>4. rs \in Seq(ReceiptState) /\ Len(rs) = n
  <2> HIDE DEF rs, n
  <2> QED
    BY <1>2, <1>3, FunctionIsSeq
<1> QED
  BY <1>1, <1>4

(***************************************************************************)
(* The rollup keeps the invariant: it takes the last receipt's charge and  *)
(* changes only versions and states of receipts.                           *)
(***************************************************************************)
LEMMA RollupStep ==
  ASSUME EngineIInv, NEW h \in Nat, NEW c, tip' \in Block,
         RollupAccepted(kernel, h, c), kernel' = AdmitRollup(kernel, h)
  PROVE  EngineIInv'
<1> DEFINE n == Len(kernel.receipts)
           rs == AssignedReceipts(kernel)
           ru == NewRollup(kernel, h)
<1>1. kernel \in KernelType /\ kernel.receipts \in Seq(ReceiptState)
        /\ n \in 1 .. n /\ ~kernel.settled
  BY DEF EngineIInv, TypeOK, KernelType, RollupAccepted
<1>2. kernel.receipts[n] \in ReceiptState
  BY <1>1
<1>3. TotalCharge(kernel) \in 0 .. MaxAmount /\ TotalCharge(kernel) <= EscrowFunding
  BY <1>1, <1>2 DEF TotalCharge, PriorCharge, RollupAccepted, ReceiptState,
                    EngineIInv, Funded
<1>4. ru \in Rollup /\ ru.charge <= EscrowFunding
  <2>1. /\ kernel.receipts[n].cumulative \in Seq(UsageTotal)
        /\ n \in Nat /\ h + ChallengeBlocks \in Nat
    BY <1>1, <1>2, TrustBundle, SMTT(30) DEF ReceiptState
  <2>2. ru.charge = TotalCharge(kernel)
    BY DEF NewRollup
  <2>3. ru \in Rollup
    BY <1>3, <2>1 DEF Rollup, NewRollup
  <2> QED
    BY <1>3, <2>2, <2>3
<1>5. \A i \in 1 .. n : rs[i].charge = kernel.receipts[i].charge
  BY <1>1, AssignedReceiptsType
<1>6. rs \in Seq(ReceiptState) /\ Len(rs) = n
  BY <1>1, AssignedReceiptsType
<1>7. kernel' = [kernel EXCEPT !.receipts = rs, !.rollup = <<ru>>]
  BY DEF AdmitRollup
<1> HIDE DEF rs, ru
<1>8. kernel'.receipts = rs /\ kernel'.rollup = <<ru>> /\ <<ru>> \in Seq(Rollup)
  BY <1>1, <1>4, <1>7 DEF KernelType
<1>9. TypeOK'
  BY <1>1, <1>6, <1>7, <1>8 DEF TypeOK, KernelType
<1>10. Funded' /\ Len(kernel'.rollup) <= 1
  BY <1>1, <1>4, <1>5, <1>6, <1>8 DEF Funded, EngineIInv
<1>11. Unpaid'
  <2>1. ru.version = 0 /\ ru.status = 0
    BY DEF ru, NewRollup
  <2> QED
    BY <1>1, <1>7, <1>8, <2>1 DEF Unpaid, EngineIInv, KernelType
<1>12. ValueConserved'
  BY <1>1, <1>7 DEF EngineIInv, ValueConserved, Paid, KernelType
<1> QED
  BY <1>9, <1>10, <1>11, <1>12 DEF EngineIInv

(***************************************************************************)
(* settle moves the whole escrow: what the three accounts get adds up to   *)
(* what the escrow held, the fee being part of the charge.                 *)
(***************************************************************************)
LEMMA SettleStep ==
  ASSUME EngineIInv, NEW h \in Nat, NEW c, tip' \in Block,
         SettleAccepted(kernel, h, c), kernel' = Settle(kernel, h)
  PROVE  EngineIInv'
<1> DEFINE k == kernel  ru == ConsumedRollup(kernel)
           bal == PaidBalances(kernel)  ver == PaidVersions(kernel)
<1>1. /\ k \in KernelType /\ ~k.settled /\ Unpaid /\ k.rollup # <<>>
      /\ k.rollup[1] \in Rollup /\ k.rollup[1].charge <= EscrowFunding
  <2>1. k \in KernelType /\ ~k.settled /\ Unpaid /\ k.rollup # <<>>
    BY DEF EngineIInv, TypeOK, SettleAccepted
  <2>2. k.rollup \in Seq(Rollup) /\ Len(k.rollup) \in Nat \ {0}
    BY <2>1 DEF KernelType
  <2>3. k.rollup[1] \in Rollup
    BY <2>2
  <2> QED
    BY <2>1, <2>3 DEF EngineIInv, Funded
<1>2. /\ k.rollup[1].charge \in Nat
      /\ ProtocolFee(k.rollup[1].charge) \in 0 .. k.rollup[1].charge
  <2>1. k.rollup[1].charge \in Nat
    BY <1>1, TrustBundle DEF Rollup
  <2> QED
    BY <2>1, FeeWithinCharge
<1>3. \A a \in Account : bal[a] = k.balance[a] + Delta(k)[a] /\ bal[a] \in 0 .. MaxAmount
  BY DEF SettleAccepted, Fits, PaidBalances
<1>4. bal \in [Account -> 0 .. MaxAmount]
  BY <1>3 DEF PaidBalances
<1>5. ver \in [Account -> Nat]
  <2>1. k.version \in [Account -> Nat]
    BY <1>1 DEF KernelType
  <2> QED
    BY <2>1 DEF PaidVersions
<1>6. ru \in Rollup /\ ru.charge = k.rollup[1].charge
  <2> DEFINE old == kernel.rollup[1]
  <2>1. old \in Rollup /\ ru = [old EXCEPT !.version = @ + 1, !.status = 1]
    BY <1>1 DEF ConsumedRollup
  <2> HIDE DEF old, ru
  <2>2. old.version + 1 \in Nat
    BY <2>1 DEF Rollup
  <2>3. ru \in Rollup /\ ru.charge = old.charge
    BY <2>1, <2>2 DEF Rollup
  <2> QED
    BY <2>3 DEF old
<1>7. /\ Delta(k)["provider"] + Delta(k)["consumer"] + Delta(k)["protocol"] = k.escrow
      /\ \A a \in Account : Delta(k)[a] \in Int
  <2> DEFINE ch == k.rollup[1].charge  fee == ProtocolFee(ch)
  <2>1. ch \in Int /\ fee \in Int /\ k.escrow \in Int
    BY <1>1, <1>2 DEF KernelType
  <2>2. /\ Delta(k)["provider"] = ch - fee /\ Delta(k)["consumer"] = k.escrow - ch
        /\ Delta(k)["protocol"] = fee
    BY DEF Delta, Account
  <2> HIDE DEF ch, fee
  <2> QED
    BY <2>1, <2>2 DEF Account
<1> HIDE DEF ru, bal, ver
<1>8. k' = [k EXCEPT !.balance = bal, !.version = ver,
              !.escrowVersion = k.escrowVersion + 1, !.escrow = 0, !.closed = TRUE,
              !.resultRevision = k.resultRevision + 1, !.maturity = 2,
              !.rollup = <<ru>>, !.settled = TRUE, !.appliedHeight = h]
  BY DEF Settle, ru, bal, ver
<1>9. /\ k'.settled = TRUE /\ k'.escrow = 0 /\ k'.balance = bal
      /\ k'.rollup = <<ru>> /\ k'.receipts = k.receipts
  BY <1>1, <1>8 DEF KernelType
<1>10. TypeOK'
  <2>1. <<ru>> \in Seq(Rollup)
    BY <1>6
  <2>2. k.escrowVersion + 1 \in Nat /\ k.resultRevision + 1 \in Nat /\ 0 \in 0 .. MaxAmount
    BY <1>1, TrustBundle, SMTT(30) DEF KernelType
  <2>3. h \in Nat /\ 2 \in {0, 2}
    OBVIOUS
  <2>4. k' = [receipts |-> k.receipts, rollup |-> <<ru>>, settled |-> TRUE,
              appliedHeight |-> h, escrowVersion |-> k.escrowVersion + 1,
              escrow |-> 0, closed |-> TRUE,
              resultRevision |-> k.resultRevision + 1, maturity |-> 2,
              balance |-> bal, version |-> ver]
    BY <1>1, <1>8 DEF KernelType
  <2>5. k.receipts \in Seq(ReceiptState)
    BY <1>1 DEF KernelType
  <2>6. k' \in KernelType
    BY <1>4, <1>5, <2>1, <2>2, <2>3, <2>4, <2>5 DEF KernelType
  <2> QED
    BY <2>6 DEF TypeOK
<1>11. Len(k'.rollup) <= 1 /\ Funded'
  BY <1>1, <1>6, <1>9 DEF Funded, EngineIInv
<1>12. ValueConserved'
  <2>1. Paid(k)' = Paid(k) + k.escrow
    <3>1. /\ bal["provider"] = k.balance["provider"] + Delta(k)["provider"]
          /\ bal["consumer"] = k.balance["consumer"] + Delta(k)["consumer"]
          /\ bal["protocol"] = k.balance["protocol"] + Delta(k)["protocol"]
      BY <1>3 DEF Account
    <3>2. \A a \in Account : k.balance[a] \in Int /\ Delta(k)[a] \in Int
      BY <1>1, <1>7 DEF KernelType
    <3>3. Paid(k)' = bal["provider"] + bal["consumer"] + bal["protocol"]
      BY <1>9 DEF Paid
    <3> QED
      BY <1>7, <3>1, <3>2, <3>3 DEF Paid, Account
  <2>2. Paid(k) \in Int /\ k.escrow \in Int
    <3>1. k.balance \in [Account -> 0 .. MaxAmount] /\ k.escrow \in 0 .. MaxAmount
      BY <1>1 DEF KernelType
    <3>2. \A a \in Account : k.balance[a] \in Int
      BY <3>1, TrustBundle
    <3> QED
      BY <3>1, <3>2, TrustBundle DEF Paid, Account
  <2>3. k.escrow + Paid(k) = k'.escrow + Paid(k)'
    BY <1>9, <2>1, <2>2
  <2> QED
    BY <2>3 DEF ValueConserved, EngineIInv
<1> QED
  BY <1>9, <1>10, <1>11, <1>12 DEF EngineIInv

\* Every step of the engine keeps the invariant.
LEMMA StepIInv == EngineIInv /\ [Next]_engineVars => EngineIInv'
<1> SUFFICES ASSUME EngineIInv, [Next]_engineVars PROVE EngineIInv'
  OBVIOUS
<1>1. CASE UNCHANGED engineVars
  BY <1>1 DEF engineVars, EngineIInv, TypeOK, Unpaid, Funded, ValueConserved, Paid
<1>2. ASSUME NEW b \in Block, NEW c \in Commands(kernel, HeightOf[b]), Execute(b, c)
      PROVE  EngineIInv'
  <2>1. HeightOf[b] \in Nat /\ tip' \in Block
    BY <1>2, BlockAssumption DEF Execute
  <2>2. CASE c.kind = "receipt"
    <3>1. c.receipt \in Receipt
      <4>1. kernel.receipts \in Seq(ReceiptState)
        BY DEF EngineIInv, TypeOK, KernelType
      <4>2. NextStarts(kernel) \subseteq Nat
        <5>1. CASE kernel.receipts = <<>>
          BY <5>1, BlockAssumption DEF NextStarts
        <5>2. CASE kernel.receipts # <<>>
          <6> DEFINE last == kernel.receipts[Len(kernel.receipts)]
          <6>1. last \in ReceiptState
            BY <4>1, <5>2
          <6>2. last.receipt.end \in Nat
            BY <6>1 DEF ReceiptState, Receipt
          <6> QED
            BY <5>2, <6>2 DEF NextStarts
        <5> QED
          BY <5>1, <5>2
      <4>3. c.receipt \in SignedReceipts(kernel, HeightOf[b])
        BY <1>2, <2>2 DEF Commands
      <4>4. Len(kernel.receipts) + 1 \in Nat
        BY <4>1
      <4> QED
        BY <2>1, <4>2, <4>3, <4>4, BlockAssumption DEF SignedReceipts, Receipt
    <3>2. /\ ReceiptAccepted(kernel, HeightOf[b], c.receipt)
          /\ kernel' = AdmitReceipt(kernel, HeightOf[b], c.receipt)
      BY <1>2, <2>2 DEF Execute, Accepted, ApplyTransition
    <3> QED
      BY <2>1, <3>1, <3>2, ReceiptStep
  <2>3. CASE c.kind = "rollup"
    <3>1. /\ RollupAccepted(kernel, HeightOf[b], c)
          /\ kernel' = AdmitRollup(kernel, HeightOf[b])
      BY <1>2, <2>3 DEF Execute, Accepted, ApplyTransition
    <3> QED
      BY <2>1, <3>1, RollupStep
  <2>4. CASE c.kind = "settle"
    <3>1. /\ SettleAccepted(kernel, HeightOf[b], c)
          /\ kernel' = Settle(kernel, HeightOf[b])
      BY <1>2, <2>4 DEF Execute, Accepted, ApplyTransition
    <3> QED
      BY <2>1, <3>1, SettleStep
  <2>5. c.kind \in {"receipt", "rollup", "settle"}
    BY <1>2 DEF Commands
  <2> QED
    BY <2>2, <2>3, <2>4, <2>5
<1>3. ASSUME NEW b \in Block, AdvanceEmpty(b) PROVE EngineIInv'
  BY <1>3 DEF AdvanceEmpty, EngineIInv, TypeOK, Unpaid, Funded, ValueConserved, Paid
<1> QED
  BY <1>1, <1>2, <1>3 DEF Next

\* The invariant holds in every reachable state.
THEOREM EngineInvariance == Spec => []EngineIInv
  BY InitIInv, StepIInv, PTL DEF Spec

(***************************************************************************)
(* Value is conserved for every bundle and every chain of receipts: the    *)
(* fee of settle may round, but no unit of the escrow is created or lost.  *)
(***************************************************************************)
THEOREM EngineConservesValue == Spec => []ValueConserved
<1>1. EngineIInv => ValueConserved
  BY DEF EngineIInv
<1> QED
  BY <1>1, EngineInvariance, PTL

(***************************************************************************)
(* No escrow is ever stuck by what its parties signed: unless the trust    *)
(* bundle itself left no room in a balance or a version, the settlement    *)
(* that names the current versions is accepted at every height after the   *)
(* challenge window, whatever receipts the rollup covers.                  *)
(***************************************************************************)
THEOREM EngineNeverStuck == Spec => []SettlementNeverStuck
<1>1. EngineIInv => SettlementNeverStuck
  <2> SUFFICES ASSUME EngineIInv, kernel.rollup # <<>>, ~kernel.settled,
                      RoomFor(kernel.rollup[1].charge),
                      NEW h \in (kernel.rollup[1].close + 1) .. MaxU64
               PROVE  SettleAccepted(kernel, h,
                        [kind |-> "settle", escrow |-> kernel.escrowVersion,
                         result |-> kernel.resultRevision,
                         rollup |-> kernel.rollup[1].version])
    BY DEF SettlementNeverStuck
  <2> DEFINE ch == kernel.rollup[1].charge  fee == ProtocolFee(ch)
  <2>1. kernel.rollup \in Seq(Rollup) /\ Unpaid
    BY DEF EngineIInv, TypeOK, KernelType
  <2>2. kernel.rollup[1] \in Rollup
    BY <2>1
  <2>3. ch \in Nat /\ ch <= EscrowFunding /\ EscrowFunding \in Nat /\ MaxAmount \in Nat
    BY <2>2, TrustBundle DEF Rollup, EngineIInv, Funded
  <2>4. fee \in 0 .. ch
    BY <2>3, FeeWithinCharge
  <2>5. h > kernel.rollup[1].close
    BY <2>2, TrustBundle DEF Rollup
  <2>6. Fits(ch * FeeNumerator)
    <3>1. FeeNumerator \in Nat /\ ch * FeeNumerator <= MaxAmount
      BY TrustBundle DEF RoomFor
    <3> HIDE DEF ch
    <3>2. ch * FeeNumerator \in Nat
      BY <2>3, <3>1, Z3
    <3> QED
      BY <2>3, <3>1, <3>2 DEF Fits
  <2>7. ASSUME NEW a \in Account PROVE Fits(kernel.balance[a] + Delta(kernel)[a])
    <3>1. kernel.balance[a] = OpeningBalance[a] /\ OpeningBalance[a] \in Nat
      BY <2>1, TrustBundle DEF Unpaid
    <3>2. /\ a = "provider" => /\ Delta(kernel)[a] = ch - fee
                               /\ OpeningBalance[a] + ch <= MaxAmount
          /\ a = "protocol" => /\ Delta(kernel)[a] = fee
                               /\ OpeningBalance[a] + ch <= MaxAmount
          /\ a = "consumer" => /\ Delta(kernel)[a] = EscrowFunding - ch
                               /\ OpeningBalance[a] + EscrowFunding - ch <= MaxAmount
      BY <2>1 DEF Delta, Account, Unpaid, RoomFor
    <3> HIDE DEF fee, ch
    <3>3. a \in {"provider", "protocol", "consumer"}
      BY DEF Account
    <3> QED
      BY <2>3, <2>4, <3>1, <3>2, <3>3 DEF Fits
  <2>8. VersionsIncrease(kernel)
    BY <2>1, TrustBundle DEF VersionsIncrease, Unpaid, RoomFor
  <2> QED
    BY <2>1, <2>3, <2>5, <2>6, <2>7, <2>8 DEF SettleAccepted, Unpaid
<1> QED
  BY <1>1, EngineInvariance, PTL

(***************************************************************************)
(* What was signed is final: receipts are only appended, none after the    *)
(* rollup, and a settled kernel never changes again.                       *)
(***************************************************************************)
THEOREM EngineSignedIsFinal == Spec => SignedIsFinal
<1>1. EngineIInv /\ [Next]_engineVars => [KeepsSigned]_engineVars
  <2> SUFFICES ASSUME EngineIInv, Next PROVE KeepsSigned
    OBVIOUS
  <2>1. /\ kernel \in KernelType /\ kernel.receipts \in Seq(ReceiptState)
        /\ Len(kernel.receipts) \in Nat
    BY DEF EngineIInv, TypeOK, KernelType
  <2>2. ASSUME NEW b \in Block, AdvanceEmpty(b) PROVE KeepsSigned
    BY <2>1, <2>2 DEF AdvanceEmpty, KeepsSigned
  <2>3. ASSUME NEW b \in Block, NEW c \in Commands(kernel, HeightOf[b]), Execute(b, c)
        PROVE  KeepsSigned
    <3>1. c.kind \in {"receipt", "rollup", "settle"}
      BY DEF Commands
    <3>2. CASE c.kind = "receipt"
      <4>1. /\ ~kernel.settled /\ kernel.rollup = <<>>
            /\ kernel' = AdmitReceipt(kernel, HeightOf[b], c.receipt)
        <5>1. ReceiptAccepted(kernel, HeightOf[b], c.receipt)
          BY <2>3, <3>2 DEF Execute, Accepted
        <5>2. kernel' = AdmitReceipt(kernel, HeightOf[b], c.receipt)
          BY <2>3, <3>2 DEF Execute, ApplyTransition
        <5>3. ~kernel.settled /\ kernel.rollup = <<>>
          BY <5>1 DEF ReceiptAccepted, AdmissionOpen
        <5> QED
          BY <5>2, <5>3
      <4>2. PICK new : kernel'.receipts = Append(kernel.receipts, new)
        BY <2>1, <4>1 DEF AdmitReceipt, KernelType
      <4>3. \A i \in 1 .. Len(kernel.receipts) :
              i <= Len(kernel'.receipts) /\ kernel'.receipts[i] = kernel.receipts[i]
        BY <2>1, <4>2
      <4> QED
        BY <4>1, <4>3 DEF KeepsSigned
    <3>3. CASE c.kind = "rollup"
      <4>1. /\ ~kernel.settled /\ kernel.rollup = <<>>
            /\ kernel' = AdmitRollup(kernel, HeightOf[b])
        BY <2>3, <3>3 DEF Execute, Accepted, ApplyTransition, RollupAccepted
      <4>2. kernel'.receipts = AssignedReceipts(kernel)
        BY <2>1, <4>1 DEF AdmitRollup, KernelType
      <4> DEFINE n == Len(kernel.receipts)  rs == AssignedReceipts(kernel)
      <4>3. \A i \in 1 .. n : /\ rs[i].receipt = kernel.receipts[i].receipt
                              /\ rs[i].charge = kernel.receipts[i].charge
        BY <2>1, AssignedReceiptsType
      <4>4. Len(rs) = n
        BY <2>1, AssignedReceiptsType
      <4> QED
        BY <2>1, <4>1, <4>2, <4>3, <4>4 DEF KeepsSigned
    <3>4. CASE c.kind = "settle"
      <4>1. /\ ~kernel.settled /\ kernel.rollup # <<>>
            /\ kernel' = Settle(kernel, HeightOf[b])
        BY <2>3, <3>4 DEF Execute, Accepted, ApplyTransition, SettleAccepted
      <4>2. kernel'.receipts = kernel.receipts /\ kernel'.rollup = <<ConsumedRollup(kernel)>>
        BY <2>1, <4>1 DEF Settle, KernelType
      <4>3. ConsumedRollup(kernel).charge = kernel.rollup[1].charge
        <5> DEFINE old == kernel.rollup[1]
        <5>1. kernel.rollup \in Seq(Rollup)
          BY <2>1 DEF KernelType
        <5>2. old \in Rollup
          BY <4>1, <5>1
        <5>3. ConsumedRollup(kernel) = [old EXCEPT !.version = @ + 1, !.status = 1]
          BY DEF ConsumedRollup
        <5> HIDE DEF old
        <5>4. ConsumedRollup(kernel).charge = old.charge
          BY <5>2, <5>3 DEF Rollup
        <5> QED
          BY <5>4 DEF old
      <4> QED
        BY <2>1, <4>1, <4>2, <4>3 DEF KeepsSigned
    <3> QED
      BY <3>1, <3>2, <3>3, <3>4
  <2> QED
    BY <2>2, <2>3 DEF Next
<1> QED
  BY <1>1, EngineInvariance, PTL DEF Spec, SignedIsFinal
=============================================================================
