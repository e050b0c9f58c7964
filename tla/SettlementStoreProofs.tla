----------------------- MODULE SettlementStoreProofs ------------------------
(***************************************************************************)
(* Proofs about SettlementStore, for any number of callers, any blocks,    *)
(* forks, prices and usages: what a caller was told is in the journal,     *)
(* once, and the store implements the engine.                              *)
(***************************************************************************)
EXTENDS SettlementStore, TLAPS

USE ZenonT(40)

\* s is a sequence, of whatever.
IsSeq(s) == Len(s) \in Nat /\ s = [i \in 1 .. Len(s) |-> s[i]]

\* A function on 1 .. n is a sequence of length n.
LEMMA FunctionOnInterval ==
  ASSUME NEW n \in Nat, NEW f, f = [i \in 1 .. n |-> f[i]]
  PROVE  IsSeq(f) /\ Len(f) = n
<1> DEFINE S == {f[i] : i \in 1 .. n}
<1>1. f \in [1 .. n -> S]
  OBVIOUS
<1>2. f \in Seq(S)
  BY <1>1, SMTT(30)
<1>3. Len(f) \in Nat /\ 1 .. Len(f) = 1 .. n
  BY <1>1, <1>2, SMTT(30)
<1>4. Len(f) = n
  BY <1>3, SMTT(30)
<1> QED
  BY <1>3, <1>4 DEF IsSeq

\* What Append, with which every table grows, does to a sequence.
LEMMA AppendToSeq ==
  ASSUME NEW s, IsSeq(s), NEW e
  PROVE  /\ IsSeq(Append(s, e)) /\ Len(Append(s, e)) = Len(s) + 1
         /\ \A i \in 1 .. Len(s) : Append(s, e)[i] = s[i]
         /\ Append(s, e)[Len(s) + 1] = e
<1> DEFINE S == {s[i] : i \in 1 .. Len(s)} \cup {e}  t == Append(s, e)
<1>1. s \in [1 .. Len(s) -> S] /\ Len(s) \in Nat
  BY DEF IsSeq
<1>2. s \in Seq(S) /\ e \in S
  BY <1>1, SMTT(30)
<1>3. t \in Seq(S)
  BY <1>2, SMTT(30)
<1>4. /\ Len(t) = Len(s) + 1 /\ t[Len(s) + 1] = e
      /\ \A i \in 1 .. Len(s) : t[i] = s[i]
  BY <1>2, SMTT(30)
<1> HIDE DEF t, S
<1>5. t \in [1 .. Len(t) -> S] /\ Len(t) \in Nat
  BY <1>3, SMTT(30)
<1>6. IsSeq(t)
  BY <1>5 DEF IsSeq
<1> QED
  BY <1>4, <1>6 DEF t

\* The empty table, and a table of one row.
LEMMA ShortSeqs ==
  ASSUME NEW e
  PROVE  /\ IsSeq(<<>>) /\ Len(<<>>) = 0
         /\ IsSeq(<<e>>) /\ Len(<<e>>) = 1 /\ <<e>>[1] = e
<1>1. <<>> \in Seq({e}) /\ Len(<<>>) = 0
  BY SMTT(30)
<1>2. <<e>> \in Seq({e}) /\ Len(<<e>>) = 1 /\ <<e>>[1] = e
  BY SMTT(30)
<1>3. \A s \in Seq({e}) : s \in [1 .. Len(s) -> {e}] /\ Len(s) \in Nat
  BY SMTT(30)
<1> QED
  BY <1>1, <1>2, <1>3 DEF IsSeq
-----------------------------------------------------------------------------
(***************************************************************************)
(* The operations of the kernel are the same through the mapping.          *)
(***************************************************************************)
\* apply_transition of the store is that of the engine it implements.
LEMMA SameKernel ==
  ASSUME NEW k, NEW h, NEW c
  PROVE  /\ E!Accepted(k, h, c) = Accepted(k, h, c)
         /\ E!ApplyTransition(k, h, c) = ApplyTransition(k, h, c)
<1>1. \A u : E!PriceUsage(u) = PriceUsage(u)
  BY DEF E!PriceUsage, PriceUsage, E!FoldFunction, FoldFunction,
         E!FoldFunctionOnSet, FoldFunctionOnSet, E!MapThenFoldSet, MapThenFoldSet
<1>2. \A u : E!DeriveCumulativeUsage(k, u) = DeriveCumulativeUsage(k, u)
  BY DEF E!DeriveCumulativeUsage, DeriveCumulativeUsage, E!PriorTotal, PriorTotal,
         E!AmountsOf, AmountsOf
<1>3. E!PriorCharge(k) = PriorCharge(k) /\ E!TotalCharge(k) = TotalCharge(k)
  BY DEF E!PriorCharge, PriorCharge, E!TotalCharge, TotalCharge
<1>4. ASSUME NEW r PROVE E!ReceiptAccepted(k, h, r) = ReceiptAccepted(k, h, r)
  <2>1. /\ E!AdmissionOpen(k) = AdmissionOpen(k)
        /\ E!ReceiptPeriodFollows(k, r) = ReceiptPeriodFollows(k, r)
        /\ E!PriorResources(k) = PriorResources(k)
    BY DEF E!AdmissionOpen, AdmissionOpen, E!ReceiptPeriodFollows, ReceiptPeriodFollows,
           E!PriorResources, PriorResources
  <2>2. \A x : E!Fits(x) = Fits(x)
    BY DEF E!Fits, Fits
  <2>3. E!ChargeWithinFunding(k, r.usage) = ChargeWithinFunding(k, r.usage)
    BY <1>1, <1>3, <2>2 DEF E!ChargeWithinFunding, ChargeWithinFunding
  <2>4. E!DeriveCumulativeUsage(k, r.usage) = DeriveCumulativeUsage(k, r.usage)
    BY <1>2
  <2> QED
    BY <2>1, <2>2, <2>3, <2>4 DEF E!ReceiptAccepted, ReceiptAccepted
<1>5. \A r : E!AdmitReceipt(k, h, r) = AdmitReceipt(k, h, r)
  BY <1>1, <1>2, <1>3 DEF E!AdmitReceipt, AdmitReceipt
<1>6. E!RollupAccepted(k, h, c) = RollupAccepted(k, h, c)
  BY DEF E!RollupAccepted, RollupAccepted
<1>7. E!AdmitRollup(k, h) = AdmitRollup(k, h)
  BY <1>3 DEF E!AdmitRollup, AdmitRollup, E!AssignedReceipts, AssignedReceipts,
              E!NewRollup, NewRollup
<1>8. E!Delta(k) = Delta(k)
  BY DEF E!Delta, Delta, E!Account, Account, E!ProtocolFee, ProtocolFee
<1>9. E!SettleAccepted(k, h, c) = SettleAccepted(k, h, c)
  BY <1>8 DEF E!SettleAccepted, SettleAccepted, E!Account, Account, E!Fits, Fits,
              E!VersionsIncrease, VersionsIncrease
<1>10. E!Settle(k, h) = Settle(k, h)
  BY <1>8 DEF E!Settle, Settle, E!PaidBalances, PaidBalances, E!PaidVersions,
              PaidVersions, E!ConsumedRollup, ConsumedRollup, E!Account, Account
<1> QED
  BY <1>4, <1>5, <1>6, <1>7, <1>9, <1>10
  DEF E!Accepted, Accepted, E!ApplyTransition, ApplyTransition
-----------------------------------------------------------------------------
(***************************************************************************)
(* Commands.  The engine lets the signers agree only on commands that fit  *)
(* the current state; a command that waited in a caller while the state    *)
(* moved on, and is then accepted, is one of those.                        *)
(***************************************************************************)
Signable(c) ==
  \/ /\ c.kind = "receipt" /\ c = [kind |-> "receipt", receipt |-> c.receipt]
     /\ c.receipt = [sequence |-> c.receipt.sequence, start |-> c.receipt.start,
                     end |-> c.receipt.end, usage |-> c.receipt.usage,
                     certificate |-> c.receipt.certificate]
     /\ c.receipt.usage \in Usage /\ c.receipt.certificate \in Certificate
     /\ c.receipt.sequence = 1 => c.receipt.start \in StartHeights
  \/ c.kind = "rollup" /\ c = [kind |-> "rollup", count |-> c.count, height |-> c.height]
  \/ /\ c.kind = "settle"
     /\ c = [kind |-> "settle", result |-> c.result, escrow |-> c.escrow, rollup |-> 0]

KernelOK(k) == DOMAIN k = DOMAIN InitialKernel /\ IsSeq(k.receipts)

\* What the signers agree on is signable.
LEMMA CommandsSignable ==
  ASSUME NEW k, KernelOK(k), NEW h, NEW c \in E!Commands(k, h)
  PROVE  Signable(c)
<1>1. CASE c \in [kind : {"receipt"}, receipt : E!SignedReceipts(k, h)]
  <2>1. c = [kind |-> "receipt", receipt |-> c.receipt]
          /\ c.receipt \in E!SignedReceipts(k, h)
    BY <1>1
  <2> DEFINE r == c.receipt
  <2>2. /\ r = [sequence |-> r.sequence, start |-> r.start, end |-> r.end,
                usage |-> r.usage, certificate |-> r.certificate]
        /\ r.usage \in Usage /\ r.certificate \in Certificate
        /\ r.sequence = Len(k.receipts) + 1 /\ r.start \in E!NextStarts(k)
    BY <2>1 DEF E!SignedReceipts
  <2>3. r.sequence = 1 => r.start \in StartHeights
    <3> SUFFICES ASSUME r.sequence = 1 PROVE k.receipts = <<>>
      BY <2>2 DEF E!NextStarts
    <3>1. Len(k.receipts) = 0 /\ k.receipts = [i \in 1 .. Len(k.receipts) |-> k.receipts[i]]
      BY <2>2, SMTT(30) DEF KernelOK, IsSeq
    <3>2. 1 .. 0 = {}
      BY SMTT(30)
    <3> QED
      BY <3>1, <3>2, SMTT(30)
  <2> QED
    BY <2>1, <2>2, <2>3, SMTT(30) DEF Signable
<1>2. CASE c = [kind |-> "rollup", count |-> Len(k.receipts), height |-> h]
  BY <1>2 DEF Signable
<1>3. CASE c = [kind |-> "settle", result |-> k.resultRevision,
                escrow |-> k.escrowVersion, rollup |-> 0]
  BY <1>3 DEF Signable
<1> QED
  BY <1>1, <1>2, <1>3 DEF E!Commands

\* A signable command that is accepted is one the engine offers.
LEMMA AcceptedIsOffered ==
  ASSUME NEW k, NEW h, NEW c, Signable(c), Accepted(k, h, c)
  PROVE  c \in E!Commands(k, h)
<1>1. CASE c.kind = "receipt"
  <2> DEFINE r == c.receipt
  <2>1. /\ c = [kind |-> "receipt", receipt |-> r]
        /\ r = [sequence |-> r.sequence, start |-> r.start, end |-> r.end,
                usage |-> r.usage, certificate |-> r.certificate]
        /\ r.usage \in Usage /\ r.certificate \in Certificate
        /\ r.sequence = 1 => r.start \in StartHeights
    BY <1>1 DEF Signable
  <2>2. ReceiptAccepted(k, h, r)
    BY <1>1 DEF Accepted
  <2>3. r.start \in E!NextStarts(k)
    <3>1. CASE k.receipts = <<>>
      BY <2>1, <2>2, <3>1, SMTT(30) DEF ReceiptAccepted, E!NextStarts
    <3>2. CASE k.receipts # <<>>
      BY <2>2, <3>2 DEF ReceiptAccepted, ReceiptPeriodFollows, E!NextStarts
    <3> QED
      BY <3>1, <3>2
  <2>4. r.end = h /\ r.sequence = Len(k.receipts) + 1
    BY <2>2 DEF ReceiptAccepted
  <2> HIDE DEF r
  <2>5. r \in E!SignedReceipts(k, h)
    BY <2>1, <2>3, <2>4 DEF E!SignedReceipts
  <2> QED
    BY <2>1, <2>5 DEF E!Commands
<1>2. CASE c.kind = "rollup"
  <2>1. c = [kind |-> "rollup", count |-> c.count, height |-> c.height]
    BY <1>2 DEF Signable
  <2>2. c.count = Len(k.receipts) /\ c.height = h
    BY <1>2 DEF Accepted, RollupAccepted
  <2> QED
    BY <2>1, <2>2 DEF E!Commands
<1>3. CASE c.kind = "settle"
  <2>1. c = [kind |-> "settle", result |-> c.result, escrow |-> c.escrow, rollup |-> 0]
    BY <1>3 DEF Signable
  <2>2. c.result = k.resultRevision /\ c.escrow = k.escrowVersion
    BY <1>3 DEF Accepted, SettleAccepted
  <2> QED
    BY <2>1, <2>2 DEF E!Commands
<1>4. c.kind \in {"receipt", "rollup", "settle"}
  BY DEF Signable
<1> QED
  BY <1>1, <1>2, <1>3, <1>4

\* Every transition leaves a kernel whose receipts are a sequence.
LEMMA TransitionKeepsKernel ==
  ASSUME NEW k, KernelOK(k), NEW h, NEW c, Signable(c)
  PROVE  KernelOK(ApplyTransition(k, h, c))
<1> DEFINE d == ApplyTransition(k, h, c)
<1>1. "receipts" \in DOMAIN k
  BY DEF KernelOK, InitialKernel
<1>2. CASE c.kind = "receipt"
  <2>1. PICK e : d = [k EXCEPT !.receipts = Append(k.receipts, e)]
    BY <1>2 DEF ApplyTransition, AdmitReceipt
  <2>2. IsSeq(Append(k.receipts, e))
    BY AppendToSeq DEF KernelOK
  <2> QED
    BY <1>1, <2>1, <2>2 DEF KernelOK
<1>3. CASE c.kind = "rollup"
  <2> DEFINE rs == AssignedReceipts(k)
  <2>1. PICK ru : d = [k EXCEPT !.receipts = rs, !.rollup = ru]
    BY <1>3 DEF ApplyTransition, AdmitRollup
  <2>2. rs = [i \in 1 .. Len(k.receipts) |-> rs[i]] /\ Len(k.receipts) \in Nat
    BY DEF AssignedReceipts, KernelOK, IsSeq
  <2> HIDE DEF rs
  <2>3. IsSeq(rs)
    BY <2>2, FunctionOnInterval
  <2> QED
    BY <1>1, <2>1, <2>3 DEF KernelOK
<1>4. CASE c.kind = "settle"
  <2>1. DOMAIN d = DOMAIN k /\ d.receipts = k.receipts
    BY <1>1, <1>4 DEF ApplyTransition, Settle
  <2> QED
    BY <2>1 DEF KernelOK
<1>5. c.kind \in {"receipt", "rollup", "settle"}
  BY DEF Signable
<1> QED
  BY <1>2, <1>3, <1>4, <1>5
-----------------------------------------------------------------------------
(***************************************************************************)
(* The inductive invariant.                                                *)
(*                                                                         *)
(* TablesOK: the last marker is the tip, and the operations are as many as *)
(* the metadata says; OpsOK: no command is stored twice.  CallOK: what a   *)
(* caller has established when it reaches a step.  Its look at the         *)
(* operations counts for those up to the head it read, so that a head that *)
(* is unchanged inside the transaction rules out all of them.              *)
(***************************************************************************)
IsMarker(m) == m = Marker(m.sequence, m.block, m.parent, m.source, m.target)

TablesOK(d) ==
  /\ d = [meta |-> d.meta, ops |-> d.ops, markers |-> d.markers]
  /\ d.meta = Metadata(d.meta.config, d.meta.sequence, d.meta.tip, d.meta.kernel, d.meta.journal)
  /\ KernelOK(d.meta.kernel) /\ d.meta.tip \in Block
  /\ IsSeq(d.ops) /\ d.meta.sequence = Len(d.ops)
  /\ IsSeq(d.markers) /\ \A i \in 1 .. Len(d.markers) : IsMarker(d.markers[i])
  /\ IF HasSchema(d) THEN Len(d.markers) > 0 /\ LastMarker(d).block = d.meta.tip
     ELSE d \in {Absent, Blank}

OpsOK(ops) ==
  /\ \A i \in 1 .. Len(ops) :
       /\ Signable(ops[i].request.command) /\ ops[i].receipt.sequence = i
       /\ ops[i].receipt.command = ops[i].request.command
  /\ \A i, j \in 1 .. Len(ops) : ops[i].request.command = ops[j].request.command => i = j

Recorded(ops, r) == \E i \in 1 .. Len(ops) : ops[i].request = r

RequestOK(r) ==
  /\ r.block \in Block
  /\ IF r.command = Empty THEN HeightOf[r.block] = HeightOf[r.expected] + 1
     ELSE Signable(r.command)

\* A head that was read at some time: the journal has at least its operations.
HeadRead(ops, head) == head.meta.sequence \in 0 .. Len(ops)

Judged(ops, r, head) ==
  /\ HeadRead(ops, head)
  /\ \A i \in 1 .. head.meta.sequence : ops[i].request.command # r.command
  /\ Accepted(head.meta.kernel, HeightOf[r.block], r.command)

Busy == {"head", "lookup", "begin", "commit", "confirm"}

CallShape(c) ==
  /\ c = [pc |-> c.pc, request |-> c.request, head |-> c.head, config |-> c.config]
  /\ c.pc \in {"closed", "create", "idle"} \cup Busy
  /\ c.pc # "closed" => c.config \in Creating \cup Reopening

CallOK(p, c, d, w) ==
  /\ CallShape(c)
  /\ c.pc \in {"idle"} \cup Busy => HasSchema(d)
  /\ c.pc \in Busy => RequestOK(c.request)
  /\ c.pc = "lookup" => c.request.command # Empty /\ HeadRead(d.ops, c.head)
  /\ c.pc \in {"begin", "commit"} /\ c.request.command # Empty => Judged(d.ops, c.request, c.head)
  /\ c.pc = "commit" =>
       /\ w = {p} /\ MarkerFollows(d, c.request)
       /\ IF c.request.command = Empty THEN ExpectsTip(c.request, d) ELSE d.meta = c.head.meta
  /\ c.pc = "confirm" /\ c.request.command # Empty => Recorded(d.ops, c.request)

AckedOK(acks, ops) == \A r \in acks : r.command # Empty => Recorded(ops, r)

StoreIInv ==
  /\ TablesOK(db) /\ OpsOK(db.ops) /\ AckedOK(acked, db.ops)
  /\ call = [p \in Caller |-> call[p]] /\ writer \subseteq Caller
  /\ \A p \in Caller : CallOK(p, call[p], db, writer)

\* What a caller has to have established to be at each step.
LEMMA CallAt ==
  ASSUME NEW p, NEW pc \in Busy, NEW r, NEW head, NEW config \in Creating \cup Reopening,
         NEW d, NEW w, HasSchema(d), RequestOK(r),
         pc = "lookup" => r.command # Empty /\ HeadRead(d.ops, head),
         pc \in {"begin", "commit"} /\ r.command # Empty => Judged(d.ops, r, head),
         pc = "commit" => /\ w = {p} /\ MarkerFollows(d, r)
                          /\ r.command = Empty => ExpectsTip(r, d)
                          /\ r.command # Empty => d.meta = head.meta,
         pc = "confirm" /\ r.command # Empty => Recorded(d.ops, r)
  PROVE  CallOK(p, [pc |-> pc, request |-> r, head |-> head, config |-> config], d, w)
<1> DEFINE c == [pc |-> pc, request |-> r, head |-> head, config |-> config]
<1>1. c.pc = pc /\ c.request = r /\ c.head = head /\ c.config = config
  OBVIOUS
<1>2. CallShape(c)
  BY DEF CallShape
<1> HIDE DEF c
<1>3. CallOK(p, c, d, w)
  BY <1>1, <1>2 DEF CallOK
<1> QED
  BY <1>3 DEF c

\* The record of a call, and one with a field or two replaced.
CallRecord(pc, r, head, config) == [pc |-> pc, request |-> r, head |-> head, config |-> config]
IsCallRecord(c) == c = CallRecord(c.pc, c.request, c.head, c.config)

\* The fields of such a record are what it was made of.
LEMMA CallRecordFields ==
  ASSUME NEW pc, NEW r, NEW head, NEW config, NEW c, c = CallRecord(pc, r, head, config)
  PROVE  /\ IsCallRecord(c) /\ c.pc = pc /\ c.request = r /\ c.head = head
         /\ c.config = config
  BY DEF CallRecord, IsCallRecord

\* Replacing one field of a call keeps the other three.
LEMMA FieldReplaced ==
  ASSUME NEW c, IsCallRecord(c), NEW x
  PROVE  /\ [c EXCEPT !.pc = x] = CallRecord(x, c.request, c.head, c.config)
         /\ [c EXCEPT !.request = x] = CallRecord(c.pc, x, c.head, c.config)
         /\ [c EXCEPT !.head = x] = CallRecord(c.pc, c.request, x, c.config)
         /\ [c EXCEPT !.config = x] = CallRecord(c.pc, c.request, c.head, x)
  BY SMTT(30) DEF CallRecord, IsCallRecord

\* An opening moves a call on and sets its configuration.
LEMMA ConfigReplaced ==
  ASSUME NEW c, IsCallRecord(c), NEW x, NEW y
  PROVE  [c EXCEPT !.pc = x, !.config = y] = CallRecord(x, c.request, c.head, y)
<1> DEFINE d == [c EXCEPT !.pc = x]
<1>1. d = CallRecord(x, c.request, c.head, c.config)
  BY FieldReplaced
<1> HIDE DEF d
<1>2. IsCallRecord(d) /\ d.pc = x /\ d.request = c.request /\ d.head = c.head
  BY <1>1, CallRecordFields, SMTT(30)
<1>3. [d EXCEPT !.config = y] = CallRecord(d.pc, d.request, d.head, y)
  BY <1>2, FieldReplaced
<1> QED
  BY <1>2, <1>3 DEF d

\* A read of the head moves a call on and keeps what it read.
LEMMA HeadReplaced ==
  ASSUME NEW c, IsCallRecord(c), NEW x, NEW y
  PROVE  [c EXCEPT !.head = x, !.pc = y] = CallRecord(y, c.request, x, c.config)
<1> DEFINE d == [c EXCEPT !.head = x]
<1>1. d = CallRecord(c.pc, c.request, x, c.config)
  BY FieldReplaced
<1> HIDE DEF d
<1>2. IsCallRecord(d) /\ d.request = c.request /\ d.head = x /\ d.config = c.config
  BY <1>1, CallRecordFields, SMTT(30)
<1>3. [d EXCEPT !.pc = y] = CallRecord(y, d.request, d.head, d.config)
  BY <1>2, FieldReplaced
<1> QED
  BY <1>2, <1>3 DEF d

\* The begin of a call sets its step, its request and its head.
LEMMA CallReplaced ==
  ASSUME NEW c, IsCallRecord(c), NEW x, NEW y, NEW z
  PROVE  [c EXCEPT !.pc = x, !.request = y, !.head = z] = CallRecord(x, y, z, c.config)
<1> DEFINE d == [c EXCEPT !.pc = x]  e == [d EXCEPT !.request = y]
<1>1. d = CallRecord(x, c.request, c.head, c.config)
  BY FieldReplaced
<1> HIDE DEF d
<1>2. IsCallRecord(d) /\ d.pc = x /\ d.head = c.head /\ d.config = c.config
  BY <1>1, CallRecordFields, SMTT(30)
<1>3. e = CallRecord(d.pc, y, d.head, d.config)
  BY <1>2, FieldReplaced
<1> HIDE DEF e
<1>4. IsCallRecord(e) /\ e.pc = x /\ e.request = y /\ e.config = c.config
  BY <1>2, <1>3, CallRecordFields, SMTT(30)
<1>5. [e EXCEPT !.head = z] = CallRecord(e.pc, e.request, z, e.config)
  BY <1>4, FieldReplaced
<1> QED
  BY <1>4, <1>5 DEF d, e

\* A caller without a call in progress.
LEMMA ClosedCall == \A p, d, w : CallOK(p, Closed, d, w)
  BY DEF CallOK, CallShape, Closed, Busy

\* A caller that is creating the tables, or has opened the store.
LEMMA RestingCall ==
  ASSUME NEW p, NEW config \in Creating \cup Reopening, NEW d, NEW w
  PROVE  /\ CallOK(p, [Closed EXCEPT !.pc = "create", !.config = config], d, w)
         /\ HasSchema(d) => CallOK(p, Idle(config), d, w)
<1> DEFINE c(pc) == [pc |-> pc, request |-> NoRequest, head |-> NoRequest, config |-> config]
<1>0. /\ IsCallRecord(Closed) /\ Closed.request = NoRequest /\ Closed.head = NoRequest
  BY DEF Closed, CallRecord, IsCallRecord
<1>01. \A x : [Closed EXCEPT !.pc = x, !.config = config]
               = CallRecord(x, Closed.request, Closed.head, config)
  BY <1>0, ConfigReplaced
<1>1. [Closed EXCEPT !.pc = "create", !.config = config] = c("create")
  BY <1>0, <1>01 DEF CallRecord
<1>11. Idle(config) = c("idle")
  BY <1>0, <1>01 DEF CallRecord, Idle
<1>2. \A pc : /\ c(pc).pc = pc /\ c(pc).config = config
              /\ c(pc) = [pc |-> c(pc).pc, request |-> c(pc).request,
                          head |-> c(pc).head, config |-> c(pc).config]
  OBVIOUS
<1> HIDE DEF c
<1>3. CallOK(p, c("create"), d, w)
  BY <1>2, SMTT(30) DEF CallOK, CallShape, Busy
<1>4. HasSchema(d) => CallOK(p, c("idle"), d, w)
  BY <1>2, SMTT(30) DEF CallOK, CallShape, Busy
<1> QED
  BY <1>1, <1>11, <1>3, <1>4

\* A file without rows.
LEMMA EmptyTables ==
  ASSUME NEW config, NEW m \in {<<>>, <<Anchor>>}, config \in {"absent", "blank"} <=> m = <<>>
  PROVE  TablesOK([NoStore(config) EXCEPT !.markers = m])
<1> DEFINE d == [NoStore(config) EXCEPT !.markers = m]
<1>1. /\ IsSeq(<<>>) /\ Len(<<>>) = 0
      /\ IsSeq(<<Anchor>>) /\ Len(<<Anchor>>) = 1 /\ <<Anchor>>[1] = Anchor
  BY ShortSeqs
<1>2. KernelOK(InitialKernel)
  BY <1>1 DEF KernelOK, InitialKernel
<1>3. IsMarker(Anchor) /\ Anchor.block = GenesisBlock
  BY DEF IsMarker, Anchor, Marker
<1>4. /\ d = [meta |-> d.meta, ops |-> d.ops, markers |-> d.markers]
      /\ d.ops = <<>> /\ d.markers = m
      /\ d.meta = Metadata(config, 0, GenesisBlock, InitialKernel, <<>>)
  BY SMTT(30) DEF NoStore
<1>5. m = <<>> => d = NoStore(config)
  BY SMTT(30) DEF NoStore
<1> HIDE DEF d
<1>6. /\ d.meta.config = config /\ d.meta.sequence = 0 /\ d.meta.tip = GenesisBlock
      /\ d.meta.kernel = InitialKernel /\ d.meta.journal = <<>>
  BY <1>4, SMTT(30) DEF Metadata
<1>7. CASE m = <<>>
  BY <1>1, <1>2, <1>4, <1>5, <1>6, <1>7, BlockAssumption, SMTT(30)
  DEF TablesOK, HasSchema, Absent, Blank
<1>8. CASE m = <<Anchor>>
  <2>1. m # <<>> /\ IsSeq(m) /\ Len(m) = 1 /\ m[1] = Anchor
    BY <1>1, <1>8
  <2>2. \A i \in 1 .. 1 : IsMarker(m[i])
    BY <1>3, <2>1, SMTT(30)
  <2>3. HasSchema(d) /\ LastMarker(d).block = GenesisBlock
    BY <1>3, <1>4, <1>6, <2>1 DEF HasSchema, LastMarker
  <2>4. TablesOK(d)
    BY <1>1, <1>2, <1>4, <1>6, <2>1, <2>2, <2>3, BlockAssumption, SMTT(30) DEF TablesOK
  <2> QED
    BY <2>4 DEF d
<1> QED
  BY <1>7, <1>8 DEF d

\* Before the first open there is no file.
LEMMA StoreInitIInv == StoreInit => StoreIInv
<1> SUFFICES ASSUME StoreInit PROVE StoreIInv
  OBVIOUS
<1>1. Len(<<>>) = 0
  BY ShortSeqs
<1>2. TablesOK(db)
  <2>1. Absent = [NoStore("absent") EXCEPT !.markers = <<>>]
    BY SMTT(30) DEF Absent, NoStore
  <2> QED
    BY <2>1, EmptyTables DEF StoreInit
<1>3. OpsOK(db.ops) /\ AckedOK(acked, db.ops)
  BY <1>1, SMTT(30) DEF StoreInit, OpsOK, AckedOK, Absent, NoStore
<1>4. \A p \in Caller : CallOK(p, call[p], db, writer)
  BY ClosedCall DEF StoreInit
<1> QED
  BY <1>2, <1>3, <1>4 DEF StoreIInv, StoreInit

(***************************************************************************)
(* A step of one caller that leaves the tables alone keeps the invariant   *)
(* if what it claims of that caller is established.                        *)
(***************************************************************************)
LEMMA CallStep ==
  ASSUME StoreIInv, NEW p \in Caller, NEW c, UNCHANGED db,
         call' = [call EXCEPT ![p] = c], CallOK(p, c, db, writer'),
         writer' \subseteq Caller, \A q \in Caller \ {p} : writer = {q} => writer' = {q},
         \A r \in acked' : r.command # Empty => r \in acked \/ Recorded(db.ops, r)
  PROVE  StoreIInv'
<1>1. TablesOK(db') /\ OpsOK(db'.ops)
  BY DEF StoreIInv
<1>2. AckedOK(acked', db'.ops)
  BY DEF StoreIInv, AckedOK
<1>3. call' = [q \in Caller |-> call'[q]] /\ call'[p] = c
  BY DEF StoreIInv
<1>4. ASSUME NEW q \in Caller PROVE CallOK(q, call'[q], db', writer')
  <2>1. CASE q = p
    BY <1>3, <2>1
  <2>2. CASE q # p
    <3>1. CallOK(q, call[q], db, writer) /\ call'[q] = call[q]
      BY <2>2 DEF StoreIInv
    <3> QED
      BY <2>2, <3>1 DEF CallOK
  <2> QED
    BY <2>1, <2>2
<1> QED
  BY <1>1, <1>2, <1>3, <1>4 DEF StoreIInv

\* The fields of a caller's record.
LEMMA CallFields ==
  ASSUME StoreIInv, NEW p \in Caller
  PROVE  /\ CallOK(p, call[p], db, writer) /\ call[p].pc \in {"closed", "create", "idle"} \cup Busy
         /\ call[p] = [pc |-> call[p].pc, request |-> call[p].request, head |-> call[p].head,
                       config |-> call[p].config]
         /\ call[p].pc # "closed" => call[p].config \in Creating \cup Reopening
         /\ call[p].pc \in {"idle"} \cup Busy => HasSchema(db)
         /\ call[p].pc \in Busy => RequestOK(call[p].request)
<1>1. CallOK(p, call[p], db, writer)
  BY DEF StoreIInv
<1>2. CallShape(call[p])
  BY <1>1 DEF CallOK
<1> QED
  BY <1>1, <1>2 DEF CallOK, CallShape

\* A call that ends keeps its handle.
LEMMA ReturnStep ==
  ASSUME StoreIInv, NEW p \in Caller, call[p].pc \in Busy, UNCHANGED <<db, writer>>, Return(p),
         call[p].pc # "commit",
         \A r \in acked' : r.command # Empty => r \in acked \/ Recorded(db.ops, r)
  PROVE  StoreIInv'
<1>1. HasSchema(db) /\ call[p].config \in Creating \cup Reopening
  BY CallFields DEF Busy
<1>2. CallOK(p, Idle(call[p].config), db, writer')
  BY <1>1, RestingCall
<1> QED
  BY <1>2, CallStep DEF Return, StoreIInv

\* open and open_existing of a store that is there.
LEMMA OpenStep ==
  ASSUME StoreIInv, NEW p \in Caller, NEW config \in Creating \cup Reopening,
         HasSchema(db), UNCHANGED <<db, writer, acked>>,
         call' = [call EXCEPT ![p] = Idle(config)]
  PROVE  StoreIInv'
<1>1. CallOK(p, Idle(config), db, writer')
  BY RestingCall
<1> QED
  BY <1>1, CallStep DEF StoreIInv

\* While the file has no tables no caller is past open, and there is nothing
\* a new file could lose.
LEMMA NewTables ==
  ASSUME StoreIInv, ~HasSchema(db), NEW p \in Caller, NEW c,
         call' = [call EXCEPT ![p] = c], CallOK(p, c, db', writer), TablesOK(db'),
         db'.ops = <<>>, UNCHANGED <<writer, acked>>
  PROVE  StoreIInv'
<1>1. Len(<<>>) = 0
  BY ShortSeqs
<1>2. db.ops = <<>>
  BY SMTT(30) DEF StoreIInv, TablesOK, Absent, Blank, NoStore
<1>3. OpsOK(db'.ops) /\ AckedOK(acked', db'.ops)
  BY <1>1, <1>2, SMTT(30) DEF StoreIInv, OpsOK, AckedOK, Recorded
<1>4. call' = [q \in Caller |-> call'[q]] /\ call'[p] = c
  BY DEF StoreIInv
<1>5. ASSUME NEW q \in Caller PROVE CallOK(q, call'[q], db', writer')
  <2>1. CASE q = p
    BY <1>4, <2>1
  <2>2. CASE q # p
    <3>1. CallOK(q, call[q], db, writer) /\ call'[q] = call[q]
      BY <2>2 DEF StoreIInv
    <3>2. CallShape(call[q]) /\ call[q].pc \in {"closed", "create"}
      BY <3>1 DEF CallOK, CallShape
    <3> QED
      BY <3>1, <3>2 DEF CallOK, Busy
  <2> QED
    BY <2>1, <2>2
<1> QED
  BY <1>3, <1>4, <1>5 DEF StoreIInv

\* open creates the file; the tables follow in a transaction.
LEMMA CreateSteps ==
  ASSUME StoreIInv, NEW p \in Caller, NEW config,
         (config \in Creating /\ Open(p, config)) \/ CreateTables(p)
  PROVE  StoreIInv'
<1>1. CASE config \in Creating /\ Open(p, config) /\ Exists(db)
  <2>1. HasSchema(db) /\ UNCHANGED <<db, writer, acked>>
          /\ call' = [call EXCEPT ![p] = Idle(config)]
    BY <1>1 DEF Open, OpensAs, Readable
  <2> QED
    BY <1>1, <2>1, OpenStep
<1>2. CASE config \in Creating /\ Open(p, config) /\ ~Exists(db)
  <2> DEFINE c == [Closed EXCEPT !.pc = "create", !.config = config]
  <2>1. /\ db' = Blank /\ call' = [call EXCEPT ![p] = c] /\ UNCHANGED <<writer, acked>>
        /\ ~HasSchema(db)
    BY <1>2 DEF Open, Exists, HasSchema
  <2>2. CallOK(p, c, db', writer)
    BY <1>2, RestingCall
  <2>3. Blank = [NoStore("blank") EXCEPT !.markers = <<>>] /\ Blank.ops = <<>>
    BY SMTT(30) DEF Blank, NoStore
  <2>4. TablesOK(db') /\ db'.ops = <<>>
    BY <2>1, <2>3, EmptyTables
  <2> HIDE DEF c
  <2> QED
    BY <2>1, <2>2, <2>4, NewTables
<1>3. CASE CreateTables(p) /\ HasSchema(db)
  <2>1. /\ UNCHANGED <<db, writer, acked>> /\ call' = [call EXCEPT ![p] = Closed]
        /\ call[p].pc = "create"
    BY <1>3 DEF CreateTables
  <2>2. CallOK(p, Closed, db, writer')
    BY ClosedCall
  <2> QED
    BY <2>1, <2>2, CallStep DEF StoreIInv
<1>4. CASE CreateTables(p) /\ ~HasSchema(db)
  <2> DEFINE f == call[p].config
  <2>1. /\ db' = FreshStore(f) /\ call' = [call EXCEPT ![p] = Idle(f)]
        /\ UNCHANGED <<writer, acked>> /\ call[p].pc = "create"
    BY <1>4 DEF CreateTables
  <2>2. f \in Creating \cup Reopening
    BY <2>1, CallFields
  <2>3. f \notin {"absent", "blank"}
    BY <2>2, StoreAssumption
  <2> HIDE DEF f
  <2>4. db' = [NoStore(f) EXCEPT !.markers = <<Anchor>>] /\ <<Anchor>> # <<>>
    BY <2>1 DEF FreshStore
  <2>5. TablesOK(db')
    BY <2>3, <2>4, EmptyTables
  <2>6. db'.ops = <<>> /\ db'.meta.config = f
    BY <2>4 DEF NoStore, Metadata
  <2>7. CallOK(p, Idle(f), db', writer)
    <3>1. HasSchema(db')
      BY <2>3, <2>6 DEF HasSchema
    <3> QED
      BY <2>2, <3>1, RestingCall
  <2> QED
    BY <1>4, <2>1, <2>5, <2>6, <2>7, NewTables
<1> QED
  BY <1>1, <1>2, <1>3, <1>4

\* What a caller may ask for is well-formed.
LEMMA RequestsOK ==
  ASSUME StoreIInv, NEW r \in Requests,
         r.command = Empty => HeightOf[r.block] = HeightOf[r.expected] + 1
  PROVE  RequestOK(r)
<1>1. CASE \E b \in CommandBlock : \E e \in Block, c \in CommandsFor(b) : r = Request(b, e, c)
  <2>0. PICK b \in CommandBlock : \E e \in Block, c \in CommandsFor(b) : r = Request(b, e, c)
    BY <1>1
  <2>1. PICK e \in Block, c \in CommandsFor(b) : r = Request(b, e, c)
    BY <2>0
  <2>2. Signable(c)
    <3>1. CASE c \in Proposed(db.meta.kernel, b)
      <4>1. c \in E!Commands(db.meta.kernel, HeightOf[b]) /\ KernelOK(db.meta.kernel)
        BY <3>1 DEF Proposed, StoreIInv, TablesOK
      <4> QED
        BY <4>1, CommandsSignable
    <3>2. CASE c \in {db.ops[i].request.command : i \in DOMAIN db.ops}
      <4>1. DOMAIN db.ops = 1 .. Len(db.ops)
        BY DEF StoreIInv, TablesOK, IsSeq
      <4> QED
        BY <3>2, <4>1, SMTT(30) DEF StoreIInv, OpsOK
    <3> QED
      BY <2>1, <3>1, <3>2 DEF CommandsFor
  <2>3. c # Empty
    BY <2>2, SMTT(30) DEF Signable, Empty
  <2> QED
    BY <2>1, <2>2, <2>3, StoreAssumption DEF RequestOK, Request
<1>2. CASE \E b \in EmptyBlock, e \in Block : r = Request(b, e, Empty)
  BY <1>2, StoreAssumption, SMTT(30) DEF RequestOK, Request
<1>3. \/ \E b \in CommandBlock : r \in {Request(b, e, c) : e \in Block, c \in CommandsFor(b)}
      \/ r \in {Request(b, e, Empty) : b \in EmptyBlock, e \in Block}
  BY SMTT(30) DEF Requests
<1> QED
  BY <1>1, <1>2, <1>3, SMTT(30)

\* execute and advance_empty up to the first readback.
LEMMA BeginCallStep ==
  ASSUME StoreIInv, NEW p \in Caller, BeginCall(p)
  PROVE  StoreIInv'
<1>1. PICK r \in Requests : Start(p, r) \/ RetryEmpty(p, r)
  BY DEF BeginCall
<1>2. /\ HasSchema(db) /\ call[p].pc = "idle" /\ CallOK(p, call[p], db, writer)
      /\ call[p].config \in Creating \cup Reopening
  BY CallFields DEF BeginCall
<1>3. CASE Start(p, r)
  <2> DEFINE c == [pc |-> "head", request |-> r, head |-> Readback(db), config |-> call[p].config]
  <2>1. /\ UNCHANGED <<db, writer, acked>>
        /\ r.command = Empty => HeightOf[r.block] = HeightOf[r.expected] + 1
    BY <1>3 DEF Start
  <2>2. call' = [call EXCEPT ![p] = c]
    <3>0. call[p] = [pc |-> call[p].pc, request |-> call[p].request, head |-> call[p].head,
                     config |-> call[p].config]
      BY CallFields
    <3>01. IsCallRecord(call[p])
      BY <3>0 DEF IsCallRecord, CallRecord
    <3>02. \A x, y, z : [call[p] EXCEPT !.pc = x, !.request = y, !.head = z]
                        = CallRecord(x, y, z, call[p].config)
      BY <3>01, CallReplaced
    <3>1. [call[p] EXCEPT !.pc = "head", !.request = r, !.head = Readback(db)] = c
      BY <3>02 DEF CallRecord
    <3>2. call' = [call EXCEPT ![p] =
                     [call[p] EXCEPT !.pc = "head", !.request = r, !.head = Readback(db)]]
      BY <1>3 DEF Start, StoreIInv
    <3> QED
      BY <3>1, <3>2
  <2>3. RequestOK(r)
    BY <2>1, RequestsOK
  <2>4. CallOK(p, c, db, writer')
    <3>1. "head" \in Busy
      BY DEF Busy
    <3> QED
      BY <1>2, <2>3, <3>1, CallAt
  <2> HIDE DEF c
  <2> QED
    BY <2>1, <2>2, <2>4, CallStep DEF StoreIInv
<1>4. CASE RetryEmpty(p, r)
  <2>1. /\ UNCHANGED <<db, writer, call>> /\ r.command = Empty /\ acked' = acked \cup {r}
    BY <1>4 DEF RetryEmpty
  <2>2. call' = [call EXCEPT ![p] = call[p]] /\ CallOK(p, call[p], db, writer')
    BY <1>2, <2>1 DEF StoreIInv
  <2> QED
    BY <2>1, <2>2, CallStep DEF StoreIInv
<1> QED
  BY <1>1, <1>3, <1>4

\* Goto moves one caller and keeps what it has read.
LEMMA GotoFields ==
  ASSUME StoreIInv, NEW p \in Caller, NEW pc, Goto(p, pc)
  PROVE  call' = [call EXCEPT ![p] =
                    [pc |-> pc, request |-> call[p].request, head |-> call[p].head,
                     config |-> call[p].config]]
<1>1. [call[p] EXCEPT !.pc = pc] = [pc |-> pc, request |-> call[p].request,
                                    head |-> call[p].head, config |-> call[p].config]
  <2>1. call[p] = [pc |-> call[p].pc, request |-> call[p].request, head |-> call[p].head,
                   config |-> call[p].config]
    BY CallFields
  <2> QED
    BY <2>1, SMTT(30)
<1>2. call' = [call EXCEPT ![p] = [call[p] EXCEPT !.pc = pc]]
  BY DEF Goto, StoreIInv
<1> QED
  BY <1>1, <1>2

(***************************************************************************)
(* A step of a call that goes on: the caller has established what its next *)
(* step needs.                                                             *)
(***************************************************************************)
LEMMA GotoStep ==
  ASSUME StoreIInv, NEW p \in Caller, NEW pc \in Busy, Goto(p, pc), UNCHANGED <<db, acked>>,
         call[p].pc \in Busy, writer' \subseteq Caller,
         \A q \in Caller \ {p} : writer = {q} => writer' = {q},
         LET r == call[p].request  head == call[p].head
         IN  /\ pc = "lookup" => r.command # Empty /\ HeadRead(db.ops, head)
             /\ pc \in {"begin", "commit"} /\ r.command # Empty => Judged(db.ops, r, head)
             /\ pc = "commit" => /\ writer' = {p} /\ MarkerFollows(db, r)
                                 /\ r.command = Empty => ExpectsTip(r, db)
                                 /\ r.command # Empty => db.meta = head.meta
             /\ pc = "confirm" /\ r.command # Empty => Recorded(db.ops, r)
  PROVE  StoreIInv'
<1> DEFINE r == call[p].request  head == call[p].head
           c == [pc |-> pc, request |-> r, head |-> head, config |-> call[p].config]
<1>1. /\ HasSchema(db) /\ RequestOK(r) /\ call[p].config \in Creating \cup Reopening
  BY CallFields DEF Busy
<1>2. CallOK(p, c, db, writer')
  BY <1>1, CallAt
<1>3. call' = [call EXCEPT ![p] = c]
  BY GotoFields
<1> HIDE DEF c
<1> QED
  BY <1>2, <1>3, CallStep

\* The head that the writable connection reads.
LEMMA ReadHeadStep ==
  ASSUME StoreIInv, NEW p \in Caller, ReadHead(p)
  PROVE  StoreIInv'
<1> DEFINE r == call[p].request
<1>1. call[p].pc = "head" /\ UNCHANGED <<db, writer, acked>> /\ writer \subseteq Caller
  BY DEF ReadHead, StoreIInv
<1>2. /\ HasSchema(db) /\ RequestOK(r) /\ call[p].config \in Creating \cup Reopening
      /\ call[p].pc \in Busy
  BY <1>1, CallFields DEF Busy
<1>3. CASE Return(p)
  BY <1>1, <1>2, <1>3, ReturnStep
<1>4. CASE r.command = Empty /\ Goto(p, "begin")
  <2>1. "begin" \in Busy
    BY DEF Busy
  <2> QED
    BY <1>1, <1>2, <1>4, <2>1, GotoStep
<1>5. CASE /\ r.command # Empty
           /\ call' = [call EXCEPT ![p].head = Readback(db), ![p].pc = "lookup"]
  <2> DEFINE c == [pc |-> "lookup", request |-> r, head |-> Readback(db), config |-> call[p].config]
  <2>1. call' = [call EXCEPT ![p] = c]
    <3>0. call[p] = [pc |-> call[p].pc, request |-> call[p].request, head |-> call[p].head,
                     config |-> call[p].config]
      BY CallFields
    <3>01. IsCallRecord(call[p])
      BY <3>0 DEF IsCallRecord, CallRecord
    <3>1. [call[p] EXCEPT !.head = Readback(db), !.pc = "lookup"] = c
      BY <3>01, HeadReplaced DEF CallRecord
    <3>2. call' = [call EXCEPT ![p] = [call[p] EXCEPT !.head = Readback(db), !.pc = "lookup"]]
      BY <1>5 DEF StoreIInv
    <3> QED
      BY <3>1, <3>2
  <2>2. HeadRead(db.ops, Readback(db))
    BY SMTT(30) DEF HeadRead, Readback, StoreIInv, TablesOK, IsSeq
  <2>3. CallOK(p, c, db, writer')
    <3>1. "lookup" \in Busy
      BY DEF Busy
    <3> QED
      BY <1>2, <1>5, <2>2, <3>1, CallAt
  <2> HIDE DEF c
  <2> QED
    BY <1>1, <2>1, <2>3, CallStep
<1> QED
  BY <1>3, <1>4, <1>5 DEF ReadHead

\* A stored operation is confirmed; a new one is judged against the head.
LEMMA LookupStep ==
  ASSUME StoreIInv, NEW p \in Caller, Lookup(p)
  PROVE  StoreIInv'
<1> DEFINE r == call[p].request  head == call[p].head
<1>1. /\ call[p].pc = "lookup" /\ UNCHANGED <<db, writer, acked>> /\ writer \subseteq Caller
      /\ CallOK(p, call[p], db, writer)
  BY DEF Lookup, StoreIInv
<1>2. call[p].pc \in Busy /\ r.command # Empty /\ HeadRead(db.ops, head)
  BY <1>1 DEF CallOK, Busy
<1>3. DOMAIN db.ops = 1 .. Len(db.ops) /\ Len(db.ops) \in Nat
  BY DEF StoreIInv, TablesOK, IsSeq
<1>4. CASE Return(p)
  BY <1>1, <1>2, <1>4, ReturnStep
<1>5. CASE SameBytes(db, r) /\ Goto(p, "confirm")
  <2>1. Recorded(db.ops, r)
    BY <1>3, <1>5 DEF SameBytes, LoadOperation, Recorded
  <2>2. "confirm" \in Busy
    BY DEF Busy
  <2> QED
    BY <1>1, <1>2, <1>5, <2>1, <2>2, GotoStep
<1>6. CASE /\ ~Stored(db, r) /\ Accepted(head.meta.kernel, HeightOf[r.block], r.command)
           /\ Goto(p, "begin")
  <2>1. \A i \in 1 .. Len(db.ops) : db.ops[i].request.command # r.command
    <3> SUFFICES ASSUME NEW i \in 1 .. Len(db.ops), db.ops[i].request.command = r.command
                 PROVE  FALSE
      OBVIOUS
    <3>1. db.ops[i].receipt.command = r.command /\ db.ops[i].receipt.sequence = i
      BY DEF StoreIInv, OpsOK
    <3>2. i \in LoadOperation(db, r.command)
      BY <1>3, <3>1 DEF LoadOperation
    <3> QED
      BY <1>6, <3>2 DEF Stored
  <2>2. Judged(db.ops, r, head)
    BY <1>2, <1>3, <1>6, <2>1, SMTT(30) DEF Judged, HeadRead
  <2>3. "begin" \in Busy
    BY DEF Busy
  <2> QED
    BY <1>1, <1>2, <1>6, <2>2, <2>3, GotoStep
<1> QED
  BY <1>4, <1>5, <1>6 DEF Lookup

\* BEGIN IMMEDIATE and the second look at the head; a busy database.
LEMMA BeginStep ==
  ASSUME StoreIInv, NEW p \in Caller, Begin(p) \/ BeginBusy(p)
  PROVE  StoreIInv'
<1> DEFINE r == call[p].request  head == call[p].head
<1>1. call[p].pc = "begin" /\ CallOK(p, call[p], db, writer) /\ UNCHANGED <<db, acked>>
  BY DEF Begin, BeginBusy, StoreIInv
<1>2. call[p].pc \in Busy /\ (r.command # Empty => Judged(db.ops, r, head))
  BY <1>1 DEF CallOK, Busy
<1>3. CASE Return(p) /\ UNCHANGED writer
  BY <1>1, <1>2, <1>3, ReturnStep
<1>4. CASE /\ writer = {} /\ writer' = {p} /\ Goto(p, "commit") /\ MarkerFollows(db, r)
           /\ IF r.command = Empty THEN ExpectsTip(r, db) ELSE db.meta = head.meta
  <2>1. "commit" \in Busy
    BY DEF Busy
  <2>2. writer' \subseteq Caller /\ \A q \in Caller \ {p} : writer = {q} => writer' = {q}
    BY <1>4
  <2> QED
    BY <1>1, <1>2, <1>4, <2>1, <2>2, GotoStep
<1> QED
  BY <1>3, <1>4 DEF Begin, BeginBusy

\* fresh_confirm acknowledges what the journal holds.
LEMMA ConfirmStep ==
  ASSUME StoreIInv, NEW p \in Caller, Confirm(p)
  PROVE  StoreIInv'
<1>1. /\ call[p].pc = "confirm" /\ CallOK(p, call[p], db, writer) /\ UNCHANGED <<db, writer>>
      /\ Return(p) /\ acked' \subseteq acked \cup {call[p].request}
  BY DEF Confirm, StoreIInv
<1>2. call[p].request.command # Empty => Recorded(db.ops, call[p].request)
  BY <1>1 DEF CallOK
<1> QED
  BY <1>1, <1>2, ReturnStep DEF Busy

\* A caller that dies gives its transaction up.
LEMMA CrashStep ==
  ASSUME StoreIInv, NEW p \in Caller, Crash(p)
  PROVE  StoreIInv'
<1>1. /\ UNCHANGED <<db, acked>> /\ call' = [call EXCEPT ![p] = Closed]
      /\ writer' = writer \ {p}
  BY DEF Crash
<1>2. CallOK(p, Closed, db, writer')
  BY ClosedCall
<1>3. writer' \subseteq Caller /\ \A q \in Caller \ {p} : writer = {q} => writer' = {q}
  BY <1>1 DEF StoreIInv
<1> QED
  BY <1>1, <1>2, <1>3, CallStep

(***************************************************************************)
(* What the transaction writes: one operation more, or none for an empty   *)
(* block, and a last marker for the block of the request.                  *)
(***************************************************************************)
LEMMA CommittedTables ==
  ASSUME StoreIInv, NEW p \in Caller, Commit(p)
  PROVE  LET r == call[p].request
         IN  /\ TablesOK(db') /\ HasSchema(db') /\ db'.meta.tip = r.block
             /\ r.command = Empty => db'.ops = db.ops /\ db'.meta.kernel = db.meta.kernel
             /\ r.command # Empty =>
                  /\ db'.meta.kernel = ApplyTransition(db.meta.kernel, HeightOf[r.block], r.command)
                  /\ \E receipt :
                       /\ db'.ops = Append(db.ops, [request |-> r, receipt |-> receipt])
                       /\ receipt.command = r.command /\ receipt.sequence = Len(db.ops) + 1
<1> DEFINE r == call[p].request
           k == ApplyTransition(db.meta.kernel, HeightOf[r.block], r.command)
<1>1. call[p].pc = "commit" /\ CallOK(p, call[p], db, writer) /\ db' = Committed(db, r)
  BY DEF Commit, StoreIInv
<1>2. RequestOK(r) /\ HasSchema(db)
  BY <1>1 DEF CallOK, Busy
<1>3. /\ TablesOK(db) /\ Len(db.markers) > 0 /\ IsMarker(LastMarker(db))
  BY <1>2, SMTT(30) DEF StoreIInv, TablesOK, LastMarker, IsSeq
<1>4. ASSUME NEW t PROVE LET ms == AdvanceMarker(db, r, t)
                         IN  /\ IsSeq(ms) /\ Len(ms) > 0 /\ ms[Len(ms)].block = r.block
                             /\ \A i \in 1 .. Len(ms) : IsMarker(ms[i])
  <2> DEFINE ms == AdvanceMarker(db, r, t)  n == Len(db.markers)  tail == LastMarker(db)
  <2>1. IsSeq(db.markers) /\ n \in Nat /\ n > 0 /\ tail = db.markers[n]
    BY <1>3 DEF TablesOK, IsSeq, LastMarker
  <2>2. CASE r.block = tail.block
    <3> DEFINE m == [tail EXCEPT !.target = t]
    <3>1. m = Marker(tail.sequence, tail.block, tail.parent, tail.source, t)
      BY <1>3, SMTT(30) DEF IsMarker, Marker
    <3>2. IsMarker(m) /\ m.block = r.block
      BY <2>2, <3>1 DEF IsMarker, Marker
    <3>3. ms = [db.markers EXCEPT ![n] = m]
      BY <2>1, <2>2 DEF AdvanceMarker
    <3> HIDE DEF m, ms
    <3>4. ms = [i \in 1 .. n |-> ms[i]] /\ ms[n] = m
            /\ \A i \in 1 .. n : i # n => ms[i] = db.markers[i]
      BY <2>1, <3>3, SMTT(30) DEF IsSeq
    <3>5. IsSeq(ms) /\ Len(ms) = n
      BY <2>1, <3>4, FunctionOnInterval
    <3> QED
      BY <1>3, <2>1, <3>2, <3>4, <3>5 DEF TablesOK, ms
  <2>3. CASE r.block # tail.block
    <3> DEFINE m == Marker(tail.sequence + 1, r.block, tail.block, HeadOf(db), t)
    <3>1. IsMarker(m) /\ m.block = r.block
      BY DEF IsMarker, Marker
    <3>2. ms = Append(db.markers, m)
      BY <2>3 DEF AdvanceMarker
    <3> HIDE DEF m, ms
    <3>3. /\ IsSeq(ms) /\ Len(ms) = n + 1 /\ ms[n + 1] = m
          /\ \A i \in 1 .. n : ms[i] = db.markers[i]
      BY <2>1, <3>2, AppendToSeq, SMTT(30)
    <3> QED
      BY <1>3, <2>1, <3>1, <3>3, SMTT(30) DEF TablesOK, ms
  <2> QED
    BY <2>2, <2>3
<1>5. CASE r.command = Empty
  <2> DEFINE ms == AdvanceMarker(db, r, HeadOf(db))
  <2>1. db' = [db EXCEPT !.meta.tip = r.block, !.markers = ms]
    BY <1>1, <1>5 DEF Committed
  <2> HIDE DEF ms
  <2>2. /\ db' = [meta |-> db'.meta, ops |-> db.ops, markers |-> ms]
        /\ db'.meta = Metadata(db.meta.config, db.meta.sequence, r.block, db.meta.kernel,
                               db.meta.journal)
    BY <1>3, <2>1 DEF TablesOK, Metadata
  <2>3. HasSchema(db')
    BY <1>2, <2>2, SMTT(30) DEF HasSchema, Metadata
  <2>4. TablesOK(db')
    <3>1. /\ IsSeq(ms) /\ Len(ms) > 0 /\ ms[Len(ms)].block = r.block
          /\ \A i \in 1 .. Len(ms) : IsMarker(ms[i])
      BY <1>4 DEF ms
    <3> QED
      BY <1>2, <1>3, <2>2, <2>3, <3>1, SMTT(30) DEF TablesOK, Metadata, LastMarker, RequestOK
  <2> QED
    BY <1>5, <2>2, <2>3, <2>4, SMTT(30) DEF Metadata
<1>6. CASE r.command # Empty
  <2> DEFINE receipt == TransitionReceipt(Len(db.ops) + 1, r, k)
             ops == Append(db.ops, [request |-> r, receipt |-> receipt])
             n == [db EXCEPT !.ops = ops]
             root == JournalRoot(n, Len(n.ops))
             ms == AdvanceMarker(db, r, Position(Len(n.ops), k, root))
  <2>1. db' = [n EXCEPT !.meta = Metadata(db.meta.config, Len(n.ops), r.block, k, root),
                        !.markers = ms]
    BY <1>1, <1>6 DEF Committed, CommittedCommand, InsertOperation
  <2>2. n = [meta |-> db.meta, ops |-> ops, markers |-> db.markers]
    <3>1. db = [meta |-> db.meta, ops |-> db.ops, markers |-> db.markers]
      BY <1>3 DEF TablesOK
    <3> HIDE DEF ops
    <3> QED
      BY <3>1, SMTT(30)
  <2>3. /\ IsSeq(ms) /\ Len(ms) > 0 /\ ms[Len(ms)].block = r.block
        /\ \A i \in 1 .. Len(ms) : IsMarker(ms[i])
    BY <1>4
  <2>4. receipt.command = r.command /\ receipt.sequence = Len(db.ops) + 1
    BY DEF TransitionReceipt
  <2>5. KernelOK(k)
    BY <1>2, <1>3, <1>6, TransitionKeepsKernel DEF TablesOK, RequestOK
  <2>6. IsSeq(ops)
    BY <1>3, AppendToSeq DEF TablesOK
  <2> HIDE DEF ms, root, k, receipt
  <2>7. /\ db' = [meta |-> db'.meta, ops |-> ops, markers |-> ms]
        /\ db'.meta = Metadata(db.meta.config, Len(ops), r.block, k, root)
    BY <2>1, <2>2
  <2> HIDE DEF n, ops
  <2>8. HasSchema(db')
    BY <1>2, <2>7, SMTT(30) DEF HasSchema, Metadata
  <2>9. TablesOK(db')
    BY <1>2, <2>3, <2>5, <2>6, <2>7, <2>8, SMTT(30) DEF TablesOK, Metadata, LastMarker, RequestOK
  <2> QED
    BY <1>6, <2>4, <2>7, <2>8, <2>9, SMTT(30) DEF Metadata, ops, k
<1> QED
  BY <1>5, <1>6

(***************************************************************************)
(* The commit.  The head was unchanged inside the transaction, so none of  *)
(* the operations in the table is the one that is inserted.  No other      *)
(* caller is inside a transaction, and what the others read still stands.  *)
(***************************************************************************)
LEMMA CommitStep ==
  ASSUME StoreIInv, NEW p \in Caller, Commit(p)
  PROVE  StoreIInv'
<1> DEFINE r == call[p].request  n == Len(db.ops)
<1>1. call[p].pc = "commit" /\ CallOK(p, call[p], db, writer) /\ writer' = {} /\ Goto(p, "confirm") /\ UNCHANGED acked
  BY DEF Commit, StoreIInv
<1>2. /\ TablesOK(db') /\ HasSchema(db')
      /\ r.command = Empty => db'.ops = db.ops
      /\ r.command # Empty =>
           \E receipt : /\ db'.ops = Append(db.ops, [request |-> r, receipt |-> receipt])
                        /\ receipt.command = r.command /\ receipt.sequence = n + 1
  BY CommittedTables
<1>3. /\ RequestOK(r) /\ CallShape(call[p]) /\ call[p].config \in Creating \cup Reopening
      /\ writer = {p}
      /\ r.command # Empty => Judged(db.ops, r, call[p].head) /\ db.meta = call[p].head.meta
  BY <1>1 DEF CallOK, CallShape, Busy
<1>4. IsSeq(db.ops) /\ n \in Nat /\ db.meta.sequence = n
  BY DEF StoreIInv, TablesOK, IsSeq
<1>5. /\ Len(db'.ops) \in Nat /\ Len(db'.ops) >= n
      /\ \A i \in 1 .. n : db'.ops[i] = db.ops[i]
      /\ r.command = Empty => Len(db'.ops) = n
      /\ r.command # Empty =>
           /\ Len(db'.ops) = n + 1 /\ db'.ops[n + 1].request = r
           /\ db'.ops[n + 1].receipt.command = r.command
           /\ db'.ops[n + 1].receipt.sequence = n + 1
  <2>1. CASE r.command = Empty
    BY <1>2, <1>4, <2>1, SMTT(30)
  <2>2. CASE r.command # Empty
    <3>1. PICK receipt : /\ db'.ops = Append(db.ops, [request |-> r, receipt |-> receipt])
                         /\ receipt.command = r.command /\ receipt.sequence = n + 1
      BY <1>2, <2>2
    <3> DEFINE e == [request |-> r, receipt |-> receipt]
    <3>2. e.request = r /\ e.receipt = receipt
      OBVIOUS
    <3> HIDE DEF e
    <3>3. /\ Len(db'.ops) = n + 1 /\ db'.ops[n + 1] = e
          /\ \A i \in 1 .. n : db'.ops[i] = db.ops[i]
      BY <1>4, <3>1, AppendToSeq, SMTT(30) DEF e
    <3> QED
      BY <1>4, <2>2, <3>1, <3>2, <3>3, SMTT(30)
  <2> QED
    BY <2>1, <2>2
<1>6. r.command # Empty => \A i \in 1 .. n : db.ops[i].request.command # r.command
  <2> SUFFICES ASSUME r.command # Empty
               PROVE  \A i \in 1 .. n : db.ops[i].request.command # r.command
    OBVIOUS
  <2>1. call[p].head.meta.sequence = n
    BY <1>3, <1>4
  <2>2. \A i \in 1 .. call[p].head.meta.sequence : db.ops[i].request.command # r.command
    BY <1>3 DEF Judged
  <2> QED
    BY <2>1, <2>2
<1>7. r.command # Empty => Signable(r.command)
  BY <1>3 DEF RequestOK
<1> HIDE DEF r, n
<1>8. OpsOK(db'.ops)
  <2>1. \A i \in 1 .. n : /\ Signable(db.ops[i].request.command)
                          /\ db.ops[i].receipt.sequence = i
                          /\ db.ops[i].receipt.command = db.ops[i].request.command
    BY DEF StoreIInv, OpsOK, n
  <2>2. \A i, j \in 1 .. n : db.ops[i].request.command = db.ops[j].request.command => i = j
    BY DEF StoreIInv, OpsOK, n
  <2>3. CASE r.command = Empty
    <3>1. db'.ops = db.ops
      BY <1>2, <2>3
    <3> QED
      BY <2>1, <2>2, <3>1 DEF OpsOK, n
  <2>4. CASE r.command # Empty
    <3>1. \A i \in 1 .. Len(db'.ops) : i \in 1 .. n \/ i = n + 1
      BY <1>4, <1>5, <2>4, SMTT(30)
    <3>2. \A i \in 1 .. Len(db'.ops) : /\ Signable(db'.ops[i].request.command)
                                      /\ db'.ops[i].receipt.sequence = i
                                      /\ db'.ops[i].receipt.command = db'.ops[i].request.command
      BY <1>5, <1>7, <2>1, <2>4, <3>1
    <3>3. \A i \in 1 .. n : db'.ops[i].request.command # db'.ops[n + 1].request.command
      BY <1>5, <1>6, <2>4
    <3>4. \A i, j \in 1 .. n : db'.ops[i].request.command = db'.ops[j].request.command => i = j
      BY <1>5, <2>2
    <3>5. \A i, j \in 1 .. Len(db'.ops) :
            db'.ops[i].request.command = db'.ops[j].request.command => i = j
      BY <3>1, <3>3, <3>4
    <3> QED
      BY <3>2, <3>5 DEF OpsOK
  <2> QED
    BY <2>3, <2>4
<1>9. ASSUME NEW q, Recorded(db.ops, q) PROVE Recorded(db'.ops, q)
  BY <1>4, <1>5, <1>9, SMTT(30) DEF Recorded, n
<1>10. AckedOK(acked', db'.ops)
  BY <1>1, <1>9 DEF StoreIInv, AckedOK
<1>11. CallOK(p, call'[p], db', writer')
  <2> DEFINE c == [pc |-> "confirm", request |-> r, head |-> call[p].head,
                   config |-> call[p].config]
  <2>1. call'[p] = c
    <3>1. call' = [call EXCEPT ![p] = c]
      BY <1>1, GotoFields DEF r
    <3> HIDE DEF c
    <3> QED
      BY <3>1 DEF StoreIInv
  <2>2. r.command # Empty => Recorded(db'.ops, r)
    BY <1>4, <1>5, SMTT(30) DEF Recorded
  <2>3. CallOK(p, c, db', writer')
    <3>1. "confirm" \in Busy
      BY DEF Busy
    <3> QED
      BY <1>2, <1>3, <2>2, <3>1, CallAt
  <2> HIDE DEF c
  <2> QED
    BY <2>1, <2>3
<1>12. ASSUME NEW q \in Caller, q # p PROVE CallOK(q, call'[q], db', writer')
  <2>1. CallOK(q, call[q], db, writer) /\ call'[q] = call[q] /\ call[q].pc # "commit"
    BY <1>1, <1>3, <1>12 DEF StoreIInv, Goto, CallOK
  <2>2. ASSUME NEW h, HeadRead(db.ops, h) PROVE HeadRead(db'.ops, h)
    BY <1>4, <1>5, <2>2, SMTT(30) DEF HeadRead, n
  <2>3. ASSUME NEW x, NEW h, Judged(db.ops, x, h) PROVE Judged(db'.ops, x, h)
    <3>1. HeadRead(db.ops, h) /\ HeadRead(db'.ops, h)
      BY <2>2, <2>3 DEF Judged
    <3> QED
      BY <1>4, <1>5, <2>3, <3>1, SMTT(30) DEF Judged, HeadRead, n
  <2>4. /\ HeadRead(db.ops, call[q].head) => HeadRead(db'.ops, call[q].head)
        /\ Judged(db.ops, call[q].request, call[q].head) => Judged(db'.ops, call[q].request, call[q].head)
        /\ Recorded(db.ops, call[q].request) => Recorded(db'.ops, call[q].request)
    BY <1>9, <2>1, <2>2, <2>3 DEF HeadRead, Judged, Recorded
  <2> QED
    BY <1>2, <2>1, <2>4 DEF CallOK, RequestOK
<1>13. call' = [q \in Caller |-> call'[q]]
  BY <1>1 DEF StoreIInv, Goto
<1> QED
  BY <1>1, <1>2, <1>8, <1>10, <1>11, <1>12, <1>13 DEF StoreIInv

\* Every step of a caller or of the preview keeps the invariant.
LEMMA StoreStepIInv == StoreIInv /\ [StoreNext]_storeVars => StoreIInv'
<1> SUFFICES ASSUME StoreIInv, [StoreNext]_storeVars PROVE StoreIInv'
  OBVIOUS
<1>1. CASE UNCHANGED <<db, writer, call, acked>>
  BY <1>1 DEF StoreIInv
<1>2. ASSUME NEW p \in Caller, Step(p) PROVE StoreIInv'
  <2>1. CASE \E config \in Creating : Open(p, config)
    BY <2>1, CreateSteps
  <2>2. CASE \E config \in Reopening : OpenExisting(p, config)
    BY <2>2, OpenStep DEF OpenExisting, OpensAs, Readable
  <2>3. CASE CreateTables(p)
    BY <2>3, CreateSteps
  <2> QED
    BY <1>2, <2>1, <2>2, <2>3, BeginCallStep, ReadHeadStep, LookupStep, BeginStep,
       CommitStep, ConfirmStep, CrashStep DEF Step
<1>3. CASE PreviewStep
  BY <1>1, <1>3 DEF PreviewStep, PreviewStart, PreviewState, PreviewApply, PreviewEnd
<1>4. CASE UNCHANGED storeVars
  BY <1>1, <1>4 DEF storeVars
<1> QED
  BY <1>2, <1>3, <1>4 DEF StoreNext
-----------------------------------------------------------------------------
\* The inductive invariant holds in every state of the store.
THEOREM StoreInvariant == StoreSpec => []StoreIInv
  BY StoreInitIInv, StoreStepIInv, PTL DEF StoreSpec

(***************************************************************************)
(* AckedAsRequested, for any number of callers, retries, forks and         *)
(* crashes: a receipt stands for an operation the journal holds under the  *)
(* requested context, and holds once.                                      *)
(***************************************************************************)
THEOREM AckedStoredOnce == StoreSpec => []AckedAsRequested
<1>1. StoreIInv => AckedAsRequested
  <2> SUFFICES ASSUME StoreIInv, NEW r \in acked, r.command # Empty
               PROVE  /\ \E i \in DOMAIN db.ops : db.ops[i].request = r
                      /\ \A i, j \in DOMAIN db.ops :
                           db.ops[i].request.command = r.command
                             /\ db.ops[j].request.command = r.command => i = j
    BY DEF AckedAsRequested
  <2>1. DOMAIN db.ops = 1 .. Len(db.ops)
    BY DEF StoreIInv, TablesOK, IsSeq
  <2> QED
    BY <2>1, SMTT(30) DEF StoreIInv, AckedOK, Recorded, OpsOK
<1> QED
  BY <1>1, StoreInvariant, PTL

\* A commit is one step of the engine.
LEMMA CommitIsEngineStep ==
  ASSUME StoreIInv, NEW p \in Caller, Commit(p)
  PROVE  E!Next
<1> DEFINE r == call[p].request  b == r.block  k == db.meta.kernel
<1>1. call[p].pc = "commit" /\ CallOK(p, call[p], db, writer)
  BY DEF Commit, StoreIInv
<1>2. /\ HasSchema(db) /\ b \in Block /\ MarkerFollows(db, r)
      /\ r.command = Empty => HeightOf[b] = HeightOf[r.expected] + 1 /\ ExpectsTip(r, db)
      /\ r.command # Empty =>
           /\ Signable(r.command) /\ db.meta = call[p].head.meta
           /\ Judged(db.ops, r, call[p].head)
  BY <1>1 DEF CallOK, Busy, RequestOK
<1>3. LastMarker(db).block = db.meta.tip /\ db.meta.tip \in Block
  BY <1>2 DEF StoreIInv, TablesOK
<1>4. /\ db'.meta.tip = b
      /\ r.command = Empty => db'.meta.kernel = k
      /\ r.command # Empty => db'.meta.kernel = ApplyTransition(k, HeightOf[b], r.command)
  BY CommittedTables
<1>5. CASE r.command = Empty
  <2>1. HeightOf[b] = HeightOf[db.meta.tip] + 1
    BY <1>2, <1>5 DEF ExpectsTip
  <2>2. E!AdvanceEmpty(b)
    BY <1>4, <1>5, <2>1 DEF E!AdvanceEmpty
  <2> QED
    BY <1>2, <2>2 DEF E!Next
<1>6. CASE r.command # Empty
  <2>1. b = db.meta.tip \/ HeightOf[b] = HeightOf[db.meta.tip] + 1
    BY <1>2, <1>3 DEF MarkerFollows
  <2>2. E!ExtendsTip(b)
    <3>1. HeightOf[db.meta.tip] \in Nat
      BY <1>3, BlockAssumption
    <3> QED
      BY <2>1, <3>1 DEF E!ExtendsTip
  <2>3. Accepted(k, HeightOf[b], r.command)
    BY <1>2, <1>6 DEF Judged
  <2>4. r.command \in E!Commands(k, HeightOf[b])
    BY <1>2, <1>6, <2>3, AcceptedIsOffered
  <2>5. E!Execute(b, r.command)
    BY <1>4, <1>6, <2>2, <2>3, SameKernel DEF E!Execute
  <2> QED
    BY <1>2, <2>4, <2>5 DEF E!Next
<1> QED
  BY <1>5, <1>6

(***************************************************************************)
(* ImplementsEngine: whatever heads callers read before their transactions *)
(* and whatever they submit again, every commit is one accepted command or *)
(* one empty block on top of the tip, and nothing else changes the state.  *)
(***************************************************************************)
THEOREM StoreImplementsEngine == StoreSpec => ImplementsEngine
<1>1. StoreInit => E!Init
  <2>1. InitialKernel = E!InitialKernel
    BY DEF InitialKernel, E!InitialKernel, Account, E!Account
  <2>2. Absent.meta.kernel = InitialKernel /\ Absent.meta.tip = GenesisBlock
    BY DEF Absent, NoStore, Metadata
  <2> QED
    BY <2>1, <2>2 DEF StoreInit, E!Init
<1>2. StoreIInv /\ [StoreNext]_storeVars => [E!Next]_(E!engineVars)
  <2> SUFFICES ASSUME StoreIInv, [StoreNext]_storeVars,
                      ~(db'.meta.kernel = db.meta.kernel /\ db'.meta.tip = db.meta.tip)
               PROVE  E!Next
    BY DEF E!engineVars
  <2>1. ~UNCHANGED db
    OBVIOUS
  <2>2. ~HasSchema(db) => db.meta.kernel = InitialKernel /\ db.meta.tip = GenesisBlock
    BY SMTT(30) DEF StoreIInv, TablesOK, Absent, Blank, NoStore, Metadata
  <2>3. ASSUME NEW p \in Caller, Step(p) PROVE Commit(p)
    <3>1. ASSUME NEW config, Open(p, config) PROVE FALSE
      <4>1. db' = Blank /\ ~HasSchema(db)
        BY <2>1, <3>1 DEF Open, Exists, HasSchema
      <4> QED
        BY <2>2, <4>1 DEF Blank, NoStore, Metadata
    <3>2. ~CreateTables(p)
      <4> SUFFICES ASSUME CreateTables(p) PROVE FALSE
        OBVIOUS
      <4>1. db' = FreshStore(call[p].config) /\ ~HasSchema(db)
        BY <2>1 DEF CreateTables
      <4> QED
        BY <2>2, <4>1 DEF FreshStore, NoStore, Metadata
    <3> QED
      BY <2>1, <2>3, <3>1, <3>2
      DEF Step, OpenExisting, BeginCall, Start, RetryEmpty, ReadHead, Lookup, Begin, BeginBusy,
          Confirm, Crash
  <2>4. ~PreviewStep
    BY <2>1 DEF PreviewStep, PreviewStart, PreviewState, PreviewApply, PreviewEnd
  <2> QED
    BY <2>1, <2>3, <2>4, CommitIsEngineStep DEF StoreNext, storeVars
<1> QED
  BY <1>1, <1>2, StoreInvariant, PTL DEF StoreSpec, ImplementsEngine, E!Spec
=============================================================================
