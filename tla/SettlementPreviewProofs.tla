---------------------- MODULE SettlementPreviewProofs -----------------------
(***************************************************************************)
(* Proofs about preview_before_vote_v1 of SettlementStore, which runs      *)
(* while other callers append to the journal: a finished preview is what   *)
(* committing its batch gives.                                             *)
(***************************************************************************)
EXTENDS SettlementStoreProofs

USE ZenonT(40)

\* A function on 1 .. n is a sequence.
LEMMA IntervalSeq ==
  ASSUME NEW S, NEW n \in Nat, NEW f \in [1 .. n -> S]
  PROVE  f \in Seq(S)
  BY SMTT(30)

\* One sequence after another.
LEMMA JoinedSeqs ==
  ASSUME NEW S, NEW s \in Seq(S), NEW t \in Seq(S)
  PROVE  /\ Len(s \o t) = Len(s) + Len(t)
         /\ \A i \in 1 .. Len(s) + Len(t) :
              (s \o t)[i] = IF i <= Len(s) THEN s[i] ELSE t[i - Len(s)]
  BY SMTT(30)

(***************************************************************************)
(* The preview.  Extended(ops, n, b, cs): the state after the first n      *)
(* operations of the journal and then the commands cs in block b.          *)
(***************************************************************************)
\* What the replay of the journal does with one of its operations.
ReplayTurn(k, o) == ApplyTransition(k, HeightOf[o.block], o.command)
LOCAL R == INSTANCE LoopFacts WITH Origin <- InitialKernel, Turn <- ReplayTurn

Operation(b, c) == [block |-> b, command |-> c]

Candidate(ops, n, b, cs) ==
  [i \in 1 .. n + Len(cs) |->
     IF i <= n THEN Operation(ops[i].request.block, ops[i].request.command)
     ELSE Operation(b, cs[i - n])]

Extended(ops, n, b, cs) ==
  R!Loop(Candidate(ops, n, b, cs), n + Len(cs))[n + Len(cs)]

\* The replay of the store is the loop.
LEMMA ReplayIsLoop == \A j : ReplayStates(j) = R!Loop(j, Len(j))
  BY DEF ReplayStates, R!Loop, ReplayTurn

\* One command more is one transition more.
LEMMA ExtendedByOne ==
  ASSUME NEW ops, NEW n \in Nat, NEW b, NEW cs, IsSeq(cs), NEW c
  PROVE  Extended(ops, n, b, Append(cs, c))
           = ApplyTransition(Extended(ops, n, b, cs), HeightOf[b], c)
<1> DEFINE ds == Append(cs, c)  m == n + Len(cs)
           i == Candidate(ops, n, b, cs)  j == Candidate(ops, n, b, ds)
<1>1. /\ Len(cs) \in Nat /\ Len(ds) = Len(cs) + 1 /\ ds[Len(cs) + 1] = c
      /\ \A x \in 1 .. Len(cs) : ds[x] = cs[x]
  <2>1. IsSeq(cs) /\ Len(cs) \in Nat
    BY DEF IsSeq
  <2> QED
    BY <2>1, AppendToSeq, SMTT(30)
<1> HIDE DEF ds
<1>2. /\ m \in Nat /\ m + 1 \in Nat /\ m <= m + 1 /\ n + Len(ds) = m + 1
      /\ m \in 0 .. m /\ m + 1 \in 0 .. m + 1 /\ m + 1 # 0 /\ m + 1 - 1 = m
      /\ m + 1 \in 1 .. m + 1 /\ ~(m + 1 <= n) /\ m + 1 - n = Len(cs) + 1
  BY <1>1, SMTT(30)
<1>3. ASSUME NEW x \in 1 .. m PROVE i[x] = j[x]
  <2>1. x \in 1 .. m + 1 /\ (~(x <= n) => x - n \in 1 .. Len(cs))
    BY <1>1, SMTT(30)
  <2>2. i[x] = IF x <= n THEN Operation(ops[x].request.block, ops[x].request.command)
               ELSE Operation(b, cs[x - n])
    BY DEF Candidate
  <2>3. j[x] = IF x <= n THEN Operation(ops[x].request.block, ops[x].request.command)
               ELSE Operation(b, ds[x - n])
    BY <1>2, <2>1 DEF Candidate
  <2> QED
    BY <1>1, <2>1, <2>2, <2>3
<1>4. j[m + 1] = Operation(b, c)
  <2>1. j[m + 1] = IF m + 1 <= n
                   THEN Operation(ops[m + 1].request.block, ops[m + 1].request.command)
                   ELSE Operation(b, ds[m + 1 - n])
    BY <1>2, SMTT(30) DEF Candidate
  <2> QED
    BY <1>1, <1>2, <2>1
<1> HIDE DEF i, j, m
<1>5. R!Loop(i, m)[m] = R!Loop(j, m + 1)[m]
  BY <1>2, <1>3, R!LoopAgrees, SMTT(30)
<1>6. R!Loop(j, m + 1)[m + 1] = ReplayTurn(R!Loop(j, m + 1)[m], Operation(b, c))
  BY <1>2, <1>4, R!LoopTurn, SMTT(30)
<1>7. Extended(ops, n, b, ds) = R!Loop(j, m + 1)[m + 1]
        /\ Extended(ops, n, b, cs) = R!Loop(i, m)[m]
  BY <1>2 DEF Extended, i, j, m
<1>8. Operation(b, c).block = b /\ Operation(b, c).command = c
  BY DEF Operation
<1> QED
  BY <1>5, <1>6, <1>7, <1>8 DEF ReplayTurn, ds

\* Operations that are appended to the journal do not change it.
Continues(new, ops, n) == \A i \in 1 .. n : new[i] = ops[i]

\* The same operations and commands lead to the same state.
LEMMA ExtendedKept ==
  ASSUME NEW ops, NEW new, NEW n \in Nat, NEW b, NEW cs, IsSeq(cs), Continues(new, ops, n)
  PROVE  Extended(new, n, b, cs) = Extended(ops, n, b, cs)
<1>1. ASSUME NEW i \in 1 .. n + Len(cs), i <= n PROVE i \in 1 .. n
  BY <1>1, SMTT(30) DEF IsSeq
<1>2. Candidate(new, n, b, cs) = Candidate(ops, n, b, cs)
  BY <1>1 DEF Candidate, Continues
<1> QED
  BY <1>2 DEF Extended

\* The state of an audited store is that after all its operations.
LEMMA AuditedState ==
  ASSUME NEW d, IsSeq(d.ops), Audit(d), NEW b
  PROVE  d.meta.kernel = Extended(d.ops, Len(d.ops), b, <<>>)
<1> DEFINE n == Len(d.ops)  i == [x \in 1 .. n |-> d.ops[x].request]
           j == Candidate(d.ops, n, b, <<>>)
<1>1. n \in Nat /\ Len(<<>>) = 0
  BY ShortSeqs DEF IsSeq
<1>2. i = [x \in 1 .. n |-> i[x]] /\ \A x \in 1 .. n : i[x] = d.ops[x].request
  OBVIOUS
<1>3. d.meta.kernel = ReplayStates(i)[n]
  BY DEF Audit
<1> HIDE DEF i
<1>4. Len(i) = n
  BY <1>1, <1>2, FunctionOnInterval
<1>5. n + Len(<<>>) = n /\ n \in 0 .. n /\ n <= n /\ \A x \in 1 .. n : x <= n
  BY <1>1, SMTT(30)
<1>6. \A x \in 1 .. n : j[x] = Operation(i[x].block, i[x].command)
  BY <1>2, <1>5 DEF Candidate
<1> HIDE DEF j, n
<1>7. R!SameTurns(i, j, n)
  <2>1. \A o, c : Operation(o, c).block = o /\ Operation(o, c).command = c
    BY DEF Operation
  <2> SUFFICES ASSUME NEW x \in 1 .. n, NEW k PROVE ReplayTurn(k, i[x]) = ReplayTurn(k, j[x])
    BY DEF R!SameTurns
  <2>2. j[x].block = i[x].block /\ j[x].command = i[x].command
    BY <1>6, <2>1, SMTT(30)
  <2> QED
    BY <2>2 DEF ReplayTurn
<1>8. R!Loop(i, n)[n] = R!Loop(j, n)[n]
  <2>1. n \in Nat /\ n <= n
    BY <1>1, <1>5
  <2>2. \A x \in 0 .. n : R!Loop(i, n)[x] = R!Loop(j, n)[x]
    BY <1>7, <2>1, R!LoopsAlike, SMTT(30)
  <2> QED
    BY <1>5, <2>2
<1> QED
  BY <1>3, <1>4, <1>5, <1>8, ReplayIsLoop DEF Extended, j, n

(***************************************************************************)
(* PreviewOK: a preview in progress holds the state after some prefix of   *)
(* the journal, no shorter than its source, and its commands.  A journal   *)
(* that is back at the source when the preview ends never left it, since   *)
(* operations are only appended.                                           *)
(***************************************************************************)
PreviewRecord(pc, source, b, cs, state) ==
  [pc |-> pc, source |-> source, block |-> b, commands |-> cs, state |-> state]

PreviewOK(v, ops) ==
  /\ v = PreviewRecord(v.pc, v.source, v.block, v.commands, v.state)
  /\ v.pc \in {"idle", "state", "apply", "done"}
  /\ IsSeq(v.commands)
  /\ v.pc = "state" => v.commands = <<>>
  /\ v.pc # "idle" => HeadRead(ops, v.source)
  /\ v.pc = "apply" => \E n \in v.source.meta.sequence .. Len(ops) :
                          v.state = Extended(ops, n, v.block, v.commands)
  /\ v.pc = "done" => v.state = Extended(ops, v.source.meta.sequence, v.block, v.commands)

\* No preview in progress.
LEMMA NoPreviewOK == \A ops : PreviewOK(NoPreview, ops)
  BY ShortSeqs DEF PreviewOK, PreviewRecord, NoPreview

\* What has to be established for a preview to be at each of its steps.
LEMMA PreviewAt ==
  ASSUME NEW pc \in {"state", "apply", "done"}, NEW source, NEW b, NEW cs, NEW state, NEW ops,
         IsSeq(cs), HeadRead(ops, source), pc = "state" => cs = <<>>,
         NEW n \in source.meta.sequence .. Len(ops),
         pc = "done" => n = source.meta.sequence,
         pc # "state" => state = Extended(ops, n, b, cs)
  PROVE  PreviewOK(PreviewRecord(pc, source, b, cs, state), ops)
<1> DEFINE v == PreviewRecord(pc, source, b, cs, state)
<1>1. v.pc = pc /\ v.source = source /\ v.block = b /\ v.commands = cs /\ v.state = state
  BY DEF PreviewRecord
<1> HIDE DEF v
<1>2. v = PreviewRecord(v.pc, v.source, v.block, v.commands, v.state)
  BY <1>1 DEF v
<1>3. PreviewOK(v, ops)
  BY <1>1, <1>2 DEF PreviewOK
<1> QED
  BY <1>3 DEF v

\* What the preview needs of the store: the metadata count its operations,
\* and a step leaves those there are in place.
OpsCounted == IsSeq(db.ops) /\ db.meta.sequence = Len(db.ops)

OpsContinue ==
  /\ Len(db.ops) \in Nat /\ Len(db'.ops) \in Nat /\ Len(db.ops) <= Len(db'.ops)
  /\ Continues(db'.ops, db.ops, Len(db.ops))

\* What others commit leaves a preview alone.
LEMMA PreviewKept ==
  ASSUME OpsContinue, PreviewOK(preview, db.ops), UNCHANGED preview
  PROVE  PreviewOK(preview', db'.ops)
<1> DEFINE s == preview.source.meta.sequence
<1>1. /\ Len(db.ops) \in Nat /\ Len(db'.ops) \in Nat /\ Len(db.ops) <= Len(db'.ops)
      /\ \A i \in 1 .. Len(db.ops) : db'.ops[i] = db.ops[i]
  BY DEF OpsContinue, Continues
<1>2. IsSeq(preview.commands)
  BY DEF PreviewOK
<1>3. ASSUME NEW n \in 0 .. Len(db.ops)
      PROVE  Extended(db'.ops, n, preview.block, preview.commands)
               = Extended(db.ops, n, preview.block, preview.commands)
  <2>1. n \in Nat /\ \A i \in 1 .. n : i \in 1 .. Len(db.ops)
    BY <1>1, SMTT(30)
  <2>2. Continues(db'.ops, db.ops, n)
    BY <1>1, <2>1 DEF Continues
  <2> QED
    BY <1>2, <2>1, <2>2, ExtendedKept, SMTT(30)
<1>4. CASE preview.pc = "idle"
  BY <1>4 DEF PreviewOK
<1>5. CASE preview.pc # "idle"
  <2>1. s \in 0 .. Len(db.ops) /\ s \in 0 .. Len(db'.ops) /\ HeadRead(db'.ops, preview.source)
    BY <1>1, <1>5, SMTT(30) DEF PreviewOK, HeadRead
  <2>2. ASSUME NEW n \in s .. Len(db.ops)
        PROVE  n \in 0 .. Len(db.ops) /\ n \in s .. Len(db'.ops)
    BY <1>1, <2>1, SMTT(30)
  <2>3. CASE preview.pc = "apply"
    <3>1. PICK n \in s .. Len(db.ops) :
            preview.state = Extended(db.ops, n, preview.block, preview.commands)
      BY <2>3 DEF PreviewOK
    <3>2. preview.state = Extended(db'.ops, n, preview.block, preview.commands)
      BY <1>3, <2>2, <3>1
    <3> QED
      BY <2>1, <2>2, <2>3, <3>2 DEF PreviewOK
  <2>4. CASE preview.pc # "apply"
    BY <1>3, <1>5, <2>1, <2>4 DEF PreviewOK
  <2> QED
    BY <2>3, <2>4
<1> QED
  BY <1>4, <1>5

\* Every step of the preview keeps what it needs.
LEMMA PreviewSteps ==
  ASSUME OpsCounted, PreviewOK(preview, db.ops), PreviewStep
  PROVE  PreviewOK(preview', db'.ops)
<1> DEFINE v == preview  s == v.source.meta.sequence
<1>1. UNCHANGED db
  BY DEF PreviewStep, PreviewStart, PreviewState, PreviewApply, PreviewEnd
<1>2. IsSeq(db.ops) /\ Len(db.ops) \in Nat /\ db.meta.sequence = Len(db.ops)
  BY DEF OpsCounted, IsSeq
<1>3. /\ v = PreviewRecord(v.pc, v.source, v.block, v.commands, v.state)
      /\ IsSeq(v.commands) /\ IsSeq(<<>>)
  BY ShortSeqs DEF PreviewOK
<1>4. CASE preview' = NoPreview
  BY <1>1, <1>4, NoPreviewOK
<1>5. ASSUME NEW b, PreviewStart(b) PROVE PreviewOK(preview', db'.ops)
  <2>1. preview' = PreviewRecord("state", Readback(db), b, <<>>, InitialKernel)
    BY <1>5 DEF PreviewStart, NoPreview, PreviewRecord
  <2>2. Readback(db).meta = db.meta
    BY DEF Readback
  <2>3. HeadRead(db.ops, Readback(db)) /\ Len(db.ops) \in Readback(db).meta.sequence .. Len(db.ops)
    BY <1>2, <2>2, SMTT(30) DEF HeadRead
  <2> QED
    BY <1>1, <1>3, <2>1, <2>3, PreviewAt
<1>6. CASE PreviewState /\ preview' # NoPreview
  <2>1. /\ preview' = [v EXCEPT !.pc = "apply", !.state = db.meta.kernel]
        /\ v.pc = "state" /\ Audit(db)
    BY <1>6 DEF PreviewState, Readable
  <2>2. preview' = PreviewRecord("apply", v.source, v.block, v.commands, db.meta.kernel)
    BY <1>3, <2>1 DEF PreviewRecord
  <2>3. v.commands = <<>> /\ HeadRead(db.ops, v.source)
    BY <2>1 DEF PreviewOK
  <2>4. db.meta.kernel = Extended(db.ops, Len(db.ops), v.block, v.commands)
    BY <1>2, <2>1, <2>3, AuditedState
  <2>5. Len(db.ops) \in s .. Len(db.ops)
    BY <1>2, <2>3, SMTT(30) DEF HeadRead
  <2> QED
    BY <1>1, <1>3, <2>2, <2>3, <2>4, <2>5, PreviewAt
<1>7. ASSUME NEW c, PreviewApply(c), preview' # NoPreview PROVE PreviewOK(preview', db'.ops)
  <2> DEFINE cs == Append(v.commands, c)  state == ApplyTransition(v.state, HeightOf[v.block], c)
  <2>1. preview' = [v EXCEPT !.commands = cs, !.state = state] /\ v.pc = "apply"
    BY <1>7 DEF PreviewApply
  <2>2. IsSeq(cs)
    BY <1>3, AppendToSeq
  <2>3. HeadRead(db.ops, v.source)
    BY <2>1 DEF PreviewOK
  <2>4. PICK n \in s .. Len(db.ops) : v.state = Extended(db.ops, n, v.block, v.commands)
    BY <2>1 DEF PreviewOK
  <2>5. n \in Nat
    BY <1>2, <2>3, SMTT(30) DEF HeadRead
  <2>6. state = Extended(db.ops, n, v.block, cs)
    <3>1. IsSeq(v.commands)
      BY <1>3
    <3>2. Extended(db.ops, n, v.block, cs)
            = ApplyTransition(Extended(db.ops, n, v.block, v.commands), HeightOf[v.block], c)
      BY <2>5, <3>1, ExtendedByOne, SMTT(30)
    <3> QED
      BY <2>4, <3>2
  <2> HIDE DEF cs, state
  <2>7. preview' = PreviewRecord("apply", v.source, v.block, cs, state)
    BY <1>3, <2>1 DEF PreviewRecord
  <2> QED
    BY <1>1, <2>2, <2>3, <2>6, <2>7, PreviewAt
<1>8. CASE PreviewEnd /\ preview' # NoPreview
  <2>1. preview' = [v EXCEPT !.pc = "done"] /\ v.pc = "apply" /\ Readback(db) = v.source
    BY <1>8 DEF PreviewEnd
  <2>2. Readback(db).meta = db.meta
    BY DEF Readback
  <2>3. HeadRead(db.ops, v.source) /\ s = Len(db.ops)
    BY <1>2, <2>1, <2>2 DEF PreviewOK
  <2>4. PICK n \in s .. Len(db.ops) : v.state = Extended(db.ops, n, v.block, v.commands)
    BY <2>1 DEF PreviewOK
  <2>5. n = s
    BY <1>2, <2>3, SMTT(30)
  <2>6. preview' = PreviewRecord("done", v.source, v.block, v.commands, v.state)
    BY <1>3, <2>1 DEF PreviewRecord
  <2> QED
    BY <1>1, <1>3, <2>3, <2>4, <2>5, <2>6, PreviewAt
<1> QED
  BY <1>4, <1>5, <1>6, <1>7, <1>8 DEF PreviewStep

\* A finished preview is the replay of its source and its commands.
LEMMA FinishedPreview ==
  ASSUME OpsCounted, PreviewOK(preview, db.ops)
  PROVE  PreviewIsCommit
<1> DEFINE v == preview  s == v.source.meta.sequence  m == Len(v.commands)
           batch == [i \in DOMAIN v.commands |-> [block |-> v.block, command |-> v.commands[i]]]
           parent == [i \in 1 .. s |-> [block |-> db.ops[i].request.block,
                                        command |-> db.ops[i].request.command]]
           ops == parent \o batch
           cand == Candidate(db.ops, s, v.block, v.commands)
<1> SUFFICES ASSUME v.pc = "done" PROVE v.state = ReplayStates(ops)[Len(ops)]
  BY DEF PreviewIsCommit
<1>1. /\ s \in Nat /\ m \in Nat /\ DOMAIN v.commands = 1 .. m
      /\ v.state = Extended(db.ops, s, v.block, v.commands)
  <2>1. s \in 0 .. Len(db.ops) /\ IsSeq(v.commands) /\ IsSeq(db.ops)
    BY DEF PreviewOK, HeadRead, OpsCounted
  <2>2. Len(db.ops) \in Nat
    BY <2>1 DEF IsSeq
  <2>3. s \in Nat
    BY <2>1, <2>2, SMTT(30)
  <2> QED
    BY <2>1, <2>3 DEF PreviewOK, IsSeq
<1>2. /\ \A i \in 1 .. s : parent[i] = Operation(db.ops[i].request.block, db.ops[i].request.command)
      /\ \A i \in 1 .. m : batch[i] = Operation(v.block, v.commands[i])
      /\ parent = [i \in 1 .. s |-> parent[i]] /\ batch = [i \in 1 .. m |-> batch[i]]
  BY <1>1 DEF Operation
<1> HIDE DEF parent, batch
<1>3. IsSeq(parent) /\ Len(parent) = s /\ IsSeq(batch) /\ Len(batch) = m
  BY <1>1, <1>2, FunctionOnInterval
<1>4. /\ Len(ops) = s + m
      /\ \A i \in 1 .. s + m : ops[i] = IF i <= s THEN parent[i] ELSE batch[i - s]
  <2> DEFINE S == {parent[i] : i \in 1 .. s} \cup {batch[i] : i \in 1 .. m}
  <2>1. parent \in [1 .. s -> S] /\ batch \in [1 .. m -> S]
    BY <1>2
  <2> HIDE DEF S
  <2>2. parent \in Seq(S) /\ batch \in Seq(S)
    BY <1>1, <2>1, IntervalSeq
  <2>3. /\ Len(ops) = Len(parent) + Len(batch)
        /\ \A i \in 1 .. Len(parent) + Len(batch) :
             ops[i] = IF i <= Len(parent) THEN parent[i] ELSE batch[i - Len(parent)]
    BY <2>2, JoinedSeqs
  <2> QED
    BY <1>3, <2>3
<1> HIDE DEF ops
<1>5. ASSUME NEW i \in 1 .. s + m PROVE ops[i] = cand[i]
  <2>1. cand[i] = IF i <= s THEN Operation(db.ops[i].request.block, db.ops[i].request.command)
                  ELSE Operation(v.block, v.commands[i - s])
    BY DEF Candidate
  <2>2. (i <= s => i \in 1 .. s) /\ (~(i <= s) => i - s \in 1 .. m)
    BY <1>1, SMTT(30)
  <2> QED
    BY <1>2, <1>4, <2>1, <2>2
<1>6. s + m \in Nat /\ s + m <= s + m /\ s + m \in 0 .. s + m
  BY <1>1, SMTT(30)
<1> HIDE DEF cand
<1>7. R!Loop(ops, s + m)[s + m] = R!Loop(cand, s + m)[s + m]
  BY <1>5, <1>6, R!LoopAgrees, SMTT(30)
<1> QED
  BY <1>1, <1>4, <1>7, ReplayIsLoop DEF Extended, cand

\* The journal only grows.
LEMMA OpsGrow ==
  ASSUME StoreIInv, [StoreNext]_storeVars
  PROVE  OpsContinue
<1>1. IsSeq(db.ops) /\ Len(db.ops) \in Nat
  BY DEF StoreIInv, TablesOK, IsSeq
<1>2. CASE db'.ops = db.ops
  <2>1. Len(db.ops) <= Len(db'.ops)
    BY <1>1, <1>2, SMTT(30)
  <2> QED
    BY <1>1, <1>2, <2>1 DEF OpsContinue, Continues
<1>3. ASSUME NEW p \in Caller, Commit(p), db'.ops # db.ops PROVE \E e : db'.ops = Append(db.ops, e)
  BY <1>3, CommittedTables
<1>4. ASSUME NEW e, db'.ops = Append(db.ops, e) PROVE OpsContinue
  <2>1. /\ Len(db'.ops) = Len(db.ops) + 1
        /\ \A i \in 1 .. Len(db.ops) : db'.ops[i] = db.ops[i]
    BY <1>1, <1>4, AppendToSeq, SMTT(30)
  <2>2. Len(db'.ops) \in Nat /\ Len(db.ops) <= Len(db'.ops)
    BY <1>1, <2>1, SMTT(30)
  <2> QED
    BY <1>1, <2>1, <2>2 DEF OpsContinue, Continues
<1>5. ASSUME NEW p \in Caller, Step(p), ~Commit(p) PROVE db'.ops = db.ops
  <2>1. ~HasSchema(db) => db.ops = <<>>
    BY SMTT(30) DEF StoreIInv, TablesOK, Absent, Blank, NoStore
  <2>2. Blank.ops = <<>> /\ \A config : FreshStore(config).ops = <<>>
    BY SMTT(30) DEF Blank, FreshStore, NoStore
  <2>3. ASSUME NEW config, Open(p, config) PROVE db'.ops = db.ops
    BY <2>1, <2>2, <2>3 DEF Open, Exists, HasSchema
  <2>4. CreateTables(p) => db'.ops = db.ops
    BY <2>1, <2>2 DEF CreateTables
  <2> QED
    BY <1>5, <2>3, <2>4
    DEF Step, OpenExisting, BeginCall, Start, RetryEmpty, ReadHead, Lookup, Begin, BeginBusy,
        Confirm, Crash
<1>6. PreviewStep \/ UNCHANGED storeVars => db'.ops = db.ops
  BY DEF PreviewStep, PreviewStart, PreviewState, PreviewApply, PreviewEnd, storeVars
<1> QED
  BY <1>1, <1>2, <1>3, <1>4, <1>5, <1>6 DEF StoreNext

(***************************************************************************)
(* PreviewIsCommit, for batches of any length and whatever is committed    *)
(* while preview_before_vote_v1 runs: the state a finished preview answers *)
(* is the state that committing its commands on its source gives.          *)
(***************************************************************************)
THEOREM PreviewFaithful == StoreSpec => []PreviewIsCommit
<1>0. StoreIInv => OpsCounted
  BY DEF StoreIInv, TablesOK, OpsCounted
<1>1. StoreInit => PreviewOK(preview, db.ops)
  BY NoPreviewOK DEF StoreInit
<1>2. StoreIInv /\ PreviewOK(preview, db.ops) /\ [StoreNext]_storeVars
        => PreviewOK(preview, db.ops)'
  <2> SUFFICES ASSUME StoreIInv, PreviewOK(preview, db.ops), [StoreNext]_storeVars
               PROVE  PreviewOK(preview', db'.ops)
    OBVIOUS
  <2>1. CASE PreviewStep
    BY <1>0, <2>1, PreviewSteps
  <2>2. CASE ~PreviewStep
    <3>1. UNCHANGED preview
      BY <2>2 DEF StoreNext, Step, Open, OpenExisting, CreateTables, BeginCall, Start,
                  RetryEmpty, ReadHead, Lookup, Begin, BeginBusy, Commit, Confirm, Crash, storeVars
    <3> QED
      BY <3>1, OpsGrow, PreviewKept
  <2> QED
    BY <2>1, <2>2
<1>3. StoreIInv /\ PreviewOK(preview, db.ops) => PreviewIsCommit
  BY <1>0, FinishedPreview
<1> QED
  BY <1>1, <1>2, <1>3, StoreInvariant, PTL DEF StoreSpec
=============================================================================
