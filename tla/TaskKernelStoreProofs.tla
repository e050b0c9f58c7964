----------------------- MODULE TaskKernelStoreProofs ------------------------
(***************************************************************************)
(* Proofs about TaskKernelStore, for any callers, blocks, contexts and     *)
(* commands: a preview that returns shows what executing its command on    *)
(* the journal it counts would record.                                     *)
(***************************************************************************)
EXTENDS TaskKernelStore, TLAPS

USE ZenonT(40)

\* s is a sequence, of whatever.
IsSeq(s) == Len(s) \in Nat /\ s = [i \in 1 .. Len(s) |-> s[i]]

\* What Append, with which the operations grow, does to a sequence.
LEMMA AppendToSeq ==
  ASSUME NEW s, IsSeq(s), NEW e
  PROVE  /\ IsSeq(Append(s, e)) /\ Len(Append(s, e)) = Len(s) + 1
         /\ \A i \in 1 .. Len(s) : Append(s, e)[i] = s[i]
         /\ Append(s, e)[Len(s) + 1] = e
<1> DEFINE S == {s[i] : i \in 1 .. Len(s)} \cup {e}  t == Append(s, e)
<1>1. s \in [1 .. Len(s) -> S] /\ Len(s) \in Nat
  BY DEF IsSeq
<1>2. s \in Seq(S) /\ e \in S
  BY <1>1, SMTT(30)
<1>3. t \in Seq(S)
  BY <1>2, SMTT(30)
<1>4. /\ Len(t) = Len(s) + 1 /\ t[Len(s) + 1] = e
      /\ \A i \in 1 .. Len(s) : t[i] = s[i]
  BY <1>2, SMTT(30)
<1> HIDE DEF t, S
<1>5. t \in [1 .. Len(t) -> S] /\ Len(t) \in Nat
  BY <1>3, SMTT(30)
<1>6. IsSeq(t)
  BY <1>5 DEF IsSeq
<1> QED
  BY <1>4, <1>6 DEF t

\* The operations of a new store.
LEMMA NoOperations == IsSeq(<< >>) /\ Len(<< >>) = 0
<1>1. << >> \in Seq({}) /\ Len(<< >>) = 0
  BY SMTT(30)
<1>2. \A s \in Seq({}) : s \in [1 .. Len(s) -> {}] /\ Len(s) \in Nat
  BY SMTT(30)
<1> QED
  BY <1>1, <1>2 DEF IsSeq
-----------------------------------------------------------------------------
(***************************************************************************)
(* The inductive invariant.  A preview reads the sequence number of its    *)
(* answer when it begins and the objects when it runs, so the two belong   *)
(* together only because the end of the preview sees the first readback    *)
(* again and operations are never taken back: a journal as long as it was  *)
(* at the beginning was that long when the preview ran.                    *)
(***************************************************************************)
\* The objects after the first n operations.
ObjectsAfter(ops, n) == IF n = 0 THEN GenesisObjects ELSE ops[n].post

\* The receipt is that of its command on these objects.
Shows(r, objects) ==
  /\ Accepted(objects, BlockHeight[r.block], r.command)
  /\ r.post = Successor(objects, BlockHeight[r.block], r.command)

Fields == {"meta", "objects", "ops", "markers", "file", "sidecar"}

\* Before the caller holds a store.
Opening == {"closed", "missing", "creating"}

\* The rows of the store: none before create_schema, and then the objects
\* are those the last operation left.
RowsOK(d) ==
  /\ DOMAIN d = Fields /\ "config" \in DOMAIN d.meta /\ IsSeq(d.ops)
  /\ IF StoreExists(d) THEN d.objects = ObjectsAfter(d.ops, Len(d.ops)) ELSE d.ops = << >>

\* A preview that ran: on a journal no shorter than the one it counts.
RanOn(r, s, ops) ==
  /\ s \in 0 .. Len(ops) /\ r.sequence = s + 1
  /\ \E n \in s .. Len(ops) : Shows(r, ObjectsAfter(ops, n))

VoteOK(r, ops) ==
  \E s \in 0 .. Len(ops) : r.sequence = s + 1 /\ Shows(r, ObjectsAfter(ops, s))

MarketCallOK(c, d) ==
  /\ c.pc \notin Opening => StoreExists(d)
  /\ c.pc \in {"missing", "creating"} => c.config # NoConfig
  /\ c.pc = "empty" =>
       "pc" \in DOMAIN c /\ "config" \in DOMAIN c.before.meta /\ c.before.meta.config # NoConfig
  /\ c.pc = "previewing" => c.before.meta.sequence \in 0 .. Len(d.ops)
  /\ c.pc = "previewed" => RanOn(c.receipt, c.before.meta.sequence, d.ops)
  /\ c.pc = "voted" => VoteOK(c.receipt, d.ops)

MarketIInv ==
  /\ RowsOK(market)
  /\ DOMAIN marketCall = MarketCaller
  /\ \A p \in MarketCaller : MarketCallOK(marketCall[p], market)

\* What every step does to the store: it stays, and operations are only
\* appended.
Grows(d, e) ==
  /\ StoreExists(d) => StoreExists(e)
  /\ Len(d.ops) <= Len(e.ops) /\ \A i \in 1 .. Len(d.ops) : e.ops[i] = d.ops[i]
-----------------------------------------------------------------------------
\* A prefix of the journal leaves the objects it left before.
LEMMA PrefixKept ==
  ASSUME NEW d, NEW e, IsSeq(d.ops), IsSeq(e.ops), Grows(d, e), NEW n \in 0 .. Len(d.ops)
  PROVE  n \in 0 .. Len(e.ops) /\ ObjectsAfter(e.ops, n) = ObjectsAfter(d.ops, n)
<1>1. Len(d.ops) \in Nat /\ Len(e.ops) \in Nat /\ Len(d.ops) <= Len(e.ops)
  BY DEF IsSeq, Grows
<1>2. n \in 0 .. Len(e.ops) /\ (n # 0 => n \in 1 .. Len(d.ops))
  BY <1>1, SMTT(30)
<1> QED
  BY <1>2 DEF ObjectsAfter, Grows

\* A call keeps its invariant while others work on the store.
LEMMA CallKept ==
  ASSUME NEW d, NEW e, IsSeq(d.ops), IsSeq(e.ops), Grows(d, e), NEW c, MarketCallOK(c, d)
  PROVE  MarketCallOK(c, e)
<1>0. \A n \in 0 .. Len(d.ops) :
        n \in 0 .. Len(e.ops) /\ ObjectsAfter(e.ops, n) = ObjectsAfter(d.ops, n)
  BY PrefixKept
<1>1. ASSUME NEW r, NEW s, RanOn(r, s, d.ops) PROVE RanOn(r, s, e.ops)
  <2>1. PICK n \in s .. Len(d.ops) : Shows(r, ObjectsAfter(d.ops, n))
    BY <1>1 DEF RanOn
  <2>2. s \in 0 .. Len(d.ops) /\ r.sequence = s + 1
    BY <1>1 DEF RanOn
  <2>3. n \in 0 .. Len(d.ops)
    BY <2>2, SMTT(30) DEF IsSeq
  <2>4. s \in 0 .. Len(e.ops) /\ n \in 0 .. Len(e.ops)
          /\ ObjectsAfter(e.ops, n) = ObjectsAfter(d.ops, n)
    BY <1>0, <2>2, <2>3
  <2>5. n \in s .. Len(e.ops)
    BY <2>2, <2>4, SMTT(30) DEF IsSeq
  <2> QED
    BY <2>1, <2>2, <2>4, <2>5 DEF RanOn
<1>2. ASSUME NEW r, VoteOK(r, d.ops) PROVE VoteOK(r, e.ops)
  BY <1>0, <1>2 DEF VoteOK
<1> QED
  BY <1>0, <1>1, <1>2 DEF MarketCallOK, Grows

\* A call that holds nothing it read of the journal.
LEMMA PlainCall ==
  ASSUME NEW d, StoreExists(d), NEW c,
         c.pc \notin {"missing", "creating", "empty", "previewing", "previewed", "voted"}
  PROVE  MarketCallOK(c, d)
  BY DEF MarketCallOK

\* A step that moves one caller keeps the invariant if it appends to the
\* store and leaves that caller's call in order.
LEMMA OneCaller ==
  ASSUME MarketIInv, RowsOK(market'), Grows(market, market'),
         NEW p \in MarketCaller, NEW c, marketCall' = [marketCall EXCEPT ![p] = c],
         MarketCallOK(c, market')
  PROVE  MarketIInv'
<1>1. DOMAIN marketCall' = MarketCaller
  BY DEF MarketIInv
<1>2. ASSUME NEW q \in MarketCaller PROVE MarketCallOK(marketCall'[q], market')
  <2>1. CASE q = p
    BY <2>1 DEF MarketIInv
  <2>2. CASE q # p
    <3>1. marketCall'[q] = marketCall[q] /\ MarketCallOK(marketCall[q], market)
      BY <2>2 DEF MarketIInv
    <3>2. IsSeq(market.ops) /\ IsSeq(market'.ops)
      BY DEF MarketIInv, RowsOK
    <3> QED
      BY <3>1, <3>2, CallKept
  <2> QED
    BY <2>1, <2>2
<1> QED
  BY <1>1, <1>2 DEF MarketIInv

\* The same where the step only reads the store.
LEMMA OneReader ==
  ASSUME MarketIInv, UNCHANGED market,
         NEW p \in MarketCaller, NEW c, marketCall' = [marketCall EXCEPT ![p] = c],
         MarketCallOK(c, market)
  PROVE  MarketIInv'
<1>1. RowsOK(market') /\ MarketCallOK(c, market')
  BY DEF MarketIInv
<1>2. Grows(market, market')
  <2>1. Len(market.ops) <= Len(market.ops)
    BY SMTT(30) DEF MarketIInv, RowsOK, IsSeq
  <2> QED
    BY <2>1 DEF Grows
<1> QED
  BY <1>1, <1>2, OneCaller
-----------------------------------------------------------------------------
\* Rows in which only the metadata and the markers changed.
LEMMA MarkedRows ==
  ASSUME NEW d, RowsOK(d), StoreExists(d), NEW m, "config" \in DOMAIN m,
         m.config # NoConfig, NEW ms
  PROVE  LET e == [d EXCEPT !.meta = m, !.markers = ms]
         IN  RowsOK(e) /\ StoreExists(e) /\ Grows(d, e)
<1> DEFINE e == [d EXCEPT !.meta = m, !.markers = ms]
<1>1. /\ DOMAIN e = Fields /\ e.meta = m
      /\ e.ops = d.ops /\ e.objects = d.objects
  BY DEF RowsOK, Fields
<1> HIDE DEF e
<1>2. StoreExists(e)
  BY <1>1 DEF StoreExists
<1>3. RowsOK(e)
  BY <1>1, <1>2 DEF RowsOK
<1>4. Len(d.ops) <= Len(d.ops)
  BY SMTT(30) DEF RowsOK, IsSeq
<1>5. Grows(d, e)
  BY <1>1, <1>2, <1>4 DEF Grows
<1> QED
  BY <1>2, <1>3, <1>5 DEF e

\* Rows with another file or journal beside them.
LEMMA SameRows ==
  ASSUME NEW d, RowsOK(d), NEW f, NEW j
  PROVE  LET e == [d EXCEPT !.file = f, !.sidecar = j]
         IN  RowsOK(e) /\ (StoreExists(d) <=> StoreExists(e)) /\ Grows(d, e)
<1> DEFINE e == [d EXCEPT !.file = f, !.sidecar = j]
<1>1. /\ DOMAIN e = Fields /\ e.meta = d.meta
      /\ e.ops = d.ops /\ e.objects = d.objects
  BY DEF RowsOK, Fields
<1> HIDE DEF e
<1>2. StoreExists(d) <=> StoreExists(e)
  BY <1>1 DEF StoreExists
<1>3. RowsOK(e)
  BY <1>1, <1>2 DEF RowsOK
<1>4. Len(d.ops) <= Len(d.ops)
  BY SMTT(30) DEF RowsOK, IsSeq
<1>5. Grows(d, e)
  BY <1>1, <1>2, <1>4 DEF Grows
<1> QED
  BY <1>2, <1>3, <1>5 DEF e

\* Rows to which an operation was appended.
LEMMA AppendedRows ==
  ASSUME NEW d, RowsOK(d), StoreExists(d), NEW r
  PROVE  LET e == WithOperation(d, r)
         IN  RowsOK(e) /\ StoreExists(e) /\ Grows(d, e)
<1> DEFINE e == WithOperation(d, r)
<1>1. /\ DOMAIN e = Fields /\ e.meta = d.meta
      /\ e.ops = Append(d.ops, r) /\ e.objects = r.post
  BY DEF RowsOK, Fields, WithOperation
<1> HIDE DEF e
<1>2. StoreExists(e)
  BY <1>1 DEF StoreExists
<1>3. /\ IsSeq(e.ops) /\ Len(e.ops) = Len(d.ops) + 1
      /\ \A i \in 1 .. Len(d.ops) : e.ops[i] = d.ops[i]
      /\ e.ops[Len(d.ops) + 1] = r
  BY <1>1, AppendToSeq, SMTT(30) DEF RowsOK
<1>4. Len(e.ops) # 0 /\ Len(d.ops) <= Len(e.ops)
  BY <1>3, SMTT(30) DEF RowsOK, IsSeq
<1>5. e.objects = ObjectsAfter(e.ops, Len(e.ops))
  BY <1>1, <1>3, <1>4 DEF ObjectsAfter
<1> QED
  BY <1>1, <1>2, <1>3, <1>4, <1>5 DEF RowsOK, Grows, e

\* Growing twice is growing.
LEMMA GrowsOn ==
  ASSUME NEW d, NEW n, NEW e, RowsOK(d), RowsOK(n), RowsOK(e), Grows(d, n), Grows(n, e)
  PROVE  Grows(d, e)
<1>1. Len(d.ops) \in Nat /\ Len(n.ops) \in Nat /\ Len(e.ops) \in Nat
  BY DEF RowsOK, IsSeq
<1>2. Len(d.ops) <= Len(n.ops) /\ Len(n.ops) <= Len(e.ops)
  BY DEF Grows
<1>3. Len(d.ops) <= Len(e.ops) /\ \A i \in 1 .. Len(d.ops) : i \in 1 .. Len(n.ops)
  BY <1>1, <1>2, SMTT(30)
<1> QED
  BY <1>3 DEF Grows

\* The rows a commit leaves.
LEMMA CommittedRows ==
  ASSUME NEW d, RowsOK(d), StoreExists(d), NEW x, NEW c
  PROVE  LET e == Commit(d, x, c)
         IN  RowsOK(e) /\ StoreExists(e) /\ Grows(d, e)
<1> DEFINE n == WithOperation(d, Receipt(d, x, c))
           m == Metadata(d.meta.config, Len(n.ops), x.block, StateRoot(n), JournalRoot(n, Len(n.ops)))
           ms == AdvanceMarker(d, x, m)
           e == [n EXCEPT !.meta = m, !.markers = ms]
<1>1. RowsOK(n) /\ StoreExists(n) /\ Grows(d, n)
  BY AppendedRows
<1>2. "config" \in DOMAIN m /\ m.config # NoConfig
  BY DEF Metadata, StoreExists
<1>3. Commit(d, x, c) = e
  BY DEF Commit
<1> HIDE DEF n, m, ms
<1>4. RowsOK(e) /\ StoreExists(e) /\ Grows(n, e)
  BY <1>1, <1>2, MarkedRows
<1> HIDE DEF e
<1>5. Grows(d, e)
  BY <1>1, <1>4, GrowsOn
<1> QED
  BY <1>3, <1>4, <1>5
-----------------------------------------------------------------------------
\* open and open_existing of a store that is there.
LEMMA OpenKeeps ==
  ASSUME MarketIInv, NEW p \in MarketCaller, Open(p) \/ OpenExisting(p)
  PROVE  MarketIInv'
<1>1. UNCHANGED market /\ Opened(p) /\ StoreExists(market)
  BY DEF Open, OpenExisting
<1>2. MarketCallOK(Idle, market)
  BY <1>1, PlainCall DEF Idle
<1> QED
  BY <1>1, <1>2, OneReader DEF Opened

\* A configuration that validate_trust_bundle takes names a store.
LEMMA ValidConfig == \A config : TrustBundleValid(config) => config # NoConfig
<1>1. NoConfig.store = ""
  BY DEF NoConfig
<1> QED
  BY <1>1 DEF TrustBundleValid

\* open of a missing path, up to create_schema.
LEMMA CreateKeeps ==
  ASSUME MarketIInv, NEW p \in MarketCaller, OpenMissing(p) \/ CreateFile(p) \/ CreateSchema(p)
  PROVE  MarketIInv'
<1>0. MarketCallOK(marketCall[p], market) /\ RowsOK(market)
        /\ Idle.pc = "idle" /\ Closed.pc = "closed"
  BY DEF MarketIInv, Idle, Closed
<1>1. CASE OpenMissing(p)
  <2>1. PICK config : /\ TrustBundleValid(config)
                      /\ marketCall' = [marketCall EXCEPT ![p] = [pc |-> "missing", config |-> config]]
    BY <1>1 DEF OpenMissing
  <2> DEFINE c == [pc |-> "missing", config |-> config]
  <2>2. c.pc = "missing" /\ c.config # NoConfig
    BY <2>1, ValidConfig
  <2> HIDE DEF c
  <2>3. MarketCallOK(c, market)
    BY <2>2 DEF MarketCallOK, Opening
  <2> QED
    BY <1>1, <2>1, <2>3, OneReader DEF OpenMissing, c
<1>2. CASE CreateFile(p)
  <2> DEFINE c == [pc |-> "creating", config |-> marketCall[p].config]
  <2>1. marketCall' = [marketCall EXCEPT ![p] = c] /\ c.pc = "creating" /\ c.config # NoConfig
    BY <1>0, <1>2 DEF CreateFile, MarketCallOK
  <2> HIDE DEF c
  <2>2. market' = [market EXCEPT !.file = TRUE, !.sidecar = market.sidecar]
    BY <1>0, <1>2 DEF CreateFile, RowsOK, Fields
  <2>3. RowsOK(market') /\ Grows(market, market')
    BY <1>0, <2>2, SameRows
  <2>4. MarketCallOK(c, market')
    BY <2>1 DEF MarketCallOK, Opening
  <2> QED
    BY <2>1, <2>3, <2>4, OneCaller
<1>3. CASE CreateSchema(p) /\ StoreExists(market)
  <2>1. market' = [market EXCEPT !.file = market.file, !.sidecar = FALSE]
    BY <1>0, <1>3 DEF CreateSchema, RolledBack, RowsOK, Fields
  <2>2. RowsOK(market') /\ Grows(market, market')
    BY <1>0, <2>1, SameRows
  <2>3. MarketCallOK(Closed, market')
    BY <1>0 DEF MarketCallOK, Opening
  <2> QED
    BY <1>3, <2>2, <2>3, OneCaller DEF CreateSchema
<1>4. CASE CreateSchema(p) /\ ~StoreExists(market)
  <2> DEFINE config == marketCall[p].config
  <2>1. market' = GenesisStore(config) /\ Opened(p) /\ config # NoConfig
    BY <1>0, <1>4 DEF CreateSchema, MarketCallOK
  <2>2. /\ DOMAIN market' = Fields /\ market'.meta.config = config /\ "config" \in DOMAIN market'.meta
        /\ market'.ops = << >> /\ market'.objects = GenesisObjects
    BY <2>1 DEF GenesisStore, Metadata, Fields
  <2>3. StoreExists(market')
    BY <2>1, <2>2 DEF StoreExists
  <2>4. RowsOK(market')
    BY <2>2, <2>3, NoOperations DEF RowsOK, ObjectsAfter
  <2>5. market.ops = << >> /\ Len(market.ops) <= Len(market'.ops)
    <3>1. market.ops = << >>
      BY <1>0, <1>4 DEF RowsOK
    <3>2. Len(market'.ops) = 0 /\ Len(market.ops) = 0
      BY <2>2, <3>1, NoOperations
    <3> QED
      BY <3>1, <3>2, SMTT(30)
  <2>6. Grows(market, market')
    BY <2>2, <2>3, <2>5 DEF Grows
  <2>7. MarketCallOK(Idle, market')
    BY <1>0, <2>3, PlainCall
  <2> QED
    BY <2>1, <2>4, <2>6, <2>7, OneCaller DEF Opened
<1> QED
  BY <1>1, <1>2, <1>3, <1>4

\* execute_inner.
LEMMA ExecuteKeeps ==
  ASSUME MarketIInv, NEW p \in MarketCaller, ExecuteBegin(p) \/ ExecuteCommit(p) \/ Confirm(p)
  PROVE  MarketIInv'
<1>0. marketCall[p].pc \notin Opening /\ MarketCallOK(marketCall[p], market)
  BY DEF MarketIInv, ExecuteBegin, ExecuteCommit, Confirm, Opening
<1>1. StoreExists(market)
  BY <1>0 DEF MarketCallOK
<1>3. CASE ExecuteBegin(p) \/ Confirm(p)
  <2>1. \E c : /\ marketCall' = [marketCall EXCEPT ![p] = c]
               /\ c.pc \in {"checked", "confirm", "answered", "idle"}
    BY <1>3 DEF ExecuteBegin, Confirm, Idle
  <2>2. PICK c : /\ marketCall' = [marketCall EXCEPT ![p] = c]
                 /\ c.pc \in {"checked", "confirm", "answered", "idle"}
    BY <2>1
  <2>3. UNCHANGED market
    BY <1>3 DEF ExecuteBegin, Confirm
  <2>4. MarketCallOK(c, market)
    BY <1>1, <2>2, PlainCall
  <2> QED
    BY <2>2, <2>3, <2>4, OneReader
<1>4. CASE ExecuteCommit(p)
  <2> DEFINE x == marketCall[p].context  c == marketCall[p].command
             r == [pc |-> "confirm", receipt |-> Receipt(market, x, c)]
  <2> DEFINE d == RolledBack(market)
  <2>1. \/ market' = Commit(d, x, c) /\ marketCall' = [marketCall EXCEPT ![p] = r]
        \/ market' = d /\ marketCall' = [marketCall EXCEPT ![p] = Idle]
    BY <1>4 DEF ExecuteCommit
  <2>2. r.pc = "confirm" /\ Idle.pc = "idle"
    BY DEF Idle
  <2>3. RowsOK(d) /\ StoreExists(d) /\ Grows(market, d)
    <3>1. d = [market EXCEPT !.file = market.file, !.sidecar = FALSE]
      BY DEF MarketIInv, RolledBack, RowsOK, Fields
    <3>2. RowsOK(market)
      BY DEF MarketIInv
    <3> HIDE DEF d
    <3> QED
      BY <1>1, <3>1, <3>2, SameRows
  <2> HIDE DEF x, c, r, d
  <2>4. CASE market' = Commit(d, x, c) /\ marketCall' = [marketCall EXCEPT ![p] = r]
    <3>1. RowsOK(market') /\ StoreExists(market') /\ Grows(d, market')
      BY <2>3, <2>4, CommittedRows
    <3>2. Grows(market, market')
      BY <2>3, <3>1, GrowsOn DEF MarketIInv
    <3>3. MarketCallOK(r, market')
      BY <2>2, <3>1, PlainCall
    <3> QED
      BY <2>4, <3>1, <3>2, <3>3, OneCaller
  <2>5. CASE market' = d /\ marketCall' = [marketCall EXCEPT ![p] = Idle]
    <3>1. MarketCallOK(Idle, market')
      BY <2>2, <2>3, <2>5, PlainCall
    <3> QED
      BY <2>3, <2>5, <3>1, OneCaller
  <2> QED
    BY <2>1, <2>4, <2>5
<1> QED
  BY <1>3, <1>4

\* advance_empty_committed_execution_v1.
LEMMA EmptyKeeps ==
  ASSUME MarketIInv, NEW p \in MarketCaller, EmptyBegin(p) \/ EmptyCommit(p) \/ EmptyConfirm(p)
  PROVE  MarketIInv'
<1>0. marketCall[p].pc \notin Opening /\ MarketCallOK(marketCall[p], market) /\ Idle.pc = "idle"
  BY DEF MarketIInv, EmptyBegin, EmptyCommit, EmptyConfirm, Idle, Opening
<1>1. StoreExists(market)
  BY <1>0 DEF MarketCallOK
<1>2. CASE EmptyBegin(p)
  <2>1. PICK x : marketCall' = [marketCall EXCEPT ![p] =
                   [pc |-> "empty", context |-> x, before |-> Readback(market)]]
    BY <1>2 DEF EmptyBegin
  <2> DEFINE c == [pc |-> "empty", context |-> x, before |-> Readback(market)]
  <2>2. c.pc = "empty" /\ "pc" \in DOMAIN c /\ c.before.meta = market.meta
    BY DEF Readback
  <2> HIDE DEF c
  <2>3. MarketCallOK(c, market)
    BY <1>1, <2>2 DEF MarketCallOK, StoreExists, MarketIInv, RowsOK
  <2> QED
    BY <1>2, <2>1, <2>3, OneReader DEF EmptyBegin, c
<1>3. CASE EmptyCommit(p)
  <2> DEFINE x == marketCall[p].context  b == marketCall[p].before.meta
             m == [b EXCEPT !.tip = x.block]  ms == AdvanceMarker(market, x, m)
             c == [marketCall[p] EXCEPT !.pc = "emptied"]
  <2>1. \/ /\ market' = [market EXCEPT !.meta = m, !.markers = ms]
           /\ marketCall' = [marketCall EXCEPT ![p] = c]
        \/ UNCHANGED market /\ marketCall' = [marketCall EXCEPT ![p] = Idle]
    BY <1>3 DEF EmptyCommit
  <2>2. "pc" \in DOMAIN marketCall[p] /\ "config" \in DOMAIN b /\ b.config # NoConfig
    BY <1>0, <1>3 DEF MarketCallOK, EmptyCommit
  <2>3. c.pc = "emptied" /\ "config" \in DOMAIN m /\ m.config = b.config
    BY <2>2
  <2> HIDE DEF x, b, m, ms, c
  <2>4. CASE /\ market' = [market EXCEPT !.meta = m, !.markers = ms]
             /\ marketCall' = [marketCall EXCEPT ![p] = c]
    <3>1. RowsOK(market') /\ StoreExists(market') /\ Grows(market, market')
      BY <1>1, <2>2, <2>3, <2>4, MarkedRows DEF MarketIInv
    <3>2. MarketCallOK(c, market')
      BY <2>3, <3>1, PlainCall
    <3> QED
      BY <2>4, <3>1, <3>2, OneCaller
  <2>5. CASE UNCHANGED market /\ marketCall' = [marketCall EXCEPT ![p] = Idle]
    BY <1>0, <1>1, <2>5, OneReader, PlainCall
  <2> QED
    BY <2>1, <2>4, <2>5
<1>4. CASE EmptyConfirm(p)
  <2> DEFINE b == marketCall[p].before
             c == IF /\ Readback(market).meta = [b.meta EXCEPT !.tip = marketCall[p].context.block]
                     /\ Readback(market).blocks # b.blocks /\ OpensVerified(market)
                  THEN [pc |-> "advanced"] ELSE Idle
  <2>1. marketCall' = [marketCall EXCEPT ![p] = c] /\ c.pc \in {"advanced", "idle"}
    BY <1>0, <1>4 DEF EmptyConfirm
  <2> HIDE DEF c
  <2>2. MarketCallOK(c, market)
    BY <1>1, <2>1, PlainCall
  <2> QED
    BY <1>4, <2>1, <2>2, OneReader DEF EmptyConfirm
<1> QED
  BY <1>2, <1>3, <1>4

\* The caller is done, or dies.
LEMMA EndKeeps ==
  ASSUME MarketIInv, NEW p \in MarketCaller, Done(p) \/ Die(p)
  PROVE  MarketIInv'
<1>0. MarketCallOK(marketCall[p], market) /\ Idle.pc = "idle" /\ Closed.pc = "closed"
  BY DEF MarketIInv, Idle, Closed
<1>1. CASE Done(p)
  <2>1. StoreExists(market)
    BY <1>0, <1>1 DEF Done, MarketCallOK, Opening
  <2> QED
    BY <1>0, <1>1, <2>1, OneReader, PlainCall DEF Done
<1>2. CASE Die(p)
  <2>1. PICK left : market' = [market EXCEPT !.sidecar = @ \/ left]
    BY <1>2 DEF Die
  <2>2. market' = [market EXCEPT !.file = market.file, !.sidecar = market.sidecar \/ left]
    BY <2>1 DEF MarketIInv, RowsOK, Fields
  <2>3. RowsOK(market') /\ Grows(market, market')
    BY <2>2, SameRows DEF MarketIInv
  <2>4. MarketCallOK(Closed, market')
    BY <1>0 DEF MarketCallOK, Opening
  <2> QED
    BY <1>2, <2>3, <2>4, OneCaller DEF Die
<1> QED
  BY <1>1, <1>2

\* preview_before_vote_v1.
LEMMA PreviewKeeps ==
  ASSUME MarketIInv, NEW p \in MarketCaller, PreviewBegin(p) \/ PreviewRun(p) \/ PreviewEnd(p)
  PROVE  MarketIInv'
<1>0. marketCall[p].pc \notin Opening /\ MarketCallOK(marketCall[p], market) /\ Idle.pc = "idle"
  BY DEF MarketIInv, PreviewBegin, PreviewRun, PreviewEnd, Idle, Opening
<1>1. StoreExists(market)
  BY <1>0 DEF MarketCallOK
<1>2. MarketCallOK(Idle, market) /\ UNCHANGED market
  BY <1>0, <1>1, PlainCall DEF PreviewBegin, PreviewRun, PreviewEnd
<1>3. Len(market.ops) \in Nat /\ market.objects = ObjectsAfter(market.ops, Len(market.ops))
  BY <1>1 DEF MarketIInv, RowsOK, IsSeq
<1>4. OpensVerified(market) => market.meta.sequence = Len(market.ops)
  BY DEF OpensVerified, AuditStore, AuditMarkers, TailIsHead
<1> DEFINE s == marketCall[p].before.meta.sequence
<1>5. CASE PreviewBegin(p)
  <2>1. PICK x, y : marketCall' = [marketCall EXCEPT ![p] =
                      [pc |-> "previewing", context |-> x, command |-> y,
                       before |-> Readback(market), rows |-> RowInventory(market)]]
    BY <1>5 DEF PreviewBegin
  <2> DEFINE c == [pc |-> "previewing", context |-> x, command |-> y,
                   before |-> Readback(market), rows |-> RowInventory(market)]
  <2>2. c.pc = "previewing" /\ c.before.meta = market.meta
    BY DEF Readback
  <2>3. market.meta.sequence \in 0 .. Len(market.ops)
    <3>1. market.meta.sequence = Len(market.ops)
      BY <1>4, <1>5 DEF PreviewBegin
    <3> QED
      BY <1>3, <3>1, SMTT(30)
  <2> HIDE DEF c
  <2>4. MarketCallOK(c, market)
    BY <1>1, <2>2, <2>3 DEF MarketCallOK
  <2> QED
    BY <1>2, <2>1, <2>4, OneReader DEF c
<1>6. CASE PreviewRun(p)
  <2> DEFINE x == marketCall[p].context  y == marketCall[p].command
             r == [Receipt(market, x, y) EXCEPT !.sequence = s + 1]
             c == [pc |-> "previewed", before |-> marketCall[p].before,
                   rows |-> marketCall[p].rows, receipt |-> r]
  <2>1. \/ /\ marketCall' = [marketCall EXCEPT ![p] = c]
           /\ Accepted(market.objects, BlockHeight[x.block], y)
        \/ marketCall' = [marketCall EXCEPT ![p] = Idle]
    BY <1>6 DEF PreviewRun
  <2>2. /\ r.sequence = s + 1 /\ r.block = x.block /\ r.command = y
        /\ r.post = Successor(market.objects, BlockHeight[x.block], y)
    BY DEF Receipt
  <2>3. c.pc = "previewed" /\ c.receipt = r /\ c.before.meta.sequence = s
    OBVIOUS
  <2>4. s \in 0 .. Len(market.ops)
    BY <1>0, <1>6 DEF MarketCallOK, PreviewRun
  <2>5. Len(market.ops) \in s .. Len(market.ops)
    BY <1>3, <2>4, SMTT(30)
  <2> HIDE DEF x, y, r, c, s
  <2>6. CASE /\ marketCall' = [marketCall EXCEPT ![p] = c]
             /\ Accepted(market.objects, BlockHeight[x.block], y)
    <3>1. Shows(r, ObjectsAfter(market.ops, Len(market.ops)))
      BY <1>3, <2>2, <2>6 DEF Shows
    <3>2. RanOn(r, s, market.ops)
      BY <2>2, <2>4, <2>5, <3>1 DEF RanOn
    <3>3. MarketCallOK(c, market)
      BY <1>1, <2>3, <3>2 DEF MarketCallOK
    <3> QED
      BY <1>2, <2>6, <3>3, OneReader
  <2>7. CASE marketCall' = [marketCall EXCEPT ![p] = Idle]
    BY <1>2, <2>7, OneReader
  <2> QED
    BY <2>1, <2>6, <2>7
<1>7. CASE PreviewEnd(p)
  <2> DEFINE r == marketCall[p].receipt  c == [pc |-> "voted", receipt |-> r]
  <2>1. \/ /\ marketCall' = [marketCall EXCEPT ![p] = c]
           /\ Readback(market) = marketCall[p].before /\ OpensVerified(market)
        \/ marketCall' = [marketCall EXCEPT ![p] = Idle]
    BY <1>7 DEF PreviewEnd
  <2>2. c.pc = "voted" /\ c.receipt = r
    OBVIOUS
  <2>3. RanOn(r, s, market.ops)
    BY <1>0, <1>7 DEF MarketCallOK, PreviewEnd
  <2>4. Readback(market) = marketCall[p].before => market.meta.sequence = s
    <3>1. Readback(market).meta = market.meta
      BY DEF Readback
    <3> QED
      BY <3>1
  <2> HIDE DEF r, c, s
  <2>5. CASE /\ marketCall' = [marketCall EXCEPT ![p] = c]
             /\ Readback(market) = marketCall[p].before /\ OpensVerified(market)
    <3>1. s = Len(market.ops)
      BY <1>4, <2>4, <2>5
    <3>2. PICK n \in s .. Len(market.ops) : Shows(r, ObjectsAfter(market.ops, n))
      BY <2>3 DEF RanOn
    <3>3. n = s
      BY <1>3, <3>1, SMTT(30)
    <3>4. VoteOK(r, market.ops)
      BY <2>3, <3>2, <3>3 DEF RanOn, VoteOK
    <3>5. MarketCallOK(c, market)
      BY <1>1, <2>2, <3>4 DEF MarketCallOK
    <3> QED
      BY <1>2, <2>5, <3>5, OneReader
  <2>6. CASE marketCall' = [marketCall EXCEPT ![p] = Idle]
    BY <1>2, <2>6, OneReader
  <2> QED
    BY <2>1, <2>5, <2>6
<1> QED
  BY <1>5, <1>6, <1>7

\* MarketIInv is inductive.
LEMMA MarketInvariant == MarketSpec => []MarketIInv
<1>1. MarketInit => MarketIInv
  <2> SUFFICES ASSUME MarketInit PROVE MarketIInv
    OBVIOUS
  <2>1. /\ DOMAIN market = Fields /\ "config" \in DOMAIN market.meta
        /\ market.ops = << >> /\ market.meta.config = NoConfig
    BY DEF MarketInit, NoStore, Metadata, Fields
  <2>2. RowsOK(market)
    BY <2>1, NoOperations DEF RowsOK, StoreExists
  <2>3. DOMAIN marketCall = MarketCaller /\ \A p \in MarketCaller : marketCall[p].pc = "closed"
    BY DEF MarketInit, Closed
  <2>4. \A p \in MarketCaller : MarketCallOK(marketCall[p], market)
    BY <2>3 DEF MarketCallOK, Opening
  <2> QED
    BY <2>2, <2>3, <2>4 DEF MarketIInv
<1>2. MarketIInv /\ [MarketNext]_marketVars => MarketIInv'
  <2> SUFFICES ASSUME MarketIInv, [MarketNext]_marketVars PROVE MarketIInv'
    OBVIOUS
  <2>1. CASE MarketNext
    BY <2>1, OpenKeeps, CreateKeeps, ExecuteKeeps, EmptyKeeps, PreviewKeeps, EndKeeps DEF MarketNext
  <2>2. CASE UNCHANGED marketVars
    BY <2>2 DEF MarketIInv, marketVars
  <2> QED
    BY <2>1, <2>2
<1> QED
  BY <1>1, <1>2, PTL DEF MarketSpec

(***************************************************************************)
(* VotedIsExecuted: a preview of preview_before_vote_v1 that returns has   *)
(* the sequence number and the state that executing its command after      *)
(* exactly the operations it counts records, whatever other callers        *)
(* committed between its first readback and its last.                      *)
(***************************************************************************)
THEOREM VoteFaithful == MarketSpec => []VotedIsExecuted
<1>1. MarketIInv => VotedIsExecuted
  <2> SUFFICES ASSUME MarketIInv, NEW p \in MarketCaller, marketCall[p].pc = "voted"
               PROVE  LET r == marketCall[p].receipt
                          before == IF r.sequence = 1 THEN GenesisObjects
                                    ELSE market.ops[r.sequence - 1].post
                      IN  /\ Accepted(before, BlockHeight[r.block], r.command)
                          /\ r.post = Successor(before, BlockHeight[r.block], r.command)
    BY DEF VotedIsExecuted
  <2> DEFINE r == marketCall[p].receipt
             before == IF r.sequence = 1 THEN GenesisObjects ELSE market.ops[r.sequence - 1].post
  <2>1. PICK s \in 0 .. Len(market.ops) : r.sequence = s + 1 /\ Shows(r, ObjectsAfter(market.ops, s))
    BY DEF MarketIInv, MarketCallOK, VoteOK
  <2>2. (r.sequence = 1 <=> s = 0) /\ r.sequence - 1 = s
    <3>1. (s + 1 = 1 <=> s = 0) /\ s + 1 - 1 = s
      BY SMTT(30) DEF MarketIInv, RowsOK, IsSeq
    <3>2. r.sequence = s + 1
      BY <2>1
    <3> QED
      BY <3>1, <3>2, SMTT(30)
  <2> HIDE DEF r
  <2>3. ObjectsAfter(market.ops, s) = before
    BY <2>2 DEF ObjectsAfter
  <2> HIDE DEF before
  <2>4. /\ Accepted(before, BlockHeight[r.block], r.command)
        /\ r.post = Successor(before, BlockHeight[r.block], r.command)
    BY <2>1, <2>3 DEF Shows
  <2> QED
    BY <2>4 DEF before, r
<1> QED
  BY <1>1, MarketInvariant, PTL
=============================================================================
