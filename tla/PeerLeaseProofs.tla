-------------------------- MODULE PeerLeaseProofs ---------------------------
(***************************************************************************)
(* Theorems about PeerLeaseAuthority, for any sessions, scopes, lease      *)
(* times and journal length: what the daemon accepts it replays, a grant   *)
(* is fenced, and no two sessions hold a scope at a time.  First the       *)
(* inductive invariant and its preservation by the host, the disk, the     *)
(* daemon and the clients, then the theorems.                              *)
(***************************************************************************)
EXTENDS PeerLeaseAuthority, LeaseJournalProofs

USE ZenonT(40)

(***************************************************************************)
(* The inductive invariant.  Every prefix of the journal replays, and the  *)
(* memory of the daemon is the replay of the journal, or of all but its    *)
(* last record while that one is not synced.  Each grant answered has its  *)
(* acquisition in the journal, in the synced part if the process that      *)
(* wrote it answered.  A token that is held is the entry of its scope,     *)
(* because who replaces an entry has waited for it to expire or had asked  *)
(* with that very token.                                                   *)
(***************************************************************************)
LogOK ==
  /\ log \in Seq(Record) /\ synced \in 0 .. Len(log)
  /\ \A n \in 0 .. Len(log) : ReplayOK(SubSeq(log, 1, n))

MemIs(j) == Alike(mem, Replay(j)[1]) /\ mem.observed >= mem.lastNow

MemOK ==
  /\ daemon \in Stages /\ mem \in Store
  /\ daemon \notin {"down", "written"} => MemIs(log)
  /\ daemon \in {"written", "temp", "rename", "sync"} => Len(serving) = 1
  /\ daemon = "written" =>
       LET r == log[Len(log)]
       IN  /\ synced < Len(log) /\ MemIs(SubSeq(log, 1, Len(log) - 1))
           /\ Replayable(mem, r) /\ mem.observed = r.observed
           /\ r.op = serving[1].request.op /\ r.scope = serving[1].request.scope
  /\ daemon \in {"temp", "rename", "sync"} =>
       /\ synced = Len(log)
       /\ serving[1].request.op # "release"
            => mem.entries[serving[1].request.scope] # <<>>

\* A request to renew or release names a token its session has given up.
Asked(q) ==
  /\ q.op \in {"acquire", "renew"} => q.ttl \in Ttl
  /\ q.op \in {"renew", "release"} => q.hash \in client[q.session].spent

ClientState == [token : {<<>>} \cup {<<t>> : t \in Token}, spent : SUBSET Seq(Record)]

CallOK ==
  /\ clock \in 0 .. MaxClock /\ serving \in Seq(Connection)
  /\ pending \in [Session -> Seq(Connection)] /\ client \in [Session -> ClientState]
  /\ \A s \in Session : client[s].token # <<>> => client[s].token[1].session = s
  /\ \A s \in Session : \A i \in 1 .. Len(pending[s]) : Asked(pending[s][i].request)

Grants == [scope : Scope, session : Session, generation : Generation]

HistoryOK ==
  /\ losses \in Nat /\ answered \subseteq Grants /\ granted \subseteq Grants
  /\ losses = 0 => \A t \in answered : \E n \in 1 .. Len(log) : Acquires(log[n], t)
  /\ \A t \in granted : \E n \in 1 .. synced : Acquires(log[n], t)
  /\ Fenced

HeldBy(t) ==
  LET e == Replay(log)[1].entries[t.scope] IN e # <<>> /\ t = TokenOf(t.scope, e[1])

HoldOK ==
  /\ backs \in Nat
  /\ backs = 0 /\ losses = 0 =>
       \A s \in Session : Holds(s) => HeldBy(client[s].token[1])

LeaseIInv == LogOK /\ MemOK /\ CallOK /\ HistoryOK /\ HoldOK
-----------------------------------------------------------------------------
\* It holds before the first daemon opens the files.
LEMMA InitIInv == Init => LeaseIInv
<1> SUFFICES ASSUME Init PROVE LeaseIInv
  OBVIOUS
<1>1. 0 \in Time /\ 0 \in Generation /\ 0 \in 0 .. MaxClock
  BY LeaseAssumption, AuthorityAssumption, SMTT(30) DEF Time, Generation
<1>2. EmptyStore \in Store /\ EmptyStore.chain = <<>> /\ EmptyStore.observed = 0
        /\ \A s \in Scope : EmptyStore.entries[s] = <<>>
  BY <1>1, SMTT(30) DEF EmptyStore, Store
<1>3. StoreOK(EmptyStore, <<>>)
  BY <1>2, SMTT(30) DEF StoreOK
<1>4. log = <<>> /\ Len(log) = 0 /\ synced = 0 /\ \A n \in 0 .. 0 : SubSeq(log, 1, n) = <<>>
  BY SMTT(30) DEF Init
<1>5. LogOK
  <2>1. ReplayOK(<<>>)
    BY <1>2, <1>3, ReplayEmpty, SMTT(30) DEF ReplayOK
  <2>2. log \in Seq(Record) /\ synced \in 0 .. Len(log) /\ \A n \in 0 .. Len(log) : n \in 0 .. 0
    BY <1>4, SMTT(30)
  <2>3. \A n \in 0 .. Len(log) : SubSeq(log, 1, n) = <<>>
    BY <1>4, <2>2
  <2> QED
    BY <2>1, <2>2, <2>3 DEF LogOK
<1>6. MemOK
  BY <1>2 DEF Init, MemOK, Stages
<1>7. CallOK
  <2>1. \A s \in Session : pending[s] = <<>> /\ client[s].token = <<>>
    BY DEF Init
  <2>2. client \in [Session -> ClientState]
    BY DEF Init, ClientState
  <2> QED
    BY <1>1, <2>1, <2>2, SMTT(30) DEF Init, CallOK
<1>8. HistoryOK /\ HoldOK
  BY DEF Init, HistoryOK, HoldOK, Holds, Fenced
<1> QED
  BY <1>5, <1>6, <1>7, <1>8 DEF LeaseIInv

\* The journal as a whole: it replays to a store that belongs to it.
LEMMA WholeLog ==
  ASSUME LogOK
  PROVE  /\ Len(log) \in Nat /\ SubSeq(log, 1, Len(log)) = log /\ ReplayOK(log)
         /\ Replay(log)[1] \in Store
<1>1. Len(log) \in Nat /\ SubSeq(log, 1, Len(log)) = log
  BY SMTT(30) DEF LogOK
<1>2. ReplayOK(log)
  <2>1. Len(log) \in 0 .. Len(log)
    BY <1>1, SMTT(30)
  <2>2. ReplayOK(SubSeq(log, 1, Len(log)))
    BY <2>1 DEF LogOK
  <2> QED
    BY <1>1, <2>2
<1> QED
  BY <1>1, <1>2 DEF ReplayOK, StoreOK

\* Memory that is the replay of a journal belongs to it.
LEMMA MemBelongs ==
  ASSUME NEW j, mem \in Store, MemIs(j), ReplayOK(j)
  PROVE  StoreOK(mem, j)
BY AlikeOK DEF MemIs, ReplayOK

\* A step that leaves the journal and the histories alone.
LEMMA QuietStep ==
  ASSUME LeaseIInv, UNCHANGED <<log, synced, losses, historyVars>>
  PROVE  LogOK' /\ HistoryOK'
BY DEF LeaseIInv, LogOK, HistoryOK, historyVars, Fenced

\* A step that leaves the calls alone.
LEMMA QuietCalls ==
  ASSUME LeaseIInv, UNCHANGED <<clock, serving, pending, client>>
  PROVE  CallOK'
BY DEF LeaseIInv, CallOK, Asked

\* A step that changes neither journal nor tokens, while the clock advances.
LEMMA QuietHolds ==
  ASSUME LeaseIInv, UNCHANGED <<log, losses, backs>>, clock' \in Nat, clock <= clock',
         \A s \in Session : /\ client'[s].token = client[s].token
                            /\ client[s].spent \subseteq client'[s].spent
  PROVE  HoldOK'
<1>1. ASSUME NEW s \in Session, Holds(s)' PROVE Holds(s)
  <2>1. client[s].token # <<>> => client[s].token[1].expires \in Nat
    <3>1. client[s].token \in {<<>>} \cup {<<t>> : t \in Token}
      BY DEF LeaseIInv, CallOK, ClientState
    <3> QED
      BY <3>1, LeaseAssumption, SMTT(30) DEF Token, Time
  <2>2. clock \in Nat
    BY AuthorityAssumption, SMTT(30) DEF LeaseIInv, CallOK
  <2> QED
    BY <1>1, <2>1, <2>2, SMTT(30) DEF Holds
<1> QED
  BY <1>1 DEF LeaseIInv, HoldOK, HeldBy

\* open and the persistence of the anchor.
LEMMA AnchorStep ==
  ASSUME LeaseIInv, Open \/ PersistTemp \/ PersistRename \/ OpenSync \/ RemoveTemp
  PROVE  LeaseIInv'
<1> USE DEF hostVars, diskVars, daemonVars
<1>1. UNCHANGED <<log, synced, losses, backs, clock, historyVars, serving, pending, client>>
  BY DEF Open, PersistTemp, PersistRename, OpenSync, RemoveTemp
<1>2. LogOK' /\ HistoryOK' /\ CallOK'
  BY <1>1, QuietStep, QuietCalls
<1>3. HoldOK'
  <2>1. clock \in Nat
    BY AuthorityAssumption, SMTT(30) DEF LeaseIInv, CallOK
  <2> QED
    BY <1>1, <2>1, QuietHolds, SMTT(30)
<1>4. CASE Open
  <2> DEFINE m == Replay(log)[1]
  <2>1. m \in Store
    BY WholeLog DEF LeaseIInv
  <2> HIDE DEF m
  <2>2. mem' = [m EXCEPT !.observed = m.lastNow]
    BY <1>4 DEF Open, Opened, m
  <2>3. mem' \in Store
    BY <2>1, <2>2 DEF Store
  <2>31. Alike(mem', m) /\ mem'.observed = mem'.lastNow /\ mem'.lastNow \in Nat
    BY <2>1, <2>2, LeaseAssumption, SMTT(30) DEF Store, Alike, Time
  <2>4. daemon' \in {"open_temp", "serving"}
    BY <1>4 DEF Open, ReconcileAnchor
  <2> QED
    BY <1>1, <1>2, <1>3, <2>3, <2>31, <2>4, SMTT(30) DEF LeaseIInv, MemOK, MemIs, Stages, Listening, m
<1>5. CASE ~Open
  <2>1. UNCHANGED mem
    BY <1>5 DEF PersistTemp, PersistRename, OpenSync, RemoveTemp
  <2>2. \/ UNCHANGED daemon
        \/ daemon = "temp" /\ daemon' = "rename"
        \/ daemon = "rename" /\ daemon' = "sync"
        \/ /\ daemon \in {"open_temp", "open_rename", "open_sync"}
           /\ daemon' \in {"open_rename", "open_sync", "serving"}
    BY <1>5 DEF PersistTemp, PersistRename, OpenSync, RemoveTemp
  <2>3. MemOK'
    BY <1>1, <2>1, <2>2 DEF LeaseIInv, MemOK, MemIs, Stages, Listening
  <2> QED
    BY <1>2, <1>3, <2>3 DEF LeaseIInv
<1> QED
  BY <1>4, <1>5

\* The clock, and the death of a daemon.
LEMMA HostStep ==
  ASSUME LeaseIInv, Tick \/ SetBack \/ Crash
  PROVE  LeaseIInv'
<1> USE DEF hostVars, diskVars, daemonVars
<1>1. UNCHANGED <<log, synced, losses, historyVars, client>>
  BY DEF Tick, SetBack, Crash
<1>2. LogOK' /\ HistoryOK'
  BY <1>1, QuietStep
<1>3. clock \in Nat /\ clock' \in 0 .. MaxClock
  BY AuthorityAssumption, SMTT(30) DEF LeaseIInv, CallOK, Tick, SetBack, Crash, Time
<1>4. HoldOK'
  <2>1. CASE SetBack
    BY <2>1, SMTT(30) DEF SetBack, LeaseIInv, HoldOK
  <2>2. CASE ~SetBack
    <3>1. UNCHANGED backs /\ clock <= clock' /\ clock' \in Nat
      BY <1>3, <2>2, SMTT(30) DEF Tick, Crash
    <3> QED
      BY <1>1, <3>1, QuietHolds
  <2> QED
    BY <2>1, <2>2
<1>5. MemOK' /\ CallOK'
  <2>1. CASE Crash
    <3>1. EmptyStore \in Store
      BY LeaseAssumption, SMTT(30) DEF EmptyStore, Store, Time, Generation
    <3> QED
      BY <1>1, <1>3, <2>1, <3>1, SMTT(30) DEF Crash, Gone, LeaseIInv, MemOK, CallOK, Stages
  <2>2. CASE ~Crash
    <3>1. UNCHANGED <<daemon, mem, serving, pending>>
      BY <2>2 DEF Tick, SetBack
    <3> QED
      BY <1>1, <1>3, <3>1 DEF LeaseIInv, MemOK, MemIs, CallOK, Asked
  <2> QED
    BY <2>1, <2>2
<1> QED
  BY <1>2, <1>4, <1>5 DEF LeaseIInv
-----------------------------------------------------------------------------
\* A loss of power cuts the journal behind what was synced.
LEMMA PowerStep == LeaseIInv /\ PowerLoss => LeaseIInv'
<1> SUFFICES ASSUME LeaseIInv, PowerLoss PROVE LeaseIInv'
  OBVIOUS
<1> USE DEF hostVars, diskVars, daemonVars
<1>1. PICK n \in synced .. Len(log) : log' = SubSeq(log, 1, n) /\ synced' = n
  BY DEF PowerLoss
<1>2. log \in Seq(Record) /\ n \in Nat /\ n <= Len(log) /\ Len(log) \in Nat
        /\ synced \in Nat /\ synced <= n
  BY SMTT(30) DEF LeaseIInv, LogOK
<1>3. log' \in Seq(Record) /\ Len(log') = n /\ \A k \in 1 .. n : log'[k] = log[k]
  <2>1. /\ log' \in Seq(Record) /\ Len(log') = IF 1 <= n THEN n - 1 + 1 ELSE 0
        /\ \A k \in 1 .. n - 1 + 1 : log'[k] = log[1 + k - 1]
    <3>1. \A k \in 1 .. n : log[k] \in Record
      BY <1>2, SMTT(30)
    <3> QED
      BY <1>1, <1>2, <3>1, SMTT(30)
  <2> QED
    BY <1>2, <2>1, SMTT(30)
<1>4. LogOK'
  <2>1. ASSUME NEW k \in 0 .. n PROVE ReplayOK(SubSeq(log', 1, k))
    <3>1. SubSeq(log', 1, k) = SubSeq(log, 1, k)
      BY <1>2, <1>3, SamePrefix, SMTT(30)
    <3>2. k \in 0 .. Len(log)
      BY <1>2, SMTT(30)
    <3>3. ReplayOK(SubSeq(log, 1, k))
      BY <3>2 DEF LeaseIInv, LogOK
    <3> QED
      BY <3>1, <3>3
  <2> QED
    BY <1>1, <1>2, <1>3, <2>1, SMTT(30) DEF LogOK
<1>5. losses' # 0 /\ losses' \in Nat /\ UNCHANGED <<backs, clock, client, historyVars>>
  BY SMTT(30) DEF PowerLoss, LeaseIInv, HistoryOK
<1>6. HistoryOK' /\ HoldOK'
  <2>1. ASSUME NEW t \in granted PROVE \E k \in 1 .. n : Acquires(log'[k], t)
    <3>1. PICK k \in 1 .. synced : Acquires(log[k], t)
      BY DEF LeaseIInv, HistoryOK
    <3> QED
      BY <1>2, <1>3, <3>1, SMTT(30)
  <2> QED
    BY <1>1, <1>5, <2>1 DEF LeaseIInv, HistoryOK, HoldOK, historyVars, Fenced
<1>7. MemOK' /\ CallOK'
  <2>1. EmptyStore \in Store
    BY LeaseAssumption, SMTT(30) DEF EmptyStore, Store, Time, Generation
  <2> QED
    BY <1>5, <2>1, SMTT(30) DEF PowerLoss, Gone, LeaseIInv, MemOK, CallOK, Stages
<1> QED
  BY <1>4, <1>6, <1>7 DEF LeaseIInv

\* The synced record reaches the memory.
LEMMA SyncStep == LeaseIInv /\ SyncLog => LeaseIInv'
<1> SUFFICES ASSUME LeaseIInv, SyncLog PROVE LeaseIInv'
  OBVIOUS
<1> USE DEF hostVars, diskVars, daemonVars
<1> DEFINE n == Len(log)  j == SubSeq(log, 1, n - 1)  r == log[n]  m == Replay(j)[1]
           q == serving[1].request
<1>1. /\ daemon = "written" /\ daemon' = "temp" /\ synced' = n /\ mem' = Applied(mem, log[Len(log)])
      /\ UNCHANGED <<log, losses, backs, clock, serving, pending, client, historyVars>>
  BY DEF SyncLog
<1>2. /\ log \in Seq(Record) /\ n \in Nat /\ 0 < n /\ Len(serving) = 1 /\ mem \in Store
      /\ MemIs(j) /\ Replayable(mem, r) /\ mem.observed = r.observed
      /\ r.op = q.op /\ r.scope = q.scope /\ n - 1 \in 0 .. n
      /\ synced \in 0 .. n
  BY <1>1, SMTT(30) DEF LeaseIInv, LogOK, MemOK
<1>3. j \in Seq(Record) /\ r \in Record /\ log = Append(j, r)
  BY <1>2, FrontLast
<1>4. ReplayOK(j)
  BY <1>2 DEF LeaseIInv, LogOK
<1> HIDE DEF j, r, m, q, n
<1>5. StoreOK(mem, j) /\ m \in Store /\ Alike(mem, m) /\ r.op # "revalidate"
  BY <1>2, <1>4, MemBelongs DEF MemIs, m, ReplayOK, StoreOK, Replayable
<1>6. mem' = ApplyReplayed(mem, r)
  BY <1>1, <1>2, <1>3, <1>5, AppliedIsReplayed, SMTT(30)
<1>7. Replayable(m, r) /\ Alike(mem', ApplyReplayed(m, r))
  BY <1>2, <1>3, <1>5, <1>6, AlikeReplay
<1>8. Replay(log)[1] = ApplyReplayed(m, r)
  BY <1>3, <1>4, <1>7, ReplayedAppend DEF m
<1>9. /\ mem' \in Store /\ mem'.observed = mem.observed /\ mem'.lastNow = r.observed
      /\ mem'.entries = [mem.entries EXCEPT ![r.scope] =
                           IF r.op = "release" THEN <<>> ELSE <<NewLease(mem, r)>>]
  BY <1>2, <1>3, <1>5, <1>6, AppliedFields
<1>10. MemOK'
  <2>1. MemIs(log)'
    <3>1. mem'.observed \in Nat
      BY <1>9, LeaseAssumption, SMTT(30) DEF Store, Time
    <3> QED
      BY <1>1, <1>2, <1>7, <1>8, <1>9, <3>1, SMTT(30) DEF MemIs
  <2>2. r.op # "release" => mem'.entries[r.scope] # <<>>
    <3>1. r.scope \in Scope /\ mem.entries \in [Scope -> {<<>>} \cup {<<l>> : l \in Lease}]
      BY <1>2, <1>3 DEF Record, Store
    <3>2. <<NewLease(mem, r)>> # <<>>
      OBVIOUS
    <3> QED
      BY <1>9, <3>1, <3>2
  <2> QED
    BY <1>1, <1>2, <1>9, <2>1, <2>2 DEF MemOK, Stages, Listening, q, n
<1>11. LogOK' /\ HistoryOK'
  <2>1. LogOK'
    BY <1>1, <1>2, SMTT(30) DEF LeaseIInv, LogOK, n
  <2>2. \A t \in granted : \E k \in 1 .. n : Acquires(log[k], t)
    BY <1>2, SMTT(30) DEF LeaseIInv, HistoryOK
  <2> QED
    BY <1>1, <2>1, <2>2 DEF LeaseIInv, HistoryOK, historyVars, Fenced
<1>12. HoldOK'
  BY <1>1 DEF LeaseIInv, HoldOK, HeldBy, Holds
<1>13. CallOK'
  BY <1>1, QuietCalls
<1> QED
  BY <1>10, <1>11, <1>12, <1>13 DEF LeaseIInv


\* A request that was asked stays asked.
LEMMA AskedKept ==
  ASSUME LeaseIInv, NEW s \in Session, NEW h \in 1 .. Len(pending[s]),
         NEW q, q = pending[s][h].request,
         \A u \in Session : client[u].spent \subseteq client'[u].spent
  PROVE  Asked(q)'
<1>1. pending[s] \in Seq(Connection)
  BY DEF LeaseIInv, CallOK
<1>2. q.session \in Session
  <2>1. pending[s][h] \in Connection
    BY <1>1, SMTT(30)
  <2> QED
    BY <2>1 DEF Connection, Request
<1>3. Asked(q)
  BY DEF LeaseIInv, CallOK
<1> QED
  BY <1>2, <1>3 DEF Asked

\* The calls after a step that only drops calls.
LEMMA CallsKept ==
  ASSUME LeaseIInv, clock' \in 0 .. MaxClock, serving' \in Seq(Connection),
         pending' \in [Session -> Seq(Connection)], client' \in [Session -> ClientState],
         \A s \in Session : client[s].spent \subseteq client'[s].spent,
         \A s \in Session : client'[s].token # <<>> => client'[s].token[1].session = s,
         \A s \in Session : \A i \in 1 .. Len(pending'[s]) :
           \E h \in 1 .. Len(pending[s]) : pending'[s][i].request = pending[s][h].request
  PROVE  CallOK'
<1>1. ASSUME NEW s \in Session, NEW i \in 1 .. Len(pending'[s])
      PROVE  Asked(pending[s][i].request)'
  <2>1. PICK h \in 1 .. Len(pending[s]) : pending'[s][i].request = pending[s][h].request
    OBVIOUS
  <2>2. PICK q : q = pending[s][h].request
    OBVIOUS
  <2>3. Asked(q)'
    BY <2>2, AskedKept
  <2> QED
    BY <2>1, <2>2, <2>3 DEF Asked
<1> QED
  BY <1>1 DEF CallOK

\* An answer hands out the entry of its scope.
LEMMA AnswerGrants ==
  ASSUME LeaseIInv, daemon \in {"serving", "sync"}, NEW c, NEW p \in Scope,
         mem.entries[p] # <<>>, AnswerWith(c, TokenOf(p, mem.entries[p][1])),
         UNCHANGED <<log, losses, clock, backs>>
  PROVE  LET t == TokenOf(p, mem.entries[p][1])
         IN  /\ Grant(t) \in Grants
             /\ \E n \in 1 .. Len(log) : Acquires(log[n], Grant(t))
             /\ answered' \subseteq Grants
             /\ losses' = 0 =>
                  \A g \in answered' : \E n \in 1 .. Len(log) : Acquires(log[n], g)
             /\ Fenced' /\ HoldOK' /\ client' \in [Session -> ClientState]
             /\ \A s \in Session :
                  /\ client[s].spent \subseteq client'[s].spent
                  /\ client'[s].token # <<>> => client'[s].token[1].session = s
<1> DEFINE t == TokenOf(p, mem.entries[p][1])  g == Grant(t)  m == Replay(log)[1]
<1>1. /\ mem \in Store /\ MemIs(log) /\ ReplayOK(log) /\ log \in Seq(Record)
      /\ client \in [Session -> ClientState] /\ answered \subseteq Grants
  BY WholeLog DEF LeaseIInv, LogOK, MemOK, CallOK, HistoryOK
<1>2. StoreOK(mem, log) /\ m.entries = mem.entries
  BY <1>1, MemBelongs DEF MemIs, Alike
<1>3. mem.entries[p] \in {<<l>> : l \in Lease}
  BY <1>1 DEF Store
<1>4. t \in Token
  BY <1>3, SMTT(30) DEF Token, TokenOf, Lease
<1>5. /\ t.scope = p /\ t.session = mem.entries[p][1].session
      /\ t.generation = mem.entries[p][1].generation
  BY DEF TokenOf
<1>6. t.generation = mem.generations[p]
  BY <1>2, <1>5 DEF StoreOK
<1>7. PICK n0 \in 1 .. Len(log) : Acquires(log[n0], t)
  BY <1>2 DEF StoreOK
<1> HIDE DEF t, m
<1>8. /\ g.scope = p /\ g.session = t.session /\ g.generation = t.generation /\ g \in Grants
      /\ Acquires(log[n0], g)
  BY <1>4, <1>5, <1>7 DEF Grant, Grants, Acquires, Token
<1>9. lastAnswer' = <<g>> /\ answered' = answered \cup {g} /\ Deliver(c, t)
  BY DEF AnswerWith, t
<1>10. losses = 0 => \A x \in answered' : \E n \in 1 .. Len(log) : Acquires(log[n], x)
  BY <1>8, <1>9 DEF LeaseIInv, HistoryOK
<1> HIDE DEF g
<1>11. Fenced'
  <2> SUFFICES ASSUME losses = 0, NEW x \in answered', x.scope = p
               PROVE  /\ x.generation <= g.generation
                      /\ x.generation = g.generation => x.session = g.session
    BY <1>8, <1>9 DEF Fenced
  <2>1. PICK n \in 1 .. Len(log) : Acquires(log[n], x)
    BY <1>10
  <2>2. /\ log[n].op = "acquire" /\ log[n].scope = p /\ log[n].session = x.session
        /\ log[n].generation = x.generation
        /\ log[n0].op = "acquire" /\ log[n0].scope = p /\ log[n0].session = g.session
        /\ log[n0].generation = g.generation
    BY <1>8, <2>1 DEF Acquires
  <2>3. x.generation <= mem.generations[p]
    BY <1>2, <2>2 DEF StoreOK
  <2>4. x.generation = g.generation => x.session = g.session
    BY <1>2, <2>2, SMTT(30) DEF StoreOK
  <2> QED
    BY <1>6, <1>8, <2>3, <2>4
<1>12. /\ client' \in [Session -> ClientState]
       /\ \A s \in Session :
            /\ client[s].spent \subseteq client'[s].spent
            /\ \/ client'[s].token = client[s].token /\ client'[s].spent = client[s].spent
               \/ s = t.session /\ client'[s].token = <<t>>
  <2>1. CASE UNCHANGED client
    BY <1>1, <2>1
  <2>2. CASE client' = [client EXCEPT ![t.session].token = <<t>>]
    <3>1. t.session \in Session /\ <<t>> \in {<<x>> : x \in Token}
      BY <1>4 DEF Token
    <3>2. /\ client[t.session] \in ClientState
          /\ client' = [client EXCEPT ![t.session] = [client[t.session] EXCEPT !.token = <<t>>]]
      BY <1>1, <2>2, <3>1
    <3>3. /\ [client[t.session] EXCEPT !.token = <<t>>] \in ClientState
          /\ [client[t.session] EXCEPT !.token = <<t>>].token = <<t>>
          /\ [client[t.session] EXCEPT !.token = <<t>>].spent = client[t.session].spent
      BY <3>1, <3>2 DEF ClientState
    <3> QED
      BY <1>1, <3>1, <3>2, <3>3
  <2> QED
    BY <1>9, <2>1, <2>2 DEF Deliver
<1>13. \A s \in Session : client'[s].token # <<>> => client'[s].token[1].session = s
  <2>1. <<t>>[1] = t
    OBVIOUS
  <2> QED
    BY <1>12, <2>1 DEF LeaseIInv, CallOK
<1>14. HoldOK'
  <2>1. HeldBy(t)
    BY <1>2, <1>5 DEF HeldBy, m, t
  <2>2. ASSUME backs = 0, losses = 0, NEW s \in Session, Holds(s)'
        PROVE  HeldBy(client'[s].token[1])
    <3>1. CASE client'[s].token = <<t>>
      <4>1. client'[s].token[1] = t
        BY <3>1, SMTT(30)
      <4> QED
        BY <2>1, <4>1
    <3>2. CASE client'[s].token = client[s].token /\ client'[s].spent = client[s].spent
      <4>1. Holds(s)
        BY <2>2, <3>2 DEF Holds
      <4> QED
        BY <2>2, <3>2, <4>1 DEF LeaseIInv, HoldOK
    <3> QED
      BY <1>12, <3>1, <3>2
  <2>3. ASSUME NEW s \in Session, HeldBy(client'[s].token[1])
        PROVE  HeldBy(client[s].token[1])'
    BY <2>3 DEF HeldBy
  <2> QED
    BY <2>2, <2>3 DEF LeaseIInv, HoldOK
<1>15. \E n \in 1 .. Len(log) : Acquires(log[n], g)
  BY <1>8
<1>16. answered' \subseteq Grants
  BY <1>1, <1>8, <1>9
<1>17. losses' = 0 => \A x \in answered' : \E n \in 1 .. Len(log) : Acquires(log[n], x)
  BY <1>10
<1>18. \A s \in Session : /\ client[s].spent \subseteq client'[s].spent
                          /\ client'[s].token # <<>> => client'[s].token[1].session = s
  BY <1>12, <1>13
<1>19. g \in Grants /\ client' \in [Session -> ClientState]
  BY <1>8, <1>12
<1> QED
  BY <1>11, <1>14, <1>15, <1>16, <1>17, <1>18, <1>19 DEF g, t

\* A call the daemon is done with.
LEMMA DropCall ==
  ASSUME LeaseIInv, NEW s \in Session, NEW i \in DOMAIN pending[s], pending' = Drop(s, i)
  PROVE  /\ pending[s][i] \in Connection /\ Asked(pending[s][i].request)
         /\ pending' \in [Session -> Seq(Connection)]
         /\ \A u \in Session : \A k \in 1 .. Len(pending'[u]) :
              \E h \in 1 .. Len(pending[u]) : pending'[u][k].request = pending[u][h].request
<1>1. pending \in [Session -> Seq(Connection)] /\ pending[s] \in Seq(Connection)
        /\ i \in 1 .. Len(pending[s])
  BY SMTT(30) DEF LeaseIInv, CallOK
<1>2. /\ DropOne(pending[s], i) \in Seq(Connection)
      /\ \A k \in 1 .. Len(DropOne(pending[s], i)) :
           \E h \in 1 .. Len(pending[s]) : DropOne(pending[s], i)[k] = pending[s][h]
  BY <1>1, DropOneElements
<1>3. pending' = [pending EXCEPT ![s] = DropOne(pending[s], i)]
  BY DEF Drop, DropOne
<1>4. pending[s][i] \in Connection /\ Asked(pending[s][i].request)
  BY <1>1, SMTT(30) DEF LeaseIInv, CallOK
<1>5. ASSUME NEW u \in Session, NEW k \in 1 .. Len(pending'[u])
      PROVE  \E h \in 1 .. Len(pending[u]) : pending'[u][k].request = pending[u][h].request
  <2>1. CASE u = s
    <3>1. pending'[u] = DropOne(pending[s], i)
      BY <1>1, <1>3, <2>1
    <3>2. PICK h \in 1 .. Len(pending[s]) : DropOne(pending[s], i)[k] = pending[s][h]
      BY <1>2, <3>1
    <3> QED
      BY <2>1, <3>1, <3>2
  <2>2. CASE u # s
    <3>1. pending'[u] = pending[u]
      BY <1>1, <1>3, <2>2
    <3> QED
      BY <3>1
  <2> QED
    BY <2>1, <2>2
<1> QED
  BY <1>1, <1>2, <1>3, <1>4, <1>5

\* The daemon reads a clock that is not behind what it has seen.
LEMMA ObservedClock ==
  ASSUME LeaseIInv, daemon = "serving", ClockAdvanced, mem' = [mem EXCEPT !.observed = clock]
  PROVE  /\ clock \in Time /\ clock >= mem.lastNow /\ mem' \in Store /\ Alike(mem', mem)
         /\ mem'.observed = clock /\ mem'.observed >= mem'.lastNow
<1>1. clock \in Time /\ MaxTime \in Nat
  BY LeaseAssumption, AuthorityAssumption, SMTT(30) DEF LeaseIInv, CallOK, Time
<1>2. mem \in Store /\ mem.observed >= mem.lastNow /\ clock >= mem.observed
  BY DEF LeaseIInv, MemOK, MemIs, ClockAdvanced
<1>3. mem.observed \in Nat /\ mem.lastNow \in Nat /\ clock \in Nat
  BY <1>1, <1>2, SMTT(30) DEF Store, Time
<1>4. mem' \in Store /\ Alike(mem', mem) /\ mem'.observed = clock
  BY <1>1, <1>2 DEF Store, Alike
<1> QED
  BY <1>1, <1>2, <1>3, <1>4, SMTT(30) DEF Alike

\* apply, answered from memory.
LEMMA AnswerStep ==
  ASSUME LeaseIInv, NEW s \in Session, NEW i, Answer(s, i)
  PROVE  LeaseIInv'
<1> USE DEF hostVars, diskVars, daemonVars
<1> DEFINE c == pending[s][i]  q == c.request  t == TokenOf(q.scope, mem.entries[q.scope][1])
<1>1. /\ daemon = "serving" /\ i \in DOMAIN pending[s] /\ pending' = Drop(s, i)
      /\ ClockAdvanced /\ Answers(mem, q, clock) /\ AnswerWith(c, t)
      /\ mem' = [mem EXCEPT !.observed = clock]
      /\ UNCHANGED <<log, synced, daemon, serving, clock, backs, losses, granted>>
  BY DEF Answer
<1>2. /\ c \in Connection /\ pending' \in [Session -> Seq(Connection)]
      /\ \A u \in Session : \A k \in 1 .. Len(pending'[u]) :
           \E h \in 1 .. Len(pending[u]) : pending'[u][k].request = pending[u][h].request
  BY <1>1, DropCall
<1>3. q.scope \in Scope /\ mem.entries[q.scope] # <<>>
  BY <1>1, <1>2 DEF Connection, Request, Answers, Unexpired, Held
<1>4. mem' \in Store /\ Alike(mem', mem) /\ mem'.observed >= mem'.lastNow
  BY <1>1, ObservedClock
<1> HIDE DEF c
<1>5. /\ answered' \subseteq Grants /\ Fenced' /\ HoldOK' /\ client' \in [Session -> ClientState]
      /\ losses' = 0 => \A g \in answered' : \E n \in 1 .. Len(log) : Acquires(log[n], g)
      /\ \A u \in Session : /\ client[u].spent \subseteq client'[u].spent
                            /\ client'[u].token # <<>> => client'[u].token[1].session = u
  BY <1>1, <1>3, AnswerGrants
<1>6. MemOK'
  BY <1>1, <1>4 DEF LeaseIInv, MemOK, MemIs, Alike
<1>7. CallOK'
  <2>1. clock' \in 0 .. MaxClock /\ serving' \in Seq(Connection)
    BY <1>1 DEF LeaseIInv, CallOK
  <2> QED
    BY <1>2, <1>5, <2>1, CallsKept
<1>8. LogOK' /\ HistoryOK'
  BY <1>1, <1>5 DEF LeaseIInv, LogOK, HistoryOK
<1> QED
  BY <1>5, <1>6, <1>7, <1>8 DEF LeaseIInv

\* apply, refused, or a connection that ran out of time.
LEMMA RefuseStep ==
  ASSUME LeaseIInv, NEW s \in Session, NEW i, Refuse(s, i)
  PROVE  LeaseIInv'
<1> USE DEF hostVars, diskVars, daemonVars
<1>1. /\ daemon = "serving" /\ i \in DOMAIN pending[s] /\ pending' = Drop(s, i)
      /\ UNCHANGED <<log, synced, daemon, serving, clock, backs, losses, client, historyVars>>
      /\ (UNCHANGED mem \/ (ClockAdvanced /\ mem' = [mem EXCEPT !.observed = clock]))
  BY DEF Refuse
<1>2. /\ pending' \in [Session -> Seq(Connection)]
      /\ \A u \in Session : \A k \in 1 .. Len(pending'[u]) :
           \E h \in 1 .. Len(pending[u]) : pending'[u][k].request = pending[u][h].request
  BY <1>1, DropCall
<1>3. mem' \in Store /\ Alike(mem', mem) /\ mem'.observed >= mem'.lastNow
  <2>1. CASE UNCHANGED mem
    BY <1>1, <2>1 DEF LeaseIInv, MemOK, MemIs, Alike
  <2> QED
    BY <1>1, <2>1, ObservedClock
<1>4. MemOK'
  BY <1>1, <1>3 DEF LeaseIInv, MemOK, MemIs, Alike
<1>5. LogOK' /\ HistoryOK'
  BY <1>1, QuietStep
<1>6. HoldOK'
  BY <1>1 DEF LeaseIInv, HoldOK, HeldBy, Holds
<1>7. CallOK'
  <2>1. /\ clock' \in 0 .. MaxClock /\ serving' \in Seq(Connection)
        /\ client' \in [Session -> ClientState]
        /\ \A u \in Session : /\ client[u].spent \subseteq client'[u].spent
                              /\ client'[u].token # <<>> => client'[u].token[1].session = u
    BY <1>1 DEF LeaseIInv, CallOK
  <2> QED
    BY <1>2, <2>1, CallsKept
<1> QED
  BY <1>4, <1>5, <1>6, <1>7 DEF LeaseIInv

\* Who replaces or removes the entry of a scope takes it from nobody: it has
\* expired, or its session asked with that very token.
LEMMA NobodyLoses ==
  ASSUME LeaseIInv, NEW q \in Request, Asked(q), NEW s \in Session, Holds(s),
         HeldBy(client[s].token[1]), Appends(mem, q, clock), MemIs(log)
  PROVE  client[s].token[1].scope # q.scope
<1> SUFFICES ASSUME client[s].token[1].scope = q.scope PROVE FALSE
  OBVIOUS
<1> DEFINE t == client[s].token[1]  l == mem.entries[q.scope][1]
<1>1. /\ mem.entries[q.scope] # <<>> /\ t.session = l.session /\ t.expires = l.expires
      /\ t.hash = l.hash
  BY SMTT(30) DEF HeldBy, MemIs, Alike, TokenOf
<1>2. t.session = s /\ clock < t.expires /\ t.hash \notin client[s].spent
  BY DEF LeaseIInv, CallOK, Holds
<1> HIDE DEF t, l
<1>3. Unexpired(mem, q, clock)
  BY <1>1, <1>2 DEF Unexpired, Held, l
<1>4. q.op \in {"renew", "release"} /\ EnsureTokenMatches(mem, q)
  BY <1>3 DEF Appends, Free
<1>5. q.session = s /\ q.hash = t.hash
  BY <1>1, <1>2, <1>4 DEF EnsureTokenMatches, SameHolder, l
<1> QED
  BY <1>2, <1>4, <1>5 DEF Asked

\* apply, up to the write of the record.
LEMMA WriteStep ==
  ASSUME LeaseIInv, NEW s \in Session, NEW i, WriteRecord(s, i)
  PROVE  LeaseIInv'
<1> USE DEF hostVars, diskVars, daemonVars
<1> DEFINE c == pending[s][i]  q == c.request  r == NewRecord(q, clock)  n == Len(log)
           m == Replay(log)[1]  a == ApplyReplayed(m, r)
<1>1. /\ daemon = "serving" /\ i \in DOMAIN pending[s] /\ pending' = Drop(s, i)
      /\ ClockAdvanced /\ Appends(mem, q, clock) /\ log' = Append(log, r)
      /\ mem' = [mem EXCEPT !.observed = clock] /\ serving' = <<c>> /\ daemon' = "written"
      /\ UNCHANGED <<synced, clock, backs, losses, client, historyVars>>
  BY DEF WriteRecord
<1>2. /\ c \in Connection /\ Asked(q) /\ pending' \in [Session -> Seq(Connection)]
      /\ \A u \in Session : \A k \in 1 .. Len(pending'[u]) :
           \E h \in 1 .. Len(pending[u]) : pending'[u][k].request = pending[u][h].request
  BY <1>1, DropCall
<1>3. q \in Request /\ q.scope \in Scope
  BY <1>2 DEF Connection, Request
<1>4. /\ clock \in Time /\ clock >= mem.lastNow /\ mem' \in Store /\ Alike(mem', mem)
      /\ mem'.observed = clock /\ mem'.observed >= mem'.lastNow
  BY <1>1, ObservedClock
<1>5. /\ mem \in Store /\ MemIs(log) /\ ReplayOK(log) /\ log \in Seq(Record) /\ n \in Nat
      /\ m \in Store /\ SubSeq(log, 1, n) = log /\ synced \in 0 .. n
  BY <1>1, WholeLog DEF LeaseIInv, LogOK, MemOK
<1>6. serving'[1] = c /\ Len(serving') = 1 /\ serving' \in Seq(Connection)
  BY <1>1, <1>2, SMTT(30)
<1> HIDE DEF c, n, m
<1>7. r \in Record /\ Replayable(mem, r) /\ r.op # "revalidate"
  <2>0. /\ q.session \in Session /\ q.generation \in Generation
        /\ q.op \in {"acquire", "renew"} => q.ttl \in Ttl
    BY <1>2, <1>3 DEF Request, Asked
  <2>1. r \in Record /\ Replayable(mem, r)
    BY <1>1, <1>3, <1>4, <1>5, <2>0, AppendsReplayable
  <2> QED
    BY <2>1 DEF Replayable
<1>8. r.op = q.op /\ r.scope = q.scope /\ r.observed = clock
  BY DEF NewRecord
<1> HIDE DEF r
<1>9. Alike(mem, m)
  BY <1>5 DEF MemIs, m
<1>10. Replayable(m, r) /\ Replayable(mem', r)
  <2>1. Alike(mem', m)
    BY <1>4, <1>9 DEF Alike
  <2> QED
    BY <1>4, <1>5, <1>7, <1>9, <2>1, AlikeReplay
<1>11. Replay(log')[1] = a /\ ReplayOK(log')
  BY <1>1, <1>5, <1>7, <1>10, ReplayedAppend DEF m
<1>12. /\ log' \in Seq(Record) /\ Len(log') = n + 1 /\ log'[n + 1] = r
       /\ \A k \in 1 .. n : log'[k] = log[k]
  BY <1>1, <1>5, <1>7, SMTT(30) DEF n
<1>13. \A k \in 0 .. n : SubSeq(log', 1, k) = SubSeq(log, 1, k)
  <2> SUFFICES ASSUME NEW k \in 0 .. n PROVE SubSeq(log', 1, k) = SubSeq(log, 1, k)
    OBVIOUS
  <2>1. k \in Nat /\ k <= n /\ k <= n + 1 /\ \A h \in 1 .. k : log'[h] = log[h]
    BY <1>5, <1>12, SMTT(30)
  <2> QED
    BY <1>5, <1>12, <2>1, SamePrefix DEF n
<1>14. LogOK'
  <2>1. SubSeq(log', 1, n + 1) = log'
    BY <1>12, SMTT(30)
  <2>2. \A k \in 0 .. n + 1 : k \in 0 .. n \/ k = n + 1
    BY <1>5, SMTT(30)
  <2>3. \A k \in 0 .. n + 1 : ReplayOK(SubSeq(log', 1, k))
    BY <1>11, <1>13, <2>1, <2>2 DEF LeaseIInv, LogOK, n
  <2>4. synced' \in 0 .. n + 1
    BY <1>1, <1>5, SMTT(30)
  <2> QED
    BY <1>12, <2>3, <2>4 DEF LogOK
<1>15. MemOK'
  <2>1. n \in 0 .. n /\ n + 1 - 1 = n /\ synced' < n + 1
    BY <1>1, <1>5, SMTT(30)
  <2>2. SubSeq(log', 1, Len(log') - 1) = log
    BY <1>5, <1>12, <1>13, <2>1, SMTT(30)
  <2>3. Alike(mem', m) /\ mem'.observed >= mem'.lastNow
    BY <1>4, <1>9 DEF Alike
  <2>4. MemIs(SubSeq(log, 1, Len(log) - 1))'
    BY <2>2, <2>3 DEF MemIs, m
  <2> QED
    BY <1>1, <1>4, <1>6, <1>8, <1>10, <1>12, <2>1, <2>4 DEF MemOK, Stages, Listening
<1>16. CallOK'
  <2>1. /\ clock' \in 0 .. MaxClock /\ client' \in [Session -> ClientState]
        /\ \A u \in Session : /\ client[u].spent \subseteq client'[u].spent
                              /\ client'[u].token # <<>> => client'[u].token[1].session = u
    BY <1>1 DEF LeaseIInv, CallOK
  <2> QED
    BY <1>2, <1>6, <2>1, CallsKept
<1>17. HistoryOK'
  <2>1. /\ losses' \in Nat /\ answered' \subseteq Grants /\ granted' \subseteq Grants /\ Fenced'
    BY <1>1 DEF LeaseIInv, HistoryOK, Fenced, historyVars
  <2>2. ASSUME losses' = 0, NEW t \in answered' PROVE \E k \in 1 .. n + 1 : Acquires(log'[k], t)
    <3>1. PICK k \in 1 .. n : Acquires(log[k], t)
      BY <1>1, <2>2 DEF LeaseIInv, HistoryOK, historyVars, n
    <3>2. k \in 1 .. n + 1 /\ log'[k] = log[k]
      BY <1>5, <1>12, SMTT(30)
    <3> QED
      BY <3>1, <3>2
  <2>3. ASSUME NEW t \in granted' PROVE \E k \in 1 .. synced' : Acquires(log'[k], t)
    <3>1. PICK k \in 1 .. synced : Acquires(log[k], t)
      BY <1>1, <2>3 DEF LeaseIInv, HistoryOK, historyVars
    <3>2. log'[k] = log[k]
      BY <1>5, <1>12, SMTT(30)
    <3> QED
      BY <1>1, <3>1, <3>2
  <2> QED
    BY <1>12, <2>1, <2>2, <2>3 DEF HistoryOK
<1>18. HoldOK'
  <2>1. ASSUME backs = 0, losses = 0, NEW u \in Session, Holds(u)
        PROVE  HeldBy(client[u].token[1])'
    <3> DEFINE t == client[u].token[1]
    <3>1. HeldBy(t)
      BY <2>1 DEF LeaseIInv, HoldOK
    <3>2. t.scope # q.scope
      BY <1>1, <1>2, <1>3, <1>5, <2>1, <3>1, NobodyLoses
    <3>3. t.scope \in Scope
      <4>1. client[u].token \in {<<x>> : x \in Token}
        BY <2>1 DEF LeaseIInv, CallOK, ClientState, Holds
      <4> QED
        BY <4>1, SMTT(30) DEF Token
    <3>4. a.entries[t.scope] = m.entries[t.scope]
      <4>1. a.entries = [m.entries EXCEPT ![r.scope] =
                            IF r.op = "release" THEN <<>> ELSE <<NewLease(m, r)>>]
        BY <1>5, <1>7, AppliedFields
      <4>2. m.entries \in [Scope -> {<<>>} \cup {<<l>> : l \in Lease}]
        BY <1>5 DEF Store
      <4> QED
        BY <1>3, <1>8, <3>2, <3>3, <4>1, <4>2
    <3> HIDE DEF a
    <3> QED
      BY <1>1, <1>11, <3>1, <3>4 DEF HeldBy, m
  <2>2. \A u \in Session : Holds(u)' => Holds(u)
    BY <1>1 DEF Holds
  <2> QED
    BY <1>1, <2>1, <2>2 DEF LeaseIInv, HoldOK
<1> QED
  BY <1>14, <1>15, <1>16, <1>17, <1>18 DEF LeaseIInv

\* The answer of the process that wrote the record.
LEMMA FinishStep == LeaseIInv /\ Finish => LeaseIInv'
<1> SUFFICES ASSUME LeaseIInv, Finish PROVE LeaseIInv'
  OBVIOUS
<1> USE DEF hostVars, diskVars, daemonVars
<1> DEFINE q == serving[1].request  t == TokenOf(q.scope, mem.entries[q.scope][1])
<1>1. /\ daemon = "sync" /\ daemon' = "serving" /\ serving' = <<>>
      /\ UNCHANGED <<log, synced, mem, clock, backs, losses, pending>>
      /\ IF q.op = "release" THEN UNCHANGED <<client, historyVars>>
         ELSE AnswerWith(serving[1], t) /\ granted' = granted \cup {Grant(t)}
  BY DEF Finish
<1>2. /\ synced = Len(log) /\ Len(serving) = 1 /\ MemIs(log) /\ mem \in Store
      /\ q.op # "release" => mem.entries[q.scope] # <<>>
  BY <1>1 DEF LeaseIInv, MemOK
<1>3. q.scope \in Scope
  <2>0. serving \in Seq(Connection)
    BY DEF LeaseIInv, CallOK
  <2>01. Len(serving) = 1
    BY <1>2
  <2>1. serving[1] \in Connection
    BY <2>0, <2>01, SMTT(30)
  <2>2. q \in Request
    BY <2>1 DEF Connection
  <2> QED
    BY <2>2 DEF Request
<1> HIDE DEF q
<1>4. LogOK' /\ MemOK'
  BY <1>1, <1>2 DEF LeaseIInv, LogOK, MemOK, MemIs, Stages, Listening
<1>5. /\ HistoryOK' /\ HoldOK' /\ client' \in [Session -> ClientState]
      /\ \A u \in Session : /\ client[u].spent \subseteq client'[u].spent
                            /\ client'[u].token # <<>> => client'[u].token[1].session = u
  <2>1. CASE q.op = "release"
    <3>1. UNCHANGED <<client, historyVars>>
      BY <1>1, <2>1
    <3> QED
      BY <1>1, <3>1, QuietStep DEF LeaseIInv, CallOK, HoldOK, HeldBy, Holds
  <2>2. CASE q.op # "release"
    <3>1. AnswerWith(serving[1], t) /\ granted' = granted \cup {Grant(t)}
      BY <1>1, <2>2
    <3>2. /\ Grant(t) \in Grants /\ \E n \in 1 .. Len(log) : Acquires(log[n], Grant(t))
          /\ answered' \subseteq Grants /\ Fenced' /\ HoldOK'
          /\ client' \in [Session -> ClientState]
          /\ losses' = 0 => \A g \in answered' : \E n \in 1 .. Len(log) : Acquires(log[n], g)
          /\ \A u \in Session : /\ client[u].spent \subseteq client'[u].spent
                                /\ client'[u].token # <<>> => client'[u].token[1].session = u
      BY <1>1, <1>2, <1>3, <2>2, <3>1, AnswerGrants
    <3> HIDE DEF t
    <3>3. HistoryOK'
      BY <1>1, <1>2, <3>1, <3>2 DEF LeaseIInv, HistoryOK
    <3> QED
      BY <3>2, <3>3
  <2> QED
    BY <2>1, <2>2
<1>6. CallOK'
  <2>1. /\ clock' \in 0 .. MaxClock /\ serving' \in Seq(Connection)
        /\ pending' \in [Session -> Seq(Connection)]
    BY <1>1, SMTT(30) DEF LeaseIInv, CallOK
  <2>2. \A u \in Session : \A k \in 1 .. Len(pending'[u]) :
          \E h \in 1 .. Len(pending[u]) : pending'[u][k].request = pending[u][h].request
    BY <1>1
  <2> QED
    BY <1>5, <2>1, <2>2, CallsKept
<1> QED
  BY <1>4, <1>5, <1>6 DEF LeaseIInv

\* A call given up keeps its request.
LEMMA AbandonedCalls ==
  ASSUME NEW c \in Seq(Connection), NEW s
  PROVE  /\ Abandoned(c, s) \in Seq(Connection) /\ Len(Abandoned(c, s)) = Len(c)
         /\ \A i \in 1 .. Len(c) : Abandoned(c, s)[i].request = c[i].request
<1> DEFINE d == Abandoned(c, s)
<1>1. DOMAIN c = 1 .. Len(c) /\ Len(c) \in Nat /\ \A i \in 1 .. Len(c) : c[i] \in Connection
  BY SMTT(30)
<1>2. ASSUME NEW i \in 1 .. Len(c)
      PROVE  d[i] \in Connection /\ d[i].request = c[i].request
  <2>1. d[i] = IF c[i].request.session = s THEN [c[i] EXCEPT !.live = FALSE] ELSE c[i]
    BY <1>1 DEF Abandoned
  <2> QED
    BY <1>1, <2>1 DEF Connection
<1>3. d = [i \in 1 .. Len(c) |-> d[i]]
  BY <1>1 DEF Abandoned
<1> HIDE DEF d
<1>4. d \in Seq(Connection) /\ Len(d) = Len(c)
  BY <1>1, <1>2, <1>3, SMTT(30)
<1> QED
  BY <1>2, <1>4 DEF d

\* A new call of a session, with the tokens it spends.
LEMMA SendStep ==
  ASSUME LeaseIInv, NEW s \in Session, NEW q \in Request, Send(s, q), Asked(q)',
         client' \in [Session -> ClientState],
         \A u \in Session : /\ client'[u].token = client[u].token
                            /\ client[u].spent \subseteq client'[u].spent
  PROVE  LeaseIInv'
<1> USE DEF hostVars, diskVars, daemonVars
<1> DEFINE c == [request |-> q, live |-> TRUE]  b == Abandoned(pending[s], s)
<1>1. /\ UNCHANGED <<log, synced, daemon, mem, clock, backs, losses, historyVars>>
      /\ pending' = [pending EXCEPT ![s] = Append(b, c)] /\ serving' = Abandoned(serving, s)
  BY DEF Send
<1>2. /\ serving \in Seq(Connection) /\ pending \in [Session -> Seq(Connection)]
      /\ pending[s] \in Seq(Connection) /\ c \in Connection /\ c.request = q
  BY DEF LeaseIInv, CallOK, Connection
<1>3. /\ serving' \in Seq(Connection) /\ Len(serving') = Len(serving)
      /\ \A i \in 1 .. Len(serving) : serving'[i].request = serving[i].request
  BY <1>1, <1>2, AbandonedCalls
<1>4. /\ b \in Seq(Connection) /\ Len(b) = Len(pending[s])
      /\ \A i \in 1 .. Len(pending[s]) : b[i].request = pending[s][i].request
  BY <1>2, AbandonedCalls
<1> HIDE DEF b, c
<1>5. /\ Append(b, c) \in Seq(Connection) /\ Len(Append(b, c)) = Len(b) + 1
      /\ Append(b, c)[Len(b) + 1] = c /\ \A i \in 1 .. Len(b) : Append(b, c)[i] = b[i]
  BY <1>2, <1>4, SMTT(30)
<1>6. LogOK' /\ HistoryOK'
  BY <1>1, QuietStep
<1>7. HoldOK'
  <2>1. clock \in Nat
    BY AuthorityAssumption, SMTT(30) DEF LeaseIInv, CallOK
  <2> QED
    BY <1>1, <2>1, QuietHolds, SMTT(30)
<1>8. MemOK'
  <2>1. Len(serving) = 1 => serving'[1].request = serving[1].request
    BY <1>3, SMTT(30)
  <2> QED
    BY <1>1, <1>3, <2>1 DEF LeaseIInv, MemOK, MemIs
<1>9. CallOK'
  <2>1. pending' \in [Session -> Seq(Connection)]
    BY <1>1, <1>2, <1>5
  <2>2. clock' \in 0 .. MaxClock
    BY <1>1 DEF LeaseIInv, CallOK
  <2>3. \A u \in Session : client'[u].token # <<>> => client'[u].token[1].session = u
    BY DEF LeaseIInv, CallOK
  <2>4. ASSUME NEW u \in Session, NEW i \in 1 .. Len(pending'[u])
        PROVE  Asked(pending[u][i].request)'
    <3>0. ASSUME NEW h \in 1 .. Len(pending[u]), pending'[u][i].request = pending[u][h].request
          PROVE  Asked(pending[u][i].request)'
      <4>1. PICK x : x = pending[u][h].request
        OBVIOUS
      <4>2. Asked(x)'
        BY <4>1, AskedKept
      <4> QED
        BY <3>0, <4>1, <4>2 DEF Asked
    <3>1. CASE u # s
      <4>1. pending'[u] = pending[u]
        BY <1>1, <1>2, <3>1
      <4> QED
        BY <3>0, <4>1
    <3>2. CASE u = s
      <4>1. pending'[u] = Append(b, c) /\ Len(b) \in Nat
        BY <1>1, <1>2, <1>4, <3>2, SMTT(30)
      <4>2. i \in 1 .. Len(b) \/ i = Len(b) + 1
        BY <1>5, <4>1, SMTT(30)
      <4>3. CASE i \in 1 .. Len(b)
        BY <1>4, <1>5, <3>0, <3>2, <4>1, <4>3
      <4>4. CASE i = Len(b) + 1
        <5>1. pending'[u][i].request = q
          BY <1>2, <1>5, <4>1, <4>4
        <5> QED
          BY <5>1 DEF Asked
      <4> QED
        BY <4>2, <4>3, <4>4
    <3> QED
      BY <3>1, <3>2
  <2> QED
    BY <1>3, <2>1, <2>2, <2>3, <2>4 DEF CallOK
<1> QED
  BY <1>6, <1>7, <1>8, <1>9 DEF LeaseIInv

\* The calls of a session.
LEMMA ClientStep ==
  ASSUME LeaseIInv, NEW s \in Session,
         \/ \E p \in Scope, g \in Generation \ {0}, ttl \in Ttl : Acquire(s, p, g, ttl)
         \/ \E ttl \in Ttl : Renew(s, ttl)
         \/ Revalidate(s) \/ Release(s)
  PROVE  LeaseIInv'
<1> DEFINE t == client[s].token[1]
           Quiet == /\ client' \in [Session -> ClientState]
                    /\ \A u \in Session : /\ client'[u].token = client[u].token
                                          /\ client[u].spent \subseteq client'[u].spent
<1>1. client \in [Session -> ClientState]
  BY DEF LeaseIInv, CallOK
<1>2. UNCHANGED client => Quiet
  BY <1>1
<1>3. ASSUME client[s].token # <<>> PROVE t \in Token
  <2>1. client[s].token \in {<<>>} \cup {<<x>> : x \in Token}
    BY <1>1 DEF ClientState
  <2> QED
    BY <1>3, <2>1, SMTT(30)
<1>4. ASSUME client[s].token # <<>>, Spend(s)
      PROVE  Quiet /\ t.hash \in client'[s].spent
  <2> DEFINE d == [client[s] EXCEPT !.spent = client[s].spent \cup {t.hash}]
  <2>1. t.hash \in Seq(Record) /\ client[s] \in ClientState
    BY <1>1, <1>3, <1>4 DEF Token
  <2>2. /\ d \in ClientState /\ d.token = client[s].token
        /\ d.spent = client[s].spent \cup {t.hash}
    BY <2>1 DEF ClientState
  <2>3. client' = [client EXCEPT ![s] = d]
    BY <1>1, <1>4 DEF Spend
  <2> HIDE DEF d, t
  <2> QED
    BY <1>1, <2>2, <2>3
<1>5. 0 \in Time /\ <<>> \in Seq(Record)
  BY LeaseAssumption, SMTT(30) DEF Time
<1>6. ASSUME NEW p \in Scope, NEW g \in Generation \ {0}, NEW ttl \in Ttl, Acquire(s, p, g, ttl)
      PROVE  LeaseIInv'
  <2> DEFINE q == [op |-> "acquire", scope |-> p, session |-> s, generation |-> g,
                   ttl |-> ttl, expires |-> 0, hash |-> <<>>]
  <2>1. q \in Request /\ Asked(q)' /\ Send(s, q) /\ UNCHANGED client
    BY <1>5, <1>6 DEF Request, Asked, Acquire, Operation
  <2> HIDE DEF q
  <2> QED
    BY <1>2, <2>1, SendStep
<1>7. ASSUME NEW op \in {"renew", "revalidate", "release"}, NEW ttl \in Ttl \cup {0},
             op = "renew" => ttl \in Ttl, WithToken(s, op, ttl),
             IF op = "revalidate" THEN UNCHANGED client ELSE Spend(s)
      PROVE  LeaseIInv'
  <2>0. PICK q : q = [op |-> op, scope |-> t.scope, session |-> s,
                      generation |-> t.generation, ttl |-> ttl, expires |-> t.expires,
                      hash |-> t.hash]
    OBVIOUS
  <2>1. client[s].token # <<>> /\ Send(s, q)
    BY <1>7, <2>0 DEF WithToken
  <2>2. t \in Token
    BY <1>3, <2>1
  <2>3. Quiet /\ (op # "revalidate" => t.hash \in client'[s].spent)
    BY <1>2, <1>4, <1>7, <2>1
  <2> HIDE DEF t
  <2>4. q \in Request
    BY <2>0, <2>2 DEF Request, Token, Operation
  <2>5. Asked(q)'
    BY <1>7, <2>0, <2>3 DEF Asked
  <2> QED
    BY <2>1, <2>3, <2>4, <2>5, SendStep
<1> QED
  BY <1>6, <1>7 DEF Renew, Revalidate, Release
-----------------------------------------------------------------------------
\* Every step of the daemon, the sessions and the host keeps the invariant.
LEMMA StepIInv == LeaseIInv /\ [Next]_vars => LeaseIInv'
<1> SUFFICES ASSUME LeaseIInv, [Next]_vars PROVE LeaseIInv'
  OBVIOUS
<1>1. CASE DaemonStep
  BY <1>1, AnchorStep, SyncStep, FinishStep DEF DaemonStep
<1>2. ASSUME NEW s \in Session, SessionStep(s) PROVE LeaseIInv'
  BY <1>2, ClientStep, AnswerStep, RefuseStep, WriteStep DEF SessionStep
<1>3. CASE Tick \/ SetBack \/ Crash \/ RemoveTemp \/ PowerLoss
  BY <1>3, HostStep, AnchorStep, PowerStep
<1>4. CASE UNCHANGED vars
  <2>1. UNCHANGED <<log, synced, losses, backs, clock, client, pending, serving, daemon, mem,
                    historyVars>>
    BY <1>4 DEF vars, diskVars, daemonVars, hostVars
  <2>2. LogOK' /\ HistoryOK' /\ CallOK'
    BY <2>1, QuietStep, QuietCalls
  <2>3. MemOK' /\ HoldOK'
    BY <2>1 DEF LeaseIInv, MemOK, MemIs, HoldOK, HeldBy, Holds
  <2> QED
    BY <2>2, <2>3 DEF LeaseIInv
<1> QED
  BY <1>1, <1>2, <1>3, <1>4 DEF Next

(***************************************************************************)
(* LeaseIInv holds in every state the authority reaches.                   *)
(***************************************************************************)
THEOREM LeaseInvariant == Spec => []LeaseIInv
<1>1. Init => LeaseIInv
  BY InitIInv
<1>2. LeaseIInv /\ [Next]_vars => LeaseIInv'
  BY StepIInv
<1> QED
  BY <1>1, <1>2, PTL DEF Spec

(***************************************************************************)
(* replay accepts every journal that apply wrote, and yields the memory of *)
(* the process that serves, whatever the clock did and wherever a process  *)
(* died.                                                                   *)
(***************************************************************************)
THEOREM AcceptedReplays == Spec => []LiveIsReplay
<1>1. LeaseIInv => LiveIsReplay
  <2> SUFFICES ASSUME LeaseIInv PROVE LiveIsReplay
    OBVIOUS
  <2> DEFINE m == Replay(log)[1]  x == [mem EXCEPT !.observed = 0]
  <2>1. Replay(log) # <<>> /\ m \in Store /\ m.observed = 0 /\ mem \in Store
    BY WholeLog DEF LeaseIInv, ReplayOK, MemOK
  <2>2. x \in Store /\ Alike(x, mem) /\ x.observed = 0
    BY <2>1, LeaseAssumption DEF Store, Alike, Time
  <2>3. daemon \notin {"down", "written"} => Alike(mem, m)
    BY DEF LeaseIInv, MemOK, MemIs
  <2> HIDE DEF m, x
  <2>4. daemon \notin {"down", "written"} => x = m
    <3>1. Alike(mem, m) => Alike(x, m)
      BY <2>2 DEF Alike
    <3> QED
      BY <2>1, <2>2, <2>3, <3>1, StoreFields
  <2> QED
    BY <2>1, <2>4 DEF LiveIsReplay, m, x
<1> QED
  BY <1>1, LeaseInvariant, PTL

(***************************************************************************)
(* Answers are fenced while the power stays on: generations never go back, *)
(* and each belongs to one session.                                        *)
(***************************************************************************)
THEOREM AnswersFenced == Spec => []Fenced
<1>1. LeaseIInv => Fenced
  BY DEF LeaseIInv, HistoryOK
<1> QED
  BY <1>1, LeaseInvariant, PTL

(***************************************************************************)
(* Two sessions never hold a scope at the same time, as long as the clock  *)
(* only advances and the power stays on.                                   *)
(***************************************************************************)
THEOREM ExclusiveLease == Spec => []OneHolder
<1>1. LeaseIInv => OneHolder
  <2> SUFFICES ASSUME LeaseIInv, backs = 0, losses = 0, NEW s \in Session, NEW u \in Session,
                      Holds(s), Holds(u), client[s].token[1].scope = client[u].token[1].scope
               PROVE  s = u
    BY DEF OneHolder
  <2>1. HeldBy(client[s].token[1]) /\ HeldBy(client[u].token[1])
    BY DEF LeaseIInv, HoldOK
  <2>2. client[s].token[1] = client[u].token[1]
    BY <2>1 DEF HeldBy
  <2>3. client[s].token[1].session = s /\ client[u].token[1].session = u
    BY DEF LeaseIInv, CallOK, Holds
  <2> QED
    BY <2>2, <2>3
<1> QED
  BY <1>1, LeaseInvariant, PTL

(***************************************************************************)
(* A grant answered by the process that wrote its record is remembered by  *)
(* every later process, also after a loss of power.                        *)
(***************************************************************************)
THEOREM GrantsSurvive == Spec => []GrantSurvives
<1>1. LeaseIInv => GrantSurvives
  <2> SUFFICES ASSUME LeaseIInv, daemon \in {"serving", "written"}, NEW t \in granted
               PROVE  t.generation <= mem.generations[t.scope] /\ <<t.scope, t.session>> \in mem.seen
    BY DEF GrantSurvives
  <2>1. PICK k \in 1 .. synced : Acquires(log[k], t)
    BY DEF LeaseIInv, HistoryOK
  <2>2. log \in Seq(Record) /\ synced \in 0 .. Len(log) /\ Len(log) \in Nat /\ mem \in Store
    BY SMTT(30) DEF LeaseIInv, LogOK, MemOK
  <2>3. CASE daemon = "serving"
    <3>1. StoreOK(mem, log) /\ k \in 1 .. Len(log)
      BY <2>2, <2>3, WholeLog, MemBelongs, SMTT(30) DEF LeaseIInv, MemOK
    <3> QED
      BY <2>1, <3>1 DEF StoreOK, Acquires
  <2>4. CASE daemon = "written"
    <3> DEFINE n == Len(log) - 1  j == SubSeq(log, 1, n)
    <3>1. synced < Len(log) /\ MemIs(j)
      BY <2>4 DEF LeaseIInv, MemOK
    <3>2. n \in 0 .. Len(log) /\ 0 < Len(log) /\ k \in 1 .. n
      BY <2>2, <3>1, SMTT(30)
    <3>3. ReplayOK(j) /\ Len(j) = n /\ j[k] = log[k]
      BY <2>2, <3>2, FrontLast DEF LeaseIInv, LogOK
    <3>4. StoreOK(mem, j)
      BY <2>2, <3>1, <3>3, MemBelongs
    <3> HIDE DEF j, n
    <3> QED
      BY <2>1, <3>2, <3>3, <3>4, SMTT(30) DEF StoreOK, Acquires
  <2> QED
    BY <2>3, <2>4
<1> QED
  BY <1>1, LeaseInvariant, PTL
=============================================================================
