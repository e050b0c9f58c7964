------------------------- MODULE LeaseJournalProofs -------------------------
(***************************************************************************)
(* Proofs about LeaseJournal: the memory of the daemon, the records it     *)
(* decides to append and the replay of its journal keep in step.           *)
(***************************************************************************)
EXTENDS LeaseJournal, TLAPS

USE ZenonT(40)

LOCAL R == INSTANCE LoopFacts WITH Origin <- <<EmptyStore>>, Turn <- ReplayRecord

\* An empty journal replays to the empty store.
LEMMA ReplayEmpty == Replay(<<>>) = <<EmptyStore>>
<1>1. R!Loop(<<>>, 0)[0] = <<EmptyStore>>
  BY R!LoopTurn, SMTT(30)
<1> QED
  BY <1>1 DEF Replay, R!Loop

\* One more record is one more turn of the loop.
LEMMA ReplayAppend ==
  ASSUME NEW j \in Seq(Record), NEW r \in Record
  PROVE  Replay(Append(j, r)) = ReplayRecord(Replay(j), r)
<1> DEFINE n == Len(j)  k == Append(j, r)
<1>1. /\ n \in Nat /\ n + 1 \in Nat /\ Len(k) = n + 1 /\ k[n + 1] = r /\ n <= n + 1
      /\ n \in 0 .. n /\ n + 1 \in 0 .. n + 1 /\ n + 1 # 0 /\ n + 1 - 1 = n
      /\ \A i \in 1 .. n : j[i] = k[i]
  BY SMTT(30)
<1>2. Replay(j) = R!Loop(j, n)[n] /\ Replay(k) = R!Loop(k, Len(k))[Len(k)]
  BY DEF Replay, R!Loop
<1> HIDE DEF n, k
<1>3. R!Loop(j, n)[n] = R!Loop(k, n + 1)[n]
  BY <1>1, R!LoopAgrees, SMTT(30)
<1>4. R!Loop(k, n + 1)[n + 1] = ReplayRecord(R!Loop(k, n + 1)[n], k[n + 1])
  BY <1>1, R!LoopTurn, SMTT(30)
<1> QED
  BY <1>1, <1>2, <1>3, <1>4 DEF k
-----------------------------------------------------------------------------
(***************************************************************************)
(* StoreOK(m, j): the store m belongs to the journal j.  A held lease was  *)
(* acquired under the latest generation of its scope, and no generation    *)
(* was acquired by two sessions.                                           *)
(***************************************************************************)
Acquires(r, t) ==
  /\ r.op = "acquire" /\ r.scope = t.scope
  /\ r.session = t.session /\ r.generation = t.generation

StoreOK(m, j) ==
  /\ m \in Store /\ m.chain = j
  /\ \A s \in Scope : m.entries[s] # <<>> =>
       /\ m.entries[s][1].generation = m.generations[s]
       /\ \E n \in 1 .. Len(j) : Acquires(j[n], TokenOf(s, m.entries[s][1]))
  /\ \A n \in 1 .. Len(j) : j[n].op = "acquire" =>
       /\ j[n].generation <= m.generations[j[n].scope]
       /\ <<j[n].scope, j[n].session>> \in m.seen
  /\ \A n, k \in 1 .. Len(j) :
       /\ j[n].op = "acquire" /\ j[k].op = "acquire"
       /\ j[n].scope = j[k].scope /\ j[n].generation = j[k].generation
       => j[n].session = j[k].session

\* Two stores that differ at most in the clock they have observed.
Alike(x, y) ==
  /\ x.entries = y.entries /\ x.generations = y.generations /\ x.seen = y.seen
  /\ x.chain = y.chain /\ x.lastNow = y.lastNow

NewLease(m, r) ==
  [session |-> r.session, generation |-> r.generation, expires |-> r.expires,
   hash |-> Append(m.chain, r)]

\* What one record does to a store.
LEMMA AppliedFields ==
  ASSUME NEW m \in Store, NEW r \in Record, r.op # "revalidate"
  PROVE  LET a == ApplyReplayed(m, r)
         IN  /\ a \in Store
             /\ a.chain = Append(m.chain, r) /\ a.lastNow = r.observed
             /\ a.observed = m.observed
             /\ a.generations = IF r.op = "acquire"
                                THEN [m.generations EXCEPT ![r.scope] = r.generation]
                                ELSE m.generations
             /\ a.seen = IF r.op = "acquire" THEN m.seen \cup {<<r.scope, r.session>>}
                         ELSE m.seen
             /\ a.entries = [m.entries EXCEPT ![r.scope] =
                               IF r.op = "release" THEN <<>> ELSE <<NewLease(m, r)>>]
<1> DEFINE a == ApplyReplayed(m, r)  chain == Append(m.chain, r)  lease == NewLease(m, r)
           base == [m EXCEPT !.chain = chain, !.lastNow = r.observed]
<1>1. chain \in Seq(Record) /\ r.observed \in Time /\ r.scope \in Scope
        /\ r.generation \in Generation /\ r.session \in Session /\ r.expires \in Time
  BY SMTT(30) DEF Store, Record
<1>2. lease \in Lease
  BY <1>1 DEF NewLease, Lease
<1> HIDE DEF chain
<1>3. /\ base \in Store /\ base.chain = chain /\ base.lastNow = r.observed
      /\ base.observed = m.observed /\ base.seen = m.seen
      /\ base.generations = m.generations /\ base.entries = m.entries
  BY <1>1 DEF Store
<1>4. \A x \in {<<>>, <<lease>>} :
        [m.entries EXCEPT ![r.scope] = x] \in [Scope -> {<<>>} \cup {<<l>> : l \in Lease}]
  BY <1>1, <1>2 DEF Store
<1>5. /\ [m.generations EXCEPT ![r.scope] = r.generation] \in [Scope -> Generation]
      /\ m.seen \cup {<<r.scope, r.session>>} \in SUBSET (Scope \X Session)
  BY <1>1, SMTT(30) DEF Store
<1>6. lease = [session |-> r.session, generation |-> r.generation,
               expires |-> r.expires, hash |-> chain]
  BY DEF NewLease, chain
<1> HIDE DEF base, lease
<1>7. CASE r.op = "acquire"
  <2> DEFINE gens == [m.generations EXCEPT ![r.scope] = r.generation]
             seen == m.seen \cup {<<r.scope, r.session>>}
             entries == [m.entries EXCEPT ![r.scope] = <<lease>>]
  <2>1. a = [base EXCEPT !.generations[r.scope] = r.generation,
                         !.seen = m.seen \cup {<<r.scope, r.session>>},
                         !.entries[r.scope] = <<lease>>]
    BY <1>3, <1>6, <1>7 DEF ApplyReplayed, base, chain
  <2>2. a = [base EXCEPT !.generations = gens, !.seen = seen, !.entries = entries]
    BY <1>3, <2>1 DEF Store
  <2>3. /\ gens \in [Scope -> Generation] /\ seen \in SUBSET (Scope \X Session)
        /\ entries \in [Scope -> {<<>>} \cup {<<l>> : l \in Lease}]
    BY <1>4, <1>5
  <2> HIDE DEF gens, seen, entries, a
  <2>4. /\ a \in Store /\ a.chain = chain /\ a.lastNow = r.observed /\ a.observed = m.observed
        /\ a.generations = gens /\ a.seen = seen /\ a.entries = entries
    BY <1>3, <2>2, <2>3 DEF Store
  <2> QED
    BY <1>7, <2>4 DEF gens, seen, entries, a, chain, lease
<1>8. ASSUME NEW x \in {<<>>, <<lease>>}, a = [base EXCEPT !.entries[r.scope] = x]
      PROVE  /\ a \in Store /\ a.chain = chain /\ a.lastNow = r.observed
             /\ a.observed = m.observed /\ a.generations = m.generations /\ a.seen = m.seen
             /\ a.entries = [m.entries EXCEPT ![r.scope] = x]
  <2> DEFINE entries == [m.entries EXCEPT ![r.scope] = x]
  <2>1. a = [base EXCEPT !.entries = entries]
    BY <1>3, <1>8 DEF Store
  <2>2. entries \in [Scope -> {<<>>} \cup {<<l>> : l \in Lease}]
    BY <1>4
  <2> HIDE DEF entries, a
  <2>3. /\ a \in Store /\ a.chain = chain /\ a.lastNow = r.observed /\ a.observed = m.observed
        /\ a.generations = m.generations /\ a.seen = m.seen /\ a.entries = entries
    BY <1>3, <2>1, <2>2 DEF Store
  <2> QED
    BY <2>3 DEF entries
<1>9. CASE r.op = "renew"
  <2>1. a = [base EXCEPT !.entries[r.scope] = <<lease>>]
    BY <1>6, <1>9 DEF ApplyReplayed, base, chain
  <2> HIDE DEF a
  <2> QED
    BY <1>8, <1>9, <2>1 DEF chain, lease, a
<1>10. CASE r.op = "release"
  <2>1. a = [base EXCEPT !.entries[r.scope] = <<>>]
    BY <1>10 DEF ApplyReplayed, base, chain
  <2> HIDE DEF a
  <2> QED
    BY <1>8, <1>10, <2>1 DEF chain, lease, a
<1> QED
  BY <1>7, <1>9, <1>10 DEF Record, Operation

\* Replay does not depend on the clock that was observed.
LEMMA AlikeReplay ==
  ASSUME NEW x \in Store, NEW y \in Store, Alike(x, y), NEW r \in Record, r.op # "revalidate"
  PROVE  /\ Replayable(x, r) = Replayable(y, r)
         /\ Alike(ApplyReplayed(x, r), ApplyReplayed(y, r))
<1>1. Replayable(x, r) = Replayable(y, r)
  BY DEF Replayable, Alike
<1>2. NewLease(x, r) = NewLease(y, r)
  BY DEF NewLease, Alike
<1>3. ASSUME NEW m \in Store, Alike(m, y), NewLease(m, r) = NewLease(y, r)
      PROVE  LET a == ApplyReplayed(m, r)
             IN  /\ a.chain = Append(y.chain, r) /\ a.lastNow = r.observed
                 /\ a.generations = IF r.op = "acquire"
                                    THEN [y.generations EXCEPT ![r.scope] = r.generation]
                                    ELSE y.generations
                 /\ a.seen = IF r.op = "acquire" THEN y.seen \cup {<<r.scope, r.session>>}
                             ELSE y.seen
                 /\ a.entries = [y.entries EXCEPT ![r.scope] =
                                   IF r.op = "release" THEN <<>> ELSE <<NewLease(y, r)>>]
  <2>1. /\ m.entries = y.entries /\ m.generations = y.generations /\ m.seen = y.seen
        /\ m.chain = y.chain
    BY <1>3 DEF Alike
  <2> DEFINE a == ApplyReplayed(m, r)
  <2>2. /\ a.chain = Append(m.chain, r) /\ a.lastNow = r.observed
        /\ a.generations = IF r.op = "acquire"
                           THEN [m.generations EXCEPT ![r.scope] = r.generation]
                           ELSE m.generations
        /\ a.seen = IF r.op = "acquire" THEN m.seen \cup {<<r.scope, r.session>>} ELSE m.seen
        /\ a.entries = [m.entries EXCEPT ![r.scope] =
                          IF r.op = "release" THEN <<>> ELSE <<NewLease(m, r)>>]
    BY AppliedFields
  <2> HIDE DEF a
  <2>3. /\ a.chain = Append(y.chain, r) /\ a.lastNow = r.observed
        /\ a.generations = IF r.op = "acquire"
                           THEN [y.generations EXCEPT ![r.scope] = r.generation]
                           ELSE y.generations
        /\ a.seen = IF r.op = "acquire" THEN y.seen \cup {<<r.scope, r.session>>} ELSE y.seen
        /\ a.entries = [y.entries EXCEPT ![r.scope] =
                          IF r.op = "release" THEN <<>> ELSE <<NewLease(y, r)>>]
    BY <1>3, <2>1, <2>2
  <2> QED
    BY <2>3 DEF a
<1>4. Alike(y, y)
  BY DEF Alike
<1> QED
  BY <1>1, <1>2, <1>3, <1>4 DEF Alike

\* A replayed record keeps store and journal in step.
LEMMA ReplayedOK ==
  ASSUME NEW j \in Seq(Record), NEW m, StoreOK(m, j), NEW r \in Record, Replayable(m, r)
  PROVE  StoreOK(ApplyReplayed(m, r), Append(j, r))
<1> DEFINE a == ApplyReplayed(m, r)  k == Append(j, r)  n == Len(j)  s0 == r.scope
           lease == NewLease(m, r)
<1>1. m \in Store /\ m.chain = j /\ r.op # "revalidate" /\ s0 \in Scope
  BY DEF StoreOK, Replayable, Record
<1>2. /\ k \in Seq(Record) /\ n \in Nat /\ Len(k) = n + 1 /\ k[n + 1] = r
      /\ \A i \in 1 .. n : k[i] = j[i]
  BY SMTT(30)
<1>3. /\ a \in Store /\ a.chain = k
      /\ a.generations = IF r.op = "acquire" THEN [m.generations EXCEPT ![s0] = r.generation]
                         ELSE m.generations
      /\ a.seen = IF r.op = "acquire" THEN m.seen \cup {<<s0, r.session>>} ELSE m.seen
      /\ a.entries = [m.entries EXCEPT ![s0] = IF r.op = "release" THEN <<>> ELSE <<lease>>]
  BY <1>1, AppliedFields
<1>4. /\ lease.session = r.session /\ lease.generation = r.generation
      /\ <<lease>>[1] = lease /\ <<lease>> # <<>>
  BY DEF NewLease
<1>5. /\ m.entries \in [Scope -> {<<>>} \cup {<<l>> : l \in Lease}]
      /\ m.generations \in [Scope -> Generation] /\ r.generation \in Generation
  BY <1>1 DEF Store, Record
<1>6. /\ r.op = "acquire" => r.generation = m.generations[s0] + 1
      /\ r.op = "renew" => /\ m.entries[s0] # <<>> /\ m.entries[s0][1].session = r.session
                           /\ m.entries[s0][1].generation = r.generation
  BY DEF Replayable
<1>7. \A s \in Scope : m.generations[s] \in Nat /\ a.generations[s] \in Nat
                        /\ m.generations[s] <= a.generations[s]
  BY <1>1, <1>3, <1>5, <1>6, SMTT(30) DEF Generation
<1>8. \A i \in 1 .. n + 1 : i \in 1 .. n \/ i = n + 1
  BY <1>2, SMTT(30)
<1> HIDE DEF a, k, n, lease
<1>9. ASSUME NEW s \in Scope, a.entries[s] # <<>>
      PROVE  /\ a.entries[s][1].generation = a.generations[s]
             /\ \E i \in 1 .. n + 1 : Acquires(k[i], TokenOf(s, a.entries[s][1]))
  <2>1. CASE s # s0
    <3>1. a.entries[s] = m.entries[s] /\ a.generations[s] = m.generations[s]
      BY <1>1, <1>3, <1>5, <2>1
    <3>2. PICK i \in 1 .. n : Acquires(j[i], TokenOf(s, m.entries[s][1]))
      BY <1>9, <3>1 DEF StoreOK, n
    <3>3. i \in 1 .. n + 1 /\ k[i] = j[i]
      BY <1>2, SMTT(30)
    <3> QED
      BY <1>9, <3>1, <3>2, <3>3 DEF StoreOK
  <2>2. CASE s = s0
    <3>1. r.op # "release" /\ a.entries[s0] = <<lease>>
      BY <1>1, <1>3, <1>5, <1>9, <2>2
    <3>2. CASE r.op = "acquire"
      <4>1. a.generations[s0] = r.generation
        BY <1>1, <1>3, <1>5, <3>2
      <4>2. Acquires(k[n + 1], TokenOf(s0, lease))
        BY <1>2, <1>4, <3>2 DEF Acquires, TokenOf
      <4>3. n + 1 \in 1 .. n + 1
        BY <1>2, SMTT(30)
      <4> QED
        BY <1>4, <2>2, <3>1, <4>1, <4>2, <4>3
    <3>3. CASE r.op = "renew"
      <4>1. /\ a.generations[s0] = m.generations[s0] /\ r.generation = m.generations[s0]
        BY <1>1, <1>3, <1>6, <3>3 DEF StoreOK
      <4>2. PICK i \in 1 .. n : Acquires(j[i], TokenOf(s0, m.entries[s0][1]))
        BY <1>1, <1>6, <3>3 DEF StoreOK, n
      <4>3. Acquires(k[i], TokenOf(s0, lease)) /\ i \in 1 .. n + 1
        BY <1>2, <1>4, <1>6, <3>3, <4>2, SMTT(30) DEF Acquires, TokenOf
      <4> QED
        BY <1>4, <2>2, <3>1, <4>1, <4>3
    <3> QED
      BY <1>1, <3>1, <3>2, <3>3 DEF Record, Operation
  <2> QED
    BY <2>1, <2>2
<1>10. ASSUME NEW i \in 1 .. n + 1, k[i].op = "acquire"
       PROVE  /\ k[i].generation <= a.generations[k[i].scope]
              /\ <<k[i].scope, k[i].session>> \in a.seen
  <2>1. CASE i \in 1 .. n
    <3>1. /\ j[i].generation <= m.generations[j[i].scope] /\ j[i] \in Record
          /\ <<j[i].scope, j[i].session>> \in m.seen
      BY <1>2, <1>10, <2>1, SMTT(30) DEF StoreOK, n
    <3>2. j[i].scope \in Scope /\ j[i].generation \in Nat
      BY <3>1, SMTT(30) DEF Record, Generation
    <3>3. j[i].generation <= a.generations[j[i].scope]
      BY <1>7, <3>1, <3>2, SMTT(30)
    <3> QED
      BY <1>2, <1>3, <2>1, <3>1, <3>3
  <2>2. CASE i = n + 1
    BY <1>1, <1>2, <1>3, <1>5, <1>10, <2>2, SMTT(30) DEF Generation
  <2> QED
    BY <1>8, <2>1, <2>2
<1>11. ASSUME NEW h \in 1 .. n + 1, NEW i \in 1 .. n + 1, k[h].op = "acquire", k[i].op = "acquire",
              k[h].scope = k[i].scope, k[h].generation = k[i].generation
       PROVE  k[h].session = k[i].session
  <2>1. CASE h \in 1 .. n /\ i \in 1 .. n
    BY <1>2, <1>11, <2>1, SMTT(30) DEF StoreOK, n
  <2>2. ASSUME NEW x \in 1 .. n, k[x].op = "acquire", r.op = "acquire", k[x].scope = s0
        PROVE  k[x].generation # r.generation
    <3>0. j[x] \in Record /\ j[x].op = "acquire" /\ j[x].scope = s0 /\ x \in 1 .. Len(j)
      BY <1>2, <2>2, SMTT(30) DEF n
    <3>1. j[x].generation \in Nat
      BY <3>0, LeaseAssumption, SMTT(30) DEF Record, Generation
    <3>2. j[x].generation <= m.generations[s0]
      BY <3>0 DEF StoreOK
    <3> QED
      BY <1>1, <1>2, <1>6, <1>7, <2>2, <3>1, <3>2, SMTT(30)
  <2> QED
    BY <1>2, <1>8, <1>11, <2>1, <2>2
<1>12. /\ \A s \in Scope : a.entries[s] # <<>> =>
            /\ a.entries[s][1].generation = a.generations[s]
            /\ \E i \in 1 .. Len(k) : Acquires(k[i], TokenOf(s, a.entries[s][1]))
       /\ \A i \in 1 .. Len(k) : k[i].op = "acquire" =>
            /\ k[i].generation <= a.generations[k[i].scope]
            /\ <<k[i].scope, k[i].session>> \in a.seen
  BY <1>2, <1>9, <1>10
<1>13. \A h, i \in 1 .. Len(k) :
         /\ k[h].op = "acquire" /\ k[i].op = "acquire"
         /\ k[h].scope = k[i].scope /\ k[h].generation = k[i].generation
         => k[h].session = k[i].session
  BY <1>2, <1>11, SMTT(30)
<1>14. StoreOK(a, k)
  BY <1>3, <1>12, <1>13 DEF StoreOK
<1> QED
  BY <1>14 DEF a, k

\* A store is its six fields.
LEMMA StoreFields ==
  ASSUME NEW x \in Store, NEW y \in Store, Alike(x, y), x.observed = y.observed
  PROVE  x = y
BY SMTT(30) DEF Store, Alike

\* A store that belongs to a journal keeps belonging to it whatever the clock.
LEMMA AlikeOK ==
  ASSUME NEW x \in Store, NEW y, NEW j, Alike(x, y), StoreOK(y, j)
  PROVE  StoreOK(x, j)
BY DEF StoreOK, Alike

\* The memory is updated the way replay updates it.
LEMMA AppliedIsReplayed ==
  ASSUME NEW j, NEW m, StoreOK(m, j), NEW r \in Record, Replayable(m, r)
  PROVE  Applied(m, r) = ApplyReplayed(m, r)
<1> DEFINE a == Applied(m, r)  b == ApplyReplayed(m, r)  chain == Append(m.chain, r)
           lease == NewLease(m, r)
           gens == [m.generations EXCEPT ![r.scope] =
                      IF r.op = "renew" THEN @ ELSE r.generation]
           seen == IF r.op = "acquire" THEN m.seen \cup {<<r.scope, r.session>>} ELSE m.seen
           entries == [m.entries EXCEPT ![r.scope] =
                         IF r.op = "release" THEN <<>> ELSE <<lease>>]
<1>1. m \in Store /\ r.op # "revalidate" /\ r.scope \in Scope
  BY DEF StoreOK, Replayable, Record
<1>2. /\ b \in Store /\ b.chain = chain /\ b.lastNow = r.observed /\ b.observed = m.observed
      /\ b.generations = IF r.op = "acquire"
                         THEN [m.generations EXCEPT ![r.scope] = r.generation]
                         ELSE m.generations
      /\ b.seen = seen /\ b.entries = entries
  BY <1>1, AppliedFields
<1>3. b.generations = gens
  <2>1. r.op = "release" => /\ m.entries[r.scope] # <<>>
                            /\ m.entries[r.scope][1].generation = r.generation
    BY DEF Replayable
  <2>2. r.op = "release" => r.generation = m.generations[r.scope]
    BY <1>1, <2>1 DEF StoreOK
  <2>3. m.generations \in [Scope -> Generation]
    BY <1>1 DEF Store
  <2> QED
    BY <1>1, <1>2, <2>2, <2>3 DEF Record, Operation
<1>4. a = [m EXCEPT !.chain = chain, !.lastNow = r.observed, !.generations = gens,
                    !.seen = seen, !.entries = entries]
  BY <1>1 DEF Applied, NewLease, Store
<1> HIDE DEF a, b, chain, lease, gens, seen, entries
<1>5. b = [m EXCEPT !.chain = chain, !.lastNow = r.observed, !.generations = gens,
                    !.seen = seen, !.entries = entries]
  BY <1>1, <1>2, <1>3 DEF Store
<1> QED
  BY <1>4, <1>5 DEF a, b

\* Replay accepts what the daemon decided to write.
LEMMA AppendsReplayable ==
  ASSUME NEW m \in Store, NEW q, q.scope \in Scope, q.session \in Session,
         q.generation \in Generation, NEW now \in Time, now >= m.lastNow,
         q.op \in {"acquire", "renew"} => q.ttl \in Ttl, Appends(m, q, now)
  PROVE  NewRecord(q, now) \in Record /\ Replayable(m, NewRecord(q, now))
<1> DEFINE r == NewRecord(q, now)
<1>1. /\ r.op = q.op /\ r.scope = q.scope /\ r.session = q.session /\ r.observed = now
      /\ r.generation = q.generation
      /\ r.expires = IF q.op = "release" THEN 0 ELSE now + q.ttl
  BY DEF NewRecord
<1>2. /\ q.op \in {"acquire", "renew", "release"} /\ q.scope \in Scope /\ q.session \in Session
      /\ q.generation \in Generation /\ now \in Nat /\ MaxTime \in Nat
      /\ q.op # "release" => q.ttl \in Nat \ {0} /\ now + q.ttl <= MaxTime
  <2>1. /\ q.op \in {"acquire", "renew", "release"}
        /\ q.op # "release" => now + q.ttl <= MaxTime
    BY DEF Appends
  <2>2. q.op # "release" => q.ttl \in Nat \ {0}
    BY <2>1, LeaseAssumption
  <2>3. now \in Nat /\ MaxTime \in Nat
    BY LeaseAssumption, SMTT(30) DEF Time
  <2> QED
    BY <2>1, <2>2, <2>3
<1>3. r.expires \in Time
  BY <1>1, <1>2, SMTT(30) DEF Time
<1>4. r \in Record
  BY <1>2, <1>3, <1>1 DEF Record, Operation, NewRecord
<1>5. m.entries[q.scope] # <<>> => m.entries[q.scope][1].expires \in Nat
  <2>1. m.entries[q.scope] \in {<<>>} \cup {<<l>> : l \in Lease}
    BY <1>2 DEF Store
  <2> QED
    BY <2>1, LeaseAssumption, SMTT(30) DEF Lease, Time
<1> HIDE DEF r
<1>6. ASSUME q.op = "acquire" PROVE Replayable(m, r)
  BY <1>1, <1>2, <1>5, <1>6, SMTT(30) DEF Replayable, Appends, Free, Unexpired, Held, NextGeneration, NewSession
<1>7. ASSUME q.op = "renew" PROVE Replayable(m, r)
  BY <1>1, <1>2, <1>5, <1>7, SMTT(30) DEF Replayable, Appends, Unexpired, Held, EnsureTokenMatches, SameHolder
<1>8. ASSUME q.op = "release" PROVE Replayable(m, r)
  BY <1>1, <1>2, <1>5, <1>8, SMTT(30) DEF Replayable, Appends, Unexpired, Held, EnsureTokenMatches, SameHolder
<1> QED
  BY <1>2, <1>4, <1>6, <1>7, <1>8 DEF r
\* A journal that is accepted, to a store that keeps no observed time.
ReplayOK(j) ==
  Replay(j) # <<>> /\ StoreOK(Replay(j)[1], j) /\ Replay(j)[1].observed = 0

\* Journals that agree have the same prefixes.
LEMMA SamePrefix ==
  ASSUME NEW i \in Seq(Record), NEW j \in Seq(Record), NEW n \in Nat, n <= Len(i), n <= Len(j),
         \A k \in 1 .. n : i[k] = j[k]
  PROVE  SubSeq(i, 1, n) = SubSeq(j, 1, n)
<1> DEFINE x == SubSeq(i, 1, n)  y == SubSeq(j, 1, n)
<1>1. /\ \A k \in 1 .. n : i[k] \in Record /\ j[k] \in Record
  BY SMTT(30)
<1>2. /\ x \in Seq(Record) /\ Len(x) = IF 1 <= n THEN n - 1 + 1 ELSE 0
      /\ \A k \in 1 .. n - 1 + 1 : x[k] = i[1 + k - 1]
  BY <1>1, SMTT(30)
<1>3. /\ y \in Seq(Record) /\ Len(y) = IF 1 <= n THEN n - 1 + 1 ELSE 0
      /\ \A k \in 1 .. n - 1 + 1 : y[k] = j[1 + k - 1]
  BY <1>1, SMTT(30)
<1> HIDE DEF x, y
<1>4. Len(x) = Len(y) /\ \A k \in 1 .. Len(x) : x[k] = y[k]
  BY <1>2, <1>3, SMTT(30)
<1>5. x = y
  BY <1>2, <1>3, <1>4, SMTT(30)
<1> QED
  BY <1>5 DEF x, y

\* A journal is its front and its last record.
LEMMA FrontLast ==
  ASSUME NEW j \in Seq(Record), 0 < Len(j)
  PROVE  LET f == SubSeq(j, 1, Len(j) - 1)
         IN  /\ f \in Seq(Record) /\ Len(f) = Len(j) - 1
             /\ \A k \in 1 .. Len(j) - 1 : f[k] = j[k]
             /\ j[Len(j)] \in Record /\ j = Append(f, j[Len(j)])
<1> DEFINE n == Len(j) - 1  f == SubSeq(j, 1, n)  g == Append(f, j[Len(j)])
<1>1. n \in Nat /\ Len(j) = n + 1 /\ j[Len(j)] \in Record /\ \A k \in 1 .. n : j[k] \in Record
  BY SMTT(30)
<1>2. /\ f \in Seq(Record) /\ Len(f) = IF 1 <= n THEN n - 1 + 1 ELSE 0
      /\ \A k \in 1 .. n - 1 + 1 : f[k] = j[1 + k - 1]
  BY <1>1, SMTT(30)
<1>3. Len(f) = n /\ \A k \in 1 .. n : f[k] = j[k]
  BY <1>1, <1>2, SMTT(30)
<1> HIDE DEF f, n
<1>4. /\ g \in Seq(Record) /\ Len(g) = Len(f) + 1 /\ g[Len(f) + 1] = j[Len(j)]
      /\ \A k \in 1 .. Len(f) : g[k] = f[k]
  BY <1>1, <1>2, SMTT(30)
<1> HIDE DEF g
<1>5. \A k \in 1 .. n + 1 : k \in 1 .. n \/ k = n + 1
  BY <1>1, SMTT(30)
<1>6. Len(j) = Len(g) /\ \A k \in 1 .. Len(j) : j[k] = g[k]
  BY <1>1, <1>3, <1>4, <1>5
<1>7. j = g
  BY <1>4, <1>6, SMTT(30)
<1> QED
  BY <1>1, <1>2, <1>3, <1>7 DEF f, g, n

\* What a journal replays to after one more record.
LEMMA ReplayedAppend ==
  ASSUME NEW j \in Seq(Record), ReplayOK(j), NEW r \in Record, Replayable(Replay(j)[1], r)
  PROVE  /\ Replay(Append(j, r))[1] = ApplyReplayed(Replay(j)[1], r)
         /\ ReplayOK(Append(j, r))
<1> DEFINE m == Replay(j)[1]
<1>1. Replay(Append(j, r)) = <<ApplyReplayed(m, r)>>
  BY ReplayAppend DEF ReplayRecord, ReplayOK
<1>2. StoreOK(ApplyReplayed(m, r), Append(j, r))
  BY ReplayedOK DEF ReplayOK
<1>3. ApplyReplayed(m, r).observed = 0
  <2>1. m \in Store /\ r.op # "revalidate" /\ m.observed = 0
    BY DEF ReplayOK, StoreOK, Replayable
  <2> HIDE DEF m
  <2> QED
    BY <2>1, AppliedFields
<1> HIDE DEF m
<1>4. <<ApplyReplayed(m, r)>> # <<>> /\ <<ApplyReplayed(m, r)>>[1] = ApplyReplayed(m, r)
  OBVIOUS
<1> QED
  BY <1>1, <1>2, <1>3, <1>4 DEF ReplayOK, m

\* Removing a connection leaves others of the same session.
DropOne(c, i) == SubSeq(c, 1, i - 1) \o SubSeq(c, i + 1, Len(c))

\* What is left of a sequence without its i-th element was in it before.
LEMMA DropOneElements ==
  ASSUME NEW S, NEW c \in Seq(S), NEW i \in 1 .. Len(c)
  PROVE  /\ DropOne(c, i) \in Seq(S)
         /\ \A k \in 1 .. Len(DropOne(c, i)) : \E h \in 1 .. Len(c) : DropOne(c, i)[k] = c[h]
<1> DEFINE x == SubSeq(c, 1, i - 1)  y == SubSeq(c, i + 1, Len(c))  z == x \o y
<1>1. Len(c) \in Nat /\ i \in Nat /\ 1 <= i /\ i <= Len(c) /\ \A k \in 1 .. Len(c) : c[k] \in S
  BY SMTT(30)
<1>2. /\ x \in Seq(S) /\ Len(x) = IF 1 <= i - 1 THEN i - 1 - 1 + 1 ELSE 0
      /\ \A k \in 1 .. i - 1 - 1 + 1 : x[k] = c[1 + k - 1]
  <2>1. \A k \in 1 .. i - 1 : c[k] \in S
    BY <1>1, SMTT(30)
  <2> QED
    BY <2>1, SMTT(30)
<1>3. /\ y \in Seq(S) /\ Len(y) = IF i + 1 <= Len(c) THEN Len(c) - (i + 1) + 1 ELSE 0
      /\ \A k \in 1 .. Len(c) - (i + 1) + 1 : y[k] = c[i + 1 + k - 1]
  <2>1. \A k \in i + 1 .. Len(c) : c[k] \in S
    BY <1>1, SMTT(30)
  <2> QED
    BY <1>1, <2>1, SMTT(30)
<1> HIDE DEF x, y
<1>21. Len(x) = i - 1 /\ \A k \in 1 .. i - 1 : x[k] = c[k]
  BY <1>1, <1>2, SMTT(30)
<1>31. Len(y) = Len(c) - i /\ \A k \in 1 .. Len(c) - i : y[k] = c[i + k]
  BY <1>1, <1>3, SMTT(30)
<1>4. /\ z \in Seq(S) /\ Len(z) = Len(x) + Len(y)
      /\ \A k \in 1 .. Len(x) + Len(y) : z[k] = IF k <= Len(x) THEN x[k] ELSE y[k - Len(x)]
  <2>1. x \in Seq(S) /\ y \in Seq(S)
    BY <1>2, <1>3
  <2>2. z \in Seq(S)
    BY <2>1, SMTT(30)
  <2> QED
    BY <2>1, SMTT(30)
<1>5. z = DropOne(c, i)
  BY DEF DropOne, x, y
<1> HIDE DEF z
<1>6. ASSUME NEW k \in 1 .. Len(z) PROVE \E h \in 1 .. Len(c) : z[k] = c[h]
  <2>1. CASE k <= Len(x)
    <3>1. k \in 1 .. Len(c) /\ z[k] = c[k]
      BY <1>1, <1>21, <1>31, <1>4, <2>1, SMTT(30)
    <3> QED
      BY <3>1
  <2>2. CASE ~(k <= Len(x))
    <3>0. k \in 1 .. Len(x) + Len(y) /\ k - (i - 1) \in 1 .. Len(c) - i /\ k + 1 \in 1 .. Len(c)
      BY <1>1, <1>21, <1>31, <1>4, <2>2, SMTT(30)
    <3>01. y[k - (i - 1)] = c[i + (k - (i - 1))] /\ i + (k - (i - 1)) = k + 1
      BY <1>1, <1>31, <3>0, SMTT(30)
    <3>1. k + 1 \in 1 .. Len(c) /\ z[k] = c[k + 1]
      BY <1>21, <1>4, <2>2, <3>0, <3>01
    <3> QED
      BY <3>1
  <2> QED
    BY <2>1, <2>2
<1> QED
  BY <1>4, <1>5, <1>6

=============================================================================
