---------------------------- MODULE LeaseJournal ----------------------------
(***************************************************************************)
(* trnm-peer-lease/src/store.rs without its files: what the authority's    *)
(* memory is, how a request is decided against it, which record a decision *)
(* appends, and how a journal is replayed.  Replay repeats the checks with *)
(* code of its own, so it is kept apart from the decisions here too.       *)
(*                                                                         *)
(* A record hash commits to the whole journal up to the record and is      *)
(* modelled by that prefix.  An absent value is the empty sequence.        *)
(***************************************************************************)
EXTENDS Naturals, Sequences

CONSTANTS Scope, Session,
          Ttl,             \* the lease times that may be asked for
          MaxGeneration,   \* u64::MAX
          MaxTime          \* u64::MAX

ASSUME LeaseAssumption ==
  Ttl \subseteq Nat \ {0} /\ MaxGeneration \in Nat /\ MaxTime \in Nat

Generation == 0 .. MaxGeneration
Time == 0 .. MaxTime
Operation == {"acquire", "renew", "revalidate", "release"}
Record == [op : Operation, scope : Scope, session : Session,
           generation : Generation, expires : Time, observed : Time]
Lease == [session : Session, generation : Generation, expires : Time,
          hash : Seq(Record)]
Token == [scope : Scope, session : Session, generation : Generation,
          expires : Time, hash : Seq(Record)]
Store == [entries : [Scope -> {<<>>} \cup {<<l>> : l \in Lease}],
          generations : [Scope -> Generation], seen : SUBSET (Scope \X Session),
          chain : Seq(Record), lastNow : Time, observed : Time]

EmptyStore == [entries |-> [s \in Scope |-> <<>>],
               generations |-> [s \in Scope |-> 0], seen |-> {},
               chain |-> <<>>, lastNow |-> 0, observed |-> 0]

TokenOf(scope, l) == [scope |-> scope, session |-> l.session,
                      generation |-> l.generation, expires |-> l.expires,
                      hash |-> l.hash]
-----------------------------------------------------------------------------
(***************************************************************************)
(* apply, up to the point where it returns or writes a record.  A request  *)
(* q is one of [op, scope, session, generation, ttl, expires, hash].       *)
(***************************************************************************)
Held(m, q) == m.entries[q.scope] # <<>>

Unexpired(m, q, now) == Held(m, q) /\ now < m.entries[q.scope][1].expires

SameHolder(m, q) ==
  Held(m, q) /\ LET l == m.entries[q.scope][1]
                IN  l.session = q.session /\ l.generation = q.generation

EnsureTokenMatches(m, q) ==
  SameHolder(m, q) /\ LET l == m.entries[q.scope][1]
                      IN  l.expires = q.expires /\ l.hash = q.hash

\* The memory already holds the answer and nothing is written.
Answers(m, q, now) ==
  /\ Unexpired(m, q, now)
  /\ \/ q.op = "acquire" /\ SameHolder(m, q)
     \/ q.op = "revalidate" /\ EnsureTokenMatches(m, q)

\* Mutant: a lease that is about to expire counts as free.
FreeOneEarly(m, q, now) == ~Unexpired(m, q, now + 1)

Free(m, q, now) == ~Unexpired(m, q, now)

\* Mutant: the latest generation may be acquired again.
SameGeneration(m, q) == q.generation \in {m.generations[q.scope], m.generations[q.scope] + 1}

NextGeneration(m, q) == q.generation = m.generations[q.scope] + 1

NewSession(m, q) == <<q.scope, q.session>> \notin m.seen

Appends(m, q, now) ==
  \/ /\ q.op = "acquire"
     /\ ~SameHolder(m, q) /\ NewSession(m, q) /\ Free(m, q, now)
     /\ NextGeneration(m, q) /\ now + q.ttl <= MaxTime
  \/ /\ q.op = "renew"
     /\ EnsureTokenMatches(m, q) /\ Unexpired(m, q, now) /\ now + q.ttl <= MaxTime
  \/ /\ q.op = "release"
     /\ EnsureTokenMatches(m, q) /\ Unexpired(m, q, now)

NewRecord(q, now) ==
  [op |-> q.op, scope |-> q.scope, session |-> q.session,
   generation |-> q.generation,
   expires |-> IF q.op = "release" THEN 0 ELSE now + q.ttl, observed |-> now]

\* The memory after the record was synced.
Applied(m, r) ==
  LET chain == Append(m.chain, r)
      lease == [session |-> r.session, generation |-> r.generation,
                expires |-> r.expires, hash |-> chain]
  IN  [m EXCEPT
         !.chain = chain, !.lastNow = r.observed,
         !.generations[r.scope] = IF r.op = "renew" THEN @ ELSE r.generation,
         !.seen = IF r.op = "acquire" THEN @ \cup {<<r.scope, r.session>>} ELSE @,
         !.entries[r.scope] = IF r.op = "release" THEN <<>> ELSE <<lease>>]
-----------------------------------------------------------------------------
(***************************************************************************)
(* replay and apply_replayed.                                              *)
(***************************************************************************)
Replayable(m, r) ==
  LET cur == m.entries[r.scope]
      mine == cur # <<>> /\ cur[1].session = r.session
                /\ cur[1].generation = r.generation
  IN  /\ r.observed >= m.lastNow
      /\ CASE r.op = "acquire" ->
                /\ r.generation = m.generations[r.scope] + 1
                /\ <<r.scope, r.session>> \notin m.seen
                /\ cur # <<>> => r.observed >= cur[1].expires
                /\ r.expires > r.observed
           [] r.op = "renew" ->
                mine /\ r.observed < cur[1].expires /\ r.expires > r.observed
           [] r.op = "release" ->
                mine /\ cur[1].expires # 0 /\ r.observed < cur[1].expires
                  /\ r.expires = 0
           [] r.op = "revalidate" -> FALSE

\* Mutant: a replayed acquisition does not mark its session as seen.
ReplayedUnseen(m, r) ==
  LET chain == Append(m.chain, r)
      lease == [session |-> r.session, generation |-> r.generation,
                expires |-> r.expires, hash |-> chain]
      base == [m EXCEPT !.chain = chain, !.lastNow = r.observed]
  IN  CASE r.op = "acquire" ->
             [base EXCEPT !.generations[r.scope] = r.generation,
                          !.entries[r.scope] = <<lease>>]
        [] r.op = "renew" -> [base EXCEPT !.entries[r.scope] = <<lease>>]
        [] r.op = "release" -> [base EXCEPT !.entries[r.scope] = <<>>]

ApplyReplayed(m, r) ==
  LET chain == Append(m.chain, r)
      lease == [session |-> r.session, generation |-> r.generation,
                expires |-> r.expires, hash |-> chain]
      base == [m EXCEPT !.chain = chain, !.lastNow = r.observed]
  IN  CASE r.op = "acquire" ->
             [base EXCEPT !.generations[r.scope] = r.generation,
                          !.seen = @ \cup {<<r.scope, r.session>>},
                          !.entries[r.scope] = <<lease>>]
        [] r.op = "renew" -> [base EXCEPT !.entries[r.scope] = <<lease>>]
        [] r.op = "release" -> [base EXCEPT !.entries[r.scope] = <<>>]

\* The store after one more record, or nothing if it is refused.
ReplayRecord(m, r) ==
  IF m # <<>> /\ Replayable(m[1], r) THEN <<ApplyReplayed(m[1], r)>> ELSE <<>>

\* The store after replaying j, or nothing if a record is refused.
Replay(j) ==
  LET after[n \in 0 .. Len(j)] ==
        IF n = 0 THEN <<EmptyStore>> ELSE ReplayRecord(after[n - 1], j[n])
  IN  after[Len(j)]

\* The store open starts with: replayed, and the clock it has seen.
Opened(j) == LET m == Replay(j)[1] IN [m EXCEPT !.observed = m.lastNow]
=============================================================================
