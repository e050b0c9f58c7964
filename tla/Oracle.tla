------------------------------- MODULE Oracle -------------------------------
(***************************************************************************)
(* trnm-oracle: a feed's snapshot is built, travels to the consumer, may   *)
(* be changed on the way by a writer that does not know the format, and is *)
(* validated against a policy.  The report of that validation is what the  *)
(* bridge reads.                                                           *)
(*                                                                         *)
(* A name is "" when empty, in Raw when it is not in canonical form; a     *)
(* hash is the value it commits to.                                        *)
(***************************************************************************)
EXTENDS Integers, SequencesExt

CONSTANTS OrFields,     \* what callers hand to OracleSnapshot::new
          OrPolicies,
          Raw,          \* names that are not in canonical form
          Rank,         \* the order of canonical names
          Cap,          \* a deviation of 100 percent
          MaxWide,      \* u128::MAX
          OrTimes,
          MaxRewrites   \* bound: fields that are changed on the way

VARIABLES orSnapshot, orBuilt, orReport

orVars == <<orSnapshot, orBuilt, orReport>>

Missing == [missing |-> TRUE]   \* no snapshot, no median, no report
-----------------------------------------------------------------------------
Canonical(name) == name /= "" /\ name \notin Raw
ValidWindow(f) == f.start <= f.end
ValidWindowTimestamp(f) == f.end <= f.at
Distinct(sources) == \A i, j \in DOMAIN sources : i /= j => sources[i] /= sources[j]
Sorted(sources) == \A i \in 1 .. Len(sources) - 1 : Rank[sources[i]] <= Rank[sources[i + 1]]
ConsistentSamples(f) == f.samples >= Len(f.sources)

Fields(s) == [k \in DOMAIN s \ {"hash"} |-> s[k]]
ComputeHash(f) == [of |-> f]

\* OracleSnapshot::new sorts the sources and seals the fields.
New(f) ==
  LET sorted == [f EXCEPT !.sources = SortSeq(@, LAMBDA a, b : Rank[a] < Rank[b])] IN
  sorted @@ [hash |-> ComputeHash(sorted)]
MayBuild(f) ==
  /\ Canonical(f.feed) /\ ValidWindow(f) /\ ValidWindowTimestamp(f)
  /\ \A i \in DOMAIN f.sources : Canonical(f.sources[i])
  /\ Distinct(f.sources)
  /\ f.samples > 0 /\ ConsistentSamples(f)

AbsDiff(a, b) == IF a < b THEN b - a ELSE a - b
SaturatingMul(a, b) == Min({MaxWide, a * b})
DeviationBps(value, baseline) ==
  CASE baseline = value -> 0
    [] baseline = 0 /\ value /= 0 -> Cap
    [] OTHER -> Min({Cap, SaturatingMul(AbsDiff(value, baseline), Cap) \div AbsDiff(baseline, 0)})

\* Mutant: a deviation of exactly the limit passes.
BeyondBoundary(deviation, max) == deviation > max

ReachesBoundary(deviation, max) == deviation > max \/ (max /= 0 /\ deviation = max)

ValidPolicy(p) ==
  p.sources > 0 /\ p.staleness > 0 /\ p.deviation <= Cap /\ p.rate > 0 /\ p.sources <= p.rate

HashMismatch(s) == s.hash /= ComputeHash(Fields(s))
MalformedHash(s) == s.hash = [text |-> "malformed"]

\* The first error validate_snapshot meets, in the order of its checks.
Checks(p, s, now) ==
  <<<<"policy", ValidPolicy(p)>>,
    <<"feed", Canonical(s.feed)>>,
    <<"window", ValidWindow(s) /\ ValidWindowTimestamp(s)>>,
    <<"sources", \A i \in DOMAIN s.sources : Canonical(s.sources[i])>>,
    <<"sources", Distinct(s.sources) /\ Sorted(s.sources)>>,
    <<"hash", ~MalformedHash(s)>>,
    <<"mismatch", ~HashMismatch(s)>>,
    <<"stale", s.at <= now /\ now - s.at <= p.staleness>>,
    <<"quorum", s.samples > 0 /\ ConsistentSamples(s)>>,
    <<"quorum", Len(s.sources) >= p.sources /\ s.samples >= p.sources>>,
    <<"rate", s.samples <= p.rate>>,
    <<"drift", s.median /= Missing =>
                 ~ReachesBoundary(DeviationBps(s.value, s.median.value), p.deviation)>>,
    <<"none", FALSE>>>>
FirstError(p, s, now) ==
  LET checks == Checks(p, s, now) IN checks[SelectInSeq(checks, LAMBDA c : ~c[2])][1]
-----------------------------------------------------------------------------
Bit(b) == IF b THEN 1 ELSE 0
Classes == [stale |-> {"stale", "window"},
            quorum |-> {"feed", "sources", "hash", "mismatch", "quorum"},
            drift |-> {"drift"}]

\* validate_snapshot_observed: the label keeps the text of an error that is
\* in no class, and that of a mismatch.
Label(e) ==
  CASE e = "none" -> "" [] e \in Classes.stale -> "stale" [] e = "drift" -> "drift"
    [] e \in Classes.quorum \ {"mismatch"} -> "quorum" [] OTHER -> e
ValidateObserved(p, s, now) ==
  LET e == FirstError(p, s, now)
      counts == [c \in {"stale", "quorum", "drift"} |-> Bit(e \in Classes[c])] IN
  [ok |-> e = "none", observation |-> counts, metrics |-> counts, accepted |-> Bit(e = "none"),
   cardinality |-> Cardinality({s.sources[i] : i \in DOMAIN s.sources} \ {""}),
   samples |-> 1, error |-> Label(e)]

RejectTotal(counts) == counts.stale + counts.quorum + counts.drift
Unclassified(r) == r.error \notin {"", "stale", "quorum", "drift", "mismatch"}
LabelMatches(r) ==
  CASE r.ok -> r.error = ""
    [] ~r.ok /\ Unclassified(r) -> RejectTotal(r.metrics) = 0 /\ RejectTotal(r.observation) = 0
    [] OTHER -> r.error /= "" /\ RejectTotal(r.metrics) > 0 /\ RejectTotal(r.observation) > 0
Conserves(r) ==
  /\ r.accepted + RejectTotal(r.metrics) = r.samples
  /\ r.accepted + RejectTotal(r.observation) = r.samples
UnclassifiedFailure(r) ==
  /\ ~r.ok /\ Unclassified(r) /\ r.accepted = 0 /\ r.samples > 0
  /\ RejectTotal(r.metrics) = 0 /\ RejectTotal(r.observation) = 0
BridgeContractConsistent(r) ==
  /\ r.samples > 0
  /\ r.accepted > 0 => r.cardinality > 0
  /\ r.observation = r.metrics
  /\ IF r.ok THEN r.error = "" /\ r.accepted = r.samples ELSE r.error /= "" /\ r.accepted = 0
  /\ LabelMatches(r)
  /\ Conserves(r) \/ UnclassifiedFailure(r)
-----------------------------------------------------------------------------
OrInit == orSnapshot = Missing /\ orBuilt = Missing /\ orReport = Missing

Build(f) ==
  /\ orSnapshot = Missing /\ MayBuild(f)
  /\ orSnapshot' = New(f) /\ orBuilt' = New(f)
  /\ UNCHANGED orReport

\* A writer that rewrites one field, or the hash, of the stored snapshot.
Rewritten(s) ==
  {[s EXCEPT ![k] = f[k]] : k \in DOMAIN s \ {"hash"}, f \in OrFields}
  \cup {[s EXCEPT !.hash = [text |-> "malformed"]]}
Rewrite ==
  /\ orSnapshot /= Missing /\ orReport = Missing
  /\ Cardinality({k \in DOMAIN orSnapshot : orSnapshot[k] /= orBuilt[k]}) < MaxRewrites
  /\ orSnapshot' \in Rewritten(orSnapshot)
  /\ UNCHANGED <<orBuilt, orReport>>

\* The report; the policy's limit is kept beside it for the property.
Validate(p, now) ==
  /\ orSnapshot /= Missing /\ orReport = Missing
  /\ orReport' = ValidateObserved(p, orSnapshot, now) @@ [limit |-> p.deviation]
  /\ UNCHANGED <<orSnapshot, orBuilt>>

OrNext ==
  \/ \E f \in OrFields : Build(f)
  \/ Rewrite
  \/ \E p \in OrPolicies, now \in OrTimes : Validate(p, now)
-----------------------------------------------------------------------------
\* Reference, without division: the value is closer to the median than the
\* limit, or than one step of the scale where the limit is zero.
Within(s, limit) ==
  LET d == AbsDiff(s.value, s.median.value) IN
  d = 0 \/ d * Cap < Max({limit, 1}) * AbsDiff(s.median.value, 0)
Representable(s) == AbsDiff(s.value, s.median.value) * Cap <= MaxWide

\* Every report the validation hands out satisfies the contract the bridge
\* checks reports against, errors that belong to no class included; a
\* snapshot that is reported good is one that OracleSnapshot::new built; and
\* unless the product saturates, the verdict on its deviation is the exact
\* one, however the ratio was rounded.
ReportsHold ==
  orReport /= Missing =>
    /\ BridgeContractConsistent(orReport)
    /\ orReport.ok => orSnapshot = orBuilt
    /\ orSnapshot.median /= Missing /\ Representable(orSnapshot) =>
         /\ orReport.ok => Within(orSnapshot, orReport.limit)
         /\ orReport.error = "drift" => ~Within(orSnapshot, orReport.limit)
=============================================================================
