--------------------------- MODULE RelayTranscript ---------------------------
(***************************************************************************)
(* A receiver of relayed envelopes (trnm-types relay.rs): it checks every  *)
(* envelope, keeps the last sequence number and the nonces of each sender  *)
(* of each session, and files what it accepted.  From the file it later    *)
(* proves single envelopes against the Merkle root of a segment            *)
(* (transcript/).  Envelopes arrive late, twice and in any order.  A hash  *)
(* is the value it commits to: a leaf its envelope, an inner node its pair.*)
(***************************************************************************)
EXTENDS Integers, SequencesExt

CONSTANTS Envelopes,    \* envelopes the network may deliver
          RtTimes,      \* readings of the receiver's clock
          MaxSkew,
          AllowLegacy   \* new(), or strict()

VARIABLES rtLast,   \* last accepted sequence number of every key
          rtSeen,   \* nonces seen of every key
          rtFile    \* accepted envelopes of every key, in order

rtVars == <<rtLast, rtSeen, rtFile>>

Key(env) == <<env.chain, env.task, env.session, env.from>>
RtKeys == {Key(env) : env \in Envelopes}
-----------------------------------------------------------------------------
\* Version, type and required fields, then the payload hash, then the
\* signature; "fields" stands for the canonical form of every text field.
VersionOk(env) == env.version = "current" \/ (AllowLegacy /\ env.version = "legacy")
FieldsOk(env) == env.fields /\ env.seq /= 0 /\ (env.version = "current" => env.chain /= "")
EnvelopeOk(env) == VersionOk(env) /\ env.known /\ FieldsOk(env) /\ env.payloadBound /\ env.signed

Near(t, now) == t - now <= MaxSkew /\ now - t <= MaxSkew

\* The first envelope of a key may have any number, the next one follows it.
AnyLater(k, seq) == seq > rtLast[k]
Follows(k, seq) == rtLast[k] = 0 \/ seq = rtLast[k] + 1

Verify(env, now) ==
  LET k == Key(env) IN
  /\ EnvelopeOk(env)
  /\ Near(env.time, now)
  /\ Follows(k, env.seq)
  /\ env.nonce \notin rtSeen[k]
  /\ rtLast' = [rtLast EXCEPT ![k] = env.seq]
  /\ rtSeen' = [rtSeen EXCEPT ![k] = @ \cup {env.nonce}]
  /\ rtFile' = [rtFile EXCEPT ![k] = Append(@, env)]

RtInit ==
  /\ rtLast = [k \in RtKeys |-> 0]
  /\ rtSeen = [k \in RtKeys |-> {}]
  /\ rtFile = [k \in RtKeys |-> <<>>]

RtNext == \E env \in Envelopes, now \in RtTimes : Verify(env, now)
-----------------------------------------------------------------------------
\* The hashes of a segment: skip what comes before it, stop at what comes
\* after it, and refuse a gap inside it.
LeafHash(env) == [leaf |-> env]
Segment(file, from, to) ==
  LET before(s) == s < from
      stop == SelectInSeq(file, LAMBDA e : e.seq > to)
      upTo == IF stop = 0 THEN file ELSE SubSeq(file, 1, stop - 1) IN
  SelectSeq(upTo, LAMBDA e : ~before(e.seq))
SegmentValid(file, from, to) ==
  LET s == Segment(file, from, to) IN
  /\ from <= to
  /\ Len(s) = to - from + 1
  /\ \A i \in DOMAIN s : s[i].seq = from + i - 1
SegmentHashes(file, from, to) ==
  LET s == Segment(file, from, to) IN [i \in DOMAIN s |-> LeafHash(s[i])]

HashPair(l, r) == [left |-> l, right |-> r]
PairUp(level) ==
  [i \in 1 .. (Len(level) + 1) \div 2 |->
     HashPair(level[2 * i - 1], IF 2 * i <= Len(level) THEN level[2 * i] ELSE level[2 * i - 1])]
Depth(n) == CHOOSE d \in 0 .. n : 2 ^ d >= n /\ \A e \in 0 .. d - 1 : 2 ^ e < n
MerkleLevels(leaves) ==
  LET level[d \in 0 .. Depth(Len(leaves))] == IF d = 0 THEN leaves ELSE PairUp(level[d - 1]) IN level
Root(leaves) == MerkleLevels(leaves)[Depth(Len(leaves))][1]

\* Positions count from zero, as in the code; the last node of an odd level
\* is its own sibling.
SiblingOrNext(i, n) == IF i % 2 = 0 THEN i + 1 ELSE i - 1
SiblingUnchecked(i, n) == IF i + 1 < n THEN i + 1 ELSE i
Sibling(i, n) == IF SiblingOrNext(i, n) < n THEN SiblingOrNext(i, n) ELSE i
ProofPath(leaves, i) ==
  LET levels == MerkleLevels(leaves) IN
  [d \in 1 .. Depth(Len(leaves)) |->
     LET level == levels[d - 1]
         at == i \div 2 ^ (d - 1) IN
     [hash |-> level[Sibling(at, Len(level)) + 1], right |-> at % 2 = 0]]

\* verify_proof folds the path over the leaf.
VerifyProof(root, leaf, path) ==
  root = FoldLeft(LAMBDA acc, step : IF step.right THEN HashPair(acc, step.hash)
                                     ELSE HashPair(step.hash, acc), leaf, path)
-----------------------------------------------------------------------------
\* Whatever the network did, every run of the envelopes a receiver filed of
\* one sender can be proved: the segment has no gap, and each of its
\* envelopes has a path to the root that verifies and that no other envelope
\* of the file verifies with.
FiledIsProvable ==
  \A k \in RtKeys :
    LET file == rtFile[k] IN
    \A i, j \in DOMAIN file :
      i <= j =>
        LET from == file[i].seq
            to == file[j].seq
            leaves == SegmentHashes(file, from, to) IN
        /\ SegmentValid(file, from, to)
        /\ \A n \in DOMAIN file :
             LET own == n >= i /\ n <= j
                 at == file[n].seq - from IN
             own => /\ VerifyProof(Root(leaves), LeafHash(file[n]), ProofPath(leaves, at))
                    /\ \A m \in DOMAIN file \ {n} :
                         ~VerifyProof(Root(leaves), LeafHash(file[m]), ProofPath(leaves, at))
=============================================================================
