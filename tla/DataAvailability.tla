-------------------------- MODULE DataAvailability --------------------------
(***************************************************************************)
(* trnm-data-availability: a committee of stores admits signed transaction *)
(* batches, journals an attestation before it is signed, admits the        *)
(* certificates that enough attestations make, keeps the bytes while an    *)
(* obligation runs, and repairs bytes it finds damaged from another store. *)
(*                                                                         *)
(* A batch is a model value; everything its identifier commits to is in    *)
(* the record BatchInfo gives.  Bytes on disk are "ok", "bad" (they no     *)
(* longer match the row checksum) or "none".  Epochs and heights are read  *)
(* off one clock.                                                          *)
(***************************************************************************)
EXTENDS Naturals, FiniteSets, Sequences, SequencesExt

CONSTANTS Store,          \* the honest committee members, one store each
          Faulty,         \* members that sign whatever they are asked to
          Weight,         \* [Store \cup Faulty -> weight]
          BatchInfo,      \* [batch -> [author, signer, sequence, bytes, chunks, stated, retain]],
                          \* stated being the chunks its envelope commits to
          Authority,      \* the author the policy admits
          Offered,        \* the batches authors sign and submit
          FirstSequence, MaxSequence, MaxOutstanding, MaxAuthorBytes,
          MaxQueueBatches, MaxQueueBytes,
          RetrievalWindow, RepairWindow,
          Extensions,     \* [retain, hold] an obligation may be extended to
          Fragile,        \* the stores whose disk may damage bytes
          MaxClock, MaxDamage, MaxCalls   \* bounds on time, disk faults and
                                          \* calls under way at once

VARIABLES store,     \* the durable tables of each store
          signatures,\* attestations that exist outside the stores
          certified, \* certificates anybody has built
          caller,    \* per store: attestation intent, audit, GC permit
          transfer,  \* the retrieval under way
          clock, damage

daVars == <<store, signatures, certified, caller, transfer, clock, damage>>

Batch == DOMAIN BatchInfo
Member == Store \cup Faulty
Nothing == [none |-> TRUE]
WeightOf(S) == FoldSet(LAMBDA m, n : Weight[m] + n, 0, S)

\* Mutant: a simple majority of the weight makes a certificate.
MajorityThreshold == (WeightOf(Member) \div 2) + 1

\* floor(2W / 3) + 1
Threshold == ((2 * WeightOf(Member)) \div 3) + 1

\* DaMemberV1, DaAuthorAuthorityV1 and DaPolicyV1 are validated before a
\* store opens with them.
MemberValid(m) == Weight[m] > 0

AuthorityValid ==
  FirstSequence > 0 /\ MaxSequence >= FirstSequence /\ MaxAuthorBytes > 0 /\ MaxOutstanding > 0

PolicyValid ==
  /\ MaxQueueBatches > 0 /\ MaxQueueBytes > 0 /\ RetrievalWindow > 0 /\ RepairWindow > 0
  /\ AuthorityValid

ConfigValid == Member # {} /\ (\A m \in Member : MemberValid(m)) /\ PolicyValid

SameCoordinate(b, c) ==
  BatchInfo[b].author = BatchInfo[c].author /\ BatchInfo[b].sequence = BatchInfo[c].sequence
-----------------------------------------------------------------------------
(***************************************************************************)
(* Batches.  Leaves of the chunk tree are <<index, chunk>>; a parent       *)
(* commits to its level, the root to the number of leaves.                 *)
(***************************************************************************)
Leaves(chunks) == [i \in 1 .. Len(chunks) |-> <<i - 1, chunks[i]>>]

ParentsAt(level, s) ==
  [i \in 1 .. (Len(s) + 1) \div 2 |->
     [level |-> level, left |-> s[2 * i - 1],
      right |-> IF 2 * i <= Len(s) THEN s[2 * i] ELSE s[2 * i - 1]]]

Height(n) == CHOOSE k \in 0 .. 3 : n <= 2 ^ k /\ \A j \in 0 .. k - 1 : n > 2 ^ j

LevelsOf(s) ==
  LET level[k \in 0 .. Height(Len(s))] == IF k = 0 THEN s ELSE ParentsAt(k - 1, level[k - 1])
  IN  level

ChunkRoot(chunks) ==
  [count |-> Len(chunks), top |-> LevelsOf(Leaves(chunks))[Height(Len(chunks))][1]]

\* The envelope's shape, the author's statement over it, and verify_exact,
\* which builds the batch again from its content.
EnvelopeShape(b) ==
  LET info == BatchInfo[b]
  IN  info.sequence > 0 /\ info.bytes > 0 /\ Len(info.stated) > 0 /\ info.retain > 0

AuthorSigned(b) == BatchInfo[b].signer = BatchInfo[b].author

VerifyExact(b) ==
  LET info == BatchInfo[b]
  IN  /\ Len(info.chunks) > 0 /\ info.author = Authority
      /\ FirstSequence <= info.sequence /\ info.sequence <= MaxSequence
      /\ ChunkRoot(info.chunks) = ChunkRoot(info.stated)
-----------------------------------------------------------------------------
(***************************************************************************)
(* Rows, accounting and the audit of a store.                              *)
(***************************************************************************)
Absent == [state |-> "Absent"]
Rows(d) == {b \in Batch : d.rows[b] # Absent}
ChecksumHolds(row) == row.content # "bad"
RowIsLive(row) == row.content = "ok"
Queued(d) == {b \in Rows(d) : d.rows[b].state \in {"Stored", "Unavailable"}}
BytesOf(S) == FoldSet(LAMBDA b, n : BatchInfo[b].bytes + n, 0, S)
Uncertified(d) == {b \in Rows(d) : d.rows[b].certificate = {}}
Attested(d) == {d.attestations[i].batch : i \in 1 .. Len(d.attestations)}

\* The metadata row: queue and high watermark, under a checksum of both.
MetadataChecksum(d) == <<d.queue, d.highWatermark>>
VerifyMetadata(d) == d.checksum = MetadataChecksum(d)
WriteMetadata(d) == [d EXCEPT !.checksum = MetadataChecksum(d)]

\* audit_attestation_rows: sequence numbers are the positions, and each row
\* binds a batch of the store, one per author coordinate.
AttestationsAudit(d) ==
  /\ d.highWatermark = Len(d.attestations)
  /\ Attested(d) \subseteq Rows(d)
  /\ \A i, j \in 1 .. Len(d.attestations) :
       SameCoordinate(d.attestations[i].batch, d.attestations[j].batch) => i = j

\* audit_accounting: the queue counts what is stored or unavailable, the
\* author what is not certified.
AccountingAudit(d) ==
  /\ d.queue = [batches |-> Cardinality(Queued(d)), bytes |-> BytesOf(Queued(d))]
  /\ d.author = [last |-> Max({BatchInfo[b].sequence : b \in Rows(d)} \cup {FirstSequence - 1}),
                 batches |-> Cardinality(Uncertified(d)), bytes |-> BytesOf(Uncertified(d))]

\* audit_tombstones
TombstonesAudit(d) == \A b \in d.tombstones : d.rows[b].state = "GarbageCollected"

\* DaObligationV1: created with the certificate, valid, collected once.
MinimumObligation(b) == [version |-> 0, retain |-> BatchInfo[b].retain, hold |-> 0, status |-> 0]

ObligationValid(o) == o.retain > 0 /\ o.status <= 2 /\ o.version >= o.status

\* audit_all: also every row that should have bytes has them.
StoreAudit(d) ==
  /\ \A b \in Rows(d) :
       /\ ChecksumHolds(d.rows[b])
       /\ d.rows[b].state \in {"Stored", "Certified"} => RowIsLive(d.rows[b])
       /\ d.rows[b].obligation # Nothing => ObligationValid(d.rows[b].obligation)
  /\ VerifyMetadata(d) /\ AttestationsAudit(d) /\ TombstonesAudit(d) /\ AccountingAudit(d)

Idle == [intent |-> Nothing, audit |-> Nothing, permit |-> Nothing]

DaInit ==
  /\ ConfigValid
  /\ store = [s \in Store |->
       [rows |-> [b \in Batch |-> Absent], attestations |-> << >>, highWatermark |-> 0,
        tombstones |-> {}, queue |-> [batches |-> 0, bytes |-> 0],
        checksum |-> <<[batches |-> 0, bytes |-> 0], 0>>,
        author |-> [last |-> FirstSequence - 1, batches |-> 0, bytes |-> 0]]]
  /\ signatures = {} /\ certified = {}
  /\ caller = [s \in Store |-> Idle]
  /\ transfer = Nothing
  /\ clock = 1 /\ damage = 0

Calls == {<<s, f>> \in Store \X DOMAIN Idle : caller[s][f] # Nothing}
CanCall(s, field) == caller[s][field] = Nothing /\ Cardinality(Calls) < MaxCalls

SetRow(s, b, row) == store' = [store EXCEPT ![s].rows[b] = row]
SetCaller(s, field, v) == caller' = [caller EXCEPT ![s][field] = v]
-----------------------------------------------------------------------------
(***************************************************************************)
(* Admission, attestation, certification.                                  *)
(***************************************************************************)
\* Every write opens the store again and audits metadata and attestation journal.
OpensForWrite(s) == VerifyMetadata(store[s]) /\ AttestationsAudit(store[s])

\* The author's quota: the next sequence, and room for one more batch.
NextOfAuthor(d, b) ==
  /\ BatchInfo[b].sequence = d.author.last + 1
  /\ d.author.batches + 1 <= MaxOutstanding
  /\ d.author.bytes + BatchInfo[b].bytes <= MaxAuthorBytes

QueueHasRoom(d, b) ==
  d.queue.batches + 1 <= MaxQueueBatches /\ d.queue.bytes + BatchInfo[b].bytes <= MaxQueueBytes

Inserted(d, b) ==
  LET info == BatchInfo[b]
  IN  [d EXCEPT !.rows[b] = [state |-> "Stored", content |-> "ok",
                             certificate |-> {}, obligation |-> Nothing],
                !.author = [last |-> info.sequence, batches |-> @.batches + 1,
                            bytes |-> @.bytes + info.bytes],
                !.queue = [batches |-> @.batches + 1, bytes |-> @.bytes + info.bytes]]

\* admit_batch; a batch already stored is answered from its row.
AdmitBatch(s, b) ==
  LET d == store[s]
  IN  /\ b \in Offered /\ EnvelopeShape(b) /\ AuthorSigned(b)
      /\ OpensForWrite(s) /\ \A c \in Rows(d) : ~SameCoordinate(b, c)
      /\ NextOfAuthor(d, b) /\ QueueHasRoom(d, b) /\ VerifyExact(b)
      /\ store' = [store EXCEPT ![s] = WriteMetadata(Inserted(d, b))]
      /\ UNCHANGED <<signatures, certified, caller, transfer, clock, damage>>

Attestable(d, b) == b \in Rows(d) /\ RowIsLive(d.rows[b]) /\ d.rows[b].state \in {"Stored", "Certified"}

\* confirm_unsigned_attestation, on a fresh connection
ConfirmsUnsigned(d, b) ==
  /\ VerifyMetadata(d) /\ AttestationsAudit(d)
  /\ \E i \in 1 .. Len(d.attestations) : d.attestations[i] = [batch |-> b, signed |-> FALSE]

\* prepare_attestation(b, n): the row found for the coordinate must have the
\* same body; otherwise n must be the next local sequence number.
PrepareAttestation(s, b) ==
  LET d == store[s]
  IN  /\ CanCall(s, "intent") /\ OpensForWrite(s) /\ Attestable(d, b)
      /\ \/ /\ b \in Attested(d)
            /\ \E i \in 1 .. Len(d.attestations) :
                 d.attestations[i] = [batch |-> b, signed |-> FALSE]
            /\ UNCHANGED store
         \/ /\ \A c \in Attested(d) : ~SameCoordinate(b, c)
            /\ store' = [store EXCEPT ![s] = WriteMetadata(
                 [d EXCEPT !.attestations = Append(@, [batch |-> b, signed |-> FALSE]),
                           !.highWatermark = @ + 1])]
      /\ ConfirmsUnsigned(store'[s], b)
      /\ SetCaller(s, "intent", [batch |-> b])
      /\ UNCHANGED <<signatures, certified, transfer, clock, damage>>

\* The signer releases the signature of a journaled intent.
Sign(s) ==
  /\ caller[s].intent # Nothing
  /\ signatures' = signatures \cup {<<s, caller[s].intent.batch>>}
  /\ UNCHANGED <<store, certified, caller, transfer, clock, damage>>

\* DaAttestationV1: the member's signature over the attestation of a batch;
\* a faulty member signs anything.
AttestationVerifies(m, b) == m \in Faulty \/ <<m, b>> \in signatures

\* complete_attestation
CompleteAttestation(s) ==
  LET d == store[s] b == caller[s].intent.batch
  IN  /\ caller[s].intent # Nothing /\ AttestationVerifies(s, b)
      /\ store' = IF OpensForWrite(s) /\ Attestable(d, b)
                  THEN [store EXCEPT ![s].attestations =
                          [i \in 1 .. Len(@) |-> IF @[i].batch = b THEN [@[i] EXCEPT !.signed = TRUE]
                                                 ELSE @[i]]]
                  ELSE store
      /\ SetCaller(s, "intent", Nothing)
      /\ UNCHANGED <<signatures, certified, transfer, clock, damage>>

\* The process behind a store dies: what its callers held in memory is gone.
Restart(s) ==
  /\ caller[s] # Idle
  /\ caller' = [caller EXCEPT ![s] = Idle]
  /\ UNCHANGED <<store, signatures, certified, transfer, clock, damage>>

\* AttestorEquivocationEvidenceV1::new: two attestations of one member for
\* one author coordinate.
Equivocates(m, b, c) ==
  AttestationVerifies(m, b) /\ AttestationVerifies(m, c) /\ SameCoordinate(b, c) /\ b # c

CertificateVerifies(c) ==
  /\ c.signers # {} /\ WeightOf(c.signers) >= Threshold
  /\ \A m \in c.signers : AttestationVerifies(m, c.batch)

\* AvailabilityCertificateV1::build: distinct members of enough weight.
BuildCertificate(b) ==
  /\ EnvelopeShape(b) /\ AuthorSigned(b)
  /\ \E signers \in SUBSET Member :
       /\ CertificateVerifies([batch |-> b, signers |-> signers])
       /\ certified' = certified \cup {[batch |-> b, signers |-> signers]}
  /\ UNCHANGED <<store, signatures, caller, transfer, clock, damage>>

\* decrement_author_outstanding fails rather than go below zero.
AuthorAfter(author, b) ==
  [author EXCEPT !.batches = @ - 1, !.bytes = @ - BatchInfo[b].bytes]

\* admit_certificate: the batch leaves the queue and the author's quota, and
\* the minimum obligation starts.
AdmitCertificate(s, c) ==
  LET d == store[s] b == c.batch
  IN  /\ CertificateVerifies(c) /\ OpensForWrite(s)
      /\ d.author.batches >= 1 /\ d.author.bytes >= BatchInfo[b].bytes
      /\ b \in Rows(d) /\ RowIsLive(d.rows[b])
      /\ d.rows[b].state = "Stored" /\ d.rows[b].certificate = {}
      /\ store' = [store EXCEPT ![s] = WriteMetadata(
           [d EXCEPT !.rows[b] = [state |-> "Certified", content |-> "ok", certificate |-> c.signers,
                                  obligation |-> MinimumObligation(b)],
                     !.author = AuthorAfter(@, b),
                     !.queue = [batches |-> @.batches - 1, bytes |-> @.bytes - BatchInfo[b].bytes]])]
      /\ UNCHANGED <<signatures, certified, caller, transfer, clock, damage>>
-----------------------------------------------------------------------------
(***************************************************************************)
(* Retention and garbage collection.                                       *)
(***************************************************************************)
\* certified_batch_from_connection; retrieve also needs the bytes.
Active(s, b) == LET row == store[s].rows[b] IN row.state = "Certified" /\ ChecksumHolds(row)

Retrievable(s, b) == Active(s, b) /\ RowIsLive(store[s].rows[b])

\* update_obligation: the row of a certified batch gets the next obligation.
UpdateObligation(s, b, next) ==
  /\ OpensForWrite(s) /\ Active(s, b)
  /\ SetRow(s, b, [store[s].rows[b] EXCEPT !.obligation = next])

\* extend: bounds only grow, and only while the obligation runs.
ExtendRetention(s, b) ==
  /\ Active(s, b)
  /\ LET o == store[s].rows[b].obligation
     IN  /\ o.status = 0
         /\ \E e \in Extensions :
              /\ e.retain >= o.retain /\ e.hold >= o.hold
              /\ e # [retain |-> o.retain, hold |-> o.hold]  \* bounds the versions
              /\ UpdateObligation(s, b,
                   [o EXCEPT !.version = @ + 1, !.retain = e.retain, !.hold = e.hold])
  /\ UNCHANGED <<signatures, certified, caller, transfer, clock, damage>>

\* Mutant: either bound having passed is enough.
EitherExpired(o, epoch, height) == epoch > o.retain \/ height > o.hold

Expired(o, epoch, height) == epoch > o.retain /\ height > o.hold

\* release_retention takes epoch and height from its caller, unchecked.
ReleaseRetention(s, b) ==
  /\ Active(s, b)
  /\ LET o == store[s].rows[b].obligation
     IN  /\ o.status = 0 /\ \E epoch, height \in 1 .. MaxClock : Expired(o, epoch, height)
         /\ UpdateObligation(s, b, [o EXCEPT !.version = @ + 1, !.status = 1])
  /\ UNCHANGED <<signatures, certified, caller, transfer, clock, damage>>

\* A GC permit names the obligation's version and the epoch and height it was
\* issued at.  Nothing outside the crate's tests issues one yet; the permit
\* here is the one the type's name promises, of a committed height.
IssuePermit(s, b) ==
  /\ CanCall(s, "permit") /\ Active(s, b)
  /\ SetCaller(s, "permit", [batch |-> b, version |-> store[s].rows[b].obligation.version,
                             at |-> clock])
  /\ UNCHANGED <<store, signatures, certified, transfer, clock, damage>>

\* A released obligation receives its tombstone once.
Tombstoned(o) == [o EXCEPT !.version = @ + 1, !.status = 2]

\* garbage_collect consumes the permit, and the bytes if it is still exact.
GarbageCollect(s) ==
  LET p == caller[s].permit row == store[s].rows[p.batch]
      exact == /\ Active(s, p.batch) /\ p.version = row.obligation.version
               /\ Expired(row.obligation, p.at, p.at) /\ row.obligation.status = 1
  IN  /\ p # Nothing
      /\ store' = IF exact
                  THEN [store EXCEPT
                          ![s].rows[p.batch] = [row EXCEPT !.state = "GarbageCollected", !.content = "none",
                             !.obligation = Tombstoned(@)],
                          ![s].tombstones = @ \cup {p.batch}]
                  ELSE store
      /\ SetCaller(s, "permit", Nothing)
      /\ UNCHANGED <<signatures, certified, transfer, clock, damage>>
-----------------------------------------------------------------------------
(***************************************************************************)
(* Damage, the unavailable latch, and repair.                              *)
(***************************************************************************)
\* The disk returns other bytes than were written.
Damage(s, b) ==
  /\ damage < MaxDamage /\ s \in Fragile
  /\ b \in Rows(store[s]) /\ store[s].rows[b].content = "ok"
  /\ SetRow(s, b, [store[s].rows[b] EXCEPT !.content = "bad"])
  /\ damage' = damage + 1
  /\ UNCHANGED <<signatures, certified, caller, transfer, clock>>

\* audit_batch reads the row on one connection ...
AuditBatch(s, b) ==
  /\ CanCall(s, "audit")
  /\ b \in Rows(store[s]) /\ store[s].rows[b].state # "GarbageCollected"
  /\ ~RowIsLive(store[s].rows[b])
  /\ SetCaller(s, "audit", [batch |-> b])
  /\ UNCHANGED <<store, signatures, certified, transfer, clock, damage>>

\* Mutant: a certified batch that loses its bytes does not rejoin the queue.
RejoinsNever(d, b) == FALSE

RejoinsQueue(d, b) == d.rows[b].state = "Certified"

\* ... and latch_unavailable acts on a fresh row from another.
LatchUnavailable(s) ==
  LET d == store[s] b == caller[s].audit.batch
      latched == [d.rows[b] EXCEPT !.state = "Unavailable", !.content = "none"]
  IN  /\ caller[s].audit # Nothing
      /\ store' =
           IF d.rows[b].state = "GarbageCollected" THEN store
           ELSE IF ~RejoinsQueue(d, b) THEN [store EXCEPT ![s].rows[b] = latched]
           ELSE IF ~QueueHasRoom(d, b) THEN store
           ELSE [store EXCEPT ![s] = WriteMetadata([d EXCEPT !.rows[b] = latched,
                   !.queue = [batches |-> @.batches + 1, bytes |-> @.bytes + BatchInfo[b].bytes]])]
      /\ SetCaller(s, "audit", Nothing)
      /\ UNCHANGED <<signatures, certified, transfer, clock, damage>>

\* repair_batch with the exact bytes the manifest names.
Repaired(d, b) ==
  IF d.rows[b].certificate # {}
  THEN [d EXCEPT !.rows[b] = [@ EXCEPT !.state = "Certified", !.content = "ok"],
                 !.queue = [batches |-> @.batches - 1, bytes |-> @.bytes - BatchInfo[b].bytes]]
  ELSE [d EXCEPT !.rows[b] = [@ EXCEPT !.state = "Stored", !.content = "ok"]]

RepairBatch(s, b) ==
  /\ store[s].rows[b].state = "Unavailable"
  /\ store' = [store EXCEPT ![s] = WriteMetadata(Repaired(@, b))]
  /\ UNCHANGED <<signatures, certified, caller, transfer, clock, damage>>
-----------------------------------------------------------------------------
(***************************************************************************)
(* Signed retrieval.                                                       *)
(***************************************************************************)
\* Mutant: the last of an odd level is paired with the first.
SiblingFromStart(level, p) ==
  IF p % 2 = 1 THEN [side |-> 0, hash |-> level[p]]
  ELSE [side |-> 1, hash |-> IF p + 1 < Len(level) THEN level[p + 2] ELSE level[1]]

\* One step of merkle_path_v1 at position p of a level.
SiblingAt(level, p) ==
  IF p % 2 = 1 THEN [side |-> 0, hash |-> level[p]]
  ELSE [side |-> 1, hash |-> IF p + 1 < Len(level) THEN level[p + 2] ELSE level[p + 1]]

MerklePath(chunks, i) ==
  LET levels == LevelsOf(Leaves(chunks))
  IN  [k \in 1 .. Height(Len(chunks)) |-> SiblingAt(levels[k - 1], i \div 2 ^ (k - 1))]

\* verify_merkle_path_v1: sides follow the position, and the last leaf of an
\* odd level is its own sibling.
PathVerifies(leaf, i, count, path, root) ==
  LET position(k) == i \div 2 ^ (k - 1)
      width(k) == (count + 2 ^ (k - 1) - 1) \div 2 ^ (k - 1)
      running[k \in 0 .. Len(path)] ==
        IF k = 0 THEN leaf
        ELSE IF path[k].side = 0
             THEN [level |-> k - 1, left |-> path[k].hash, right |-> running[k - 1]]
             ELSE [level |-> k - 1, left |-> running[k - 1], right |-> path[k].hash]
  IN  /\ i < count /\ Len(path) = Height(count)
      /\ \A k \in 1 .. Len(path) :
           /\ path[k].side = (position(k) + 1) % 2
           /\ position(k) % 2 = 0 /\ position(k) + 1 = width(k) => path[k].hash = running[k - 1]
      /\ root = [count |-> count, top |-> running[Len(path)]]

\* A store whose batch is unavailable asks for all chunks under its own
\* certificate.
Request(s, b) ==
  /\ transfer = Nothing /\ store[s].rows[b].state = "Unavailable"
  /\ store[s].rows[b].certificate # {}
  /\ \E expiry \in clock .. clock + RetrievalWindow :
       transfer' = [stage |-> "request", from |-> s, batch |-> b, at |-> clock, expiry |-> expiry,
                    certificate |-> store[s].rows[b].certificate]
  /\ UNCHANGED <<store, signatures, certified, caller, clock, damage>>

\* RetrievalRequestV1::verify: a range that is not empty, within the window.
RequestVerifies(t) ==
  Len(BatchInfo[t.batch].stated) > 0 /\ t.at <= t.expiry /\ t.expiry - t.at <= RetrievalWindow

\* Another signer of that certificate prepares the response from live bytes.
CanRespond(s, t) ==
  /\ Retrievable(s, t.batch)
  /\ store[s].rows[t.batch].certificate = t.certificate /\ s \in t.certificate
  /\ RequestVerifies(t) /\ t.at <= clock /\ clock <= t.expiry

\* Each chunk with its index and its path to the chunk root.
ReturnedChunks(chunks) ==
  [i \in 1 .. Len(chunks) |-> [chunk |-> chunks[i], path |-> MerklePath(chunks, i - 1)]]

Respond(s) ==
  /\ transfer # Nothing /\ transfer.stage = "request" /\ s # transfer.from
  /\ CanRespond(s, transfer)
  /\ transfer' =
       [stage |-> "response", from |-> transfer.from, batch |-> transfer.batch,
        at |-> transfer.at, expiry |-> transfer.expiry, certificate |-> transfer.certificate,
        responder |-> s, responded |-> clock,
        entries |-> ReturnedChunks(BatchInfo[transfer.batch].chunks)]
  /\ UNCHANGED <<store, signatures, certified, caller, clock, damage>>

\* verify_full_range_proof_v1: neither future-dated nor stale
FreshUntil(t) == Min({t.expiry, t.responded + RepairWindow})

\* verify_response_v1: the responder signed the certificate, and every entry
\* leads to the root it commits to.
ResponseHolds(t) ==
  LET stated == BatchInfo[t.batch].stated
  IN  /\ t.responder \in t.certificate
      /\ t.at <= t.responded /\ t.responded <= t.expiry
      /\ Len(t.entries) = Len(stated)
      /\ \A i \in 1 .. Len(t.entries) :
           PathVerifies(<<i - 1, t.entries[i].chunk>>, i - 1, Len(stated), t.entries[i].path,
                        ChunkRoot(stated))

\* The batch rebuilt from the returned chunks is the certified one.
ProofVerifies(t) ==
  /\ CertificateVerifies([batch |-> t.batch, signers |-> t.certificate])
  /\ RequestVerifies(t) /\ ResponseHolds(t)
  /\ [i \in 1 .. Len(t.entries) |-> t.entries[i].chunk] = BatchInfo[t.batch].stated

\* repair_from_verified_retrieval_v1: within the window, for the certificate
\* the unavailable row binds.
RepairFromRetrieval ==
  LET t == transfer row == store[t.from].rows[t.batch]
  IN  /\ t # Nothing /\ t.stage = "response"
      /\ t.responded <= clock /\ clock <= FreshUntil(t) /\ ProofVerifies(t)
      /\ row.state = "Unavailable" /\ row.certificate = t.certificate
      /\ store' = [store EXCEPT ![t.from] = WriteMetadata(Repaired(@, t.batch))]
      /\ transfer' = Nothing
      /\ UNCHANGED <<signatures, certified, caller, clock, damage>>

\* A request or response is lost, or its requester gives up.
Lose ==
  /\ transfer # Nothing /\ transfer' = Nothing
  /\ UNCHANGED <<store, signatures, certified, caller, clock, damage>>

Tick ==
  /\ clock < MaxClock /\ clock' = clock + 1
  /\ UNCHANGED <<store, signatures, certified, caller, transfer, damage>>

DaNext ==
  \/ \E s \in Store, b \in Batch :
       \/ AdmitBatch(s, b) \/ PrepareAttestation(s, b)
       \/ ExtendRetention(s, b) \/ ReleaseRetention(s, b) \/ IssuePermit(s, b)
       \/ Damage(s, b) \/ AuditBatch(s, b) \/ RepairBatch(s, b) \/ Request(s, b)
  \/ \E s \in Store :
       \/ Sign(s) \/ CompleteAttestation(s) \/ Restart(s) \/ GarbageCollect(s)
       \/ LatchUnavailable(s) \/ Respond(s)
  \/ \E b \in Batch : BuildCertificate(b)
  \/ \E s \in Store, c \in certified : AdmitCertificate(s, c)
  \/ RepairFromRetrieval \/ Lose \/ Tick

DaSpec == DaInit /\ [][DaNext]_daVars
-----------------------------------------------------------------------------
(***************************************************************************)
(* Properties.                                                             *)
(***************************************************************************)
\* Two different batches of one author sequence are never both certified,
\* although the author may sign both and the faulty members attest both; and
\* no honest member can be shown to have equivocated, whatever restarts.
OneCertifiedBatch ==
  /\ \A c, d \in certified : SameCoordinate(c.batch, d.batch) => c.batch = d.batch
  /\ \A x, y \in signatures : x[1] = y[1] => ~Equivocates(x[1], x[2], y[2])

\* Every store passes the audit of its next open once damaged bytes have
\* been latched: certification, latch, repair and collection, in any order,
\* keep queue, author quota, attestation journal and tombstones exact.
DaStoreReopens ==
  \A s \in Store :
    (\A b \in Rows(store[s]) : ChecksumHolds(store[s].rows[b])) => StoreAudit(store[s])

\* Bytes are only collected when both the retention epoch and the hold
\* height of the obligation in force have passed, whatever epoch and height
\* the caller that released it claimed and however old the permit: with a
\* permit of a committed height, a release that came too early ends the
\* extensions, not the bytes.
RetainedUntilExpiry ==
  [][\A s \in Store, b \in Batch :
       (store[s].rows[b].state = "Certified" /\ store'[s].rows[b].state = "GarbageCollected") =>
         clock > store[s].rows[b].obligation.retain /\ clock > store[s].rows[b].obligation.hold]_daVars

\* A response a store has built from live bytes verifies at the requester:
\* each chunk's path leads to the certified root, also where the last of an
\* odd level is its own sibling.
ResponseVerifies ==
  transfer # Nothing /\ transfer.stage = "response" => ProofVerifies(transfer)
=============================================================================
