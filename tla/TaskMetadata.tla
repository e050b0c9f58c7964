---------------------------- MODULE TaskMetadata ----------------------------
(***************************************************************************)
(* The metadata of a task object in trnm-types, and its migration: older   *)
(* writers keep the settlement snapshot of a task beside the task, newer   *)
(* ones inside its metadata.  Readers report on a task with the snapshot   *)
(* they were given; writers thread that snapshot into the task.            *)
(*                                                                         *)
(* A text is absent, clean or padded.  The fields a report treats alike    *)
(* (task type, input hash, model, provenance) are one text, the worst of   *)
(* them; a snapshot is an identity, a text for its required fields and the *)
(* texts of its two optional commitments.                                  *)
(***************************************************************************)
EXTENDS Naturals, Sequences

CONSTANTS TmSnapshots,   \* settlement snapshots callers hold
          TmDocuments    \* metadata as it is stored

VARIABLES tmTask

Texts == {"absent", "clean", "padded"}
NoSnapshot == [absent |-> TRUE]
NoMetadata == [absent |-> TRUE]
Default == [note |-> "absent", other |-> "absent", metering |-> "absent", settlement |-> NoSnapshot]

\* A stored document may carry the snapshot under its older name as well.
FromWire(doc) ==
  [note |-> doc.note, other |-> doc.other, metering |-> doc.metering,
   settlement |-> IF doc.settlement /= NoSnapshot THEN doc.settlement ELSE doc.settlementSnapshot]
-----------------------------------------------------------------------------
CanonicalAtom(text) == text = "clean"
CanonicalIfPresent(text) == text = "absent" \/ CanonicalAtom(text)
CompleteMetering(text) == CanonicalIfPresent(text)
CompleteSettlement(s) ==
  \/ s = NoSnapshot
  \/ /\ CanonicalAtom(s.required)
     /\ CanonicalIfPresent(s.root) /\ CanonicalIfPresent(s.span)
     /\ CanonicalAtom(s.root) \/ CanonicalAtom(s.span)

FallbackFirst(m, fallback) == IF fallback /= NoSnapshot THEN fallback ELSE m.settlement
EffectiveSnapshot(m, fallback) == IF m.settlement /= NoSnapshot THEN m.settlement ELSE fallback

SnapshotSource(m, fallback) ==
  CASE m.settlement /= NoSnapshot -> "threaded"
    [] m.settlement = NoSnapshot /\ fallback /= NoSnapshot -> "fallback"
    [] OTHER -> "absent"

Compatibility(m, fallback) ==
  [noteOnly |-> m.note /= "absent" /\ m.other = "absent" /\ m.metering = "absent"
                /\ m.settlement = NoSnapshot,
   canonical |-> CanonicalIfPresent(m.note) /\ CanonicalIfPresent(m.other),
   metering |-> CompleteMetering(m.metering),
   settlement |-> CompleteSettlement(EffectiveSnapshot(m, fallback))]

RequiresUpgrade(c) == c.noteOnly \/ ~(c.canonical /\ c.metering /\ c.settlement)
Findings(c) ==
  SelectSeq(<<"noteOnly", "canonical", "metering", "settlement">>,
            LAMBDA f : IF f = "noteOnly" THEN c[f] ELSE ~c[f])

\* The reports of a task object: one without metadata reports as the default.
Metadata(task) == IF task = NoMetadata THEN Default ELSE task
Report(task, fallback) ==
  LET c == Compatibility(Metadata(task), fallback) IN
  [compatibility |-> c, upgrade |-> RequiresUpgrade(c),
   source |-> SnapshotSource(Metadata(task), fallback), findings |-> Findings(c)]
-----------------------------------------------------------------------------
TmInit == tmTask \in {NoMetadata} \cup {FromWire(d) : d \in TmDocuments}

\* thread_settlement_snapshot of the task, then of its metadata.
Threaded(task, fallback) ==
  LET m == Metadata(task) IN
  IF m.settlement /= NoSnapshot THEN m ELSE [m EXCEPT !.settlement = fallback]
ThreadSnapshot(fallback) == fallback /= NoSnapshot /\ tmTask' = Threaded(tmTask, fallback)

TmNext == \E s \in TmSnapshots : ThreadSnapshot(s)
-----------------------------------------------------------------------------
\* Writing the snapshot into the task changes no verdict a reader had with
\* the snapshot beside it: what was complete stays complete and what was
\* effective stays effective, whatever snapshot a later reader or writer
\* holds.  Only the note-only verdict may go, and only because the task now
\* has a snapshot; the findings always explain the verdict.
ThreadingKeepsVerdict ==
  \A f \in TmSnapshots :
    LET task == Threaded(tmTask, f)
        before == Report(tmTask, f)
        after == Report(task, NoSnapshot) IN
    /\ EffectiveSnapshot(Metadata(tmTask), f) = task.settlement
    /\ \A g \in TmSnapshots : Report(task, g) = after /\ Threaded(task, g) = task
    /\ \A v \in {"canonical", "metering", "settlement"} :
         before.compatibility[v] = after.compatibility[v]
    /\ ~after.compatibility.noteOnly /\ after.source = "threaded"
    /\ \A r \in {before, after} : r.upgrade = (r.findings /= <<>>)
=============================================================================
