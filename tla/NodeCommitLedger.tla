-------------------------- MODULE NodeCommitLedger --------------------------
(***************************************************************************)
(* trnm-checkpoint-store/src/node_commit_ledger_v1.rs: an append-only      *)
(* ledger of checkpoints kept as one file per record, a head file and an   *)
(* anchor file, driven by the command line (main.rs): ledger-init,         *)
(* ledger-advance and ledger-resolve.  Every invocation is a process that  *)
(* takes the file lock, recovers the ledger and then does its operation.   *)
(*                                                                         *)
(* The disk is modelled by what the running system sees and what a power   *)
(* loss leaves: a rename becomes durable only when its directory is        *)
(* synced.  A process may also die, or fail with an I/O error and exit, at *)
(* every step; the lock is then released and the visible files stay.       *)
(*                                                                         *)
(* A record digest commits to the sequence, the previous digest and both   *)
(* checkpoints, and a checkpoint commits to its predecessor, so a digest   *)
(* is modelled by the pair of the sequence and the target checkpoint.      *)
(***************************************************************************)
EXTENDS Checkpoints, Sequences

CONSTANTS Proc,        \* process ids of command line invocations
          NoProc,      \* the lock is free
          Anchor,      \* the checkpoint given to ledger-init
          MaxRecords   \* MAX_RECORDS_V1

ASSUME LedgerAssumption ==
  /\ NoProc \notin Proc
  /\ Anchor \in Checkpoint
  /\ MaxRecords \in Nat

VARIABLES
  root,            \* how far the ledger directory is initialised
  rootDurable,     \* the directory entries of the root are on disk
  records,         \* the visible record files, in sequence order
  durableRecords,  \* how many of them survive a power loss
  head,            \* the visible head.v1
  durableHead,     \* the head.v1 that surely survives a power loss
  recordTemps,     \* .record-<sequence>.tmp-<pid>
  headTemps,       \* .head.v1.tmp-<pid>-<sequence>
  lock,            \* the owner of ledger.lock
  pc,              \* where each process is
  phase,           \* which of its recoveries, or the append, it is in
  op,              \* the operation it was started with
  view,            \* self.head
  seen,            \* the terminal record found by the running recovery
  acked            \* targets some process has reported as committed

diskVars == <<root, rootDurable, records, durableRecords, head, durableHead,
              recordTemps, headTemps>>
procVars == <<pc, phase, op, view, seen>>
vars == <<diskVars, lock, procVars, acked>>
-----------------------------------------------------------------------------
LedgerHead == [sequence : Nat, checkpoint : Checkpoint]
Record == [previous : LedgerHead, source : Checkpoint, target : Checkpoint]
Operation == [kind : {"init", "advance", "resolve"},
              source : Checkpoint, target : Checkpoint]
TempName == Proc \X Nat

RecoveryStep == {"validate", "cleanup", "sync_records", "cleanup_head",
                 "sync_root", "publish", "publish_rename", "publish_sync",
                 "adopt"}
Step == RecoveryStep \cup
        {"idle", "init_anchor", "init_head", "init_sync", "write_temp",
         "rename", "sync_append", "finish", "failed", "invalid_state"}
Phase == {"init", "open", "call", "append", "post"}

AnchorHead == [sequence |-> 0, checkpoint |-> Anchor]
HeadAt(n) == IF n = 0 THEN AnchorHead
             ELSE [sequence |-> n, checkpoint |-> records[n].target]
TerminalHead == HeadAt(Len(records))
DurableTail == HeadAt(durableRecords)

TypeOK ==
  /\ root \in {"absent", "bare", "anchored", "ready"}
  /\ rootDurable \in BOOLEAN
  /\ records \in Seq(Record)
  /\ durableRecords \in 0 .. Len(records)
  /\ head \in LedgerHead
  /\ durableHead \in LedgerHead
  /\ recordTemps \subseteq TempName
  /\ headTemps \subseteq TempName
  /\ lock \in Proc \cup {NoProc}
  /\ pc \in [Proc -> Step]
  /\ phase \in [Proc -> Phase]
  /\ op \in [Proc -> Operation]
  /\ view \in [Proc -> LedgerHead]
  /\ seen \in [Proc -> LedgerHead]
  /\ acked \subseteq Checkpoint

InitialOperation == [kind |-> "init", source |-> Anchor, target |-> Anchor]

Init ==
  /\ root = "absent" /\ rootDurable = FALSE
  /\ records = <<>> /\ durableRecords = 0
  /\ head = AnchorHead /\ durableHead = AnchorHead
  /\ recordTemps = {} /\ headTemps = {}
  /\ lock = NoProc
  /\ pc = [p \in Proc |-> "idle"]
  /\ phase = [p \in Proc |-> "init"]
  /\ op = [p \in Proc |-> InitialOperation]
  /\ view = [p \in Proc |-> AnchorHead]
  /\ seen = [p \in Proc |-> AnchorHead]
  /\ acked = {}

Goto(p, step) == pc' = [pc EXCEPT ![p] = step]
At(p, step) == pc[p] = step
-----------------------------------------------------------------------------
(***************************************************************************)
(* ledger-init.  validate_new_root_v1 wants the root absent; the root, the *)
(* records directory and the locked lock file come first, then anchor.v1,  *)
(* then head.v1, and only then are the directories synced.                 *)
(***************************************************************************)
InitializeNew(p) ==
  /\ At(p, "idle") /\ root = "absent" /\ lock = NoProc
  /\ root' = "bare"
  /\ lock' = p
  /\ Goto(p, "init_anchor")
  /\ UNCHANGED <<rootDurable, records, durableRecords, head, durableHead,
                 recordTemps, headTemps, phase, op, view, seen, acked>>

InitAnchor(p) ==
  /\ At(p, "init_anchor")
  /\ root' = "anchored"
  /\ Goto(p, "init_head")
  /\ UNCHANGED <<rootDurable, records, durableRecords, head, durableHead,
                 recordTemps, headTemps, lock, phase, op, view, seen, acked>>

InitHead(p) ==
  /\ At(p, "init_head")
  /\ root' = "ready"
  /\ Goto(p, "init_sync")
  /\ UNCHANGED <<rootDurable, records, durableRecords, head, durableHead,
                 recordTemps, headTemps, lock, phase, op, view, seen, acked>>

InitSync(p) ==
  /\ At(p, "init_sync")
  /\ rootDurable' = TRUE
  /\ Goto(p, "validate")
  /\ UNCHANGED <<root, records, durableRecords, head, durableHead,
                 recordTemps, headTemps, lock, phase, op, view, seen, acked>>

\* Mutant: the target is not checked to be a successor of the source.
OpenUnchecked(p, kind, source, target) ==
  /\ At(p, "idle") /\ root # "absent" /\ lock = NoProc
  /\ lock' = p
  /\ op' = [op EXCEPT ![p] = [kind |-> kind, source |-> source,
                              target |-> target]]
  /\ phase' = [phase EXCEPT ![p] = "open"]
  /\ Goto(p, "validate")
  /\ UNCHANGED <<diskVars, view, seen, acked>>

(***************************************************************************)
(* ledger-advance and ledger-resolve begin with open_existing_expected: a  *)
(* target that is not a successor of the source, a missing root and a held *)
(* lock are refused before anything is touched.                            *)
(***************************************************************************)
OpenExistingExpected(p, kind, source, target) ==
  /\ At(p, "idle") /\ root # "absent" /\ lock = NoProc
  /\ ValidateSuccessorOf(target, source)
  /\ lock' = p
  /\ op' = [op EXCEPT ![p] = [kind |-> kind, source |-> source,
                              target |-> target]]
  /\ phase' = [phase EXCEPT ![p] = "open"]
  /\ Goto(p, "validate")
  /\ UNCHANGED <<diskVars, view, seen, acked>>
-----------------------------------------------------------------------------
(***************************************************************************)
(* recover_inner_v1, in the order of its effects.  First the whole ledger  *)
(* is read and compared with what this owner saw before and with the       *)
(* operation it was opened for; nothing has been changed until then.       *)
(***************************************************************************)
ChainMatches ==
  \A n \in 1 .. Len(records) :
    /\ records[n].previous = HeadAt(n - 1)
    /\ records[n].source = HeadAt(n - 1).checkpoint
    /\ ValidateSuccessorOf(records[n].target, records[n].source)

ObservedPrefixKept(p) ==
  /\ view[p].sequence <= Len(records)
  /\ HeadAt(view[p].sequence) = view[p]

PublishedHeadMatches ==
  /\ head.sequence <= Len(records)
  /\ head = HeadAt(head.sequence)

HistoryValid(p) ==
  /\ root = "ready"
  /\ ChainMatches
  /\ PublishedHeadMatches
  /\ ObservedPrefixKept(p)

\* Mutant: recovery no longer compares the ledger with the operation.
AnyContext(p) == TRUE

ExpectedContext(p) ==
  op[p].kind = "init" \/ TerminalHead.checkpoint \in {op[p].source, op[p].target}

Validate(p) ==
  /\ At(p, "validate")
  /\ Goto(p, IF ~HistoryValid(p) THEN "invalid_state"
             ELSE IF ~ExpectedContext(p) THEN "failed" ELSE "cleanup")
  /\ seen' = [seen EXCEPT ![p] = IF HistoryValid(p) THEN TerminalHead ELSE @]
  /\ UNCHANGED <<diskVars, lock, phase, op, view, acked>>

(***************************************************************************)
(* cleanup_abandoned_temps_v1 removes every temporary record and syncs the *)
(* records directory, which also makes a record durable that a dead        *)
(* process had renamed but not synced.                                     *)
(***************************************************************************)
CleanupTemps(p) ==
  /\ At(p, "cleanup")
  /\ recordTemps' = {}
  /\ Goto(p, "sync_records")
  /\ UNCHANGED <<root, rootDurable, records, durableRecords, head, durableHead,
                 headTemps, lock, phase, op, view, seen, acked>>

\* Mutant: the records directory is not synced after the clean-up.
SyncRecordsWithoutSync(p) ==
  /\ At(p, "sync_records")
  /\ Goto(p, "cleanup_head")
  /\ UNCHANGED <<diskVars, lock, phase, op, view, seen, acked>>

SyncRecords(p) ==
  /\ At(p, "sync_records")
  /\ durableRecords' = Len(records)
  /\ Goto(p, "cleanup_head")
  /\ UNCHANGED <<root, rootDurable, records, head, durableHead, recordTemps,
                 headTemps, lock, phase, op, view, seen, acked>>

CleanupHeadTemp(p) ==
  /\ At(p, "cleanup_head")
  /\ headTemps' = {}
  /\ Goto(p, "sync_root")
  /\ UNCHANGED <<root, rootDurable, records, durableRecords, head, durableHead,
                 recordTemps, lock, phase, op, view, seen, acked>>

\* Mutant: the recovery leaves the root directory unsynced.
SyncRootWithoutSync(p) ==
  /\ At(p, "sync_root")
  /\ Goto(p, IF head.sequence < seen[p].sequence THEN "publish" ELSE "adopt")
  /\ UNCHANGED <<diskVars, lock, phase, op, view, seen, acked>>

SyncRoot(p) ==
  /\ At(p, "sync_root")
  /\ durableHead' = head
  /\ rootDurable' = TRUE
  /\ Goto(p, IF head.sequence < seen[p].sequence THEN "publish" ELSE "adopt")
  /\ UNCHANGED <<root, records, durableRecords, head, recordTemps, headTemps,
                 lock, phase, op, view, seen, acked>>

(***************************************************************************)
(* publish_head_v1: write and sync a temporary head, rename it over        *)
(* head.v1, sync the root.  The recovery publishes the terminal record it  *)
(* replayed, the append the record it has just made durable.               *)
(***************************************************************************)
Published(p) == IF phase[p] = "append" THEN TerminalHead ELSE seen[p]

PublishTemp(p) ==
  /\ At(p, "publish")
  /\ headTemps' = headTemps \cup {<<p, Published(p).sequence>>}
  /\ Goto(p, "publish_rename")
  /\ UNCHANGED <<root, rootDurable, records, durableRecords, head, durableHead,
                 recordTemps, lock, phase, op, view, seen, acked>>

PublishRename(p) ==
  /\ At(p, "publish_rename")
  /\ head' = Published(p)
  /\ headTemps' = headTemps \ {<<p, Published(p).sequence>>}
  /\ Goto(p, "publish_sync")
  /\ UNCHANGED <<root, rootDurable, records, durableRecords, durableHead,
                 recordTemps, lock, phase, op, view, seen, acked>>

PublishSync(p) ==
  /\ At(p, "publish_sync")
  /\ durableHead' = head
  /\ Goto(p, IF phase[p] = "append" THEN "validate" ELSE "adopt")
  /\ phase' = [phase EXCEPT ![p] = IF @ = "append" THEN "post" ELSE @]
  /\ UNCHANGED <<root, rootDurable, records, durableRecords, head, recordTemps,
                 headTemps, lock, op, view, seen, acked>>
-----------------------------------------------------------------------------
(***************************************************************************)
(* The end of a recovery.  ledger-init is done.  The open is followed by   *)
(* the operation's own recovery.  append_exact_successor then returns if   *)
(* the head is already the target and otherwise appends, within the bound; *)
(* resolve_exact_source_or_target answers; the recovery after an append    *)
(* must find the target.                                                   *)
(***************************************************************************)
MayAppend(p) ==
  /\ op[p].kind = "advance"
  /\ seen[p].checkpoint = op[p].source
  /\ seen[p].sequence + 1 <= MaxRecords

\* Mutant: an advance appends without looking at the head it recovered.
AfterAdoptBlindly(p) ==
  CASE phase[p] = "init" -> "finish"
    [] phase[p] = "open" -> "validate"
    [] phase[p] = "call" /\ op[p].kind = "resolve" -> "finish"
    [] phase[p] = "call" /\ seen[p].sequence + 1 <= MaxRecords -> "write_temp"
    [] phase[p] = "post" -> "finish"
    [] OTHER -> "failed"

AfterAdopt(p) ==
  CASE phase[p] = "init" -> "finish"
    [] phase[p] = "open" -> "validate"
    [] phase[p] = "call" /\ op[p].kind = "resolve" -> "finish"
    [] phase[p] = "call" /\ seen[p].checkpoint = op[p].target -> "finish"
    [] phase[p] = "call" /\ MayAppend(p) -> "write_temp"
    [] phase[p] = "post" /\ seen[p].checkpoint = op[p].target -> "finish"
    [] OTHER -> "failed"

AfterPhase(p) == CASE phase[p] = "open" -> "call"
                   [] phase[p] = "call" /\ AfterAdopt(p) = "write_temp" -> "append"
                   [] OTHER -> phase[p]

Adopt(p) ==
  /\ At(p, "adopt")
  /\ view' = [view EXCEPT ![p] = seen[p]]
  /\ Goto(p, AfterAdopt(p))
  /\ phase' = [phase EXCEPT ![p] = AfterPhase(p)]
  /\ UNCHANGED <<diskVars, lock, op, seen, acked>>

(***************************************************************************)
(* append_exact_successor: a synced temporary record, its rename to the    *)
(* next record name, the sync of the records directory; publish_head and   *)
(* the closing recovery follow.                                            *)
(***************************************************************************)
WriteTemp(p) ==
  /\ At(p, "write_temp")
  /\ recordTemps' = recordTemps \cup {<<p, view[p].sequence + 1>>}
  /\ Goto(p, "rename")
  /\ UNCHANGED <<root, rootDurable, records, durableRecords, head, durableHead,
                 headTemps, lock, phase, op, view, seen, acked>>

NewRecord(p) == [previous |-> view[p], source |-> op[p].source,
                 target |-> op[p].target]

RenameRecord(p) ==
  /\ At(p, "rename")
  /\ records' = Append(records, NewRecord(p))
  /\ recordTemps' = recordTemps \ {<<p, view[p].sequence + 1>>}
  /\ Goto(p, "sync_append")
  /\ UNCHANGED <<root, rootDurable, durableRecords, head, durableHead,
                 headTemps, lock, phase, op, view, seen, acked>>

\* Mutant: the head is published before the records directory is synced.
SyncAppendWithoutSync(p) ==
  /\ At(p, "sync_append")
  /\ Goto(p, "publish")
  /\ UNCHANGED <<diskVars, lock, phase, op, view, seen, acked>>

\* Mutant: the record still to be written is counted as well.
SyncAppendOffByOne(p) ==
  /\ At(p, "sync_append")
  /\ durableRecords' = Len(records) + 1
  /\ Goto(p, "publish")
  /\ UNCHANGED <<root, rootDurable, records, head, durableHead, recordTemps,
                 headTemps, lock, phase, op, view, seen, acked>>

SyncAppend(p) ==
  /\ At(p, "sync_append")
  /\ durableRecords' = Len(records)
  /\ Goto(p, "publish")
  /\ UNCHANGED <<root, rootDurable, records, head, durableHead, recordTemps,
                 headTemps, lock, phase, op, view, seen, acked>>

(***************************************************************************)
(* The process reports its result and exits; dropping the ledger unlocks.  *)
(***************************************************************************)
ReportsTarget(p) ==
  op[p].kind # "init" /\ view[p].checkpoint = op[p].target

Exit(p) ==
  /\ lock' = NoProc
  /\ Goto(p, "idle")
  /\ phase' = [phase EXCEPT ![p] = "init"]
  /\ op' = [op EXCEPT ![p] = InitialOperation]
  /\ view' = [view EXCEPT ![p] = AnchorHead]
  /\ seen' = [seen EXCEPT ![p] = AnchorHead]
  /\ UNCHANGED diskVars

Finish(p) ==
  /\ At(p, "finish")
  /\ acked' = IF ReportsTarget(p) THEN acked \cup {op[p].target} ELSE acked
  /\ Exit(p)

\* Mutant: a rejected ledger is reported but never unlocked.
FailWithoutUnlock(p) ==
  /\ At(p, "failed")
  /\ Exit(p)
  /\ UNCHANGED acked

Fail(p) ==
  /\ pc[p] \in {"failed", "invalid_state"}
  /\ Exit(p)
  /\ UNCHANGED acked
-----------------------------------------------------------------------------
(***************************************************************************)
(* A process dies, or an I/O error ends it: the kernel drops its lock.     *)
(***************************************************************************)
Crash(p) ==
  /\ pc[p] # "idle"
  /\ Exit(p)
  /\ UNCHANGED acked

(***************************************************************************)
(* Power loss: every process dies; a renamed but unsynced record may be    *)
(* gone, an unsynced head may be the old one, initial files that were not  *)
(* synced may be missing.  Unsynced creations and removals of temporaries  *)
(* may or may not have happened: some survive, and one that was renamed or *)
(* removed may be back under its name.                                     *)
(***************************************************************************)
Survivors(temps, n) ==
  {kept \cup back : kept \in SUBSET temps,
                   back \in {{}} \cup {{<<p, n>>} : p \in {q \in Proc : n > 0}}}

PowerLoss ==
  /\ \E n \in durableRecords .. Len(records) :
       /\ records' = SubSeq(records, 1, n)
       /\ durableRecords' = n
       /\ recordTemps' \in Survivors(recordTemps, n + 1)
  /\ head' \in {head, durableHead}
  /\ durableHead' = head'
  /\ headTemps' \in Survivors(headTemps, Len(records))
  /\ root' \in IF rootDurable THEN {root}
               ELSE {"absent", "bare", "anchored"} \cup {root}
  /\ rootDurable' = (root' # "absent")
  /\ lock' = NoProc
  /\ pc' = [p \in Proc |-> "idle"]
  /\ phase' = [p \in Proc |-> "init"]
  /\ op' = [p \in Proc |-> InitialOperation]
  /\ view' = [p \in Proc |-> AnchorHead]
  /\ seen' = [p \in Proc |-> AnchorHead]
  /\ UNCHANGED acked
-----------------------------------------------------------------------------
RecoverStep(p) ==
  \/ Validate(p) \/ CleanupTemps(p) \/ SyncRecords(p) \/ CleanupHeadTemp(p)
  \/ SyncRoot(p) \/ PublishTemp(p) \/ PublishRename(p) \/ PublishSync(p)
  \/ Adopt(p)

ProcStep(p) ==
  \/ InitAnchor(p) \/ InitHead(p) \/ InitSync(p)
  \/ RecoverStep(p)
  \/ WriteTemp(p) \/ RenameRecord(p) \/ SyncAppend(p)
  \/ Finish(p) \/ Fail(p)

Start(p) ==
  \/ InitializeNew(p)
  \/ \E kind \in {"advance", "resolve"}, s, t \in Checkpoint :
       OpenExistingExpected(p, kind, s, t)

Next == \/ \E p \in Proc : Start(p) \/ ProcStep(p) \/ Crash(p)
        \/ PowerLoss

Spec == Init /\ [][Next]_vars

(***************************************************************************)
(* A started process keeps running: the operating system schedules it, and *)
(* none of its steps waits for another process (the lock is only tried).   *)
(***************************************************************************)
FairSpec == Spec /\ \A p \in Proc : WF_vars(ProcStep(p))
-----------------------------------------------------------------------------
(***************************************************************************)
(* head.v1 is only ever published for a record that already survives a     *)
(* power loss, and names it exactly.  Every cut of append_exact_successor  *)
(* and of recover_inner_v1 must keep this, or the next recovery finds "the *)
(* published head is ahead of durable records".                            *)
(***************************************************************************)
HeadNeverAhead ==
  \A h \in {head, durableHead} :
    h.sequence <= durableRecords /\ h = HeadAt(h.sequence)

(***************************************************************************)
(* No crash or power loss leaves an initialised ledger that recovery       *)
(* refuses as InvalidState: the journal-ahead-of-head cut is the only one, *)
(* and it is repaired.                                                     *)
(***************************************************************************)
RecoveryAccepts ==
  \A p \in Proc : pc[p] = "invalid_state" => root # "ready"

(***************************************************************************)
(* A target that any process has reported, by ledger-advance or by         *)
(* ledger-resolve, is in the part of the ledger a power loss cannot take.  *)
(***************************************************************************)
AckedIsDurable ==
  \A c \in acked : \E n \in 0 .. durableRecords : HeadAt(n).checkpoint = c

(***************************************************************************)
(* A retry of a committed advance, by any process and after any crash,     *)
(* appends no second record for the same target.                           *)
(***************************************************************************)
RecordedOnce ==
  \A m, n \in 1 .. Len(records) :
    records[m].target = records[n].target => m = n

(***************************************************************************)
(* A ledger-init that was cut short leaves a directory no command accepts  *)
(* any more; that never happens to a ledger that holds a record or has     *)
(* reported one.                                                           *)
(***************************************************************************)
UnusableOnlyUnused ==
  root # "ready" => records = <<>> /\ acked = {}

(***************************************************************************)
(* "No mutation precedes full history and operation-context validation":   *)
(* while the ledger stands at neither checkpoint of the operation a        *)
(* process was started for, no step of that process changes a file.        *)
(***************************************************************************)
ForeignOperationTouchesNothing ==
  [][\A p \in Proc :
       /\ op[p].kind # "init" /\ pc'[p] # pc[p]
       /\ pc[p] # "idle" /\ pc'[p] # "idle"
       /\ TerminalHead.checkpoint \notin {op[p].source, op[p].target}
       => UNCHANGED diskVars]_vars

(***************************************************************************)
(* The durable tail of the ledger is a CheckpointRegister.                 *)
(***************************************************************************)
RegisterValue == [s \in Scopes |-> IF s = ScopeOf[Anchor]
                                   THEN DurableTail.checkpoint
                                   ELSE NoCheckpoint]
Register == INSTANCE CheckpointRegister WITH value <- RegisterValue

(***************************************************************************)
(* Across process crashes and power losses the ledger only moves from a    *)
(* checkpoint to its exact successor: it implements CheckpointRegister.    *)
(***************************************************************************)
ImplementsRegister == Register!Spec

(***************************************************************************)
(* A process that has taken the ledger lock gives it back.                 *)
(***************************************************************************)
LockIsReturned == \A p \in Proc : lock = p ~> lock # p
=============================================================================
