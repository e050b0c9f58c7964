----------------------- MODULE NodeCommitLedgerProofs -----------------------
(***************************************************************************)
(* What holds of NodeCommitLedger in every reachable state and step, for   *)
(* any set of processes, any checkpoint chain and any bound: its           *)
(* invariants, that it implements CheckpointRegister, that an advance is   *)
(* recorded once, and that a foreign operation changes no file.  First the *)
(* inductive invariant and the steps that keep it, then the theorems.      *)
(***************************************************************************)
EXTENDS NodeCommitLedger, TLAPS

USE ZenonT(40)

(***************************************************************************)
(* The inductive invariant has a shared part about the files and one part  *)
(* for each process.  The lock makes the live process unique; what that    *)
(* process remembers agrees with the disk at every step between its reads  *)
(* and its writes; and each step after a directory sync knows that the     *)
(* sync covers all visible files.                                          *)
(***************************************************************************)
Early == {"idle", "init_anchor", "init_head", "init_sync"}
AfterValidate ==
  {"cleanup", "sync_records", "cleanup_head", "sync_root", "publish",
   "publish_rename", "publish_sync", "adopt"}
Working == AfterValidate \cup {"write_temp", "rename", "sync_append"}

Holds(p) ==
  /\ pc[p] # "idle" => lock = p
  /\ pc[p] = "idle" => view[p] = AnchorHead
  /\ pc[p] \in Early => op[p].kind = "init"
  /\ op[p].kind # "init" => ValidateSuccessorOf(op[p].target, op[p].source)

Remembers(p) ==
  /\ ObservedPrefixKept(p)
  /\ pc[p] \in AfterValidate /\ phase[p] # "append" => seen[p] = TerminalHead
  /\ op[p].kind # "init" /\ pc[p] \in Working
       => TerminalHead.checkpoint \in {op[p].source, op[p].target}

Appends(p) ==
  /\ pc[p] \in {"write_temp", "rename", "sync_append"} => phase[p] = "append"
  /\ phase[p] = "append" =>
       /\ pc[p] \in {"write_temp", "rename", "sync_append", "publish",
                     "publish_rename", "publish_sync"}
       /\ op[p].kind = "advance"
  /\ pc[p] \in {"write_temp", "rename"} =>
       view[p] = TerminalHead /\ op[p].source = TerminalHead.checkpoint

SyncedAt(s) ==
  s \in {"cleanup_head", "sync_root", "publish", "publish_rename",
         "publish_sync", "adopt", "write_temp", "rename", "finish"}
    => durableRecords = Len(records)

RootAt(s) ==
  /\ s = "init_anchor" => root = "bare"
  /\ s = "init_head" => root = "anchored"
  /\ s = "init_sync" => root = "ready"
  /\ s \in AfterValidate => root = "ready"
  /\ s \in {"publish", "publish_rename", "publish_sync", "adopt",
            "write_temp", "rename", "sync_append", "finish"}
       => root = "ready" /\ rootDurable
  /\ s = "invalid_state" => root # "ready"

OwnInv(p) ==
  /\ Holds(p) /\ Remembers(p) /\ Appends(p)
  /\ SyncedAt(pc[p]) /\ RootAt(pc[p])

ScopeInv ==
  \A n \in 1 .. Len(records) : ScopeOf[records[n].target] = ScopeOf[Anchor]

GenerationInv ==
  \A n \in 0 .. Len(records) :
    Generation[HeadAt(n).checkpoint] = Generation[Anchor] + n

OneAheadInv == Len(records) <= durableRecords + 1

RootInv ==
  /\ records # <<>> \/ acked # {} => root = "ready" /\ rootDurable
  /\ rootDurable => root # "absent"

SharedInv ==
  /\ ScopeInv /\ GenerationInv /\ OneAheadInv /\ RootInv
  /\ ChainMatches /\ HeadNeverAhead /\ AckedIsDurable

IInv == TypeOK /\ SharedInv /\ \A p \in Proc : OwnInv(p)
-----------------------------------------------------------------------------

(***************************************************************************)
(* The types of the values the ledger's operators return.                  *)
(***************************************************************************)
LEMMA HeadTypes ==
  ASSUME TypeOK
  PROVE  /\ AnchorHead \in LedgerHead
         /\ \A n \in 0 .. Len(records) : HeadAt(n) \in LedgerHead
         /\ TerminalHead \in LedgerHead
         /\ TerminalHead.sequence = Len(records)
         /\ HeadAt(TerminalHead.sequence) = TerminalHead
  <1>1. AnchorHead \in LedgerHead
    BY LedgerAssumption DEF AnchorHead, LedgerHead
  <1>2. ASSUME NEW n \in 0 .. Len(records) PROVE HeadAt(n) \in LedgerHead
    <2>1. CASE n = 0
      BY <1>1, <2>1 DEF HeadAt
    <2>2. CASE n # 0
      <3>1. records[n] \in Record
        BY <2>2, SMTT(30) DEF TypeOK
      <3> QED BY <2>2, <3>1, SMTT(30) DEF HeadAt, LedgerHead, Record
    <2> QED BY <2>1, <2>2
  <1>3. Len(records) \in Nat /\ TerminalHead.sequence = Len(records)
    BY SMTT(30) DEF TypeOK, TerminalHead, HeadAt, AnchorHead
  <1> QED BY <1>1, <1>2, <1>3, SMTT(30) DEF TerminalHead

(***************************************************************************)
(* The heads depend on the records alone.                                  *)
(***************************************************************************)
LEMMA SameRecords ==
  ASSUME UNCHANGED records
  PROVE  /\ TerminalHead' = TerminalHead /\ AnchorHead' = AnchorHead
         /\ \A n : HeadAt(n)' = HeadAt(n)
  BY DEF TerminalHead, HeadAt, AnchorHead

(***************************************************************************)
(* A process that rests: it has not been started, or it has ended.         *)
(***************************************************************************)
Resting(q) ==
  /\ pc[q] = "idle" /\ view[q] = AnchorHead
  /\ op[q].kind = "init" /\ phase[q] # "append"

\* Its part of the invariant says nothing of the files.
LEMMA RestingOwns ==
  ASSUME TypeOK', NEW q \in Proc, Resting(q)'
  PROVE  OwnInv(q)'
  <1>1. HeadAt(0)' = AnchorHead /\ AnchorHead.sequence = 0 /\ AnchorHead' = AnchorHead
    BY DEF HeadAt, AnchorHead
  <1>2. Len(records') \in Nat
    BY SMTT(30) DEF TypeOK
  <1>3. Holds(q)' /\ Appends(q)'
    BY <1>1 DEF Resting, Holds, Appends
  <1>4. Remembers(q)'
    BY <1>1, <1>2, SMTT(30) DEF Resting, Remembers, ObservedPrefixKept, AfterValidate
  <1>5. SyncedAt(pc[q])' /\ RootAt(pc[q])'
    BY DEF Resting, SyncedAt, RootAt, AfterValidate
  <1> QED BY <1>3, <1>4, <1>5 DEF OwnInv

(***************************************************************************)
(* While one process is running, or starts, every other one rests.         *)
(***************************************************************************)
LEMMA OthersRest ==
  ASSUME IInv, NEW p \in Proc, NEW q \in Proc, q # p,
         lock = p \/ lock = NoProc
  PROVE  Resting(q)
  <1>1. Holds(q) /\ Appends(q)
    BY DEF IInv, OwnInv
  <1>2. pc[q] = "idle"
    BY <1>1, LedgerAssumption DEF Holds
  <1> QED BY <1>1, <1>2 DEF Holds, Appends, Resting, Early

(***************************************************************************)
(* A step of one process keeps the invariant if it leaves the others alone *)
(* and establishes its own part and the shared one.                        *)
(***************************************************************************)
LEMMA OwnStepKeeps ==
  ASSUME IInv, TypeOK', NEW p \in Proc, lock = p \/ lock = NoProc,
         \A q \in Proc : q # p => /\ pc'[q] = pc[q] /\ phase'[q] = phase[q]
                                  /\ op'[q] = op[q] /\ view'[q] = view[q],
         OwnInv(p)', SharedInv'
  PROVE  IInv'
  <1>1. ASSUME NEW q \in Proc, q # p PROVE OwnInv(q)'
    <2>1. Resting(q)
      BY <1>1, OthersRest
    <2>2. Resting(q)'
      BY <1>1, <2>1 DEF Resting, AnchorHead
    <2> QED BY <2>2, RestingOwns
  <1> QED BY <1>1 DEF IInv

(***************************************************************************)
(* The shared part survives a step that adds no record and no report,      *)
(* moves the durable end only to the last record, and a head only to a     *)
(* durable one.                                                            *)
(***************************************************************************)
LEMMA SharedFrame ==
  ASSUME IInv, UNCHANGED <<records, acked>>,
         durableRecords' \in {durableRecords, Len(records)},
         \A h \in {head', durableHead'} :
           \/ h \in {head, durableHead}
           \/ h = TerminalHead /\ durableRecords' = Len(records),
         RootInv'
  PROVE  SharedInv'
  <1>1. /\ TypeOK /\ SharedInv /\ durableRecords \in 0 .. Len(records)
        /\ Len(records) \in Nat /\ durableRecords <= durableRecords'
    BY SMTT(30) DEF IInv, TypeOK
  <1>2. \A n : HeadAt(n)' = HeadAt(n)
    BY SameRecords
  <1>3. ScopeInv' /\ OneAheadInv' /\ GenerationInv' /\ ChainMatches'
    <2>1. ScopeInv' /\ OneAheadInv'
      BY <1>1, SMTT(30) DEF SharedInv, ScopeInv, OneAheadInv
    <2>2. GenerationInv' /\ ChainMatches'
      BY <1>1, <1>2 DEF SharedInv, GenerationInv, ChainMatches
    <2> QED BY <2>1, <2>2
  <1>4. AckedIsDurable'
    <2>1. 0 .. durableRecords \subseteq 0 .. durableRecords'
      BY <1>1, SMTT(30)
    <2> QED BY <1>1, <1>2, <2>1 DEF SharedInv, AckedIsDurable
  <1>5. HeadNeverAhead'
    <2>1. ASSUME NEW h \in {head', durableHead'}
          PROVE  h.sequence <= durableRecords' /\ h = HeadAt(h.sequence)
      <3>1. CASE h \in {head, durableHead}
        <4>1. h.sequence \in Nat /\ h.sequence <= durableRecords
              /\ h = HeadAt(h.sequence)
          BY <1>1, <3>1 DEF SharedInv, HeadNeverAhead, TypeOK, LedgerHead
        <4> QED BY <1>1, <4>1, SMTT(30)
      <3>2. CASE h = TerminalHead /\ durableRecords' = Len(records)
        BY <1>1, <3>2, HeadTypes, SMTT(30)
      <3> QED BY <3>1, <3>2
    <2> QED BY <1>2, <2>1 DEF HeadNeverAhead
  <1> QED BY <1>3, <1>4, <1>5 DEF SharedInv

DiskOK ==
  /\ root \in {"absent", "bare", "anchored", "ready"}
  /\ rootDurable \in BOOLEAN
  /\ durableRecords \in 0 .. Len(records)
  /\ head \in LedgerHead /\ durableHead \in LedgerHead
  /\ recordTemps \subseteq TempName /\ headTemps \subseteq TempName

(***************************************************************************)
(* What every step of a running process may use: the types, the shared     *)
(* part, its own part, and that the step it is at holds the lock.          *)
(***************************************************************************)
LEMMA Running ==
  ASSUME IInv, NEW p \in Proc
  PROVE  /\ TypeOK /\ SharedInv /\ RootInv /\ DiskOK
         /\ Holds(p) /\ Remembers(p) /\ Appends(p)
         /\ SyncedAt(pc[p]) /\ RootAt(pc[p])
         /\ pc[p] # "idle" => lock = p
  BY DEF IInv, OwnInv, Holds, SharedInv, TypeOK, DiskOK

(***************************************************************************)
(* The end of a recovery adopts the head it has recovered.                 *)
(***************************************************************************)
LEMMA AdoptStep ==
  ASSUME IInv, NEW p \in Proc, Adopt(p)
  PROVE  IInv'
  <1> DEFINE s == AfterAdopt(p)
             f == AfterPhase(p)
  <1>1. /\ TypeOK /\ RootInv /\ Holds(p) /\ Remembers(p) /\ Appends(p) /\ SyncedAt(pc[p]) /\ RootAt(pc[p])
        /\ TerminalHead \in LedgerHead /\ TerminalHead.sequence = Len(records)
        /\ HeadAt(TerminalHead.sequence) = TerminalHead
    BY Running, HeadTypes
  <1>2. /\ pc[p] = "adopt" /\ lock = p
        /\ pc' = [pc EXCEPT ![p] = s] /\ phase' = [phase EXCEPT ![p] = f]
        /\ view' = [view EXCEPT ![p] = seen[p]]
        /\ UNCHANGED <<root, rootDurable, records, durableRecords, head,
                       durableHead, recordTemps, headTemps, lock, op, seen, acked>>
    BY Running DEF Adopt, At, Goto, diskVars
  <1>3. phase[p] # "append" /\ seen[p] = TerminalHead
    BY <1>1, <1>2 DEF Appends, Remembers, AfterValidate
  <1>4. /\ s \in {"finish", "validate", "write_temp", "failed"}
        /\ s = "write_temp" => /\ op[p].kind = "advance"
                               /\ op[p].source = seen[p].checkpoint
    BY DEF AfterAdopt, MayAppend
  <1>5. f = "append" <=> s = "write_temp"
    BY <1>1, <1>3 DEF AfterAdopt, AfterPhase, TypeOK, Phase
  <1>6. f \in Phase
    BY <1>1 DEF AfterPhase, TypeOK, Phase
  <1> HIDE DEF s, f
  <1>7. TypeOK'
    <2>1. s \in Step
      BY <1>4 DEF Step, RecoveryStep
    <2> QED BY <1>1, <1>2, <1>3, <1>6, <2>1 DEF TypeOK
  <1>8. /\ pc'[p] = s /\ phase'[p] = f /\ view'[p] = TerminalHead
        /\ \A q \in Proc : q # p => /\ pc'[q] = pc[q] /\ phase'[q] = phase[q]
                                    /\ view'[q] = view[q]
    BY <1>1, <1>2, <1>3 DEF TypeOK
  <1>9. /\ TerminalHead' = TerminalHead /\ \A n : HeadAt(n)' = HeadAt(n)
        /\ Len(records) \in Nat
    BY <1>1, <1>2, SMTT(30) DEF TypeOK, TerminalHead, HeadAt, AnchorHead
  <1>10. SharedInv'
    <2>1. RootInv'
      BY <1>1, <1>2 DEF RootInv
    <2> QED BY <1>2, <2>1, SharedFrame
  <1>11. Holds(p)'
    BY <1>1, <1>2, <1>4, <1>8 DEF Holds, Early
  <1>12. Appends(p)'
    BY <1>2, <1>3, <1>4, <1>5, <1>8, <1>9 DEF Appends
  <1>13. Remembers(p)'
    <2>1. ObservedPrefixKept(p)' /\ s \notin AfterValidate
      BY <1>1, <1>2, <1>4, <1>8, <1>9, SMTT(30) DEF ObservedPrefixKept, AfterValidate
    <2>2. s \in Working => op[p].kind = "advance" /\ op[p].source = seen[p].checkpoint
      BY <1>4 DEF Working, AfterValidate
    <2> QED BY <1>2, <1>3, <1>8, <1>9, <2>1, <2>2 DEF Remembers
  <1>14. SyncedAt(pc[p])' /\ RootAt(pc[p])'
    BY <1>1, <1>2, <1>4, <1>8 DEF SyncedAt, RootAt, AfterValidate
  <1>15. OwnInv(p)'
    BY <1>11, <1>12, <1>13, <1>14 DEF OwnInv
  <1> QED BY <1>2, <1>7, <1>8, <1>10, <1>15, OwnStepKeeps

(***************************************************************************)
(* The append of the successor of the last record keeps the shared part.   *)
(***************************************************************************)
LEMMA AppendedShared ==
  ASSUME IInv, NEW r, Len(records') = Len(records) + 1,
         \A n \in 1 .. Len(records) : records'[n] = records[n],
         records'[Len(records) + 1] = r,
         UNCHANGED <<root, rootDurable, durableRecords, head, durableHead, acked>>,
         durableRecords = Len(records), root = "ready", rootDurable,
         r.previous = TerminalHead, r.source = TerminalHead.checkpoint,
         ValidateSuccessorOf(r.target, r.source)
  PROVE  SharedInv' /\ TerminalHead'.checkpoint = r.target
  <1> DEFINE last == Len(records)
  <1>1. /\ SharedInv /\ records \in Seq(Record) /\ last \in Nat
        /\ head.sequence \in Nat /\ durableHead.sequence \in Nat
        /\ TerminalHead = HeadAt(last) /\ last = durableRecords
    BY SMTT(30) DEF IInv, TypeOK, LedgerHead, TerminalHead
  <1>2. /\ Len(records') = last + 1 /\ records'[last + 1] = r
        /\ \A n \in 1 .. last : records'[n] = records[n]
    OBVIOUS
  <1> HIDE DEF last
  <1>3. \A n \in 0 .. last : HeadAt(n)' = HeadAt(n)
    BY <1>1, <1>2, SMTT(30) DEF HeadAt, AnchorHead
  <1>4. ASSUME NEW n, n = last + 1 PROVE HeadAt(n)'.checkpoint = r.target
    BY <1>1, <1>2, <1>4, SMTT(30) DEF HeadAt
  <1>5. \A n \in 0 .. last : /\ ScopeOf[HeadAt(n).checkpoint] = ScopeOf[Anchor]
                             /\ Generation[HeadAt(n).checkpoint] = Generation[Anchor] + n
    BY <1>1, SMTT(30) DEF last, SharedInv, ScopeInv, GenerationInv, HeadAt, AnchorHead
  <1>6. /\ ScopeOf[r.target] = ScopeOf[Anchor]
        /\ Generation[r.target] = Generation[Anchor] + last + 1
    BY <1>1, <1>5, SMTT(30) DEF ValidateSuccessorOf
  <1>7. ScopeInv'
    <2>1. ASSUME NEW n \in 1 .. last + 1
          PROVE  ScopeOf[records'[n].target] = ScopeOf[Anchor]
      <3>1. CASE n = last + 1
        BY <1>2, <1>6, <3>1
      <3>2. CASE n # last + 1
        <4>1. n \in 1 .. last
          BY <1>1, <3>2, SMTT(30)
        <4> QED BY <1>1, <1>2, <4>1 DEF SharedInv, ScopeInv, last
      <3> QED BY <3>1, <3>2
    <2> QED BY <1>2, <2>1 DEF ScopeInv
  <1>8. GenerationInv'
    <2>1. ASSUME NEW n \in 0 .. last + 1
          PROVE  Generation[HeadAt(n)'.checkpoint] = Generation[Anchor] + n
      <3>1. CASE n = last + 1
        <4>1. Generation[Anchor] \in Nat
          BY LedgerAssumption, CheckpointAssumption
        <4>2. HeadAt(n)'.checkpoint = r.target
          BY <1>4, <3>1
        <4>3. Generation[Anchor] + last + 1 = Generation[Anchor] + n
          BY <1>1, <3>1, <4>1, SMTT(30)
        <4> QED BY <1>6, <4>2, <4>3
      <3>2. CASE n # last + 1
        <4>1. n \in 0 .. last
          BY <1>1, <3>2, SMTT(30)
        <4> QED BY <1>3, <1>5, <4>1
      <3> QED BY <3>1, <3>2
    <2> QED BY <1>2, <2>1 DEF GenerationInv
  <1>9. ChainMatches'
    <2>1. ASSUME NEW n \in 1 .. last + 1
          PROVE /\ records'[n].previous = HeadAt(n - 1)'
                /\ records'[n].source = HeadAt(n - 1)'.checkpoint
                /\ ValidateSuccessorOf(records'[n].target, records'[n].source)
      <3>1. n - 1 \in 0 .. last /\ HeadAt(n - 1)' = HeadAt(n - 1)
        BY <1>1, <1>3, SMTT(30)
      <3>2. CASE n = last + 1
        <4>1. n - 1 = last /\ records'[n] = r
          BY <1>1, <1>2, <3>2, SMTT(30)
        <4> QED BY <1>1, <3>1, <4>1
      <3>3. CASE n # last + 1
        <4>1. n \in 1 .. last
          BY <1>1, <3>3, SMTT(30)
        <4> QED BY <1>1, <1>2, <3>1, <4>1 DEF SharedInv, ChainMatches, last
      <3> QED BY <3>2, <3>3
    <2> QED BY <1>2, <2>1 DEF ChainMatches, ValidateSuccessorOf
  <1>10. HeadNeverAhead'
    <2>1. ASSUME NEW h \in {head, durableHead}
          PROVE  h.sequence <= last /\ h = HeadAt(h.sequence)'
      <3>1. h.sequence <= last /\ h = HeadAt(h.sequence)
        BY <1>1 DEF SharedInv, HeadNeverAhead
      <3>2. h.sequence \in 0 .. last
        BY <1>1, <3>1, SMTT(30)
      <3> QED BY <1>3, <3>1, <3>2
    <2> QED BY <1>1, <2>1 DEF HeadNeverAhead
  <1>11. AckedIsDurable'
    <2>1. \A c \in acked : \E n \in 0 .. last : HeadAt(n).checkpoint = c
      BY <1>1 DEF SharedInv, AckedIsDurable
    <2>2. \A c \in acked : \E n \in 0 .. last : HeadAt(n)'.checkpoint = c
      BY <1>3, <2>1
    <2> QED BY <1>1, <2>2 DEF AckedIsDurable
  <1>12. OneAheadInv' /\ RootInv'
    BY <1>1, <1>2, SMTT(30) DEF SharedInv, OneAheadInv, RootInv
  <1>13. TerminalHead'.checkpoint = r.target
    BY <1>2, <1>4 DEF TerminalHead
  <1> QED BY <1>7, <1>8, <1>9, <1>10, <1>11, <1>12, <1>13 DEF SharedInv

(***************************************************************************)
(* append_exact_successor renames its record into place.                   *)
(***************************************************************************)
LEMMA RecordRename ==
  ASSUME IInv, NEW p \in Proc, RenameRecord(p)
  PROVE  IInv'
  <1> DEFINE r == NewRecord(p)
  <1>1. /\ TypeOK /\ Holds(p) /\ Remembers(p) /\ Appends(p) /\ SyncedAt(pc[p]) /\ RootAt(pc[p])
    BY Running
  <1>2. /\ pc[p] = "rename" /\ lock = p
        /\ records' = Append(records, r)
        /\ recordTemps' \subseteq recordTemps
        /\ pc' = [pc EXCEPT ![p] = "sync_append"]
        /\ UNCHANGED <<root, rootDurable, durableRecords, head, durableHead,
                       headTemps, lock, phase, op, view, seen, acked>>
    BY Running DEF RenameRecord, At, Goto
  <1>3. /\ phase[p] = "append" /\ op[p].kind = "advance"
        /\ view[p] = TerminalHead /\ op[p].source = TerminalHead.checkpoint
        /\ ValidateSuccessorOf(op[p].target, op[p].source)
    BY <1>1, <1>2 DEF Holds, Appends
  <1>4. durableRecords = Len(records) /\ root = "ready" /\ rootDurable
    BY <1>1, <1>2 DEF SyncedAt, RootAt
  <1>5. /\ r \in Record /\ r.previous = TerminalHead
        /\ r.source = TerminalHead.checkpoint
        /\ r.target = op[p].target
        /\ ValidateSuccessorOf(r.target, r.source)
    BY <1>1, <1>3 DEF TypeOK, NewRecord, Record, Operation
  <1> HIDE DEF r
  <1>7. /\ records \in Seq(Record) /\ records' \in Seq(Record)
        /\ Len(records) \in Nat /\ Len(records') = Len(records) + 1
        /\ \A n \in 1 .. Len(records) : records'[n] = records[n]
        /\ records'[Len(records) + 1] = r
    <2>1. records \in Seq(Record)
      BY <1>1 DEF TypeOK
    <2> QED BY <1>2, <1>5, <2>1, SMTT(30)
  <1>6. SharedInv' /\ TerminalHead'.checkpoint = op[p].target
    BY <1>2, <1>4, <1>5, <1>7, AppendedShared
  <1>8. TypeOK'
    <2>1. "sync_append" \in Step
      BY DEF Step
    <2> QED BY <1>1, <1>2, <1>7, <2>1, SMTT(30) DEF TypeOK
  <1>9. pc'[p] = "sync_append" /\ \A q \in Proc : q # p => pc'[q] = pc[q]
    BY <1>1, <1>2 DEF TypeOK
  <1>10. Holds(p)' /\ Appends(p)'
    BY <1>1, <1>2, <1>3, <1>9 DEF Holds, Appends, Early
  <1>11. ObservedPrefixKept(p)'
    <2>1. \A n \in 0 .. Len(records) : HeadAt(n)' = HeadAt(n)
      BY <1>7, SMTT(30) DEF HeadAt, AnchorHead
    <2>2. view[p].sequence \in Nat
      BY <1>1 DEF TypeOK, LedgerHead
    <2> QED BY <1>1, <1>2, <1>7, <2>1, <2>2, SMTT(30) DEF Remembers, ObservedPrefixKept
  <1>12. Remembers(p)'
    BY <1>2, <1>6, <1>9, <1>11 DEF Remembers, AfterValidate
  <1>13. SyncedAt(pc[p])' /\ RootAt(pc[p])'
    BY <1>2, <1>4, <1>9 DEF SyncedAt, RootAt, AfterValidate
  <1>14. OwnInv(p)'
    BY <1>10, <1>12, <1>13 DEF OwnInv
  <1> QED BY <1>2, <1>6, <1>8, <1>9, <1>14, OwnStepKeeps

(***************************************************************************)
(* The validation of a recovery: an initialised ledger always passes it.   *)
(***************************************************************************)
LEMMA ValidateStep ==
  ASSUME IInv, NEW p \in Proc, Validate(p)
  PROVE  IInv'
  <1> DEFINE s == IF ~HistoryValid(p) THEN "invalid_state"
                  ELSE IF ~ExpectedContext(p) THEN "failed" ELSE "cleanup"
             h == IF HistoryValid(p) THEN TerminalHead ELSE seen[p]
  <1>1. /\ TypeOK /\ SharedInv /\ RootInv /\ Holds(p) /\ Remembers(p) /\ Appends(p)
        /\ TerminalHead \in LedgerHead
    BY Running, HeadTypes
  <1>2. /\ pc' = [pc EXCEPT ![p] = s] /\ seen' = [seen EXCEPT ![p] = h]
    BY DEF Validate, Goto
  <1>3. /\ pc[p] = "validate" /\ lock = p
        /\ UNCHANGED <<root, rootDurable, records, durableRecords, head,
                       durableHead, recordTemps, headTemps, lock, phase, op,
                       view, acked>>
    BY Running DEF Validate, At, diskVars
  <1>4. h \in LedgerHead /\ (HistoryValid(p) => h = TerminalHead)
    BY <1>1 DEF TypeOK
  <1>s. /\ s \in {"invalid_state", "failed", "cleanup"}
        /\ s = "invalid_state" => ~HistoryValid(p)
        /\ s = "cleanup" => HistoryValid(p) /\ ExpectedContext(p)
    OBVIOUS
  <1> HIDE DEF s, h
  <1>5. TypeOK'
    <2>1. s \in Step
      BY <1>s DEF Step, RecoveryStep
    <2> QED BY <1>1, <1>2, <1>3, <1>4, <2>1 DEF TypeOK
  <1>6. /\ pc'[p] = s /\ seen'[p] = h
        /\ \A q \in Proc : q # p => pc'[q] = pc[q]
    BY <1>1, <1>2, <1>4 DEF TypeOK
  <1>7. TerminalHead' = TerminalHead /\ \A n : HeadAt(n)' = HeadAt(n)
    BY <1>3, SameRecords
  <1>8. root = "ready" <=> HistoryValid(p)
    <2>1. PublishedHeadMatches
      BY <1>1, SMTT(30) DEF SharedInv, HeadNeverAhead, PublishedHeadMatches, TypeOK, LedgerHead
    <2> QED BY <1>1, <2>1 DEF SharedInv, HistoryValid, OwnInv, Remembers
  <1>9. SharedInv'
    <2>1. RootInv'
      BY <1>1, <1>3 DEF RootInv
    <2> QED BY <1>3, <2>1, SharedFrame
  <1>10. Holds(p)' /\ Appends(p)'
    <2>1. s \notin Early /\ s \notin {"write_temp", "rename", "sync_append"}
      BY <1>s DEF Early
    <2>2. s # "idle"
      BY <1>s
    <2>3. phase[p] # "append"
      BY <1>1, <1>3 DEF Appends
    <2> QED BY <1>1, <1>3, <1>6, <2>1, <2>2, <2>3 DEF Holds, Appends
  <1>11. Remembers(p)'
    <2>1. s \in Working => s = "cleanup" /\ HistoryValid(p) /\ ExpectedContext(p)
      BY <1>s DEF Working, AfterValidate
    <2>2. s \in AfterValidate => s \in Working
      BY DEF Working
    <2> QED BY <1>1, <1>3, <1>4, <1>6, <1>7, <2>1, <2>2
               DEF Remembers, ObservedPrefixKept, ExpectedContext
  <1>12. SyncedAt(pc[p])' /\ RootAt(pc[p])'
    BY <1>s, <1>3, <1>6, <1>8 DEF SyncedAt, RootAt, AfterValidate
  <1>13. OwnInv(p)'
    BY <1>10, <1>11, <1>12 DEF OwnInv
  <1> QED BY <1>3, <1>5, <1>6, <1>9, <1>13, OwnStepKeeps

(***************************************************************************)
(* The sync that ends the publication of a head.                           *)
(***************************************************************************)
LEMMA HeadSync ==
  ASSUME IInv, NEW p \in Proc, PublishSync(p)
  PROVE  IInv'
  <1> DEFINE s == IF phase[p] = "append" THEN "validate" ELSE "adopt"
             f == IF phase[p] = "append" THEN "post" ELSE phase[p]
  <1>1. /\ TypeOK /\ RootInv /\ Holds(p) /\ Remembers(p) /\ Appends(p) /\ SyncedAt(pc[p]) /\ RootAt(pc[p])
    BY Running
  <1>2. pc' = [pc EXCEPT ![p] = s] /\ phase' = [phase EXCEPT ![p] = f]
    BY DEF PublishSync, Goto
  <1>3. /\ pc[p] = "publish_sync" /\ lock = p /\ durableHead' = head
        /\ UNCHANGED <<root, rootDurable, records, durableRecords, head,
                       recordTemps, headTemps, lock, op, view, seen, acked>>
    BY Running DEF PublishSync, At
  <1>4. TypeOK'
    <2>1. s \in Step /\ f \in Phase
      BY <1>1, <1>2 DEF Step, RecoveryStep, Phase, TypeOK
    <2> QED BY <1>1, <1>2, <1>3, <2>1 DEF TypeOK
  <1>5. /\ pc'[p] = s /\ phase'[p] = f
        /\ \A q \in Proc : q # p => pc'[q] = pc[q] /\ phase'[q] = phase[q]
    BY <1>1, <1>2 DEF TypeOK
  <1>6. TerminalHead' = TerminalHead /\ \A n : HeadAt(n)' = HeadAt(n)
    BY <1>3, SameRecords
  <1>7. SharedInv'
    <2>1. RootInv'
      BY <1>1, <1>3 DEF RootInv
    <2> QED BY <1>3, <2>1, SharedFrame
  <1>8. Holds(p)' /\ Appends(p)'
    BY <1>1, <1>2, <1>3, <1>5, SMTT(30) DEF Holds, Appends, Early
  <1>9. Remembers(p)'
    BY <1>1, <1>2, <1>3, <1>5, <1>6, SMTT(30)
       DEF Remembers, ObservedPrefixKept, Working, AfterValidate
  <1>10. SyncedAt(pc[p])' /\ RootAt(pc[p])'
    BY <1>1, <1>2, <1>3, <1>5, SMTT(30) DEF SyncedAt, RootAt, AfterValidate
  <1>11. OwnInv(p)'
    BY <1>8, <1>9, <1>10 DEF OwnInv
  <1> QED BY <1>3, <1>4, <1>5, <1>7, <1>11, OwnStepKeeps

(***************************************************************************)
(* The initial state, before ledger-init, satisfies the invariant.         *)
(***************************************************************************)
LEMMA InitIInv == Init => IInv
  <1> SUFFICES ASSUME Init PROVE IInv
    OBVIOUS
  <1>1. AnchorHead \in LedgerHead /\ InitialOperation \in Operation
    BY LedgerAssumption DEF AnchorHead, LedgerHead, InitialOperation, Operation
  <1>2. records \in Seq(Record) /\ Len(records) = 0 /\ durableRecords = 0
    BY SMTT(30) DEF Init
  <1>3. TypeOK
    <2>1. "idle" \in Step /\ "init" \in Phase
      BY DEF Step, Phase
    <2>2. durableRecords \in 0 .. Len(records)
      BY <1>2, SMTT(30)
    <2> QED BY <1>1, <1>2, <2>1, <2>2 DEF Init, TypeOK
  <1>4. HeadAt(0) = AnchorHead /\ AnchorHead.sequence = 0 /\ AnchorHead.checkpoint = Anchor
    BY DEF HeadAt, AnchorHead
  <1>5. SharedInv
    <2>1. ScopeInv /\ OneAheadInv /\ RootInv /\ ChainMatches
      BY <1>2, SMTT(30) DEF Init, ScopeInv, OneAheadInv, RootInv, ChainMatches
    <2>2. GenerationInv
      BY <1>2, <1>4, LedgerAssumption, CheckpointAssumption, SMTT(30) DEF GenerationInv
    <2>3. HeadNeverAhead /\ AckedIsDurable
      BY <1>2, <1>4, SMTT(30) DEF Init, HeadNeverAhead, AckedIsDurable
    <2> QED BY <2>1, <2>2, <2>3 DEF SharedInv
  <1>6. ASSUME NEW p \in Proc PROVE OwnInv(p)
    <2>1. /\ pc[p] = "idle" /\ phase[p] = "init" /\ op[p] = InitialOperation
          /\ view[p] = AnchorHead /\ op[p].kind = "init"
      BY DEF Init, InitialOperation
    <2>2. Holds(p) /\ Appends(p)
      BY <2>1 DEF Holds, Appends
    <2>3. Remembers(p)
      BY <1>2, <1>4, <2>1, SMTT(30) DEF Remembers, ObservedPrefixKept, AfterValidate
    <2>4. SyncedAt(pc[p]) /\ RootAt(pc[p])
      BY <2>1 DEF SyncedAt, RootAt, AfterValidate
    <2> QED BY <2>2, <2>3, <2>4 DEF OwnInv
  <1> QED BY <1>3, <1>5, <1>6 DEF IInv

(***************************************************************************)
(* open_existing_expected takes the lock of an existing root.              *)
(***************************************************************************)
LEMMA OpenExistingStep ==
  ASSUME IInv, NEW p \in Proc, NEW kind \in {"advance", "resolve"},
         NEW source \in Checkpoint, NEW target \in Checkpoint,
         OpenExistingExpected(p, kind, source, target)
  PROVE  IInv'
  <1> DEFINE o == [kind |-> kind, source |-> source, target |-> target]
  <1>1. TypeOK /\ RootInv /\ Holds(p) /\ Remembers(p) /\ Appends(p)
    BY Running
  <1>2. /\ pc[p] = "idle" /\ lock = NoProc /\ lock' = p
        /\ ValidateSuccessorOf(target, source)
        /\ op' = [op EXCEPT ![p] = o] /\ phase' = [phase EXCEPT ![p] = "open"]
        /\ pc' = [pc EXCEPT ![p] = "validate"]
        /\ UNCHANGED <<root, rootDurable, records, durableRecords, head,
                       durableHead, recordTemps, headTemps, view, seen, acked>>
    BY DEF OpenExistingExpected, At, Goto, diskVars
  <1>3. o \in Operation /\ o.kind # "init" /\ o.source = source /\ o.target = target
    BY DEF Operation
  <1> HIDE DEF o
  <1>4. TypeOK'
    <2>1. "validate" \in Step /\ "open" \in Phase
      BY DEF Step, RecoveryStep, Phase
    <2> QED BY <1>1, <1>2, <1>3, <2>1 DEF TypeOK
  <1>5. /\ pc'[p] = "validate" /\ phase'[p] = "open" /\ op'[p] = o
        /\ \A q \in Proc : q # p => /\ pc'[q] = pc[q] /\ phase'[q] = phase[q]
                                    /\ op'[q] = op[q]
    BY <1>1, <1>2 DEF TypeOK
  <1>6. TerminalHead' = TerminalHead /\ \A n : HeadAt(n)' = HeadAt(n)
    BY <1>2, SameRecords
  <1>7. SharedInv'
    <2>1. RootInv'
      BY <1>1, <1>2 DEF RootInv
    <2> QED BY <1>2, <2>1, SharedFrame
  <1>8. Holds(p)' /\ Appends(p)'
    BY <1>2, <1>3, <1>5 DEF Holds, Appends, Early
  <1>9. Remembers(p)'
    BY <1>1, <1>2, <1>5, <1>6
       DEF Remembers, ObservedPrefixKept, Working, AfterValidate
  <1>10. SyncedAt(pc[p])' /\ RootAt(pc[p])'
    BY <1>5 DEF SyncedAt, RootAt, AfterValidate
  <1>11. OwnInv(p)'
    BY <1>8, <1>9, <1>10 DEF OwnInv
  <1> QED BY <1>2, <1>4, <1>5, <1>7, <1>11, OwnStepKeeps

(***************************************************************************)
(* initialize_new takes the lock of a root it has just created.            *)
(***************************************************************************)
LEMMA InitializeStep ==
  ASSUME IInv, NEW p \in Proc, InitializeNew(p)
  PROVE  IInv'
  <1>1. TypeOK /\ RootInv /\ Holds(p) /\ Remembers(p) /\ Appends(p)
    BY Running
  <1>2. /\ pc[p] = "idle" /\ root = "absent" /\ root' = "bare" /\ lock = NoProc
        /\ lock' = p /\ pc' = [pc EXCEPT ![p] = "init_anchor"]
        /\ UNCHANGED <<rootDurable, records, durableRecords, head, durableHead,
                       recordTemps, headTemps, phase, op, view, seen, acked>>
    BY DEF InitializeNew, At, Goto
  <1>3. TypeOK'
    <2>1. "init_anchor" \in Step
      BY DEF Step
    <2> QED BY <1>1, <1>2, <2>1 DEF TypeOK
  <1>4. /\ pc'[p] = "init_anchor" /\ \A q \in Proc : q # p => pc'[q] = pc[q]
    BY <1>1, <1>2 DEF TypeOK
  <1>5. TerminalHead' = TerminalHead /\ \A n : HeadAt(n)' = HeadAt(n)
    BY <1>2, SameRecords
  <1>6. RootInv'
    BY <1>1, <1>2 DEF RootInv
  <1>7. SharedInv'
    BY <1>2, <1>6, SharedFrame
  <1>8. Holds(p)' /\ Appends(p)'
    BY <1>1, <1>2, <1>4 DEF Holds, Appends, Early
  <1>9. Remembers(p)'
    BY <1>1, <1>2, <1>4, <1>5
       DEF Remembers, ObservedPrefixKept, Working, AfterValidate
  <1>10. SyncedAt(pc[p])' /\ RootAt(pc[p])'
    BY <1>2, <1>4 DEF SyncedAt, RootAt, AfterValidate
  <1>11. OwnInv(p)'
    BY <1>8, <1>9, <1>10 DEF OwnInv
  <1> QED BY <1>2, <1>3, <1>4, <1>7, <1>11, OwnStepKeeps

(***************************************************************************)
(* Every step of a process moves only that process, and except for the     *)
(* append and the two syncs of the records directory it leaves the visible *)
(* and the durable records as they are.                                    *)
(***************************************************************************)
MovesOnly(p) == \A q \in Proc : q # p => pc'[q] = pc[q]
KeepsRecords == UNCHANGED <<records, durableRecords>>

\* So does each step of initialize, open, recover, advance and resolve.
LEMMA ProcessSteps ==
  ASSUME TypeOK, NEW p \in Proc, Start(p) \/ ProcStep(p) \/ Crash(p)
  PROVE  /\ MovesOnly(p)
         /\ KeepsRecords \/ RenameRecord(p) \/ SyncRecords(p) \/ SyncAppend(p)
  <1>1. pc \in [Proc -> Step]
    BY DEF TypeOK
  <1> USE DEF Goto, MovesOnly, KeepsRecords, diskVars
  <1>2. ASSUME InitializeNew(p) \/ InitAnchor(p) \/ InitHead(p) \/ InitSync(p)
        PROVE  MovesOnly(p) /\ KeepsRecords
    BY <1>1, <1>2 DEF InitializeNew, InitAnchor, InitHead, InitSync
  <1>3. ASSUME Validate(p) \/ CleanupTemps(p) \/ CleanupHeadTemp(p) \/ PublishTemp(p)
        PROVE  MovesOnly(p) /\ KeepsRecords
    BY <1>1, <1>3 DEF Validate, CleanupTemps, CleanupHeadTemp, PublishTemp
  <1>4. ASSUME PublishRename(p) \/ PublishSync(p) \/ Adopt(p) \/ WriteTemp(p) \/ SyncRoot(p)
        PROVE  MovesOnly(p) /\ KeepsRecords
    BY <1>1, <1>4 DEF PublishRename, PublishSync, Adopt, WriteTemp, SyncRoot
  <1>5. ASSUME Finish(p) \/ Fail(p) \/ Crash(p)
        PROVE  MovesOnly(p) /\ KeepsRecords
    BY <1>1, <1>5 DEF Finish, Fail, Crash, Exit
  <1>6. ASSUME NEW kind, NEW s, NEW t, OpenExistingExpected(p, kind, s, t)
        PROVE  MovesOnly(p) /\ KeepsRecords
    BY <1>1, <1>6 DEF OpenExistingExpected
  <1>7. ASSUME RenameRecord(p) \/ SyncRecords(p) \/ SyncAppend(p)
        PROVE  MovesOnly(p)
    BY <1>1, <1>7 DEF RenameRecord, SyncRecords, SyncAppend
  <1> HIDE DEF Goto, MovesOnly, KeepsRecords, diskVars
  <1> QED BY <1>2, <1>3, <1>4, <1>5, <1>6, <1>7
             DEF Start, ProcStep, RecoverStep

(***************************************************************************)
(* A process at work has found the ledger at the source or the target of   *)
(* its operation, so one that has found neither is about to validate or to *)
(* end.                                                                    *)
(***************************************************************************)
LEMMA ForeignStep ==
  ASSUME IInv, Next, NEW p \in Proc, op[p].kind # "init", pc'[p] # pc[p],
         pc[p] # "idle", pc'[p] # "idle",
         TerminalHead.checkpoint \notin {op[p].source, op[p].target}
  PROVE  UNCHANGED diskVars
  <1>1. TypeOK /\ pc[p] \notin Working /\ pc[p] \notin Early
    BY DEF IInv, OwnInv, Holds, Remembers
  <1>2. ~PowerLoss
    BY DEF PowerLoss
  <1>3. Start(p) \/ ProcStep(p) \/ Crash(p)
    <2>1. PICK q \in Proc : Start(q) \/ ProcStep(q) \/ Crash(q)
      BY <1>2 DEF Next
    <2>2. MovesOnly(q)
      BY <1>1, <2>1, ProcessSteps
    <2> QED BY <2>1, <2>2 DEF MovesOnly
  <1>4. ~Start(p)
    BY DEF Start, InitializeNew, OpenExistingExpected, At
  <1>5. /\ ~InitAnchor(p) /\ ~InitHead(p) /\ ~InitSync(p) /\ ~CleanupTemps(p)
        /\ ~SyncRecords(p) /\ ~CleanupHeadTemp(p) /\ ~SyncRoot(p)
    BY <1>1 DEF Early, Working, AfterValidate, At, InitAnchor, InitHead,
       InitSync, CleanupTemps, SyncRecords, CleanupHeadTemp, SyncRoot
  <1>6. /\ ~PublishTemp(p) /\ ~PublishRename(p) /\ ~PublishSync(p) /\ ~Adopt(p)
        /\ ~WriteTemp(p) /\ ~RenameRecord(p) /\ ~SyncAppend(p)
    BY <1>1 DEF Working, AfterValidate, At, PublishTemp, PublishRename,
       PublishSync, Adopt, WriteTemp, RenameRecord, SyncAppend
  <1>7. Crash(p) \/ Finish(p) \/ Fail(p) \/ Validate(p)
    BY <1>3, <1>4, <1>5, <1>6 DEF ProcStep, RecoverStep
  <1> QED BY <1>7 DEF Crash, Finish, Fail, Exit, Validate

DurableMove ==
  /\ durableRecords' \in {durableRecords, durableRecords + 1}
  /\ \A n \in 0 .. durableRecords : HeadAt(n)' = HeadAt(n)

(***************************************************************************)
(* The durable tail moves by at most one record in a step, and every       *)
(* record that was durable stays the same.                                 *)
(***************************************************************************)
LEMMA StepMovesByOne == IInv /\ [Next]_vars => DurableMove
  <1> SUFFICES ASSUME IInv, [Next]_vars PROVE DurableMove
    OBVIOUS
  <1>1. /\ TypeOK /\ Len(records) \in Nat /\ durableRecords \in 0 .. Len(records)
        /\ Len(records) <= durableRecords + 1 /\ records \in Seq(Record)
    BY SMTT(30) DEF IInv, TypeOK, SharedInv, OneAheadInv
  <1>2. ASSUME NEW m \in Nat, durableRecords <= m, m <= Len(records'),
               \A n \in 1 .. m : records'[n] = records[n]
        PROVE  \A n \in 0 .. durableRecords : HeadAt(n)' = HeadAt(n)
    BY <1>1, <1>2, SMTT(30) DEF HeadAt, AnchorHead
  <1>3. CASE KeepsRecords
    BY <1>3, SameRecords DEF KeepsRecords, DurableMove
  <1>4. ASSUME NEW p \in Proc, SyncRecords(p) \/ SyncAppend(p) PROVE DurableMove
    <2>1. records' = records /\ durableRecords' = Len(records)
      BY <1>4 DEF SyncRecords, SyncAppend
    <2> QED BY <1>1, <2>1, SameRecords, SMTT(30) DEF DurableMove
  <1>5. ASSUME NEW p \in Proc, RenameRecord(p) PROVE DurableMove
    <2>1. NewRecord(p) \in Record
      BY <1>1 DEF TypeOK, NewRecord, Record, Operation
    <2>2. durableRecords' = durableRecords /\ records' = Append(records, NewRecord(p))
      BY <1>5 DEF RenameRecord
    <2>3. /\ Len(records) <= Len(records')
          /\ \A n \in 1 .. Len(records) : records'[n] = records[n]
      BY <1>1, <2>1, <2>2, SMTT(30)
    <2> QED BY <1>1, <1>2, <2>2, <2>3, SMTT(30) DEF DurableMove
  <1>6. ASSUME PowerLoss PROVE DurableMove
    <2>1. PICK n \in durableRecords .. Len(records) :
            records' = SubSeq(records, 1, n) /\ durableRecords' = n
      BY <1>6 DEF PowerLoss
    <2>2. /\ n \in Nat /\ durableRecords <= n /\ Len(records') = n
          /\ \A m \in 1 .. n : records'[m] = records[m]
      BY <1>1, <2>1, SMTT(30)
    <2> QED BY <1>1, <1>2, <2>1, <2>2, SMTT(30) DEF DurableMove
  <1>7. CASE UNCHANGED vars
    BY <1>3, <1>7 DEF vars, diskVars, KeepsRecords
  <1> QED BY <1>1, <1>3, <1>4, <1>5, <1>6, <1>7, ProcessSteps DEF Next

(***************************************************************************)
(* Every step of the ledger is a step of the register or leaves it alone.  *)
(***************************************************************************)
LEMMA RegisterStep ==
  IInv /\ IInv' /\ DurableMove => [Register!Next]_RegisterValue
  <1> SUFFICES ASSUME IInv, IInv', DurableMove
               PROVE  Register!Next \/ RegisterValue' = RegisterValue
    OBVIOUS
  <1>1. CASE durableRecords' = durableRecords
    <2>1. durableRecords \in 0 .. durableRecords
      BY SMTT(30) DEF IInv, TypeOK
    <2>2. DurableTail' = DurableTail
      BY <1>1, <2>1 DEF DurableMove, DurableTail, HeadAt, AnchorHead
    <2> QED BY <2>2 DEF RegisterValue
  <1>2. CASE durableRecords' = durableRecords + 1
    <2>0. PICK n \in Nat : n = durableRecords'
      BY SMTT(30) DEF IInv, TypeOK
    <2> DEFINE c == records'[n].target
               s == ScopeOf[Anchor]
    <2>1. /\ n \in 1 .. Len(records') /\ n - 1 = durableRecords
          /\ durableRecords \in 0 .. durableRecords /\ n # 0
      BY <1>2, <2>0, SMTT(30) DEF IInv, TypeOK
    <2>2. records'[n] \in Record
      BY <2>1, SMTT(30) DEF IInv, TypeOK
    <2>3. /\ records'[n].source = HeadAt(n - 1)'.checkpoint
          /\ ValidateSuccessorOf(c, records'[n].source)
          /\ ScopeOf[c] = s
      BY <2>1 DEF IInv, SharedInv, ChainMatches, ScopeInv
    <2>4. HeadAt(n - 1)' = DurableTail
      BY <2>1 DEF DurableMove, DurableTail
    <2>5. DurableTail'.checkpoint = c /\ c \in Checkpoint
      BY <2>0, <2>1, <2>2 DEF DurableTail, HeadAt, Record
    <2>6. DurableTail.checkpoint \in Checkpoint
      BY <2>1, HeadTypes DEF IInv, TypeOK, DurableTail, LedgerHead
    <2>7. s \in Scopes /\ NoCheckpoint \notin Checkpoint
      BY LedgerAssumption, CheckpointAssumption
    <2>8. RegisterValue[s] = DurableTail.checkpoint
          /\ RegisterValue' = [RegisterValue EXCEPT ![s] = c]
      BY <2>5, <2>7 DEF RegisterValue
    <2>9. Register!ValidSuccessorShape(RegisterValue[s], c)
      BY <2>3, <2>4, <2>6, <2>7, <2>8
         DEF ValidateSuccessorOf, Register!ValidSuccessorShape,
             Register!ValidateSuccessorOf
    <2> QED BY <2>3, <2>5, <2>7, <2>8, <2>9 DEF Register!Next, Register!Advance
  <1> QED BY <1>1, <1>2 DEF DurableMove

(***************************************************************************)
(* The anchor is an initial value of the register.                         *)
(***************************************************************************)
LEMMA RegisterInit == Init => Register!Init
  BY LedgerAssumption, CheckpointAssumption
     DEF Init, Register!Init, Register!TypeOK, RegisterValue, DurableTail,
         HeadAt, AnchorHead
-----------------------------------------------------------------------------
(***************************************************************************)
(* A process ends: with its report, with a refusal, or by a crash.         *)
(***************************************************************************)
LEMMA EndSteps ==
  ASSUME IInv, NEW p \in Proc, Finish(p) \/ Fail(p) \/ Crash(p)
  PROVE  IInv'
  <1>1. /\ TypeOK /\ SharedInv /\ Holds(p) /\ Remembers(p) /\ Appends(p) /\ RootInv /\ SyncedAt(pc[p])
        /\ RootAt(pc[p]) /\ AnchorHead \in LedgerHead
    BY Running, HeadTypes
  <1>2. /\ pc[p] # "idle" /\ Exit(p)
        /\ \/ acked' = acked
           \/ /\ pc[p] = "finish" /\ acked' = acked \cup {op[p].target}
              /\ view[p].checkpoint = op[p].target
    BY DEF Finish, Fail, Crash, At, ReportsTarget
  <1>3. /\ lock = p /\ lock' = NoProc /\ pc' = [pc EXCEPT ![p] = "idle"]
        /\ phase' = [phase EXCEPT ![p] = "init"]
        /\ op' = [op EXCEPT ![p] = InitialOperation]
        /\ view' = [view EXCEPT ![p] = AnchorHead]
        /\ seen' = [seen EXCEPT ![p] = AnchorHead]
        /\ UNCHANGED <<root, rootDurable, records, durableRecords, head,
                       durableHead, recordTemps, headTemps>>
    BY <1>2, Running DEF Exit, Goto, diskVars
  <1>4. InitialOperation \in Operation /\ InitialOperation.kind = "init"
    BY LedgerAssumption DEF InitialOperation, Operation
  <1>5. op[p].target \in Checkpoint
    BY <1>1 DEF TypeOK, Operation
  <1>6. TypeOK'
    <2>1. acked' \subseteq Checkpoint
      BY <1>1, <1>2, <1>5 DEF TypeOK
    <2>2. "idle" \in Step /\ "init" \in Phase
      BY DEF Step, Phase
    <2> QED BY <1>1, <1>3, <1>4, <2>1, <2>2 DEF TypeOK
  <1>7. /\ pc'[p] = "idle" /\ phase'[p] = "init" /\ op'[p] = InitialOperation
        /\ view'[p] = AnchorHead
        /\ \A q \in Proc : q # p => /\ pc'[q] = pc[q] /\ phase'[q] = phase[q]
                                    /\ op'[q] = op[q] /\ view'[q] = view[q]
    BY <1>1, <1>3 DEF TypeOK
  <1>8. \A n : HeadAt(n)' = HeadAt(n)
    BY <1>3, SameRecords
  <1>9. AckedIsDurable'
    <2>1. ASSUME pc[p] = "finish"
          PROVE  /\ view[p].sequence \in 0 .. durableRecords
                 /\ HeadAt(view[p].sequence) = view[p]
      <3>1. durableRecords = Len(records) /\ view[p].sequence \in Nat
            /\ Len(records) \in Nat
        BY <1>1, <2>1, SMTT(30) DEF SyncedAt, TypeOK, LedgerHead
      <3> QED BY <1>1, <3>1, SMTT(30) DEF Remembers, ObservedPrefixKept
    <2>2. \A c \in acked : \E n \in 0 .. durableRecords : HeadAt(n).checkpoint = c
      BY <1>1 DEF SharedInv, AckedIsDurable
    <2>3. \A c \in acked' : \E n \in 0 .. durableRecords : HeadAt(n).checkpoint = c
      BY <1>2, <2>1, <2>2
    <2> QED BY <1>3, <1>8, <2>3 DEF AckedIsDurable
  <1>10. SharedInv'
    <2>1. ScopeInv' /\ OneAheadInv' /\ HeadNeverAhead'
      BY <1>1, <1>3, <1>8 DEF SharedInv, ScopeInv, OneAheadInv, HeadNeverAhead
    <2>2. GenerationInv' /\ ChainMatches'
      BY <1>1, <1>3, <1>8 DEF SharedInv, GenerationInv, ChainMatches
    <2>3. RootInv'
      BY <1>1, <1>2, <1>3 DEF RootInv, RootAt
    <2> QED BY <1>9, <2>1, <2>2, <2>3 DEF SharedInv
  <1>11. OwnInv(p)'
    <2>1. Resting(p)'
      BY <1>4, <1>7 DEF Resting, AnchorHead
    <2> QED BY <1>6, <2>1, RestingOwns
  <1> QED BY <1>3, <1>6, <1>7, <1>10, <1>11, OwnStepKeeps

(***************************************************************************)
(* The power fails: what was not synced may be gone.                       *)
(***************************************************************************)
LEMMA PowerLossStep ==
  ASSUME IInv, PowerLoss
  PROVE  IInv'
  <1>1. /\ TypeOK /\ SharedInv /\ AnchorHead \in LedgerHead
        /\ records \in Seq(Record) /\ durableRecords \in 0 .. Len(records)
        /\ Len(records) \in Nat
    BY HeadTypes, SMTT(30) DEF IInv, TypeOK
  <1>2. PICK n \in durableRecords .. Len(records) :
          /\ records' = SubSeq(records, 1, n) /\ durableRecords' = n
          /\ recordTemps' \in Survivors(recordTemps, n + 1)
    BY DEF PowerLoss
  <1>3. /\ head' \in {head, durableHead} /\ durableHead' = head'
        /\ headTemps' \in Survivors(headTemps, Len(records))
        /\ root' \in {"absent", "bare", "anchored", root}
        /\ (rootDurable => root' = root)
        /\ rootDurable' = (root' # "absent") /\ acked' = acked /\ lock' = NoProc
    BY DEF PowerLoss
  <1>4. /\ pc' = [p \in Proc |-> "idle"] /\ phase' = [p \in Proc |-> "init"]
        /\ op' = [p \in Proc |-> InitialOperation]
        /\ view' = [p \in Proc |-> AnchorHead]
        /\ seen' = [p \in Proc |-> AnchorHead]
    BY DEF PowerLoss
  <1>5. /\ n \in Nat /\ n <= Len(records) /\ durableRecords <= n
        /\ records' \in Seq(Record) /\ Len(records') = n
        /\ \A m \in 1 .. n : records'[m] = records[m]
    BY <1>1, <1>2, SMTT(30)
  <1>6. \A m \in 0 .. n : HeadAt(m)' = HeadAt(m)
    BY <1>5, SMTT(30) DEF HeadAt, AnchorHead
  <1>7. InitialOperation \in Operation /\ InitialOperation.kind = "init"
    BY LedgerAssumption DEF InitialOperation, Operation
  <1>8. TypeOK'
    <2>1. recordTemps' \subseteq TempName
      <3>1. recordTemps \subseteq Proc \X Nat /\ n + 1 \in Nat
        BY <1>1, <1>5, SMTT(30) DEF TypeOK, TempName
      <3> QED BY <1>2, <3>1, SMTT(30) DEF Survivors, TempName
    <2>2. headTemps' \subseteq TempName
      <3>1. headTemps \subseteq Proc \X Nat
        BY <1>1 DEF TypeOK, TempName
      <3> QED BY <1>1, <1>3, <3>1, SMTT(30) DEF Survivors, TempName
    <2>3. "idle" \in Step /\ "init" \in Phase
      BY DEF Step, Phase
    <2>4. /\ pc' \in [Proc -> Step] /\ phase' \in [Proc -> Phase]
          /\ op' \in [Proc -> Operation] /\ view' \in [Proc -> LedgerHead]
          /\ seen' \in [Proc -> LedgerHead]
      BY <1>1, <1>4, <1>7, <2>3
    <2>5. durableRecords' \in 0 .. Len(records')
      BY <1>2, <1>5, SMTT(30)
    <2> QED BY <1>1, <1>3, <1>5, <2>1, <2>2, <2>4, <2>5 DEF TypeOK
  <1>9. ASSUME NEW p \in Proc PROVE OwnInv(p)'
    <2>1. Resting(p)'
      BY <1>4, <1>7 DEF Resting, AnchorHead
    <2> QED BY <1>8, <2>1, RestingOwns
  <1>10. OneAheadInv' /\ ScopeInv'
    BY <1>1, <1>2, <1>5, SMTT(30) DEF SharedInv, OneAheadInv, ScopeInv
  <1>11. GenerationInv'
    <2>1. 0 .. n \subseteq 0 .. Len(records)
      BY <1>1, <1>5, SMTT(30)
    <2> QED BY <1>1, <1>5, <1>6, <2>1 DEF SharedInv, GenerationInv
  <1>12. ChainMatches'
    <2>1. ASSUME NEW m \in 1 .. n
          PROVE /\ records'[m].previous = HeadAt(m - 1)'
                /\ records'[m].source = HeadAt(m - 1)'.checkpoint
                /\ ValidateSuccessorOf(records'[m].target, records'[m].source)
      <3>1. m - 1 \in 0 .. n /\ m \in 1 .. Len(records)
        BY <1>1, <1>5, SMTT(30)
      <3>2. /\ records[m].previous = HeadAt(m - 1)
            /\ records[m].source = HeadAt(m - 1).checkpoint
            /\ ValidateSuccessorOf(records[m].target, records[m].source)
        BY <1>1, <3>1 DEF SharedInv, ChainMatches
      <3> QED BY <1>5, <1>6, <3>1, <3>2
    <2> QED BY <1>5, <2>1 DEF ChainMatches, ValidateSuccessorOf
  <1>13. HeadNeverAhead'
    <2>1. ASSUME NEW h \in {head, durableHead}
          PROVE h.sequence \in 0 .. n /\ h = HeadAt(h.sequence)
      <3>1. h.sequence \in Nat
        BY <1>1 DEF TypeOK, LedgerHead
      <3> QED BY <1>1, <1>5, <3>1, SMTT(30) DEF SharedInv, HeadNeverAhead
    <2> QED BY <1>2, <1>3, <1>5, <1>6, <2>1, SMTT(30) DEF HeadNeverAhead
  <1>14. AckedIsDurable'
    <2>1. 0 .. durableRecords \subseteq 0 .. n
      BY <1>1, <1>5, SMTT(30)
    <2> QED BY <1>1, <1>2, <1>3, <1>6, <2>1 DEF SharedInv, AckedIsDurable
  <1>15. RootInv'
    <2>1. records' # <<>> => records # <<>>
      BY <1>1, <1>5, SMTT(30)
    <2> QED BY <1>1, <1>3, <2>1 DEF SharedInv, RootInv, TypeOK
  <1> QED BY <1>8, <1>9, <1>10, <1>11, <1>12, <1>13, <1>14, <1>15 DEF IInv, SharedInv

(***************************************************************************)
(* The steps that only move a process on, with whatever they do to files.  *)
(***************************************************************************)
Moves ==
  {<<"init_anchor", "init_head">>, <<"init_head", "init_sync">>,
   <<"init_sync", "validate">>, <<"cleanup", "sync_records">>,
   <<"sync_records", "cleanup_head">>, <<"cleanup_head", "sync_root">>,
   <<"sync_root", "publish">>, <<"sync_root", "adopt">>,
   <<"publish", "publish_rename">>, <<"publish_rename", "publish_sync">>,
   <<"write_temp", "rename">>, <<"sync_append", "publish">>}

(***************************************************************************)
(* Such a step keeps the invariant if the files it leaves are well formed, *)
(* the shared part holds, and the next step finds what it relies on.       *)
(***************************************************************************)
LEMMA MoveKeeps ==
  ASSUME IInv, NEW p \in Proc, NEW s, <<pc[p], s>> \in Moves, Goto(p, s),
         UNCHANGED <<records, lock, phase, op, view, seen, acked>>,
         DiskOK', SharedInv', SyncedAt(s)', RootAt(s)'
  PROVE  IInv'
  <1>1. /\ TypeOK /\ Holds(p) /\ Remembers(p) /\ Appends(p)
        /\ pc' = [pc EXCEPT ![p] = s]
    BY Running DEF Goto
  <1>2. s \in Step
    BY DEF Moves, Step, RecoveryStep
  <1>3. TypeOK'
    BY <1>1, <1>2 DEF TypeOK, DiskOK
  <1>4. pc'[p] = s /\ \A q \in Proc : q # p => pc'[q] = pc[q]
    BY <1>1 DEF TypeOK
  <1>5. TerminalHead' = TerminalHead /\ \A n : HeadAt(n)' = HeadAt(n)
    BY SameRecords
  <1>6. pc[p] # "idle" /\ s # "idle"
    BY DEF Moves
  <1>7. lock = p
    BY <1>1, <1>6 DEF Holds
  <1>8. Holds(p)'
    <2>1. s \in Early => pc[p] \in Early
      BY DEF Moves, Early
    <2> QED BY <1>1, <1>4, <1>6, <1>7, <2>1 DEF Holds
  <1>9. Remembers(p)'
    <2>1. s \in AfterValidate => pc[p] \in AfterValidate \cup {"sync_append"}
      BY DEF Moves, AfterValidate
    <2>2. s \in Working => pc[p] \in Working
      BY DEF Moves, Working, AfterValidate
    <2>3. pc[p] = "sync_append" => phase[p] = "append"
      BY <1>1 DEF Appends
    <2> QED BY <1>1, <1>4, <1>5, <2>1, <2>2, <2>3
               DEF Remembers, ObservedPrefixKept
  <1>10. Appends(p)'
    BY <1>1, <1>4, <1>5 DEF Appends, Moves
  <1>11. OwnInv(p)'
    BY <1>4, <1>8, <1>9, <1>10 DEF OwnInv, SyncedAt, RootAt
  <1> QED BY <1>3, <1>4, <1>7, <1>11, OwnStepKeeps

(***************************************************************************)
(* A step that only creates or removes temporaries.                        *)
(***************************************************************************)
LEMMA TemporaryKeeps ==
  ASSUME IInv, NEW p \in Proc, NEW s, <<pc[p], s>> \in Moves, Goto(p, s),
         pc[p] \in {"cleanup", "cleanup_head", "publish", "write_temp"},
         UNCHANGED <<root, rootDurable, records, durableRecords, head,
                     durableHead, lock, phase, op, view, seen, acked>>,
         recordTemps' \subseteq TempName, headTemps' \subseteq TempName
  PROVE  IInv'
  <1>1. TypeOK /\ RootInv /\ DiskOK /\ SyncedAt(pc[p]) /\ RootAt(pc[p])
    BY Running
  <1>2. DiskOK' /\ RootInv'
    BY <1>1 DEF DiskOK, RootInv
  <1>3. SharedInv'
    BY <1>2, SharedFrame
  <1>4. SyncedAt(s)' /\ RootAt(s)'
    BY <1>1 DEF SyncedAt, RootAt, AfterValidate, Moves
  <1> QED BY <1>2, <1>3, <1>4, MoveKeeps

(***************************************************************************)
(* cleanup_abandoned_temps_v1 and the two writes of a temporary.           *)
(***************************************************************************)
LEMMA TemporarySteps ==
  ASSUME IInv, NEW p \in Proc,
         CleanupTemps(p) \/ CleanupHeadTemp(p) \/ PublishTemp(p) \/ WriteTemp(p)
  PROVE  IInv'
  <1>1. TypeOK /\ TerminalHead \in LedgerHead
        /\ recordTemps \subseteq TempName /\ headTemps \subseteq TempName
    BY Running, HeadTypes DEF TypeOK
  <1>2. CASE CleanupTemps(p)
    <2>1. <<pc[p], "sync_records">> \in Moves /\ recordTemps' \subseteq TempName
      BY <1>2 DEF CleanupTemps, At, Moves
    <2> QED BY <1>1, <1>2, <2>1, TemporaryKeeps DEF CleanupTemps, At
  <1>3. CASE CleanupHeadTemp(p)
    <2>1. <<pc[p], "sync_root">> \in Moves /\ headTemps' \subseteq TempName
      BY <1>3 DEF CleanupHeadTemp, At, Moves
    <2> QED BY <1>1, <1>3, <2>1, TemporaryKeeps DEF CleanupHeadTemp, At
  <1>4. CASE PublishTemp(p)
    <2>1. Published(p).sequence \in Nat
      BY <1>1 DEF TypeOK, Published, LedgerHead
    <2>2. <<pc[p], "publish_rename">> \in Moves
      BY <1>4 DEF PublishTemp, At, Moves
    <2>3. headTemps' \subseteq TempName
      BY <1>1, <1>4, <2>1, SMTT(30) DEF PublishTemp, TempName
    <2> QED BY <1>1, <1>4, <2>2, <2>3, TemporaryKeeps DEF PublishTemp, At
  <1>5. CASE WriteTemp(p)
    <2>1. view[p].sequence + 1 \in Nat
      BY <1>1, SMTT(30) DEF TypeOK, LedgerHead
    <2>2. <<pc[p], "rename">> \in Moves
      BY <1>5 DEF WriteTemp, At, Moves
    <2>3. recordTemps' \subseteq TempName
      BY <1>1, <1>5, <2>1, SMTT(30) DEF WriteTemp, TempName
    <2> QED BY <1>1, <1>5, <2>2, <2>3, TemporaryKeeps DEF WriteTemp, At
  <1> QED BY <1>2, <1>3, <1>4, <1>5

(***************************************************************************)
(* The two syncs of the records directory.                                 *)
(***************************************************************************)
LEMMA RecordSyncs ==
  ASSUME IInv, NEW p \in Proc, SyncRecords(p) \/ SyncAppend(p)
  PROVE  IInv'
  <1>1. TypeOK /\ RootInv /\ DiskOK /\ RootAt(pc[p]) /\ Len(records) \in Nat
    BY Running, SMTT(30) DEF TypeOK
  <1>2. PICK s : /\ Goto(p, s)
                 /\ \/ pc[p] = "sync_records" /\ s = "cleanup_head"
                    \/ pc[p] = "sync_append" /\ s = "publish"
    BY DEF SyncRecords, SyncAppend, At
  <1>3. /\ durableRecords' = Len(records)
        /\ UNCHANGED <<root, rootDurable, records, head, durableHead, recordTemps,
                       headTemps, lock, phase, op, view, seen, acked>>
    BY DEF SyncRecords, SyncAppend
  <1>4. DiskOK' /\ RootInv'
    BY <1>1, <1>3, SMTT(30) DEF DiskOK, RootInv
  <1>5. SharedInv'
    BY <1>3, <1>4, SharedFrame
  <1>6. SyncedAt(s)' /\ RootAt(s)' /\ <<pc[p], s>> \in Moves
    BY <1>1, <1>2, <1>3 DEF SyncedAt, RootAt, AfterValidate, Moves
  <1> QED BY <1>2, <1>3, <1>4, <1>5, <1>6, MoveKeeps

(***************************************************************************)
(* The recovery's sync of the root directory.                              *)
(***************************************************************************)
LEMMA RootSync ==
  ASSUME IInv, NEW p \in Proc, SyncRoot(p)
  PROVE  IInv'
  <1>1. TypeOK /\ RootInv /\ DiskOK /\ SyncedAt(pc[p]) /\ RootAt(pc[p])
    BY Running
  <1>2. PICK s : Goto(p, s) /\ s \in {"publish", "adopt"}
    BY DEF SyncRoot
  <1>3. /\ pc[p] = "sync_root" /\ durableHead' = head /\ rootDurable' = TRUE
        /\ UNCHANGED <<root, records, durableRecords, head, recordTemps,
                       headTemps, lock, phase, op, view, seen, acked>>
    BY DEF SyncRoot, At
  <1>4. DiskOK' /\ RootInv'
    BY <1>1, <1>3 DEF DiskOK, RootInv, RootAt, AfterValidate
  <1>5. SharedInv'
    BY <1>3, <1>4, SharedFrame
  <1>6. SyncedAt(s)' /\ RootAt(s)' /\ <<pc[p], s>> \in Moves
    BY <1>1, <1>2, <1>3 DEF SyncedAt, RootAt, AfterValidate, Moves
  <1> QED BY <1>2, <1>3, <1>4, <1>5, <1>6, MoveKeeps

(***************************************************************************)
(* The head that a process publishes names the last record, which is       *)
(* durable by then; renaming it over head.v1 keeps the invariant.          *)
(***************************************************************************)
LEMMA HeadRename ==
  ASSUME IInv, NEW p \in Proc, PublishRename(p)
  PROVE  IInv'
  <1>1. /\ TypeOK /\ RootInv /\ DiskOK /\ Holds(p) /\ Remembers(p) /\ Appends(p) /\ SyncedAt(pc[p])
        /\ RootAt(pc[p]) /\ TerminalHead \in LedgerHead
    BY Running, HeadTypes
  <1>2. /\ pc[p] = "publish_rename" /\ head' = Published(p)
        /\ headTemps' \subseteq headTemps /\ Goto(p, "publish_sync")
        /\ UNCHANGED <<root, rootDurable, records, durableRecords, durableHead,
                       recordTemps, lock, phase, op, view, seen, acked>>
    BY DEF PublishRename, At
  <1>3. Published(p) = TerminalHead
    BY <1>1, <1>2 DEF Published, OwnInv, Remembers, AfterValidate
  <1>4. DiskOK' /\ RootInv' /\ durableRecords = Len(records)
    BY <1>1, <1>2, <1>3 DEF DiskOK, RootInv, SyncedAt
  <1>5. SharedInv'
    BY <1>2, <1>3, <1>4, SharedFrame
  <1>6. /\ SyncedAt("publish_sync")' /\ RootAt("publish_sync")'
        /\ <<pc[p], "publish_sync">> \in Moves
    BY <1>1, <1>2 DEF SyncedAt, RootAt, AfterValidate, Moves
  <1> QED BY <1>2, <1>4, <1>5, <1>6, MoveKeeps

(***************************************************************************)
(* The three steps of a ledger-init after it has taken the lock.           *)
(***************************************************************************)
LEMMA InitSteps ==
  ASSUME IInv, NEW p \in Proc, InitAnchor(p) \/ InitHead(p) \/ InitSync(p)
  PROVE  IInv'
  <1>1. TypeOK /\ RootInv /\ DiskOK /\ RootAt(pc[p])
    BY Running
  <1>2. PICK s : /\ Goto(p, s)
                 /\ \/ /\ pc[p] = "init_anchor" /\ s = "init_head"
                       /\ root' = "anchored" /\ rootDurable' = rootDurable
                    \/ /\ pc[p] = "init_head" /\ s = "init_sync"
                       /\ root' = "ready" /\ rootDurable' = rootDurable
                    \/ /\ pc[p] = "init_sync" /\ s = "validate"
                       /\ root' = root /\ rootDurable' = TRUE
    BY DEF InitAnchor, InitHead, InitSync, At
  <1>3. UNCHANGED <<records, durableRecords, head, durableHead, recordTemps,
                    headTemps, lock, phase, op, view, seen, acked>>
    BY DEF InitAnchor, InitHead, InitSync
  <1>4. DiskOK' /\ RootInv'
    <2>1. root' \in {"anchored", "ready", root} /\ rootDurable' \in BOOLEAN
      BY <1>1, <1>2 DEF DiskOK
    <2>2. DiskOK'
      BY <1>1, <1>3, <2>1 DEF DiskOK
    <2>3. RootInv'
      BY <1>1, <1>2, <1>3 DEF RootInv, RootAt
    <2> QED BY <2>2, <2>3
  <1>5. SharedInv'
    BY <1>3, <1>4, SharedFrame
  <1>6. SyncedAt(s)' /\ RootAt(s)' /\ <<pc[p], s>> \in Moves
    BY <1>1, <1>2 DEF SyncedAt, RootAt, AfterValidate, Moves
  <1> QED BY <1>2, <1>3, <1>4, <1>5, <1>6, MoveKeeps

(***************************************************************************)
(* Every step keeps the invariant.                                         *)
(***************************************************************************)
LEMMA StepIInv == IInv /\ [Next]_vars => IInv'
  <1> SUFFICES ASSUME IInv, [Next]_vars PROVE IInv'
    OBVIOUS
  <1>1. ASSUME NEW p \in Proc, Start(p) PROVE IInv'
    BY <1>1, InitializeStep, OpenExistingStep DEF Start
  <1>2. ASSUME NEW p \in Proc, ProcStep(p) \/ Crash(p) PROVE IInv'
    BY <1>2, InitSteps, ValidateStep, TemporarySteps, RecordSyncs, RootSync,
       HeadRename, HeadSync, AdoptStep, RecordRename, EndSteps
       DEF ProcStep, RecoverStep
  <1>3. CASE UNCHANGED vars
    <2>1. /\ TypeOK /\ SharedInv /\ TerminalHead' = TerminalHead
          /\ \A n : HeadAt(n)' = HeadAt(n)
      BY <1>3, SameRecords DEF IInv, vars, diskVars
    <2>2. TypeOK'
      BY <1>3, <2>1 DEF vars, diskVars, procVars, TypeOK
    <2>3. SharedInv'
      <3>1. RootInv'
        BY <1>3, <2>1 DEF vars, diskVars, SharedInv, RootInv
      <3> QED BY <1>3, <3>1, SharedFrame DEF vars, diskVars
    <2>4. ASSUME NEW p \in Proc PROVE OwnInv(p)'
      <3>1. OwnInv(p) /\ UNCHANGED <<records, durableRecords, root, rootDurable, lock,
                                     pc, phase, op, view, seen>>
        BY <1>3 DEF IInv, vars, diskVars, procVars
      <3> QED BY <2>1, <3>1, SMTT(30)
                 DEF OwnInv, Holds, Remembers, ObservedPrefixKept, Appends,
                     SyncedAt, RootAt, AnchorHead
    <2> QED BY <2>2, <2>3, <2>4 DEF IInv
  <1> QED BY <1>1, <1>2, <1>3, PowerLossStep DEF Next

(***************************************************************************)
(* The invariant holds throughout every behaviour of the ledger.           *)
(***************************************************************************)
THEOREM Invariance == Spec => []IInv
  <1> QED BY InitIInv, StepIInv, PTL DEF Spec

(***************************************************************************)
(* The state is well typed in every reachable state.                       *)
(***************************************************************************)
THEOREM TypeCorrect == Spec => []TypeOK
  BY Invariance, PTL DEF IInv

(***************************************************************************)
(* No cut of an append or of a recovery lets head.v1 name a record that a  *)
(* power loss could still take, so the check "published head is ahead of   *)
(* durable records" never fires on an undamaged disk.                      *)
(***************************************************************************)
THEOREM HeadSafe == Spec => []HeadNeverAhead
  BY Invariance, PTL DEF IInv, SharedInv

(***************************************************************************)
(* Recovery refuses no initialised ledger as InvalidState, whatever        *)
(* crashes and power losses came before.                                   *)
(***************************************************************************)
THEOREM RecoveryComplete == Spec => []RecoveryAccepts
  <1>1. IInv => RecoveryAccepts
    BY DEF IInv, OwnInv, RootAt, RecoveryAccepts
  <1> QED BY <1>1, Invariance, PTL

(***************************************************************************)
(* What ledger-advance or ledger-resolve has reported survives every power *)
(* loss.                                                                   *)
(***************************************************************************)
THEOREM AckedDurable == Spec => []AckedIsDurable
  BY Invariance, PTL DEF IInv, SharedInv

(***************************************************************************)
(* Only a ledger that never held a record can be left half initialised.    *)
(***************************************************************************)
THEOREM UnusableUnused == Spec => []UnusableOnlyUnused
  <1>1. IInv => UnusableOnlyUnused
    BY DEF IInv, SharedInv, RootInv, UnusableOnlyUnused
  <1> QED BY <1>1, Invariance, PTL

(***************************************************************************)
(* However often, by whichever process and after whichever crash an        *)
(* advance is retried, the ledger holds one record for its target: the     *)
(* generations of the records count them.                                  *)
(***************************************************************************)
THEOREM AppendedOnce == Spec => []RecordedOnce
  <1>1. IInv => RecordedOnce
    <2> SUFFICES ASSUME IInv, NEW m \in 1 .. Len(records), NEW n \in 1 .. Len(records),
                        records[m].target = records[n].target
                 PROVE  m = n
      BY DEF RecordedOnce
    <2>1. /\ HeadAt(m).checkpoint = records[m].target
          /\ HeadAt(n).checkpoint = records[n].target
      BY SMTT(30) DEF HeadAt
    <2>2. Generation[Anchor] \in Nat
      BY LedgerAssumption, CheckpointAssumption
    <2>3. Generation[Anchor] + m = Generation[Anchor] + n
      BY <2>1, SMTT(30) DEF IInv, SharedInv, GenerationInv
    <2> QED BY <2>2, <2>3, SMTT(30)
  <1> QED BY <1>1, Invariance, PTL

(***************************************************************************)
(* The ledger implements CheckpointRegister: across crashes and power      *)
(* losses its durable tail never disappears, never goes back and moves     *)
(* only to an exact successor.                                             *)
(***************************************************************************)
THEOREM LedgerImplementsRegister == Spec => ImplementsRegister
  <1> QED
    BY RegisterInit, Invariance, StepMovesByOne, RegisterStep, PTL
       DEF Spec, ImplementsRegister, Register!Spec

(***************************************************************************)
(* A process whose operation names neither the source nor the target the   *)
(* ledger stands at changes no file: the context its recovery has checked  *)
(* stays true until it exits, because it holds the lock and appends        *)
(* nothing but its own target.                                             *)
(***************************************************************************)
THEOREM ForeignTouchesNothing == Spec => ForeignOperationTouchesNothing
  <1> DEFINE Harmless ==
        \A p \in Proc :
          /\ op[p].kind # "init" /\ pc'[p] # pc[p]
          /\ pc[p] # "idle" /\ pc'[p] # "idle"
          /\ TerminalHead.checkpoint \notin {op[p].source, op[p].target}
          => UNCHANGED diskVars
  <1>1. IInv /\ [Next]_vars => [Harmless]_vars
    BY ForeignStep
  <1> QED
    BY <1>1, Invariance, PTL DEF Spec, ForeignOperationTouchesNothing
=============================================================================
