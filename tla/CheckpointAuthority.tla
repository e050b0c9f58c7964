------------------------ MODULE CheckpointAuthority ------------------------
(***************************************************************************)
(* trnm-checkpoint-store/src/lib.rs: a daemon that serves one CAS register *)
(* per scope over a Unix socket.  It appends every advance to a journal,   *)
(* syncs it and then publishes an anchor file that commits to the whole    *)
(* journal.  It serves one connection at a time, in the order in which     *)
(* they arrived; a client whose read timed out leaves its request in that  *)
(* queue.  After any write error the daemon is poisoned and answers no     *)
(* one until it is restarted.                                              *)
(*                                                                         *)
(* The anchor hash commits to the hash chain of the journal, so an anchor  *)
(* is modelled by the journal it commits to.  Optional values are          *)
(* sequences of at most one element.                                       *)
(***************************************************************************)
EXTENDS Checkpoints, Sequences

CONSTANTS Client,
          CasInput,      \* pairs of an expected and a target value
          MaxAttempts,   \* bound on the compare-and-advance requests sent
          MaxQueue       \* bound on the connections waiting to be accepted

VARIABLES
  log,            \* the visible journal
  synced,         \* how many of its records survive a power loss
  partial,        \* it ends in a part of a record
  anchor,         \* the visible head-v2 file
  durableAnchor,  \* the head-v2 file that surely survives a power loss
  daemon,         \* where the daemon is
  mem,            \* the journal its memory (current, head_hash) stands for
  poisoned,
  request,        \* the connection it is serving
  queue,          \* connections not yet accepted
  client,         \* what each client is waiting for
  attempts,       \* compare-and-advance requests sent so far
  applied,        \* targets some client was told have been applied
  loaded,         \* values some client was told are current
  absent          \* attempts some client was told have not happened

diskVars == <<log, synced, partial, anchor, durableAnchor>>
serverVars == <<daemon, mem, poisoned, request, queue>>
clientVars == <<client, attempts, applied, loaded, absent>>
vars == <<diskVars, serverVars, clientVars>>
-----------------------------------------------------------------------------
Value == Checkpoint \cup {NoCheckpoint}
Attempt == 0 .. MaxAttempts      \* 0: none
Record == [expected : Value, target : Checkpoint, by : Attempt]
Request == [kind : {"load", "cas"}, from : Client, live : BOOLEAN,
            scope : Scopes, expected : Value, target : Value, by : Attempt]
ClientState == [pc : {"idle", "cas", "uncertain", "load"}, scope : Scopes,
                expected : Value, target : Value, by : Attempt]

Opening == {"reconcile", "open_publish", "open_sync"}
Handling == {"handling", "written", "cas_publish", "cas_sync"}
Listening == Handling \cup {"serving"}

TypeOK ==
  /\ log \in Seq(Record) /\ mem \in Seq(Record)
  /\ synced \in 0 .. Len(log)
  /\ partial \in BOOLEAN /\ poisoned \in BOOLEAN
  /\ \A a \in {anchor, durableAnchor} :
       Len(a) <= 1 /\ \A i \in 1 .. Len(a) : a[i] \in Seq(Record)
  /\ daemon \in {"down"} \cup Opening \cup Listening
  /\ request \in Seq(Request) /\ Len(request) <= 1
  /\ queue \in Seq(Request) /\ Len(queue) <= MaxQueue
  /\ client \in [Client -> ClientState]
  /\ attempts \in Attempt
  /\ applied \subseteq Checkpoint /\ loaded \subseteq Checkpoint
  /\ absent \subseteq Attempt

IdleClient == [pc |-> "idle", scope |-> CHOOSE s \in Scopes : TRUE,
               expected |-> NoCheckpoint, target |-> NoCheckpoint, by |-> 0]

Init ==
  /\ log = <<>> /\ synced = 0 /\ partial = FALSE
  /\ anchor = <<>> /\ durableAnchor = <<>>
  /\ daemon = "down" /\ mem = <<>> /\ poisoned = FALSE
  /\ request = <<>> /\ queue = <<>>
  /\ client = [c \in Client |-> IdleClient]
  /\ attempts = 0 /\ applied = {} /\ loaded = {} /\ absent = {}

\* current.get(&scope) after replaying the journal j.
Current(j, s) ==
  LET mine == {n \in 1 .. Len(j) : ScopeOf[j[n].target] = s}
  IN  IF mine = {} THEN NoCheckpoint
      ELSE j[CHOOSE n \in mine : \A m \in mine : m <= n].target
-----------------------------------------------------------------------------
(***************************************************************************)
(* open.  replay_log_v2 refuses a partial tail and a record that is not    *)
(* the successor of its scope's current value; nothing is repaired.        *)
(***************************************************************************)
LogReplays ==
  /\ ~partial
  /\ \A n \in 1 .. Len(log) :
       /\ ValidSuccessorShape(log[n].expected, log[n].target)
       /\ log[n].expected = Current(SubSeq(log, 1, n - 1), ScopeOf[log[n].target])

Open ==
  /\ daemon = "down" /\ LogReplays
  /\ mem' = log
  /\ poisoned' = FALSE
  /\ daemon' = "reconcile"
  /\ UNCHANGED <<diskVars, request, queue, clientVars>>

\* Mutant: an anchor behind the journal is left as it is.
AfterReconcileTrusting ==
  CASE anchor = <<>> -> IF mem = <<>> THEN "open_publish" ELSE "down"
    [] anchor # <<>> /\ Len(anchor[1]) <= Len(mem) -> "serving"
    [] OTHER -> "down"

(***************************************************************************)
(* reconcile_anchor_v2: an anchor behind the journal is published again,   *)
(* an anchor ahead of it or of the same length but different is refused,   *)
(* and so is a journal without an anchor.                                  *)
(***************************************************************************)
AfterReconcile ==
  CASE anchor = <<>> -> IF mem = <<>> THEN "open_publish" ELSE "down"
    [] anchor # <<>> /\ anchor[1] = mem -> "serving"
    [] anchor # <<>> /\ Len(anchor[1]) < Len(mem) -> "open_publish"
    [] OTHER -> "down"

Reconcile ==
  /\ daemon = "reconcile"
  /\ daemon' = AfterReconcile
  /\ UNCHANGED <<diskVars, mem, poisoned, request, queue, clientVars>>

(***************************************************************************)
(* persist_anchor_v2: the synced temporary is renamed over head-v2, then   *)
(* the directory is synced.                                                *)
(***************************************************************************)
PersistRename ==
  /\ daemon \in {"open_publish", "cas_publish"}
  /\ anchor' = <<mem>>
  /\ daemon' = IF daemon = "open_publish" THEN "open_sync" ELSE "cas_sync"
  /\ UNCHANGED <<log, synced, partial, durableAnchor, mem, poisoned, request,
                 queue, clientVars>>

OpenSync ==
  /\ daemon = "open_sync"
  /\ durableAnchor' = anchor
  /\ daemon' = "serving"
  /\ UNCHANGED <<log, synced, partial, anchor, mem, poisoned, request, queue,
                 clientVars>>
-----------------------------------------------------------------------------
(***************************************************************************)
(* handle_connection_v2.  A poisoned daemon closes the connection without  *)
(* an answer; otherwise the connection that waited longest is served.      *)
(***************************************************************************)
DropPoisoned ==
  /\ daemon = "serving" /\ poisoned /\ queue # <<>>
  /\ queue' = Tail(queue)
  /\ UNCHANGED <<diskVars, daemon, mem, poisoned, request, clientVars>>

\* Mutant: any waiting connection may be served first.
AcceptAny ==
  /\ daemon = "serving" /\ ~poisoned
  /\ \E i \in 1 .. Len(queue) :
       /\ request' = <<queue[i]>>
       /\ queue' = SubSeq(queue, 1, i - 1) \o SubSeq(queue, i + 1, Len(queue))
  /\ daemon' = "handling"
  /\ UNCHANGED <<diskVars, mem, poisoned, clientVars>>

Accept ==
  /\ daemon = "serving" /\ ~poisoned /\ queue # <<>>
  /\ request' = <<Head(queue)>>
  /\ queue' = Tail(queue)
  /\ daemon' = "handling"
  /\ UNCHANGED <<diskVars, mem, poisoned, clientVars>>

\* The client gets its answer unless it has already given up.
Reply(state, done, value, refused) ==
  /\ IF request[1].live
       THEN /\ client' = [client EXCEPT ![request[1].from] = state]
            /\ applied' = applied \cup done
            /\ loaded' = loaded \cup value
            /\ absent' = absent \cup refused
       ELSE UNCHANGED <<client, applied, loaded, absent>>
  /\ request' = <<>>
  /\ daemon' = "serving"
  /\ UNCHANGED <<queue, attempts>>

(***************************************************************************)
(* load_checked.  The client that was uncertain about an attempt now knows *)
(* that it happened, if the value is its target, or that it did not, if    *)
(* the value is still the one it expected.                                 *)
(***************************************************************************)
HandleLoad ==
  /\ daemon = "handling" /\ request[1].kind = "load"
  /\ LET v == Current(mem, request[1].scope)
         c == client[request[1].from]
     IN  Reply(IdleClient, {}, {v} \ {NoCheckpoint},
               IF c.by # 0 /\ v = c.expected THEN {c.by} ELSE {})
  /\ UNCHANGED <<diskVars, mem, poisoned>>

\* Mutant: the expected value is not compared with the current one.
ShapeOnly(r) == ValidSuccessorShape(r.expected, r.target)

CompareSucceeds(r) ==
  /\ r.expected # NoCheckpoint => ScopeOf[r.expected] = ScopeOf[r.target]
  /\ ValidSuccessorShape(r.expected, r.target)
  /\ Current(mem, ScopeOf[r.target]) = r.expected

RefuseCas ==
  /\ daemon = "handling" /\ request[1].kind = "cas"
  /\ ~CompareSucceeds(request[1])
  /\ Reply(IdleClient, {}, {}, {request[1].by})
  /\ UNCHANGED <<diskVars, mem, poisoned>>

WriteRecord ==
  /\ daemon = "handling" /\ request[1].kind = "cas"
  /\ CompareSucceeds(request[1])
  /\ log' = Append(log, [expected |-> request[1].expected,
                         target |-> request[1].target, by |-> request[1].by])
  /\ daemon' = "written"
  /\ UNCHANGED <<synced, partial, anchor, durableAnchor, mem, poisoned,
                 request, queue, clientVars>>

\* Mutant: one record too many is counted as synced.
SyncLogOffByOne ==
  /\ daemon = "written"
  /\ synced' = Len(log) + 1
  /\ mem' = log
  /\ daemon' = "cas_publish"
  /\ UNCHANGED <<log, partial, anchor, durableAnchor, poisoned, request, queue,
                 clientVars>>

\* sync_data on the journal and the directory, then the memory is updated.
SyncLog ==
  /\ daemon = "written"
  /\ synced' = Len(log)
  /\ mem' = log
  /\ daemon' = "cas_publish"
  /\ UNCHANGED <<log, partial, anchor, durableAnchor, poisoned, request, queue,
                 clientVars>>

Applied ==
  /\ daemon = "cas_sync"
  /\ durableAnchor' = anchor
  /\ Reply(IdleClient, {request[1].target}, {}, {})
  /\ UNCHANGED <<log, synced, partial, anchor, mem, poisoned>>

\* Mutant: the error of a failed sync or rename is dropped.
CasFailsSilently ==
  /\ daemon \in {"written", "cas_publish", "cas_sync"}
  /\ poisoned' = TRUE
  /\ Reply(IdleClient, {request[1].target}, {}, {})
  /\ UNCHANGED <<log, synced, partial, anchor, durableAnchor, mem>>

(***************************************************************************)
(* Any failure of a write, sync or rename poisons the daemon, which stays  *)
(* alive, and the client is told Unavailable.  A failed write may leave a  *)
(* part of the record behind.                                              *)
(***************************************************************************)
CasFails ==
  /\ \/ daemon \in {"written", "cas_publish", "cas_sync"} /\ UNCHANGED partial
     \/ /\ daemon = "handling" /\ request[1].kind = "cas"
        /\ CompareSucceeds(request[1])
        /\ partial' \in BOOLEAN
  /\ poisoned' = TRUE
  /\ Reply([client[request[1].from] EXCEPT !.pc = "uncertain"], {}, {}, {})
  /\ UNCHANGED <<log, synced, anchor, durableAnchor, mem>>
-----------------------------------------------------------------------------
(***************************************************************************)
(* UnixExternalCheckpointStoreV2: every operation opens a connection, and  *)
(* gives up when no answer came within its timeout.                        *)
(***************************************************************************)
Connect(r) ==
  /\ daemon \in Listening /\ Len(queue) < MaxQueue
  /\ queue' = Append(queue, r)

CompareAndAdvance(c, expected, target) ==
  /\ client[c].pc = "idle" /\ attempts < MaxAttempts
  /\ LET s == [pc |-> "cas", scope |-> ScopeOf[target], expected |-> expected,
               target |-> target, by |-> attempts + 1]
     IN  /\ client' = [client EXCEPT ![c] = s]
         /\ Connect([kind |-> "cas", from |-> c, live |-> TRUE,
                     scope |-> s.scope, expected |-> expected,
                     target |-> target, by |-> s.by])
  /\ attempts' = attempts + 1
  /\ UNCHANGED <<diskVars, daemon, mem, poisoned, request, applied, loaded,
                 absent>>

Load(c, scope) ==
  /\ \/ client[c].pc = "idle"
     \/ client[c].pc = "uncertain" /\ scope = client[c].scope
  /\ client' = [client EXCEPT ![c].pc = "load", ![c].scope = scope]
  /\ Connect([kind |-> "load", from |-> c, live |-> TRUE, scope |-> scope,
              expected |-> NoCheckpoint, target |-> NoCheckpoint, by |-> 0])
  /\ UNCHANGED <<diskVars, daemon, mem, poisoned, request, attempts, applied,
                 loaded, absent>>

Abandon(conns, c) ==
  [i \in 1 .. Len(conns) |-> IF conns[i].from = c
                             THEN [conns[i] EXCEPT !.live = FALSE] ELSE conns[i]]

\* The read timed out, or the daemon closed the connection.
Timeout(c) ==
  /\ client[c].pc \in {"cas", "load"}
  /\ client' = IF client[c].by = 0 THEN [client EXCEPT ![c] = IdleClient]
               ELSE [client EXCEPT ![c].pc = "uncertain"]
  /\ queue' = Abandon(queue, c)
  /\ request' = Abandon(request, c)
  /\ UNCHANGED <<diskVars, daemon, mem, poisoned, attempts, applied, loaded,
                 absent>>
-----------------------------------------------------------------------------
\* The daemon dies, or open fails; its connections go with it.
Crash ==
  /\ daemon # "down"
  /\ daemon' = "down"
  /\ mem' = <<>> /\ poisoned' = FALSE
  /\ request' = <<>> /\ queue' = <<>>
  /\ UNCHANGED <<diskVars, clientVars>>

(***************************************************************************)
(* Power loss: unsynced records may be gone or cut short, an unsynced      *)
(* rename of the anchor may be undone.                                     *)
(***************************************************************************)
PowerLoss ==
  /\ \E n \in synced .. Len(log) :
       /\ log' = SubSeq(log, 1, n)
       /\ synced' = n
       /\ partial' \in IF n < Len(log) \/ partial THEN BOOLEAN ELSE {FALSE}
  /\ anchor' \in {anchor, durableAnchor}
  /\ durableAnchor' = anchor'
  /\ daemon' = "down"
  /\ mem' = <<>> /\ poisoned' = FALSE
  /\ request' = <<>> /\ queue' = <<>>
  /\ UNCHANGED clientVars
-----------------------------------------------------------------------------
DaemonStep ==
  \/ Open \/ Reconcile \/ PersistRename \/ OpenSync
  \/ DropPoisoned \/ Accept \/ HandleLoad \/ RefuseCas
  \/ WriteRecord \/ SyncLog \/ Applied

ClientStep(c) ==
  \/ \E i \in CasInput : CompareAndAdvance(c, i[1], i[2])
  \/ \E s \in Scopes : Load(c, s)
  \/ Timeout(c)

Next == DaemonStep \/ CasFails \/ Crash \/ PowerLoss
          \/ \E c \in Client : ClientStep(c)

Spec == Init /\ [][Next]_vars

-----------------------------------------------------------------------------
(***************************************************************************)
(* An advance that a client was told is applied is in the journal of every *)
(* daemon that serves later, across crashes, poisonings and power losses.  *)
(***************************************************************************)
AppliedSurvives ==
  daemon \in Listening =>
    \A v \in applied : \E n \in 1 .. Len(mem) : mem[n].target = v

(***************************************************************************)
(* "An uncertain result must be resolved by a fresh load": an attempt that *)
(* a refusal, or a load after its timeout, showed not to have happened     *)
(* never happens later, although its request may still have been queued.   *)
(***************************************************************************)
AbsentIsFinal == \A n \in 1 .. Len(log) : log[n].by \notin absent

(***************************************************************************)
(* A daemon that accepts requests holds exactly the journal on disk, and   *)
(* the visible anchor commits to it: a stale memory or anchor is never     *)
(* served, whichever step the previous daemon died at.                     *)
(***************************************************************************)
ServedIsJournal ==
  daemon \in {"serving", "handling"} /\ ~poisoned
    => mem = log /\ anchor = <<log>>

(***************************************************************************)
(* "Implementations must durably isolate one value per scope": a value     *)
(* that a client has loaded is in the journal of every daemon that serves  *)
(* later, so that a power loss may stop the service and never roll it      *)
(* back.                                                                   *)
(***************************************************************************)
LoadedSurvives ==
  daemon \in Listening =>
    \A v \in loaded : \E n \in 1 .. Len(mem) : mem[n].target = v

RegisterValue == [s \in Scopes |-> Current(log, s)]
Register == INSTANCE CheckpointRegister WITH value <- RegisterValue

(***************************************************************************)
(* Apart from a power loss, every step of the system is a step of the      *)
(* CheckpointRegister the journal stands for: a scope only moves from its  *)
(* value to an exact successor, whichever daemons die, whichever requests  *)
(* are delayed and whichever client compares with a stale value.           *)
(***************************************************************************)
ImplementsRegister == [][PowerLoss \/ Register!Next]_RegisterValue
=============================================================================
