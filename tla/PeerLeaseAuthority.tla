------------------------- MODULE PeerLeaseAuthority -------------------------
(***************************************************************************)
(* trnm-peer-lease: the lease daemon, its journal and anchor files, and    *)
(* the sessions that call it over a Unix socket.  One thread serves many   *)
(* connections: a request that has been read completely is decided,        *)
(* written, synced and anchored before the next one.  Any failure of the   *)
(* files or of the clock ends the process.                                 *)
(*                                                                         *)
(* A session's call may time out at any moment: the answer is then lost    *)
(* for it, the request stays with the daemon, which may still serve it or  *)
(* drop it, and the session may call again.                                *)
(***************************************************************************)
EXTENDS LeaseJournal

CONSTANTS MaxClock,    \* bound on the system clock
          MaxBacks,    \* bound on how often the clock is set back
          MaxLosses,   \* bound on how often the power fails
          MaxRecords,  \* MAX_JOURNAL_BYTES_V1, in records
          MaxPending   \* bound on the open connections of one session

ASSUME AuthorityAssumption ==
  /\ MaxClock \in Time /\ MaxBacks \in Nat /\ MaxLosses \in Nat
  /\ MaxRecords \in Nat /\ MaxPending \in Nat

VARIABLES
  log, synced,            \* the journal, and how much of it a power loss keeps
  torn,                   \* it ends in a part of a record
  temp,                   \* an anchor temporary was left behind
  anchor, durableAnchor,  \* the head-v1 file: visible, and kept by a power loss
  daemon,                 \* where the daemon is
  mem,                    \* its store, one record behind until the record is synced
  serving,                \* the request being written
  clock, backs,           \* the system clock
  pending,                \* per session: requests with the daemon
  client,                 \* per session: the token it has, and those it asked to
                          \* renew or release, by their record hash
  losses,                 \* how often the power has failed
  lastAnswer,             \* the grant answered last
  answered,               \* every grant answered
  granted                 \* those answered by the process that wrote their record

diskVars == <<log, synced, torn, temp, anchor, durableAnchor>>
daemonVars == <<daemon, mem, serving>>
hostVars == <<clock, backs, losses>>
historyVars == <<lastAnswer, answered, granted>>
vars == <<diskVars, daemonVars, hostVars, pending, client, historyVars>>
-----------------------------------------------------------------------------
Request == [op : Operation, scope : Scope, session : Session,
            generation : Generation, ttl : Ttl \cup {0}, expires : Time,
            hash : Seq(Record)]
Connection == [request : Request, live : BOOLEAN]
Listening == {"serving", "written", "temp", "rename", "sync"}
Stages == {"down", "open_temp", "open_rename", "open_sync"} \cup Listening

TypeOK ==
  /\ log \in Seq(Record) /\ synced \in 0 .. Len(log) /\ Len(log) <= MaxRecords
  /\ torn \in BOOLEAN /\ temp \in BOOLEAN
  /\ \A a \in {anchor, durableAnchor} : a = <<>> \/ a[1] \in Seq(Record)
  /\ daemon \in Stages /\ serving \in Seq(Connection) /\ Len(serving) <= 1
  /\ DOMAIN mem = DOMAIN EmptyStore /\ mem.chain \in Seq(Record)
  /\ mem.seen \subseteq Scope \X Session
  /\ clock \in 0 .. MaxClock /\ backs \in 0 .. MaxBacks /\ losses \in 0 .. MaxLosses
  /\ pending \in [Session -> Seq(Connection)]
  /\ \A s \in Session : client[s].token = <<>> \/ client[s].token[1] \in Token

Init ==
  /\ log = <<>> /\ synced = 0 /\ torn = FALSE /\ temp = FALSE
  /\ anchor = <<>> /\ durableAnchor = <<>>
  /\ daemon = "down" /\ mem = EmptyStore /\ serving = <<>>
  /\ clock = 0 /\ backs = 0
  /\ pending = [s \in Session |-> <<>>]
  /\ client = [s \in Session |-> [token |-> <<>>, spent |-> {}]]
  /\ losses = 0
  /\ lastAnswer = <<>> /\ answered = {} /\ granted = {}
-----------------------------------------------------------------------------
(***************************************************************************)
(* open: a temporary of a dead process, a partial record and a record that *)
(* does not replay are refused; so is an anchor that is ahead of the       *)
(* journal, differs from it, or is missing beside records.                 *)
(***************************************************************************)
Replays == ~torn /\ Replay(log) # <<>>

ReconcileAnchor ==
  IF anchor = <<>> THEN (IF log = <<>> THEN {"open_temp"} ELSE {})
  ELSE IF anchor[1] = log THEN {"serving"}
  ELSE IF Len(anchor[1]) < Len(log) THEN {"open_temp"} ELSE {}

Open ==
  /\ daemon = "down" /\ ~temp /\ Replays
  /\ daemon' \in ReconcileAnchor
  /\ mem' = Opened(log)
  /\ UNCHANGED <<diskVars, serving, hostVars, pending, client, historyVars>>

(***************************************************************************)
(* persist_anchor: create and sync a temporary, rename it, sync the        *)
(* directory.                                                              *)
(***************************************************************************)
PersistTemp ==
  /\ daemon \in {"open_temp", "temp"}
  /\ temp' = TRUE
  /\ daemon' = IF daemon = "temp" THEN "rename" ELSE "open_rename"
  /\ UNCHANGED <<log, synced, torn, anchor, durableAnchor, mem, serving,
                 hostVars, pending, client, historyVars>>

PersistRename ==
  /\ daemon \in {"open_rename", "rename"}
  /\ temp' = FALSE /\ anchor' = <<mem.chain>>
  /\ daemon' = IF daemon = "rename" THEN "sync" ELSE "open_sync"
  /\ UNCHANGED <<log, synced, torn, durableAnchor, mem, serving, hostVars,
                 pending, client, historyVars>>

OpenSync ==
  /\ daemon = "open_sync"
  /\ durableAnchor' = anchor
  /\ daemon' = "serving"
  /\ UNCHANGED <<log, synced, torn, temp, anchor, mem, serving, hostVars,
                 pending, client, historyVars>>
-----------------------------------------------------------------------------
Drop(s, i) == [pending EXCEPT ![s] = SubSeq(@, 1, i - 1) \o SubSeq(@, i + 1, Len(@))]

\* The session gets the token unless it has stopped waiting or it is lost.
Deliver(c, t) ==
  \/ UNCHANGED client
  \/ c.live /\ client' = [client EXCEPT ![t.session].token = <<t>>]

\* What a token stands for in the histories.
Grant(t) == [scope |-> t.scope, session |-> t.session, generation |-> t.generation]

AnswerWith(c, t) ==
  /\ Deliver(c, t)
  /\ lastAnswer' = <<Grant(t)>> /\ answered' = answered \cup {Grant(t)}

\* Mutant: the live clock is not compared with what was observed.
AnyClock == TRUE

ClockAdvanced == clock >= mem.observed

\* Mutant: the journal is allowed one record more than it holds.
RoomForOneMore == Len(log) <= MaxRecords

HasRoom == Len(log) < MaxRecords

\* apply for a request whose answer is in memory.
Answer(s, i) ==
  /\ daemon = "serving" /\ i \in DOMAIN pending[s]
  /\ LET q == pending[s][i].request
     IN  /\ ClockAdvanced /\ Answers(mem, q, clock)
         /\ AnswerWith(pending[s][i], TokenOf(q.scope, mem.entries[q.scope][1]))
  /\ mem' = [mem EXCEPT !.observed = clock]
  /\ pending' = Drop(s, i)
  /\ UNCHANGED <<diskVars, daemon, serving, hostVars, granted>>

\* apply for a request that is refused, or a connection past its deadline.
Refuse(s, i) ==
  /\ daemon = "serving" /\ i \in DOMAIN pending[s]
  /\ \/ UNCHANGED mem
     \/ LET q == pending[s][i].request
        IN  /\ ClockAdvanced
            /\ ~Answers(mem, q, clock) /\ ~Appends(mem, q, clock)
            /\ mem' = [mem EXCEPT !.observed = clock]
  /\ pending' = Drop(s, i)
  /\ UNCHANGED <<diskVars, daemon, serving, hostVars, client, historyVars>>

WriteRecord(s, i) ==
  /\ daemon = "serving" /\ i \in DOMAIN pending[s]
  /\ LET q == pending[s][i].request
     IN  /\ ClockAdvanced /\ Appends(mem, q, clock) /\ HasRoom
         /\ log' = Append(log, NewRecord(q, clock))
  /\ mem' = [mem EXCEPT !.observed = clock]
  /\ serving' = <<pending[s][i]>>
  /\ pending' = Drop(s, i)
  /\ daemon' = "written"
  /\ UNCHANGED <<synced, torn, temp, anchor, durableAnchor, hostVars, client,
                 historyVars>>

\* sync_all and sync_parent_dir, then the memory.
SyncLog ==
  /\ daemon = "written"
  /\ synced' = Len(log)
  /\ mem' = Applied(mem, log[Len(log)])
  /\ daemon' = "temp"
  /\ UNCHANGED <<log, torn, temp, anchor, durableAnchor, serving, hostVars,
                 pending, client, historyVars>>

Finish ==
  /\ daemon = "sync"
  /\ durableAnchor' = anchor
  /\ daemon' = "serving" /\ serving' = <<>>
  /\ LET q == serving[1].request
     IN  IF q.op = "release" THEN UNCHANGED <<client, historyVars>>
         ELSE LET t == TokenOf(q.scope, mem.entries[q.scope][1])
              IN  AnswerWith(serving[1], t) /\ granted' = granted \cup {Grant(t)}
  /\ UNCHANGED <<log, synced, torn, temp, anchor, mem, hostVars, pending>>
-----------------------------------------------------------------------------
(***************************************************************************)
(* The calls of UnixPeerLeaseClientV1.                                     *)
(***************************************************************************)
Abandoned(conns, s) ==
  [i \in DOMAIN conns |-> IF conns[i].request.session = s
                           THEN [conns[i] EXCEPT !.live = FALSE] ELSE conns[i]]

\* A new call; the one before, if it is still with the daemon, timed out.
Send(s, q) ==
  /\ daemon \in Listening /\ Len(pending[s]) < MaxPending
  /\ pending' = [pending EXCEPT ![s] = Append(Abandoned(@, s),
                                              [request |-> q, live |-> TRUE])]
  /\ serving' = Abandoned(serving, s)
  /\ UNCHANGED <<diskVars, daemon, mem, hostVars, historyVars>>

Acquire(s, scope, generation, ttl) ==
  /\ Send(s, [op |-> "acquire", scope |-> scope, session |-> s,
              generation |-> generation, ttl |-> ttl, expires |-> 0,
              hash |-> <<>>])
  /\ UNCHANGED client

WithToken(s, op, ttl) ==
  /\ client[s].token # <<>>
  /\ LET t == client[s].token[1]
     IN  Send(s, [op |-> op, scope |-> t.scope, session |-> s,
                  generation |-> t.generation, ttl |-> ttl,
                  expires |-> t.expires, hash |-> t.hash])

\* "callers must not keep using an older token after renewal" (protocol.rs).
Spend(s) ==
  client' = [client EXCEPT ![s].spent = @ \cup {client[s].token[1].hash}]

Renew(s, ttl) == WithToken(s, "renew", ttl) /\ Spend(s)

Revalidate(s) == WithToken(s, "revalidate", 0) /\ UNCHANGED client

Release(s) == WithToken(s, "release", 0) /\ Spend(s)
-----------------------------------------------------------------------------
Tick == /\ clock < MaxClock
        /\ clock' = clock + 1
        /\ UNCHANGED <<diskVars, daemonVars, backs, losses, pending, client, historyVars>>

SetBack == /\ backs < MaxBacks
           /\ backs' = backs + 1
           /\ clock' \in 0 .. clock - 1
           /\ UNCHANGED <<diskVars, daemonVars, losses, pending, client, historyVars>>

Gone == daemon' = "down" /\ mem' = EmptyStore /\ serving' = <<>>
          /\ pending' = [s \in Session |-> <<>>]

(***************************************************************************)
(* The daemon dies or ends itself: a clock behind what it observed, a full *)
(* journal, or any failure of a file operation.  A write that fails may    *)
(* leave a part of a record.                                               *)
(***************************************************************************)
Crash ==
  /\ daemon # "down" /\ Gone
  /\ \/ UNCHANGED torn
     \/ /\ daemon = "serving" /\ torn' = TRUE
        /\ \E s \in Session : \E i \in DOMAIN pending[s] :
             Appends(mem, pending[s][i].request, clock)
  /\ UNCHANGED <<log, synced, temp, anchor, durableAnchor, hostVars, client,
                 historyVars>>

\* An operator removes the temporary a dead process left.
RemoveTemp ==
  /\ daemon = "down" /\ temp
  /\ temp' = FALSE
  /\ UNCHANGED <<log, synced, torn, anchor, durableAnchor, daemonVars,
                 hostVars, pending, client, historyVars>>

(***************************************************************************)
(* Unsynced records may be gone or cut short, an unsynced rename may be    *)
(* undone, and an unsynced temporary may be gone.                          *)
(***************************************************************************)
PowerLoss ==
  /\ losses < MaxLosses /\ Gone
  /\ \E n \in synced .. Len(log) :
       /\ log' = SubSeq(log, 1, n) /\ synced' = n
       /\ torn' \in IF n < Len(log) \/ torn THEN BOOLEAN ELSE {FALSE}
  /\ anchor' \in {anchor, durableAnchor} /\ durableAnchor' = anchor'
  /\ temp' \in {temp, FALSE}
  /\ losses' = losses + 1
  /\ UNCHANGED <<clock, backs, client, historyVars>>

SessionStep(s) ==
  \/ \E scope \in Scope, g \in Generation \ {0}, ttl \in Ttl : Acquire(s, scope, g, ttl)
  \/ \E ttl \in Ttl : Renew(s, ttl)
  \/ Revalidate(s) \/ Release(s)
  \/ \E i \in 1 .. MaxPending : Answer(s, i) \/ Refuse(s, i) \/ WriteRecord(s, i)

DaemonStep == Open \/ PersistTemp \/ PersistRename \/ OpenSync \/ SyncLog \/ Finish

Next == DaemonStep \/ (\E s \in Session : SessionStep(s))
          \/ Tick \/ SetBack \/ Crash \/ RemoveTemp \/ PowerLoss

Spec == Init /\ [][Next]_vars
-----------------------------------------------------------------------------
(***************************************************************************)
(* What the authority accepted it can read back: whatever the clock did    *)
(* and wherever a process died, the journal replays, and to exactly the    *)
(* memory of the process that serves.                                      *)
(***************************************************************************)
LiveIsReplay ==
  LET replayed == Replay(log)
  IN  /\ replayed # <<>>
      /\ daemon \notin {"down", "written"} =>
           [mem EXCEPT !.observed = 0] = replayed[1]

(***************************************************************************)
(* Fencing, while the power stays on: no answer ever carries an earlier    *)
(* generation than one answered before, and a generation belongs to one    *)
(* session, through retries, lost answers, restarts and clocks set back.   *)
(***************************************************************************)
Fenced ==
  losses = 0 /\ lastAnswer # <<>> =>
    \A t \in answered :
      t.scope = lastAnswer[1].scope =>
        /\ t.generation <= lastAnswer[1].generation
        /\ t.generation = lastAnswer[1].generation => t.session = lastAnswer[1].session

\* The session has a token that is not expired and that it did not ask to
\* renew or release.
Holds(s) ==
  /\ client[s].token # <<>>
  /\ clock < client[s].token[1].expires
  /\ client[s].token[1].hash \notin client[s].spent

(***************************************************************************)
(* As long as the clock only advances and the power stays on, two sessions *)
(* never hold a lease of the same scope at the same time: the token of the *)
(* earlier one has expired, or it asked to renew or release it, before the *)
(* later one was granted.                                                  *)
(***************************************************************************)
OneHolder ==
  backs = 0 /\ losses = 0 =>
    \A s, u \in Session :
      s # u /\ Holds(s) /\ Holds(u)
        => client[s].token[1].scope # client[u].token[1].scope

(***************************************************************************)
(* A lease granted by the process that wrote its record is never granted   *)
(* to anyone else, and its session never again, by any later process, even *)
(* after a power loss.                                                     *)
(***************************************************************************)
GrantSurvives ==
  daemon \in {"serving", "written"} =>
    \A t \in granted : /\ t.generation <= mem.generations[t.scope]
                       /\ <<t.scope, t.session>> \in mem.seen
=============================================================================
