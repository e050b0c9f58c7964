----------------------------- MODULE WorkerAgent -----------------------------
(***************************************************************************)
(* The worker agent (trnm-worker-agent): a command that is started again   *)
(* and again, by hand or by a timer, over plain files.  run-assigned asks  *)
(* a model for the answer to every request assigned to the worker and      *)
(* queues a submission; run-once draws a task number and queues one;       *)
(* flush-submissions sends every queued submission to the chain as a       *)
(* commit and a reveal, and acknowledges it in a log.  Nothing but a lock  *)
(* file per task keeps two agents apart, and an agent may be killed        *)
(* between any two of its system calls.                                    *)
(*                                                                         *)
(* A log is appended to by two writes, the line and its end; a second line *)
(* written before the first was ended makes one line of both that nobody   *)
(* can parse.  A file that is rewritten is empty for an instant.           *)
(***************************************************************************)
EXTENDS Integers, FiniteSets, SequencesExt

CONSTANTS Agents,       \* the processes that may run at once
          WaStarts,     \* what an agent may find: ingress rows and queued submissions
          WaTasks,      \* task numbers
          FirstTask,    \* the number before the first one run-once draws
          Limit,        \* --limit of run-assigned
          Retries,      \* retries of the chain adapter
          MaxCalls,     \* bound: commands started
          MaxDeaths     \* bound: agents killed

VARIABLES waRows,     \* the ingress file
          waSubmits,  \* the submission log
          waAcks,     \* the acknowledgement log
          waLocks,    \* tasks whose lock file exists
          waLast,     \* the state file: the last task number drawn
          waChain,    \* what the chain has of each task
          waCalls,    \* the command each agent is running
          waBudget    \* commands and deaths left

waFiles == <<waRows, waSubmits, waAcks, waLocks, waLast, waChain>>
waVars == <<waFiles, waCalls, waBudget>>

Clean == [end |-> "clean"]
Torn == [end |-> "torn"]
EmptyLog == [lines |-> <<>>, tail |-> Clean]
WriteLine(log, rec) == [log EXCEPT !.tail = IF @ = Clean THEN rec ELSE Torn]
EndLine(log) ==
  IF log.tail = Clean THEN log ELSE [lines |-> Append(log.lines, log.tail), tail |-> Clean]
ReadLines(log) == log.lines \o (IF log.tail = Clean THEN <<>> ELSE <<log.tail>>)

\* Acknowledgements that cannot be parsed are passed over.
AckRecords(log) == SelectSeq(ReadLines(log), LAMBDA l : l /= Torn)
Acked(log) == {r.task : r \in {x \in ToSet(AckRecords(log)) : x.status = "accepted"}}

Allowed ==
  {<<"OPEN", "ASSIGNED">>, <<"ASSIGNED", "COMMIT_QUEUED">>, <<"ASSIGNED", "REJECTED">>,
   <<"ASSIGNED", "FAILED_ADAPTER">>, <<"COMMIT_QUEUED", "REVEAL_SUBMITTED">>,
   <<"COMMIT_QUEUED", "REJECTED">>, <<"COMMIT_QUEUED", "FAILED_SUBMISSION">>}
CanTransition(from, to) == from = to \/ <<from, to>> \in Allowed

Idle == [pc |-> "idle"]
Begin(a, call) ==
  /\ waCalls[a] = Idle /\ waBudget.calls > 0
  /\ waCalls' = [waCalls EXCEPT ![a] = call]
  /\ waBudget' = [waBudget EXCEPT !.calls = @ - 1]
Goto(a, call) == waCalls' = [waCalls EXCEPT ![a] = call] /\ UNCHANGED waBudget
-----------------------------------------------------------------------------
\* run-assigned: every row is read once, at the start.
BeginAssigned(a) ==
  /\ Begin(a, [pc |-> "assigned", rows |-> waRows, pos |-> 1, n |-> 0])
  /\ UNCHANGED waFiles

Eligible(c) ==
  IF c.n >= Limit THEN {}
  ELSE {i \in c.pos .. Len(c.rows) : c.rows[i].status = "ASSIGNED"}
NextRow(c) == CHOOSE i \in Eligible(c) : \A j \in Eligible(c) : i <= j
\* One run of the model's adapter: a command that fails or overruns its time
\* is run again, an answer that cannot be parsed is not; the verifier then
\* accepts or rejects the answer.
LlmRun == {"answer", "retriable", "non-retriable"}
Verdicts(run) == IF run = "answer" THEN {"accepted", "verifier rejected"} ELSE {run}
LlmOutcomes == UNION {Verdicts(run) : run \in LlmRun}
ReputationDelta ==
  [o \in LlmOutcomes |-> CASE o = "accepted" -> 3 [] o = "retriable" -> -1
                          [] o = "verifier rejected" -> -2 [] o = "non-retriable" -> -3]
StatusAfter(o) ==
  CASE o = "accepted" -> "COMMIT_QUEUED" [] o = "verifier rejected" -> "REJECTED"
    [] OTHER -> "FAILED_ADAPTER"
Resolve(c, i, o) ==
  [c EXCEPT !.rows[i].status = StatusAfter(o), !.rows[i].delta = ReputationDelta[o],
            !.pos = i + 1, !.n = @ + 1]

\* The model did not answer or its answer does not pass: nothing is queued.
RequestFails(a) ==
  LET c == waCalls[a]  i == NextRow(c) IN
  /\ c.pc = "assigned" /\ Eligible(c) /= {}
  /\ \E o \in LlmOutcomes \ {"accepted"} : Goto(a, Resolve(c, i, o))
  /\ UNCHANGED waFiles

\* The answer is accepted; with --submit the submission is queued before the
\* row, which is only changed in memory yet.
RequestAnswered(a) ==
  LET c == waCalls[a]  i == NextRow(c)  d == Resolve(c, i, "accepted") IN
  /\ c.pc = "assigned" /\ Eligible(c) /= {}
  /\ \/ Goto(a, d) /\ UNCHANGED waFiles
     \/ /\ waSubmits' = WriteLine(waSubmits, [task |-> c.rows[i].task])
        /\ Goto(a, [d EXCEPT !.pc = "queued"])
        /\ UNCHANGED <<waRows, waAcks, waLocks, waLast, waChain>>

SubmissionEnds(a) ==
  LET c == waCalls[a] IN
  /\ c.pc \in {"queued", "once queued"}
  /\ waSubmits' = EndLine(waSubmits)
  /\ Goto(a, IF c.pc = "queued" THEN [c EXCEPT !.pc = "assigned"] ELSE Idle)
  /\ UNCHANGED <<waRows, waAcks, waLocks, waLast, waChain>>

\* save_ingress_records truncates the file and then writes all the rows.
Truncates(c) == \/ c.pc = "assigned" /\ Eligible(c) = {}
                \/ c.pc = "save"
TruncateRows(a) ==
  LET c == waCalls[a] IN
  /\ Truncates(c)
  /\ waRows' = <<>>
  /\ Goto(a, [c EXCEPT !.pc = IF @ = "save" THEN "write" ELSE "write all"])
  /\ UNCHANGED <<waSubmits, waAcks, waLocks, waLast, waChain>>

WriteAllRows(a) ==
  LET c == waCalls[a] IN
  /\ c.pc = "write all"
  /\ waRows' = c.rows
  /\ Goto(a, Idle)
  /\ UNCHANGED <<waSubmits, waAcks, waLocks, waLast, waChain>>
-----------------------------------------------------------------------------
\* pull-task and run-once: the number is read, then written back.
BeginOnce(a) ==
  /\ waLast + 1 \in WaTasks
  /\ Begin(a, [pc |-> "draw", task |-> waLast + 1])
  /\ UNCHANGED waFiles

DrawTask(a) ==
  LET c == waCalls[a] IN
  /\ c.pc = "draw"
  /\ waLast' = c.task
  /\ \E submit \in BOOLEAN : Goto(a, IF submit THEN [c EXCEPT !.pc = "once"] ELSE Idle)
  /\ UNCHANGED <<waRows, waSubmits, waAcks, waLocks, waChain>>

\* Also commit-reveal --submit, which is told the number.
QueueOnce(a) ==
  LET c == waCalls[a] IN
  /\ c.pc = "once"
  /\ waSubmits' = WriteLine(waSubmits, [task |-> c.task])
  /\ Goto(a, [c EXCEPT !.pc = "once queued"])
  /\ UNCHANGED <<waRows, waAcks, waLocks, waLast, waChain>>
-----------------------------------------------------------------------------
\* flush-submissions --execute: both logs are read once, at the start.
BeginFlush(a) ==
  /\ \E update \in BOOLEAN :
       Begin(a, [pc |-> "flush", update |-> update, log |-> ReadLines(waSubmits), pos |-> 1,
                 acked |-> Acked(waAcks)])
  /\ UNCHANGED waFiles

Record(c) == c.log[c.pos].task
Sent(c) == c.log[c.pos - 1].task
Base(c) == [pc |-> "flush", update |-> c.update, log |-> c.log, pos |-> c.pos + 1, acked |-> c.acked]

Flushing(c) == c.pc = "flush" /\ c.pos <= Len(c.log) /\ c.log[c.pos] /= Torn

\* A submission that cannot be parsed ends the command.
FlushEnds(a) ==
  LET c == waCalls[a] IN
  /\ c.pc = "flush" /\ ~Flushing(c)
  /\ Goto(a, Idle)
  /\ UNCHANGED waFiles

TakesLock(t) == t \notin waLocks
FlushSkips(a) ==
  LET c == waCalls[a] IN
  /\ Flushing(c)
  /\ Record(c) \in c.acked \/ ~TakesLock(Record(c))
  /\ Goto(a, Base(c))
  /\ UNCHANGED waFiles

FlushLocks(a) ==
  LET c == waCalls[a] IN
  /\ Flushing(c)
  /\ Record(c) \notin c.acked /\ TakesLock(Record(c))
  /\ waLocks' = waLocks \cup {Record(c)}
  /\ Goto(a, [c EXCEPT !.pc = "recheck"])
  /\ UNCHANGED <<waRows, waSubmits, waAcks, waLast, waChain>>

\* Mutant: what was read before the lock is trusted.
NotLookedAtAgain(t) == FALSE

\* is_task_acked, under the lock.
AckedAfterLock(t) == t \in Acked(waAcks)
Attempts(c, stage) ==
  [pc |-> stage, attempt |-> 0, hash |-> FALSE, commit |-> c.commit] @@ c
FlushRechecks(a) ==
  LET c == waCalls[a]  t == Record(c) IN
  /\ c.pc = "recheck"
  /\ IF AckedAfterLock(t)
       THEN /\ waLocks' = waLocks \ {t}
            /\ Goto(a, [Base(c) EXCEPT !.acked = @ \cup {t}])
       ELSE /\ UNCHANGED waLocks
            /\ Goto(a, Attempts(c @@ [commit |-> "none"], "commit"))
  /\ UNCHANGED <<waRows, waSubmits, waAcks, waLast, waChain>>
-----------------------------------------------------------------------------
\* External: one run of the adapter program.  Whatever it answers, the
\* transaction may have entered the chain, a reveal only after its commit; a
\* hash is printed only for one that has.  A duplicate or a success without
\* a hash may be an answer about something else.
Answer(rc, hash, on) == [rc |-> rc, hash |-> hash, on |-> on]
AdapterRun(t, stage) ==
  LET rcs == {"ok", "duplicate", "error", "refused"}
      entered == {Answer(rc, h, TRUE) : rc \in rcs, h \in BOOLEAN}
      outside == {Answer(rc, FALSE, FALSE) : rc \in rcs} IN
  IF t \in waChain[stage] THEN entered
  ELSE IF stage = "commit" \/ t \in waChain.commit THEN entered \cup outside
  ELSE outside

Result(rc, hash, terminal) == [rc |-> rc, hash |-> hash, terminal |-> terminal]
SkippedReveal == Result("skipped", FALSE, TRUE)
IdempotentOk(r) == r.rc \in {"ok", "duplicate"}
ShouldExecuteReveal(r) == IdempotentOk(r)

\* One attempt; a duplicate, a refusal and a success end the stage, and so
\* does the last attempt.
AdapterAttempt(a) ==
  LET c == waCalls[a]  t == Record(c) IN
  /\ c.pc \in {"commit", "reveal"}
  /\ \E o \in AdapterRun(t, c.pc) :
       LET hash == o.hash \/ c.hash
           ends == o.rc /= "error" \/ c.attempt >= Retries
           r == Result(o.rc, hash, o.rc /= "error") IN
       /\ waChain' = IF o.on THEN [waChain EXCEPT ![c.pc] = @ \cup {t}] ELSE waChain
       /\ Goto(a, CASE ~ends -> [c EXCEPT !.attempt = @ + 1, !.hash = hash]
                    [] ends /\ c.pc = "reveal" -> [c EXCEPT !.pc = "ack"] @@ [reveal |-> r]
                    [] ends /\ c.pc = "commit" /\ ShouldExecuteReveal(r) ->
                         Attempts([c EXCEPT !.commit = r, !.pc = "x", !.hash = FALSE], "reveal")
                    [] OTHER -> [c EXCEPT !.pc = "ack", !.commit = r] @@ [reveal |-> SkippedReveal])
  /\ UNCHANGED <<waRows, waSubmits, waAcks, waLocks, waLast>>

\* The program cannot be run, or a line cannot be logged: the command ends,
\* the task's lock is dropped and nothing is acknowledged.
AdapterCannotRun(a) ==
  LET c == waCalls[a] IN
  /\ c.pc \in {"commit", "reveal"}
  /\ waLocks' = waLocks \ {Record(c)}
  /\ Goto(a, Idle)
  /\ UNCHANGED <<waRows, waSubmits, waAcks, waLast, waChain>>

\* A duplicate without a hash takes it from an earlier acknowledgement.
Persisted(r, stage) == r[stage]
Previous(t, stage) == \E r \in ToSet(AckRecords(waAcks)) : r.task = t /\ Persisted(r, stage)
\* Mutant: a duplicate is taken for a receipt.
DuplicateIsReceipt(t, stage, r) == r.hash \/ r.rc = "duplicate"

HashForAck(t, stage, r) == r.hash \/ (r.rc = "duplicate" /\ Previous(t, stage))

Classify(t, commit, reveal) ==
  IF IdempotentOk(commit) /\ IdempotentOk(reveal)
    THEN IF HashForAck(t, "commit", commit) /\ HashForAck(t, "reveal", reveal)
           THEN "accepted" ELSE "failed"
    ELSE IF commit.terminal \/ reveal.terminal THEN "rejected" ELSE "failed"

AckOf(c) ==
  LET t == Record(c) IN
  [task |-> t, status |-> Classify(t, c.commit, c.reveal),
   commit |-> HashForAck(t, "commit", c.commit), reveal |-> HashForAck(t, "reveal", c.reveal)]

WriteAck(a) ==
  LET c == waCalls[a] IN
  /\ c.pc = "ack"
  /\ waAcks' = WriteLine(waAcks, AckOf(c))
  /\ Goto(a, [pc |-> "acked", status |-> AckOf(c).status] @@ Base(c))
  /\ UNCHANGED <<waRows, waSubmits, waLocks, waLast, waChain>>

\* The command goes on with the next record, the task is released.
Finished(c) ==
  LET b == [x \in DOMAIN c \ {"status", "rows"} |-> c[x]] IN
  [b EXCEPT !.pc = "flush",
            !.acked = IF c.status = "accepted" THEN @ \cup {Sent(c)} ELSE @]

AckEnds(a) ==
  LET c == waCalls[a] IN
  /\ c.pc = "acked"
  /\ waAcks' = EndLine(waAcks)
  /\ IF c.update
       THEN UNCHANGED waLocks /\ Goto(a, [c EXCEPT !.pc = "ingress"])
       ELSE waLocks' = waLocks \ {Sent(c)} /\ Goto(a, Finished(c))
  /\ UNCHANGED <<waRows, waSubmits, waLast, waChain>>

StatusOf(ack) ==
  CASE ack = "accepted" -> "REVEAL_SUBMITTED"
    [] ack = "rejected" -> "REJECTED"
    [] ack = "failed" -> "FAILED_SUBMISSION"

\* --update-ingress: a row that cannot take the status ends the command.
UpdateIngress(a) ==
  LET c == waCalls[a]
      t == Sent(c)
      to == StatusOf(c.status)
      mine == {i \in DOMAIN waRows : waRows[i].task = t}
      rows == [i \in DOMAIN waRows |->
                 IF i \in mine THEN [waRows[i] EXCEPT !.status = to] ELSE waRows[i]] IN
  /\ c.pc = "ingress"
  /\ IF mine /= {} /\ \A i \in mine : CanTransition(waRows[i].status, to)
       THEN UNCHANGED waLocks /\ Goto(a, [c EXCEPT !.pc = "save"] @@ [rows |-> rows])
       ELSE /\ waLocks' = waLocks \ {t}
            /\ Goto(a, IF mine = {} THEN Finished(c) ELSE Idle)
  /\ UNCHANGED <<waRows, waSubmits, waAcks, waLast, waChain>>

WriteRows(a) ==
  LET c == waCalls[a] IN
  /\ c.pc = "write"
  /\ waRows' = c.rows
  /\ waLocks' = waLocks \ {Sent(c)}
  /\ Goto(a, Finished(c))
  /\ UNCHANGED <<waSubmits, waAcks, waLast, waChain>>
-----------------------------------------------------------------------------
\* The process is killed; its lock file stays, and a line it was writing may
\* be cut.
Kill(a) ==
  LET c == waCalls[a] IN
  /\ c /= Idle /\ waBudget.deaths > 0
  /\ waCalls' = [waCalls EXCEPT ![a] = Idle]
  /\ waBudget' = [waBudget EXCEPT !.deaths = @ - 1]
  /\ waSubmits' \in {waSubmits} \cup (IF c.pc \in {"once", "assigned"} THEN {WriteLine(waSubmits, Torn)} ELSE {})
  /\ waAcks' \in {waAcks} \cup (IF c.pc = "ack" THEN {WriteLine(waAcks, Torn)} ELSE {})
  /\ UNCHANGED <<waRows, waLocks, waLast, waChain>>

WaInit ==
  /\ \E s \in WaStarts :
       waRows = s.rows /\ waSubmits = [lines |-> s.queue, tail |-> Clean]
  /\ waAcks = EmptyLog
  /\ waLocks = {}
  /\ waLast = FirstTask
  /\ waChain = [commit |-> {}, reveal |-> {}]
  /\ waCalls = [a \in Agents |-> Idle]
  /\ waBudget = [calls |-> MaxCalls, deaths |-> MaxDeaths]

WaNext ==
  \E a \in Agents :
    \/ BeginAssigned(a) \/ RequestFails(a) \/ RequestAnswered(a) \/ SubmissionEnds(a)
    \/ TruncateRows(a) \/ WriteAllRows(a) \/ BeginOnce(a) \/ DrawTask(a) \/ QueueOnce(a)
    \/ BeginFlush(a) \/ FlushEnds(a) \/ FlushSkips(a) \/ FlushLocks(a) \/ FlushRechecks(a)
    \/ AdapterAttempt(a) \/ AdapterCannotRun(a) \/ WriteAck(a) \/ AckEnds(a) \/ UpdateIngress(a) \/ WriteRows(a)
    \/ Kill(a)
-----------------------------------------------------------------------------
\* Never are two agents talking to the chain about one task, and no task has
\* two acknowledgements that say "accepted", although both agents may have
\* read the acknowledgements before either took the lock.
AckedOnce ==
  /\ \A a, b \in Agents :
       /\ waCalls[a].pc \in {"commit", "reveal", "ack"} /\ waCalls[b].pc \in {"commit", "reveal", "ack"}
       /\ Record(waCalls[a]) = Record(waCalls[b])
       => a = b
  /\ LET recs == AckRecords(waAcks) IN
     \A i, j \in DOMAIN recs :
       recs[i].task = recs[j].task /\ recs[i].status = "accepted" /\ recs[j].status = "accepted"
       => i = j

\* What is acknowledged as accepted, or shown as REVEAL_SUBMITTED, has its
\* commit and its reveal on the chain, although a duplicate or a success
\* without a hash proves nothing, whatever answers were lost, whichever agent
\* was killed and whichever line of the log was cut.
AcceptedIsOnChain ==
  LET onChain == waChain.commit \cap waChain.reveal IN
  /\ Acked(waAcks) \subseteq onChain
  /\ \A i \in DOMAIN waRows :
       waRows[i].status = "REVEAL_SUBMITTED" => waRows[i].task \in onChain
=============================================================================
