----------------------------- MODULE EscrowVault -----------------------------
(***************************************************************************)
(* trnm-escrow-vault: balances, locks and the audit log of one vault, all  *)
(* changed by its owner only.  A call refused by a check changes nothing,  *)
(* so that refusal is a step that is not taken.  Crediting comes last and  *)
(* has an error of its own, which leaves behind what was done before it.   *)
(***************************************************************************)
EXTENDS Integers, Sequences, SequencesExt, FiniteSetsExt

CONSTANTS Account, RequestId, Caller, Owner, Amount,
          Blank,      \* account names that trim to nothing
          Untrimmed,  \* request names that are blank or not trimmed
          MaxBalance, \* u128::MAX
          MaxPending  \* bound on the events not yet consumed

VARIABLES paused,
          balances,  \* partial: an account without an entry has 0
          locks,     \* partial: one record per request ever locked
          auditLog,
          reader     \* what the events taken by consume_audit_log add up to

vars == <<paused, balances, locks, auditLog, reader>>

LockStatus == {"Locked", "Released", "Slashed"}
LockRecord == [account : Account, amount : 1 .. MaxBalance, status : LockStatus]

Put(f, x, v) == [y \in DOMAIN f \cup {x} |-> IF y = x THEN v ELSE f[y]]

(***************************************************************************)
(* The reader of the audit log: what each event says of the vault, from    *)
(* the event alone.                                                        *)
(***************************************************************************)
ReplayEvent(v, e) ==
  CASE e.kind = "deposited" -> [v EXCEPT !.balance[e.account] = @ + e.amount,
                                          !.deposited = @ + e.amount]
    [] e.kind = "locked" ->
         [v EXCEPT !.balance[e.account] = @ - e.amount,
                   !.locks = Put(@, e.request, [account |-> e.account, amount |-> e.amount,
                                                status |-> "Locked"])]
    [] e.kind = "released" ->
         [v EXCEPT !.balance[e.account] = @ + e.amount,
                   !.locks[e.request].status = "Released"]
    [] e.kind = "slashed" ->
         [v EXCEPT !.balance[e.beneficiary] = @ + e.amount,
                   !.locks[e.request].status = "Slashed"]
    [] e.kind = "transferred" ->
         IF e.from = e.to THEN v
         ELSE [v EXCEPT !.balance[e.from] = @ - e.amount, !.balance[e.to] = @ + e.amount]
    [] OTHER -> v

EmptyVault == [balance |-> [a \in Account |-> 0], locks |-> <<>>, deposited |-> 0]

Replay(v, log) == FoldLeft(ReplayEvent, v, log)

\* The shape of the vault's state; every amount fits its u128.
TypeOK ==
  /\ paused \in BOOLEAN
  /\ DOMAIN balances \subseteq Account
  /\ \A a \in DOMAIN balances : balances[a] \in 0 .. MaxBalance
  /\ DOMAIN locks \subseteq RequestId
  /\ \A r \in DOMAIN locks : locks[r] \in LockRecord

Init == /\ paused = FALSE /\ balances = <<>> /\ locks = <<>>
        /\ auditLog = <<>> /\ reader = EmptyVault
-----------------------------------------------------------------------------
BalanceOf(b, a) == IF a \in DOMAIN b THEN b[a] ELSE 0

\* Mutant: the credit is not checked before the first change.
CheckedLater(b, a, amount) == TRUE

\* ensure_creditable_balance, before anything is changed.
Creditable(b, a, amount) == BalanceOf(b, a) + amount <= MaxBalance

\* The withdrawal and prune_zero_balance.
Debit(b, a, amount) ==
  IF b[a] = amount THEN [x \in DOMAIN b \ {a} |-> b[x]]
  ELSE [b EXCEPT ![a] = @ - amount]

EnsureOwner(caller) == caller = Owner
EnsureNotPaused == ~paused

Record(event) ==
  /\ Len(auditLog) < MaxPending
  /\ auditLog' = Append(auditLog, event)
  /\ UNCHANGED reader

\* credit_balance and the event after it: the entry is made, and a sum that
\* does not fit ends the call with what was changed so far and no event.
CreditBalance(b, a, amount, event) ==
  IF BalanceOf(b, a) + amount <= MaxBalance
    THEN balances' = Put(b, a, BalanceOf(b, a) + amount) /\ Record(event)
    ELSE balances' = Put(b, a, BalanceOf(b, a)) /\ UNCHANGED <<auditLog, reader>>
-----------------------------------------------------------------------------
Deposit(caller, a, amount) ==
  /\ EnsureOwner(caller) /\ EnsureNotPaused
  /\ amount > 0
  /\ CreditBalance(balances, a, amount,
                   [kind |-> "deposited", account |-> a, amount |-> amount])
  /\ UNCHANGED <<paused, locks>>

NewRequest(r) == r \notin DOMAIN locks

Lock(caller, r, a, amount) ==
  /\ EnsureOwner(caller) /\ EnsureNotPaused
  /\ r \notin Untrimmed /\ amount > 0 /\ NewRequest(r)
  /\ BalanceOf(balances, a) >= amount
  /\ balances' = Debit(balances, a, amount)
  /\ locks' = Put(locks, r, [account |-> a, amount |-> amount, status |-> "Locked"])
  /\ Record([kind |-> "locked", request |-> r, account |-> a, amount |-> amount])
  /\ UNCHANGED paused

IsLocked(r) == r \in DOMAIN locks /\ locks[r].status = "Locked"

Release(caller, r) ==
  /\ EnsureOwner(caller) /\ EnsureNotPaused
  /\ r \notin Untrimmed /\ IsLocked(r)
  /\ Creditable(balances, locks[r].account, locks[r].amount)
  /\ locks' = [locks EXCEPT ![r].status = "Released"]
  /\ CreditBalance(balances, locks[r].account, locks[r].amount,
                   [kind |-> "released", request |-> r,
                    account |-> locks[r].account, amount |-> locks[r].amount])
  /\ UNCHANGED paused

Slash(caller, r, beneficiary) ==
  /\ EnsureOwner(caller) /\ EnsureNotPaused
  /\ r \notin Untrimmed /\ IsLocked(r)
  /\ beneficiary \notin Blank /\ beneficiary # locks[r].account
  /\ Creditable(balances, beneficiary, locks[r].amount)
  /\ locks' = [locks EXCEPT ![r].status = "Slashed"]
  /\ CreditBalance(balances, beneficiary, locks[r].amount,
                   [kind |-> "slashed", request |-> r, account |-> locks[r].account,
                    beneficiary |-> beneficiary, amount |-> locks[r].amount])
  /\ UNCHANGED paused

\* A transfer of an account to itself is recorded and moves nothing.
Transfer(caller, from, to, amount) ==
  /\ EnsureOwner(caller) /\ EnsureNotPaused
  /\ amount > 0 /\ to \notin Blank
  /\ BalanceOf(balances, from) >= amount
  /\ LET event == [kind |-> "transferred", from |-> from, to |-> to, amount |-> amount] IN
     \/ from = to /\ UNCHANGED balances /\ Record(event)
     \/ /\ from # to /\ Creditable(balances, to, amount)
        /\ CreditBalance(Debit(balances, from, amount), to, amount, event)
  /\ UNCHANGED <<paused, locks>>

Pause(caller) ==
  /\ EnsureOwner(caller) /\ ~paused
  /\ paused' = TRUE
  /\ Record([kind |-> "paused"])
  /\ UNCHANGED <<balances, locks>>

Unpause(caller) ==
  /\ EnsureOwner(caller) /\ paused
  /\ paused' = FALSE
  /\ Record([kind |-> "unpaused"])
  /\ UNCHANGED <<balances, locks>>

ConsumeAuditLog ==
  /\ auditLog # <<>>
  /\ reader' = Replay(reader, auditLog)
  /\ auditLog' = <<>>
  /\ UNCHANGED <<paused, balances, locks>>

Next ==
  \/ \E c \in Caller :
       \/ \E a \in Account, n \in Amount :
            \/ Deposit(c, a, n)
            \/ \E r \in RequestId : Lock(c, r, a, n)
            \/ \E to \in Account : Transfer(c, a, to, n)
       \/ \E r \in RequestId : Release(c, r) \/ \E a \in Account : Slash(c, r, a)
       \/ Pause(c) \/ Unpause(c)
  \/ ConsumeAuditLog

Spec == Init /\ [][Next]_vars
-----------------------------------------------------------------------------
(***************************************************************************)
(* The audit log tells the whole story: replaying every event recorded, in *)
(* order and across consumptions, gives every balance and every lock.      *)
(***************************************************************************)
AuditReplays ==
  LET v == Replay(reader, auditLog)
  IN  v.balance = [a \in Account |-> BalanceOf(balances, a)] /\ v.locks = locks

(***************************************************************************)
(* Only deposits bring value in and nothing takes it out: balances and     *)
(* locked amounts add up to what was deposited, whatever was released,     *)
(* slashed, transferred or refused for overflow, before or while crediting.*)
(***************************************************************************)
ValueConserved ==
  MapThenSumSet(LAMBDA a : balances[a], DOMAIN balances)
    + MapThenSumSet(LAMBDA r : locks[r].amount,
                    {r \in DOMAIN locks : locks[r].status = "Locked"})
    = Replay(reader, auditLog).deposited
=============================================================================
