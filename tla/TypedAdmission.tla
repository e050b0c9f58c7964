--------------------------- MODULE TypedAdmission ---------------------------
(***************************************************************************)
(* trnm-mempool/src/typed_admission.rs: signed envelopes enter the lanes   *)
(* of LaneGate under slot numbers of the gate's own, and the nonce of an   *)
(* envelope is reserved at an outside authority for as long as the         *)
(* envelope is queued or in the hands of the executor.  The authority and  *)
(* the hooks that check signatures and replays are external; any of their  *)
(* calls may be refused.  The crate's development binary has a gate of its *)
(* own (main.rs), modelled last.                                           *)
(***************************************************************************)
EXTENDS Naturals, FiniteSets, SequencesExt

CONSTANTS TaEnvelopes,   \* records: digest, key (signer and nonce), body, valid
          TaConfig,      \* total capacity and critical reserve
          MaxSlot,       \* the largest slot number: the next one is 1
          MaxOut,        \* bound: items in the hands of the executor
          RgTx,          \* transactions of the development binary
          RgCapacity     \* and the capacity of its queue

VARIABLES taGate,      \* the lanes, over slot numbers
          taNext,      \* next_slot
          taSlots,     \* by_slot; slot_by_digest is its inverse
          taLeases,    \* pending_reservations: queued slots with a token
          taOut,       \* ready items with their tokens
          taAuthority, \* every key: its state there, and releases received
          rg           \* queue, ids (backpressured_ids), fifo, reservations, deferred

taVars == <<taGate, taNext, taSlots, taLeases, taOut, taAuthority>>

G == INSTANCE LaneGate WITH gate <- taGate, waited <- 0, Config <- {TaConfig}, TxId <- 1 .. MaxSlot

TaKeys == {e.key : e \in TaEnvelopes}
Active == DOMAIN taSlots
QueuedDigests == {taSlots[s].digest : s \in Active}
-----------------------------------------------------------------------------
\* External: the authority.  A key that is reserved or committed is refused.
Reserve(auth, k) == [auth EXCEPT ![k] = [state |-> "reserved", releases |-> 0]]
CanReserve(k) == taAuthority[k].state = "free"
ReleaseCall(auth, k, ok) ==
  [auth EXCEPT ![k] = [state |-> IF ok THEN "free" ELSE @.state, releases |-> @.releases + 1]]

\* PendingNonceLease: release is final even if the authority refuses it, and
\* a token that was not resolved is released when it is dropped.
Live(state) == state \in {"Reserved", "HandedOff"}
AfterFailedRelease(state) == state
AfterRelease(state) == "Released"
Dropped(auth, k, state) ==
  IF Live(state) THEN {ReleaseCall(auth, k, ok) : ok \in BOOLEAN} ELSE {auth}
-----------------------------------------------------------------------------
MetadataOk(e) == e.valid

\* allocate_slot: as many tries as there are active slots, and two more.
AllocateNext == [slot |-> taNext, next |-> (taNext % MaxSlot) + 1]
Candidate(n) == ((taNext + n - 1) % MaxSlot) + 1
Allocate ==
  LET tries == 0 .. Cardinality(Active) + 1
      free == {n \in tries : Candidate(n) \notin Active}
      n == CHOOSE m \in free : \A o \in free : m <= o IN
  IF free = {} THEN [slot |-> 0, next |-> Candidate(Cardinality(Active) + 2)]
  ELSE [slot |-> Candidate(n), next |-> Candidate(n + 1)]

\* The part both ways of admission share: not a duplicate, room in the
\* lanes, metadata that is well formed.
Fresh(e, class) ==
  /\ e.digest \notin QueuedDigests
  /\ G!FreshAdmissible(taGate, class)
  /\ MetadataOk(e)

Enqueue(e, class, slot) ==
  LET answer == G!Admit(taGate, slot, class) IN
  /\ taGate' = answer.gate
  /\ taSlots' = IF answer.outcome = "Accepted"
                  THEN [s \in Active \cup {slot} |-> IF s = slot THEN e ELSE taSlots[s]]
                  ELSE taSlots

\* admit_signed, the hooks having agreed: no token.
AdmitSigned(e, class) ==
  /\ Fresh(e, class)
  /\ Allocate.slot /= 0
  /\ Enqueue(e, class, Allocate.slot)
  /\ taNext' = Allocate.next
  /\ UNCHANGED <<taLeases, taOut, taAuthority>>

\* admit_signed_with_pending_nonce: the nonce is reserved once the signature
\* is verified, and released if the recheck or the queue refuses.
AdmitWithPendingNonce(e, class) ==
  LET reserved == Reserve(taAuthority, e.key)
      a == Allocate
      accepted == a.slot /= 0 /\ G!Admit(taGate, a.slot, class).outcome = "Accepted" IN
  /\ Fresh(e, class)
  /\ CanReserve(e.key)
  /\ \/ \* recheck refuses
        /\ taAuthority' \in Dropped(reserved, e.key, "Reserved")
        /\ UNCHANGED <<taGate, taNext, taSlots, taLeases>>
     \/ /\ taNext' = a.next
        /\ IF a.slot = 0 THEN UNCHANGED <<taGate, taSlots>> ELSE Enqueue(e, class, a.slot)
        /\ IF accepted
             THEN taLeases' = taLeases \cup {a.slot} /\ taAuthority' = reserved
             ELSE UNCHANGED taLeases /\ taAuthority' \in Dropped(reserved, e.key, "Reserved")
  /\ UNCHANGED taOut

\* pop_ready_parts
Popped ==
  LET slot == G!Ready(taGate) IN
  /\ ~G!LaneIsIdle(taGate)
  /\ taGate' = G!PopReady(taGate)
  /\ taSlots' = [s \in Active \ {slot} |-> taSlots[s]]
  /\ taLeases' = taLeases \ {slot}
  /\ UNCHANGED taNext

\* pop_ready drops the token.
PopReady ==
  LET slot == G!Ready(taGate) IN
  /\ Popped
  /\ taAuthority' \in (IF slot \in taLeases
                         THEN Dropped(taAuthority, taSlots[slot].key, "Reserved") ELSE {taAuthority})
  /\ UNCHANGED taOut

PopWithLifecycle ==
  LET slot == G!Ready(taGate) IN
  /\ Cardinality(taOut) < MaxOut
  /\ Popped
  /\ taOut' = taOut \cup {[env |-> taSlots[slot], lease |-> slot \in taLeases, state |-> "Reserved"]}
  /\ UNCHANGED taAuthority

\* The executor's calls.  A refused handoff or commit changes nothing.
Becomes(i, state) == taOut' = (taOut \ {i}) \cup {[i EXCEPT !.state = state]}
queue == <<taGate, taNext, taSlots, taLeases>>

Handoff(i) ==
  /\ i.lease /\ i.state = "Reserved"
  /\ Becomes(i, "HandedOff")
  /\ taAuthority' = [taAuthority EXCEPT ![i.env.key].state = "handed off"]
  /\ UNCHANGED queue

Commit(i) ==
  /\ i.lease /\ i.state = "HandedOff"
  /\ Becomes(i, "Committed")
  /\ taAuthority' = [taAuthority EXCEPT ![i.env.key].state = "committed"]
  /\ UNCHANGED queue

\* release, and cancel of an item that was not handed off.
Release(i) ==
  /\ i.lease /\ Live(i.state)
  /\ \E ok \in BOOLEAN :
       /\ Becomes(i, IF ok THEN "Released" ELSE AfterRelease(i.state))
       /\ taAuthority' = ReleaseCall(taAuthority, i.env.key, ok)
  /\ UNCHANGED queue

\* The item goes out of scope, resolved or not.
DropItem(i) ==
  /\ taOut' = taOut \ {i}
  /\ taAuthority' \in (IF i.lease THEN Dropped(taAuthority, i.env.key, i.state) ELSE {taAuthority})
  /\ UNCHANGED queue

TaInit ==
  /\ taGate = G!New(TaConfig[1], TaConfig[2])
  /\ taNext = 1
  /\ taSlots = <<>>
  /\ taLeases = {} /\ taOut = {}
  /\ taAuthority = [k \in TaKeys |-> [state |-> "free", releases |-> 0]]

TaNext ==
  \/ \E e \in TaEnvelopes, class \in G!Class : AdmitSigned(e, class) \/ AdmitWithPendingNonce(e, class)
  \/ PopReady \/ PopWithLifecycle
  \/ \E i \in taOut : Handoff(i) \/ Commit(i) \/ Release(i) \/ DropItem(i)
-----------------------------------------------------------------------------
\* Every key the authority holds for this node is owned by exactly one live
\* token, queued or out, and has received no release yet; every key without
\* an owner is free, committed, or was released exactly once, in vain.
Holders(k) ==
  Cardinality({s \in taLeases : taSlots[s].key = k})
  + Cardinality({i \in taOut : i.lease /\ Live(i.state) /\ i.env.key = k})
ReservationOwned ==
  \A k \in TaKeys :
    LET a == taAuthority[k] IN
    IF Holders(k) > 0
      THEN Holders(k) = 1 /\ a.state \in {"reserved", "handed off"} /\ a.releases = 0
      ELSE \/ a.state = "free"
           \/ a.state = "committed" /\ a.releases = 0
           \/ a.state \in {"reserved", "handed off"} /\ a.releases = 1

\* A nonce is never reserved in vain: when the lanes report room, a slot
\* number is found and the lanes take it, also after the numbers wrapped
\* around onto slots that are still queued; and the index is the queue.
AdmissibleIsAdmitted ==
  /\ Active = G!Queued(taGate)
  /\ taLeases \subseteq Active
  /\ \A s, t \in Active : taSlots[s].digest = taSlots[t].digest => s = t
  /\ \A class \in G!Class :
       G!FreshAdmissible(taGate, class) =>
         /\ Allocate.slot \in 1 .. MaxSlot
         /\ G!Admit(taGate, Allocate.slot, class).outcome = "Accepted"
-----------------------------------------------------------------------------
(***************************************************************************)
(* The admission gate of the development binary (src/main.rs): one bounded *)
(* queue, a bounded memory of the transactions that found it full, and     *)
(* slots reserved for their retries.  Counters of outcomes are left out.   *)
(***************************************************************************)
Nobody == 0
Retries(g) == Cardinality(g.ids)

\* Sorted order of what is remembered, for the rebuilds.
Sorted(set) == SetToSortSeq(set, <)
FirstOf(seq) == SelectSeq([i \in DOMAIN seq |-> [i |-> i, v |-> seq[i]]],
                          LAMBDA e : \A j \in 1 .. e.i - 1 : seq[j] /= e.v)

CompactFifo(g) ==
  IF Len(g.fifo) < 4 * RgCapacity THEN g
  ELSE LET kept == SelectSeq(FirstOf(g.fifo), LAMBDA e : e.v \in g.ids)
       IN [g EXCEPT !.fifo = [i \in DOMAIN kept |-> kept[i].v]]

\* Evict the oldest of the remembered ones while there are too many.  The
\* gate never has more than one too many, nor markers missing.
Evict(g, tx) ==
  LET skip(c) == c = tx /\ Retries(g) - 1 >= RgCapacity
      at == SelectInSeq(g.fifo, LAMBDA c : ~skip(c) /\ c \in g.ids)
      trimmed == Sorted(g.ids \ {tx}) IN
  IF Retries(g) <= RgCapacity THEN g
  ELSE IF at /= 0 THEN [g EXCEPT !.ids = @ \ {g.fifo[at]}, !.fifo = SubSeq(@, at + 1, Len(@))]
  ELSE [g EXCEPT !.ids = @ \ {trimmed[i] : i \in 1 .. Retries(g) - RgCapacity}, !.fifo = <<>>]
Remember(g, tx) ==
  LET marked == CompactFifo([g EXCEPT !.ids = @ \cup {tx}, !.fifo = Append(@, tx)])
      whole == IF Len(marked.fifo) < Retries(marked) THEN [marked EXCEPT !.fifo = Sorted(marked.ids)]
               ELSE marked
      fits == Evict(whole, tx) IN
  IF Len(fits.fifo) > Retries(fits) THEN [fits EXCEPT !.fifo = Sorted(fits.ids)] ELSE fits

\* What admit does before it looks at the queue.
Settled(g) ==
  IF g.ids = {} THEN [g EXCEPT !.reservations = 0, !.deferred = Nobody, !.fifo = <<>>]
  ELSE [g EXCEPT !.reservations = IF @ > Retries(g) THEN Retries(g) ELSE @]

Repeated(g, tx) == g.deferred = tx
Full(g) == Len(g.queue) >= RgCapacity
Reserved(g, tx) == g.reservations > 0 /\ g.ids /= {} /\ tx \notin g.ids
Defer(g, tx) == [g EXCEPT !.deferred = tx, !.reservations = @ - 1]

Accept(g, tx) ==
  LET retry == tx \in g.ids
      left == [g EXCEPT !.ids = @ \ {tx}]
      tidy == IF retry /\ Len(left.fifo) > 4 * RgCapacity THEN CompactFifo(left) ELSE left
      used == IF g.reservations > 0 THEN g.reservations - 1 ELSE 0 IN
  [tidy EXCEPT !.queue = Append(@, tx),
               !.reservations = IF retry /\ left.ids = {} THEN 0 ELSE used,
               !.fifo = IF retry /\ left.ids = {} THEN <<>> ELSE @]

\* admit: what the gate becomes, and the answer.
AdmitFresh(g, tx) ==
  IF g.reservations = 0 /\ g.ids /= {} /\ Repeated(g, tx) /\ tx \notin g.ids
    THEN [gate |-> g, outcome |-> "Duplicate"]
  ELSE IF Full(g) THEN
    IF Repeated(g, tx) THEN [gate |-> g, outcome |-> "Duplicate"]
    ELSE LET u == [g EXCEPT !.deferred = Nobody] IN
         IF tx \in g.ids THEN [gate |-> u, outcome |-> "Duplicate"]
         ELSE [gate |-> Remember(u, tx), outcome |-> "Backpressured"]
  ELSE IF g.reservations > 0 /\ Repeated(g, tx) /\ ~(tx \in g.ids)
    THEN [gate |-> g, outcome |-> "Duplicate"]
  ELSE IF Reserved(g, tx) /\ RgCapacity - Len(g.queue) <= g.reservations
    THEN [gate |-> Defer(g, tx), outcome |-> "Backpressured"]
  ELSE [gate |-> Accept(g, tx), outcome |-> "Accepted"]
RgAdmit(g, tx) ==
  IF tx \in ToSet(g.queue) THEN [gate |-> g, outcome |-> "Duplicate"]
  ELSE AdmitFresh(Settled(g), tx)

RgPopReady(g) ==
  LET p == [g EXCEPT !.queue = Tail(@), !.deferred = Nobody] IN
  IF g.ids = {} THEN [p EXCEPT !.reservations = 0, !.fifo = <<>>]
  ELSE LET r == [p EXCEPT !.reservations = IF @ < Retries(g) THEN @ + 1 ELSE Retries(g)] IN
       IF Len(r.fifo) > 4 * RgCapacity THEN CompactFifo(r) ELSE r

RgInit == rg = [queue |-> <<>>, ids |-> {}, fifo |-> <<>>, reservations |-> 0, deferred |-> Nobody]
RgNext ==
  \/ \E tx \in RgTx : rg' = RgAdmit(rg, tx).gate
  \/ rg.queue /= <<>> /\ rg' = RgPopReady(rg)
-----------------------------------------------------------------------------
\* The memory of retries stays within the capacity of the queue, every
\* remembered transaction has its marker, nobody is both queued and
\* remembered, no more slots are reserved than retries are known, and a
\* remembered transaction that comes again when there is room is accepted.
RetriesKept ==
  /\ Len(rg.queue) <= RgCapacity /\ Retries(rg) <= RgCapacity
  /\ rg.ids \subseteq ToSet(rg.fifo) /\ Len(rg.fifo) <= 4 * RgCapacity
  /\ rg.ids \cap ToSet(rg.queue) = {}
  /\ \A tx \in rg.ids : ~Full(rg) => RgAdmit(rg, tx).outcome = "Accepted"
=============================================================================
