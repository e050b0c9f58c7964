------------------------- MODULE MCSettlementStore --------------------------
(***************************************************************************)
(* SettlementStore and the SettlementEngine it implements, for TLC.  One   *)
(* behaviour explores one of them, the other stays as created.             *)
(*                                                                         *)
(* Two priced resources and an unpriced one, a fee that rounds, a refund   *)
(* that overflows the consumer's balance when the charge is 1, a result    *)
(* revision one below the last, and a last height at which no window can   *)
(* close.  The store: three heights with a fork, one receipt, two callers  *)
(* and one preview.  The engine: six heights with a fork at the second and *)
(* three receipts.                                                         *)
(***************************************************************************)
EXTENDS SettlementStore, SettlementEngine, TLC

CONSTANTS Machines,   \* the machines that are explored
          p1, p2

VARIABLE which

MCHeightOf == "g" :> 1 @@ "a1" :> 2 @@ "b1" :> 2 @@ "a2" :> 3 @@ "a3" :> 4
                @@ "a4" :> 5 @@ "a5" :> 6
MCBlock == DOMAIN MCHeightOf
MCPrice == "cpu" :> 1 @@ "gpu" :> 3
MCOpeningBalance == "provider" :> 1 @@ "consumer" :> 6 @@ "protocol" :> 2
Entry(r, n) == [resource |-> r, amount |-> n]
MCUsage == {<<Entry("cpu", 1)>>, <<Entry("cpu", 2), Entry("gpu", 1)>>,
            <<Entry("cpu", 2)>>, <<Entry("cpu", 1), Entry("disk", 1)>>, <<>>}
MCRepeatedUsage == {<<Entry("cpu", 1)>>, <<Entry("cpu", 1), Entry("cpu", 2)>>}
MCSubmitted(count) ==
  [sequence : 1 .. count, start : 1 .. 3, end : 2 .. 3,
   usage : {<<Entry("cpu", 2)>>}, certificate : Certificate]
MCOneReceipt == {r \in MCSubmitted(1) : r.start = 1 /\ r.end = 2}
MCTwoReceipts == {r \in MCSubmitted(2) : r.sequence = 1 => r.start = 1}
Configured(key, accounts) ==
  [chain |-> "c", provider |-> "k1", consumer |-> key, accounts |-> accounts,
   funding |-> EscrowFunding, window |-> ChallengeBlocks,
   fee |-> [numerator |-> FeeNumerator, denominator |-> FeeDenominator],
   prices |-> {[resource |-> r, unit |-> Price[r]] : r \in DOMAIN Price},
   certificates |-> Certificate]
MCBundle == "s" :> Configured("k2", <<"p", "c", "f">>) @@ "t" :> Configured("k2", <<"q", "c", "f">>)
              @@ "same key" :> Configured("k1", <<"p", "c", "f">>)
              @@ "same account" :> Configured("k2", <<"p", "c", "p">>)
CallerSymmetry == Permutations(Caller)

MCInit == which \in Machines /\ StoreInit /\ Init

MCNext ==
  \/ which = "store" /\ StoreNext /\ UNCHANGED <<which, engineVars>>
  \/ which = "engine" /\ Next /\ UNCHANGED <<which, storeVars>>

MCSpec == MCInit /\ [][MCNext]_<<which, engineVars, storeVars>>
=============================================================================
