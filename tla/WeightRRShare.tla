----------------------------- MODULE WeightRRShare -----------------------------
(***************************************************************************)
(* WeightRR while nothing but get_send happens: the share of the rounds    *)
(* each subflow wins, for every assignment of the weights, whatever the    *)
(* subflows are.                                                           *)
(***************************************************************************)
EXTENDS WeightRR

VARIABLES
    won     \* rounds each subflow has won in the current period

shareVars == <<vars, won>>

(* The subflows a round is between: the non-backup ones that can take      *)
(* data, or the backups when no non-backup one is active.                  *)
Rotation ==
    LET among(backup) == {i \in Sub : Usable(i) /\ bkup[i] = backup}
    IN  IF among(FALSE) # {} THEN among(FALSE)
        ELSE IF HasActivePrimary THEN {} ELSE among(TRUE)

Weights == [i \in Sub |-> Weight(i)]
Period == Total(Weights, Rotation)
Rounds == Total(won, Sub)

ShareInit == Init /\ won = [i \in Sub |-> 0]

Tally ==
    IF Busy /\ ~Busy' /\ picked' # NoSub
    THEN won' = IF Rounds = Period
                THEN [i \in Sub |-> IF i = picked' THEN 1 ELSE 0]
                ELSE [won EXCEPT ![picked'] = @ + 1]
    ELSE UNCHANGED won

ShareSpec == ShareInit /\ [][(Call \/ Walk) /\ Tally]_shareVars

(* A period of as many rounds as the weights add up to gives each subflow  *)
(* exactly as many rounds as its weight, and backups none.                 *)
ExactShare ==
    Rounds = Period =>
        \A i \in Sub : won[i] = IF i \in Rotation THEN Weight(i) ELSE 0

(* What subflow i is behind its proportional share by, in rounds times the *)
(* period.                                                                 *)
Lag(i) == Rounds * Weight(i) - won[i] * Period

(* After any number of rounds no subflow is a whole round ahead of its     *)
(* share, however many subflows there are.                                 *)
NeverAhead == \A i \in Rotation : -Period < Lag(i)

(* The rounds are interleaved, not handed out in one long burst (comment,  *)
(* lines 271-276): after any number of rounds of the period, each subflow  *)
(* is less than one round away from its proportional share.  Up to four    *)
(* subflows: TLC finds five that one of them is a whole round away.        *)
Interleaved == NeverAhead /\ \A i \in Rotation : Lag(i) < Period

-----------------------------------------------------------------------------
(* The inductive invariant behind ExactShare and NeverAhead, besides those *)
(* of WeightRR.                                                            *)

(* The round under way has passed i. *)
Passed(i) == pc = "commit" \/ (pc = "round" /\ i < pos)
Bumped == {i \in Rotation : Passed(i)}

(* What a call sees does not change under it, so the round it ends in is   *)
(* between the members of the rotation.                                    *)
RoundIsRotation ==
    /\ Busy => idleSeen = {i \in Sub : ~ActivePrimary(i)}
    /\ pc \in {"round", "commit"} => \A i \in Sub : InRound(i) <=> i \in Rotation

(* A current weight is the subflow's lag, and the bump of the round.       *)
CwIsLag ==
    /\ \A i \in Sub \ Rotation : won[i] = 0 /\ cw[i] = 0
    /\ \A i \in Rotation : cw[i] = Lag(i) + (IF i \in Bumped THEN Weight(i) ELSE 0)
    /\ totalWeight = Total(Weights, Bumped)

(* The winner so far has the largest current weight of those bumped.       *)
BestIsLargest ==
    IF best = NoSub
    THEN Bumped = {}
    ELSE best \in Bumped /\ cw[best] = bestCw /\ \A i \in Bumped : cw[i] <= bestCw

ShareInv ==
    /\ won \in [Sub -> Nat]
    /\ Rounds <= Period
    /\ RoundIsRotation
    /\ CwIsLag
    /\ BestIsLargest
    /\ NeverAhead

(* The members of a group have together, but for the bumps of the round    *)
(* under way, at most so many D-ths of a period each to get: the larger    *)
(* the group, the lower the slope (see NobodyFarBehind).                   *)
Owed(A) == Total(cw, A) - Total(Weights, A \intersect Bumped)

GroupsBehind(D, slope) ==
    \A A \in (SUBSET Rotation) \ {{}} :
        D * Owed(A) <= Cardinality(A) * (slope[Cardinality(A)] * Period)
=============================================================================
