------------------------------ MODULE WeightRRWait ------------------------------
(***************************************************************************)
(* WeightRR with a history variable: how long each subflow has been        *)
(* waiting for a turn, counted in the rounds it was a candidate of and     *)
(* another one won.                                                        *)
(***************************************************************************)
EXTENDS WeightRR

VARIABLES
    passed      \* rounds that bumped a subflow since it last won or lost its entry

waitVars == <<vars, passed>>

WaitInit == Init /\ passed = [i \in Sub |-> 0]

(* The rounds count from their bumps on; winning one clears the count. *)
Bumping(i) == pc = "round" /\ i = pos /\ InRound(i)
Winning(i) == pc = "commit" /\ i = best

Wait ==
    passed' = [i \in Sub |-> IF Winning(i) THEN 0
                             ELSE IF Bumping(i) THEN passed[i] + 1
                             ELSE passed[i]]

WaitNext ==
    \/ (Call \/ Disturb \/ \E i \in Sub : SetWeight(i)) /\ UNCHANGED passed
    \/ Walk /\ Wait
    \/ \E i \in Sub : Evict(i) /\ passed' = [passed EXCEPT ![i] = 0]

WaitSpec == WaitInit /\ [][WaitNext]_waitVars

(* Nobody is passed over for ever: a candidate wins before it has been     *)
(* bumped more than so many times in vain, whatever the kernel does to the *)
(* others, the manager to the weights and the LRU map to their entries in  *)
(* the meantime (the walk and the debit, lines 278-343).                   *)
BypassBounded == ~Busy => \A i \in Sub : passed[i] <= 2 * Drift

-----------------------------------------------------------------------------
(* The inductive step behind it, besides CwBounded: every round waited for *)
(* is at least one unit of credit, and nobody starts waiting further in    *)
(* debt than the drift.                                                    *)
WaitPays ==
    /\ passed \in [Sub -> Nat]
    /\ \A i \in Sub : passed[i] <= cw[i] + Drift
=============================================================================
