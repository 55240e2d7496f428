----------------------------- MODULE WanStatus -----------------------------
(***************************************************************************)
(* What the interface tracker promises of a WAN's state, whatever its      *)
(* loop, its hooks and its restarts do: the abstract specification that    *)
(* OmrTracker and BalancedRoute implement.                                 *)
(*                                                                         *)
(* A WAN is taken out of use only on a probe that failed, and put back     *)
(* only once TriesUp probes in a row were good enough to recover ("Downed  *)
(* interface will be deemed up after this many successful ping tests, i.e. *)
(* N consecutive good cycles", omr-tracker lines 1234-1241).               *)
(***************************************************************************)
EXTENDS Integers

CONSTANTS WANs, TriesUp

VARIABLES
    state,    \* openmptcprouter.<wan>.state: "up" (or unset), "down"
    seen      \* -1: the last probe failed; else good probes in a row, <= TriesUp

statusVars == <<state, seen>>

StatusInit ==
    /\ state = [w \in WANs |-> "up"]
    /\ seen = [w \in WANs |-> 0]

(* A probe fails, is good, or is too poor to count for a recovery. *)
Probe(w) ==
    /\ \E found \in {-1, 0, IF seen[w] = -1 THEN 1 ELSE IF seen[w] < TriesUp THEN seen[w] + 1 ELSE TriesUp} :
           seen' = [seen EXCEPT ![w] = found]
    /\ UNCHANGED state

TakeOut(w) ==
    /\ seen[w] = -1
    /\ state' = [state EXCEPT ![w] = "down"]
    /\ UNCHANGED seen

PutBack(w) ==
    /\ seen[w] = TriesUp
    /\ state' = [state EXCEPT ![w] = "up"]
    /\ UNCHANGED seen

StatusNext == \E w \in WANs : Probe(w) \/ TakeOut(w) \/ PutBack(w)

StatusSpec == StatusInit /\ [][StatusNext]_statusVars
=============================================================================
