----------------------------- MODULE OmrTracker -----------------------------
(***************************************************************************)
(* The interface tracker (omr-tracker/files/bin/omr-tracker): one process  *)
(* per WAN that probes it in a loop and runs the post-tracking hooks when  *)
(* the status changes, and now and then while it is OK.  This module is    *)
(* the loop and what the hooks write of the WAN's state; BalancedRoute     *)
(* adds what they do to the routes.                                        *)
(*                                                                         *)
(* A tracker can be killed anywhere, in the middle of a hook included, and *)
(* is started again: what it kept in its variables is lost, the state      *)
(* files are not.                                                          *)
(***************************************************************************)
EXTENDS Integers

CONSTANTS
    WANs,       \* the tracked interfaces, numbered in configuration order
    Steady,     \* those whose probes never fail and whose tracker never dies
    TriesUp,    \* OMR_TRACKER_TRIES_UP
    Probes      \* what a probe may find

ASSUME TrackerAssumption ==
    /\ WANs \subseteq Nat
    /\ Steady \subseteq WANs
    /\ TriesUp \in Nat \ {0}
    /\ Probes \subseteq {"bad", "poor", "good"}

VARIABLES
    state,      \* openmptcprouter.<wan>.state, kept in /var/state
    prev,       \* OMR_TRACKER_PREV_STATUS
    started,    \* _started_down: (re)started while the state was down
    streak,     \* OMR_TRACKER_UP_STREAK
    pc,         \* "cycle": between two cycles, or the step of the hooks
    seen        \* history: what the probes have found, see Observed

trackerVars == <<state, prev, started, streak, pc, seen>>

Failed == -1    \* the last probe failed
Poor == 0       \* it was between the recovery and the failure thresholds

TrackerTypeOK ==
    /\ state \in [WANs -> {"up", "down"}]
    /\ prev \in [WANs -> {"", "OK", "ERROR"}]
    /\ started \in [WANs -> BOOLEAN]
    /\ streak \in [WANs -> 0..TriesUp]
    /\ seen \in [WANs -> Failed..TriesUp]

TrackerInit ==
    /\ state = [w \in WANs |-> "up"]
    /\ prev = [w \in WANs |-> ""]
    /\ started = [w \in WANs |-> FALSE]
    /\ streak = [w \in WANs |-> 0]
    /\ pc = [w \in WANs |-> "cycle"]
    /\ seen = [w \in WANs |-> Poor]

-----------------------------------------------------------------------------
LastProbe(w) ==
    IF seen[w] = Failed THEN "bad" ELSE IF seen[w] = Poor THEN "poor" ELSE "good"

(* What the probes have found once this one has: failed, poor, or good,    *)
(* and then how many in a row, up to TriesUp.                              *)
Observed(w, probe) ==
    CASE probe = "bad" -> Failed
      [] probe = "poor" -> Poor
      [] probe = "good" -> IF seen[w] = Failed THEN 1
                           ELSE IF seen[w] < TriesUp THEN seen[w] + 1 ELSE TriesUp

(* Mutant: a tracker started while the WAN is down asks for no streak. *)
Recovering_SeenOnly(w) == prev[w] = "ERROR"

(* Mutant: the streak is never left. *)
Recovering_Always(w) == TRUE

(* The recovery thresholds and the streak apply. *)
Recovering(w) == prev[w] = "ERROR" \/ started[w]

(* The probe and the quality gate. *)
Passes(w, probe) == probe = "good" \/ (probe = "poor" /\ ~Recovering(w))

(* Mutant: the cycles a streak holds are shown as the tracker's first. *)
Shown_First(w, probe) == prev[w]

(* Mutant: a failure too is shown as following an ERROR. *)
Shown_Error(w, probe) == IF started[w] THEN "ERROR" ELSE prev[w]

(* The previous status the hooks are shown: a tracker started while the    *)
(* WAN was down takes its first cycles as following an ERROR, except a     *)
(* failure, which the hooks apply again.                                   *)
Shown(w, probe) ==
    IF ~started[w] THEN prev[w] ELSE IF Passes(w, probe) THEN "ERROR" ELSE ""

(* The hook that has something to do: 003-up on a recovery and whenever it *)
(* is due, 002-error on a failure.  With the status still ERROR, 002-error *)
(* finds the state down already and leaves.                                *)
Hooks(w, status, shown) ==
    \/ /\ status = "OK"
       /\ pc' = [pc EXCEPT ![w] = IF state[w] = "up" THEN "check" ELSE "up"]
    \/ status = "ERROR" /\ shown # "ERROR" /\ pc' = [pc EXCEPT ![w] = "fail"]
    \/ status = shown /\ UNCHANGED pc

(* One cycle up to the hooks.  A good probe while recovering adds to the   *)
(* streak, and the status stays ERROR until the streak is long enough.     *)
Cycle(w, probe) ==
    LET passes == Passes(w, probe)
        n == IF Recovering(w) /\ passes THEN streak[w] + 1 ELSE 0
        held == Recovering(w) /\ n < TriesUp
        status == IF passes /\ ~held THEN "OK" ELSE "ERROR"
    IN  /\ pc[w] = "cycle"
        /\ w \in Steady => probe = "good"
        /\ streak' = [streak EXCEPT ![w] = n]
        /\ prev' = [prev EXCEPT ![w] = status]
        /\ started' = [started EXCEPT ![w] = @ /\ passes /\ held]
        /\ seen' = [seen EXCEPT ![w] = Observed(w, probe)]
        /\ Hooks(w, status, Shown(w, probe))
        /\ UNCHANGED state

(* 002-error on a transition: the state is down. *)
MarkDown(w) ==
    /\ pc[w] = "fail"
    /\ state' = [state EXCEPT ![w] = "down"]
    /\ pc' = [pc EXCEPT ![w] = "look"]
    /\ UNCHANGED <<prev, started, streak, seen>>

(* 003-up: the state is up, the routes are checked next. *)
MarkUp(w) ==
    /\ pc[w] = "up"
    /\ state' = [state EXCEPT ![w] = "up"]
    /\ pc' = [pc EXCEPT ![w] = "check"]
    /\ UNCHANGED <<prev, started, streak, seen>>

(* The tracker is killed, wherever it is, and started again. *)
Restart(w) ==
    /\ w \notin Steady
    /\ prev' = [prev EXCEPT ![w] = ""]
    /\ started' = [started EXCEPT ![w] = state[w] = "down"]
    /\ streak' = [streak EXCEPT ![w] = 0]
    /\ pc' = [pc EXCEPT ![w] = "cycle"]
    /\ UNCHANGED <<state, seen>>
=============================================================================
