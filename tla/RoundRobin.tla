----------------------------- MODULE RoundRobin -----------------------------
(***************************************************************************)
(* bpf_rr (mptcp-bpf-rr): get_send takes turns between the usable          *)
(* subflows with a counter kept in the connection's socket storage.        *)
(*                                                                         *)
(* A call that finds no storage yet tries to create it, then the call      *)
(* walks the connection's list up to four times; one visit of one   *)
(* subflow is one step, and the kernel may change the subflows between two *)
(* visits (module MptcpSubflows).                                          *)
(***************************************************************************)
EXTENDS MptcpSubflows

CONSTANTS
    MAX_SUBFLOWS,   \* most subflows a round takes turns between (16)
    TurnModulus     \* the turn is a __u32: 2^32, a smaller power of two in TLC

ASSUME RoundRobinAssumption ==
    /\ MAX_SUBFLOWS \in Nat \ {0}
    /\ TurnModulus \in Nat \ {0}

VARIABLES
    pc,         \* "idle", or the walk get_send is in
    pos,        \* the subflow the walk visits next
    nr,         \* usable subflows counted
    useBackup,  \* the round is among the backup subflows
    target,     \* the position of the turn among the usable subflows
    idx,        \* usable subflows the scheduling walk has passed
    turn,       \* mptcp_rr_storage.turn, NoStorage while there is none
    picked      \* what the last call scheduled, NoSub when it returned -1

localVars == <<pc, pos, nr, useBackup, target, idx>>
vars == <<envVars, pc, pos, nr, useBackup, target, idx, turn, picked>>

Walks == {"count", "check", "countAny", "pick"}
Busy == pc # "idle"

NoStorage == -1
Turns == 0..(TurnModulus - 1)
HasStorage == turn # NoStorage

TypeOK ==
    /\ SubflowsTypeOK
    /\ pc \in Walks \union {"idle", "create"}
    /\ pos \in Sub
    /\ nr \in 0..MAX_SUBFLOWS
    /\ useBackup \in BOOLEAN
    /\ target \in Nat
    /\ idx \in 0..MAX_SUBFLOWS
    /\ turn \in Turns \union {NoStorage}
    /\ picked \in Sub \union {NoSub}

(* mptcp_sched_rr_init() may not get the storage either. *)
Init ==
    /\ SubflowsInit
    /\ pc = "idle"
    /\ pos = 1
    /\ nr = 0
    /\ useBackup = FALSE
    /\ target = 0
    /\ idx = 0
    /\ turn \in {0, NoStorage}
    /\ picked = NoSub

-----------------------------------------------------------------------------
(* The locals go back to what a call starts with. *)
ResetLocals ==
    /\ pos' = 1
    /\ nr' = 0
    /\ useBackup' = FALSE
    /\ target' = 0
    /\ idx' = 0

(* get_send returns: i is scheduled, or NoSub and it returned -1. *)
Return(i) ==
    /\ pc' = "idle"
    /\ picked' = i
    /\ ResetLocals
    /\ EndSeen
    /\ UNCHANGED subflowVars

(* The next walk begins at the head of the list. *)
Enter(walk) == pc' = walk /\ pos' = 1

AtEnd == pos = N

Call ==
    /\ pc = "idle"
    /\ Enter(IF HasStorage THEN "count" ELSE "create")
    /\ BeginSeen
    /\ UNCHANGED <<subflowVars, nr, useBackup, target, idx, turn, picked>>

(* bpf_sk_storage_get() creates the storage, zeroed, or returns NULL and   *)
(* the call ends before it has looked at a subflow.                        *)
Create ==
    /\ pc = "create"
    /\ \/ /\ turn' = 0
          /\ Enter("count")
          /\ UNCHANGED <<envVars, nr, useBackup, target, idx, picked>>
       \/ Return(NoSub) /\ UNCHANGED turn

(* First walk: how many non-backup subflows can take data.  Then           *)
(* target = turn % nr, or a look at why there is none.                     *)
Count ==
    LET counted == IF ~bkup[pos] /\ Usable(pos) THEN nr + 1 ELSE nr
    IN  /\ pc = "count"
        /\ nr' = counted
        /\ \/ /\ ~AtEnd /\ counted # MAX_SUBFLOWS
              /\ pos' = pos + 1
              /\ UNCHANGED <<pc, target>>
           \/ /\ AtEnd \/ counted = MAX_SUBFLOWS
              /\ counted > 0
              /\ target' = turn % counted
              /\ Enter("pick")
           \/ /\ AtEnd
              /\ counted = 0
              /\ Enter("check")
              /\ UNCHANGED target
        /\ UNCHANGED <<envVars, useBackup, idx, turn, picked>>

(* has_active_nonbackup(): one that is merely full is waited for. *)
Check ==
    /\ pc = "check"
    /\ \/ /\ ActivePrimary(pos)
          /\ Return(NoSub)
          /\ UNCHANGED turn
       \/ /\ ~ActivePrimary(pos)
          /\ IF AtEnd
             THEN Enter("countAny") /\ useBackup' = TRUE
             ELSE pos' = pos + 1 /\ UNCHANGED <<pc, useBackup>>
          /\ UNCHANGED <<envVars, nr, target, idx, turn, picked>>

(* Only backup subflows are left: count every usable one. *)
CountAny ==
    LET counted == IF Usable(pos) THEN nr + 1 ELSE nr
    IN  /\ pc = "countAny"
        /\ \/ /\ ~AtEnd /\ counted # MAX_SUBFLOWS
              /\ nr' = counted
              /\ pos' = pos + 1
              /\ UNCHANGED <<envVars, pc, useBackup, target, idx, turn, picked>>
           \/ /\ AtEnd \/ counted = MAX_SUBFLOWS
              /\ counted > 0
              /\ nr' = counted
              /\ target' = turn % counted
              /\ Enter("pick")
              /\ UNCHANGED <<envVars, useBackup, idx, turn, picked>>
           \/ /\ AtEnd
              /\ counted = 0
              /\ Return(NoSub)
              /\ UNCHANGED turn

(* Mutant: the scheduling walk forgets the role of the subflow. *)
Rotates_AnyRole(i) == Usable(i)

(* Whether the scheduling walk stops at the subflow it visits to count it. *)
Rotates(i) == (useBackup \/ ~bkup[i]) /\ Usable(i)

(* Mutants: the counter is wider than a __u32; it never moves. *)
NextTurn_Unwrapped(t) == t + 1
NextTurn_Stuck(t) == t

(* ptr->turn++ *)
NextTurn(t) == (t + 1) % TurnModulus

(* Mutant: the turn is spent by a walk that finds its target gone as well. *)
Pick_TurnFirst ==
    LET passed == IF Rotates(pos) THEN idx + 1 ELSE idx
    IN  /\ pc = "pick"
        /\ \/ /\ Rotates(pos) /\ idx = target
              /\ turn' = NextTurn(turn)
              /\ Return(pos)
           \/ /\ ~(Rotates(pos) /\ idx = target)
              /\ IF AtEnd \/ passed = MAX_SUBFLOWS
                 THEN Return(NoSub) /\ turn' = NextTurn(turn)
                 ELSE /\ idx' = passed
                      /\ pos' = pos + 1
                      /\ UNCHANGED <<envVars, pc, nr, useBackup, target, turn, picked>>

(* Second walk: schedule the target-th and move the turn on.  The set may  *)
(* have shrunk since it was counted; then the walk runs off the list.      *)
Pick ==
    LET passed == IF Rotates(pos) THEN idx + 1 ELSE idx
    IN  /\ pc = "pick"
        /\ \/ /\ Rotates(pos) /\ idx = target
              /\ turn' = NextTurn(turn)
              /\ Return(pos)
           \/ /\ ~(Rotates(pos) /\ idx = target)
              /\ IF AtEnd \/ passed = MAX_SUBFLOWS
                 THEN Return(NoSub) /\ UNCHANGED turn
                 ELSE /\ idx' = passed
                      /\ pos' = pos + 1
                      /\ UNCHANGED <<envVars, pc, nr, useBackup, target, turn, picked>>

(* The kernel. *)
Disturb == Kernel(Busy) /\ UNCHANGED <<localVars, turn, picked>>

Walk == Create \/ Count \/ Check \/ CountAny \/ Pick

Next == Call \/ Walk \/ Disturb

Spec == Init /\ [][Next]_vars

(* The kernel asks for a subflow as long as there is data, and a BPF       *)
(* program runs to its end.  Nothing says that the allocation succeeds.    *)
FairSpec == Spec /\ WF_vars(Call) /\ WF_vars(Walk)

-----------------------------------------------------------------------------
Contract == INSTANCE SendContract WITH busy <- Busy, stored <- HasStorage

(* Every call keeps the contract of SendContract: the subflow returned was *)
(* usable under the call, a backup one only if every non-backup one was    *)
(* seen inactive, and an undisturbed call refuses only when the policy     *)
(* leaves nothing to send on, or while its connection has never had the    *)
(* storage (lines 117-120).                                                *)
KeepsContract == Contract!ContractSpec

(* The turn starts at 0 and moves on exactly when a subflow is scheduled:  *)
(* neither a refusal nor a walk that finds its target gone may spend one,  *)
(* and no connection loses the turn it was at.                             *)
TurnSpentOnlyOnSend ==
    [][turn' # turn =>
        \/ ~HasStorage /\ turn' = 0
        \/ pc = "pick" /\ picked' # NoSub /\ Usable(picked')]_vars

(* Once the connection has its storage and the kernel leaves the subflows  *)
(* alone, every non-backup subflow that can take data keeps getting turns, *)
(* whatever turn the counter was at and across its wrap.                   *)
StableRotation ==
    <>HasStorage /\ <>[][UNCHANGED subflowVars]_vars =>
        \A i \in Sub : <>[](Usable(i) /\ ~bkup[i]) => []<>(picked = i)

(* "The previous pick is usually the one whose buffer just filled ... A    *)
(* counter has no position to lose, so paths dropping in and out cannot    *)
(* derail it" (comment, lines 90-96): when only the buffer of the previous *)
(* pick fills, a non-backup subflow that can always take data keeps        *)
(* getting turns.                                                          *)
NoStarvation ==
    <>HasStorage /\ <>[][\A i \in Sub : free[i] /\ ~free'[i] => picked = i]_vars =>
        \A i \in Sub : <>[](Usable(i) /\ ~bkup[i]) => []<>(picked = i)
=============================================================================
