------------------------------ MODULE Retrans ------------------------------
(***************************************************************************)
(* get_retrans, which is the same in all eleven schedulers: where to send  *)
(* data again when the MPTCP retransmission timer fires.  The source       *)
(* mapped is bpf_rr's.                                                     *)
(*                                                                         *)
(* One visit of the walk is one step.  The call holds the msk lock; the    *)
(* kernel's TCP timers, acknowledgements and options act between the       *)
(* visits.  The sets remember what subflows have been during the call, as  *)
(* in module MptcpSubflows.                                                *)
(***************************************************************************)
EXTENDS Integers, FiniteSets

CONSTANTS
    N,            \* subflows in the connection's list
    MaxStale,     \* bound: stale_count saturates here (at U8_MAX in the kernel)
    MaxChanges    \* bound: kernel changes during one call

ASSUME RetransAssumption ==
    /\ N \in Nat \ {0}
    /\ MaxStale \in Nat /\ MaxStale > 1
    /\ MaxChanges \in Nat

Sub == 1..N
NoSub == 0
INT_MAX == MaxStale + 1     \* more than any stale_count

VARIABLES
    active,       \* mptcp_subflow_active(subflow)
    bkup,         \* subflow->backup || subflow->request_bkup
    queued,       \* ~tcp_rtx_and_write_queues_empty(ssk)
    staleCount,   \* subflow->stale_count: timeouts since the last progress
    pc,           \* "idle", or "walk": get_retrans is walking the list
    pos,          \* the subflow the walk visits next
    pick,         \* the first idle non-backup subflow
    backup,       \* the first idle backup subflow
    minStale,     \* min_stale_count
    picked,       \* what the last call scheduled, NoSub when it returned -1
    idleSeen,     \* subflows that have been idle during this call
    primarySeen,  \* ... that have been non-backup during this call
    declined,     \* ... that have not been idle non-backup ones
    stuckSeen,    \* ... that have not been making progress
    changes       \* kernel changes during this call

linkVars == <<active, bkup, queued, staleCount>>
localVars == <<pc, pos, pick, backup, minStale>>
seenVars == <<idleSeen, primarySeen, declined, stuckSeen, changes>>
vars == <<active, bkup, queued, staleCount, pc, pos, pick, backup, minStale, picked,
          idleSeen, primarySeen, declined, stuckSeen, changes>>

Busy == pc # "idle"

Idle(i) == active[i] /\ ~queued[i]
Progressing(i) == active[i] /\ queued[i] /\ staleCount[i] <= 1

TypeOK ==
    /\ active \in [Sub -> BOOLEAN]
    /\ bkup \in [Sub -> BOOLEAN]
    /\ queued \in [Sub -> BOOLEAN]
    /\ staleCount \in [Sub -> 0..MaxStale]
    /\ pc \in {"idle", "walk"}
    /\ pos \in Sub
    /\ pick \in Sub \union {NoSub}
    /\ backup \in Sub \union {NoSub}
    /\ minStale \in 0..INT_MAX
    /\ picked \in Sub \union {NoSub}
    /\ idleSeen \subseteq Sub
    /\ primarySeen \subseteq Sub
    /\ declined \subseteq Sub
    /\ stuckSeen \subseteq Sub
    /\ changes \in 0..MaxChanges

Init ==
    /\ active \in [Sub -> BOOLEAN]
    /\ bkup \in [Sub -> BOOLEAN]
    /\ queued = [i \in Sub |-> FALSE]
    /\ staleCount = [i \in Sub |-> 0]
    /\ pc = "idle"
    /\ pos = 1
    /\ pick = NoSub
    /\ backup = NoSub
    /\ minStale = INT_MAX
    /\ picked = NoSub
    /\ idleSeen = {} /\ primarySeen = {} /\ declined = {} /\ stuckSeen = {}
    /\ changes = 0

-----------------------------------------------------------------------------
(* What the call has seen: the state it starts in and every change to it.  *)
See(old, count) ==
    /\ idleSeen' = (IF old THEN idleSeen ELSE {}) \union {i \in Sub : Idle(i)'}
    /\ primarySeen' = (IF old THEN primarySeen ELSE {}) \union {i \in Sub : ~bkup'[i]}
    /\ declined' = (IF old THEN declined ELSE {}) \union
                    {i \in Sub : ~(Idle(i)' /\ ~bkup'[i])}
    /\ stuckSeen' = (IF old THEN stuckSeen ELSE {}) \union {i \in Sub : ~Progressing(i)'}
    /\ changes' = count

Forget ==
    /\ idleSeen' = {} /\ primarySeen' = {} /\ declined' = {} /\ stuckSeen' = {}
    /\ changes' = 0

(* The kernel changes something, at most MaxChanges times under a call. *)
Changed ==
    IF Busy THEN changes < MaxChanges /\ See(TRUE, changes + 1) ELSE UNCHANGED seenVars

-----------------------------------------------------------------------------
(* The retransmission timer fires: mptcp_sched_get_retrans(). *)
Call ==
    /\ pc = "idle"
    /\ pc' = "walk"
    /\ UNCHANGED <<linkVars, pos, pick, backup, minStale, picked>>
    /\ See(FALSE, 0)

Return(i) ==
    /\ pc' = "idle"
    /\ picked' = i
    /\ pos' = 1
    /\ pick' = NoSub
    /\ backup' = NoSub
    /\ minStale' = INT_MAX
    /\ Forget

(* Mutant: the count of the last busy subflow, not the least one. *)
Least_Last(count) == count

(* min_stale_count takes a busy subflow in. *)
Least(count) == IF count < minStale THEN count ELSE minStale

(* Mutant: the threshold is never reached. *)
Choice_NoBackup(first, spare, least) == first

(* What the walk has led to. *)
Choice(first, spare, least) ==
    IF first # NoSub THEN first ELSE IF least > 1 THEN spare ELSE NoSub

(* Mutant: the walk visits one subflow too many. *)
AtEnd_Overrun == pos = N + 1

AtEnd == pos = N

(* One visit.  chk_stale() may write off a subflow that has timed out too  *)
(* often: it is not active from then on.                                   *)
Visit ==
    LET busy == active[pos] /\ queued[pos]
        least == IF busy THEN Least(staleCount[pos]) ELSE minStale
        spare == IF backup = NoSub /\ Idle(pos) /\ bkup[pos] THEN pos ELSE backup
        first == IF pick = NoSub /\ Idle(pos) /\ ~bkup[pos] THEN pos ELSE pick
    IN  /\ pc = "walk"
        /\ \/ UNCHANGED active
           \/ /\ busy /\ staleCount[pos] = MaxStale
              /\ active' = [active EXCEPT ![pos] = FALSE]
        /\ UNCHANGED <<bkup, queued, staleCount>>
        /\ IF AtEnd
           THEN Return(Choice(first, spare, least))
           ELSE /\ pos' = pos + 1
                /\ pick' = first
                /\ backup' = spare
                /\ minStale' = least
                /\ See(TRUE, changes)
                /\ UNCHANGED <<pc, picked>>

-----------------------------------------------------------------------------
(* The kernel: a subflow closes, is established or comes back from stale. *)
Toggle(i) ==
    /\ active' = [active EXCEPT ![i] = ~active[i]]
    /\ UNCHANGED <<bkup, queued, staleCount>>

(* An MP_PRIO. *)
Prio(i) ==
    /\ bkup' = [bkup EXCEPT ![i] = ~bkup[i]]
    /\ UNCHANGED <<active, queued, staleCount>>

(* Data is pushed on it, which takes the msk lock. *)
Push(i) ==
    /\ ~Busy
    /\ active[i]
    /\ ~queued[i]
    /\ queued' = [queued EXCEPT ![i] = TRUE]
    /\ UNCHANGED <<active, bkup, staleCount>>

(* Some of it is acknowledged, or all. *)
Ack(i) ==
    /\ queued[i]
    /\ \E rest \in BOOLEAN : queued' = [queued EXCEPT ![i] = rest]
    /\ staleCount' = [staleCount EXCEPT ![i] = 0]
    /\ UNCHANGED <<active, bkup>>

(* Its TCP retransmission timer fires. *)
Timeout(i) ==
    /\ queued[i]
    /\ staleCount[i] < MaxStale
    /\ staleCount' = [staleCount EXCEPT ![i] = staleCount[i] + 1]
    /\ UNCHANGED <<active, bkup, queued>>

Kernel(i) ==
    /\ Toggle(i) \/ Prio(i) \/ Push(i) \/ Ack(i) \/ Timeout(i)
    /\ Changed
    /\ UNCHANGED <<localVars, picked>>

RtoFires(i) == Timeout(i) /\ Changed /\ UNCHANGED <<localVars, picked>>

Next == Call \/ Visit \/ \E i \in Sub : Kernel(i)

(* The MPTCP timer is armed as long as data is unacknowledged, a BPF       *)
(* program runs to its end, and the TCP timer of a subflow that gets no    *)
(* acknowledgement fires: strong fairness, as only the bound on the        *)
(* changes under a call ever holds it up.                                  *)
Spec == Init /\ [][Next]_vars
FairSpec ==
    Spec /\ WF_vars(Call) /\ WF_vars(Visit) /\ \A i \in Sub : SF_vars(RtoFires(i))

-----------------------------------------------------------------------------
(* "A subflow with nothing outstanding at TCP level, and a backup one only *)
(* when no subflow makes progress" (comment, lines 197-198).  Under a      *)
(* kernel that acts between the visits: the subflow chosen was idle at     *)
(* some moment of the call, and it is a backup one only if every subflow   *)
(* was at some moment no idle non-backup one, and at some moment not       *)
(* making progress.                                                        *)
ChoiceIsEntitled ==
    [][Busy /\ ~Busy' /\ picked' # NoSub =>
        /\ picked' \in idleSeen
        /\ picked' \in primarySeen \/ (declined = Sub /\ stuckSeen = Sub)]_vars

(* A call nothing changed under refuses only when no non-backup subflow is *)
(* idle, and no backup one either unless some subflow makes progress.      *)
RefusesOnlyWithReason ==
    [][Busy /\ ~Busy' /\ changes = 0 /\ picked' = NoSub =>
        /\ \A i \in Sub : Idle(i) => bkup[i]
        /\ (\E i \in Sub : Progressing(i)) \/ ~(\E i \in Sub : Idle(i))]_vars

(* Data stuck on dead paths gets out: when every subflow but j times out   *)
(* without an acknowledgement, and j, backup or not, is idle whenever it   *)
(* is asked, the timer goes on choosing j.                                 *)
StuckDataMoves ==
    \A j \in Sub :
        (/\ <>[](Busy => Idle(j))
         /\ <>[][UNCHANGED bkup]_vars
         /\ \A i \in Sub \ {j} : <>[](queued[i])
         /\ <>[][\A i \in Sub \ {j} : staleCount'[i] >= staleCount[i]]_vars)
            => []<>(picked = j)
=============================================================================
