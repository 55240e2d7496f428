------------------------------- MODULE First -------------------------------
(***************************************************************************)
(* bpf_first (mptcp-bpf-first): get_send schedules the connection's first  *)
(* subflow whenever it can carry data, otherwise the first one of the list *)
(* that can, and a backup one only when no other subflow is active.        *)
(*                                                                         *)
(* One visit is one step, and the kernel may change the subflows between   *)
(* two visits (module MptcpSubflows).                                      *)
(***************************************************************************)
EXTENDS MptcpSubflows

CONSTANT
    MAX_SUBFLOWS    \* most subflows the two scheduling walks visit (16)

ASSUME FirstAssumption == MAX_SUBFLOWS \in Nat \ {0}

VARIABLES
    first,    \* msk->first's place in the list, NoSub when it has left it
    pc,       \* "idle", or what get_send is doing
    pos,      \* the subflow the walk visits next
    picked    \* what the last call scheduled, NoSub when it returned -1

localVars == <<pc, pos>>
vars == <<envVars, first, pc, pos, picked>>

Busy == pc # "idle"

TypeOK ==
    /\ SubflowsTypeOK
    /\ first \in Sub \union {NoSub}
    /\ pc \in {"idle", "first", "primary", "check", "any"}
    /\ pos \in Sub
    /\ picked \in Sub \union {NoSub}

Init ==
    /\ SubflowsInit
    /\ first \in Sub \union {NoSub}
    /\ pc = "idle"
    /\ pos = 1
    /\ picked = NoSub

-----------------------------------------------------------------------------
Return(i) ==
    /\ pc' = "idle"
    /\ picked' = i
    /\ pos' = 1
    /\ EndSeen
    /\ UNCHANGED subflowVars

(* The next walk begins at the head of the list. *)
Enter(walk) ==
    /\ pc' = walk
    /\ pos' = 1
    /\ UNCHANGED <<envVars, picked>>

Advance ==
    /\ pos' = pos + 1
    /\ UNCHANGED <<envVars, pc, picked>>

(* Mutant: the walk visits one subflow too many. *)
AtEnd_Overrun == pos = N + 1

AtEnd == pos = N

(* seen reaches MAX_SUBFLOWS: the scheduling walks stop there. *)
AtLimit == AtEnd \/ pos = MAX_SUBFLOWS

Call ==
    /\ pc = "idle"
    /\ pc' = "first"
    /\ BeginSeen
    /\ UNCHANGED <<subflowVars, first, pos, picked>>

(* Mutant: msk->first is taken whatever its role, as it once was. *)
Prefers_AnyRole(i) == Usable(i)

(* msk->first, or a subflow of the first walk, is taken. *)
Prefers(i) == ~bkup[i] /\ Usable(i)

TryFirst ==
    /\ pc = "first"
    /\ IF first # NoSub /\ Prefers(first) THEN Return(first) ELSE Enter("primary")
    /\ UNCHANGED first

Primary ==
    /\ pc = "primary"
    /\ \/ Prefers(pos) /\ Return(pos)
       \/ ~Prefers(pos) /\ AtLimit /\ Enter("check")
       \/ ~Prefers(pos) /\ ~AtLimit /\ Advance
    /\ UNCHANGED first

(* Mutant: the walk for backups follows the one for the others at once. *)
Check_NotAsked == pc = "check" /\ Enter("any") /\ UNCHANGED first

(* has_active_nonbackup(), over the whole list. *)
Check ==
    /\ pc = "check"
    /\ \/ ActivePrimary(pos) /\ Return(NoSub)
       \/ ~ActivePrimary(pos) /\ AtEnd /\ Enter("any")
       \/ ~ActivePrimary(pos) /\ ~AtEnd /\ Advance
    /\ UNCHANGED first

(* Only backup subflows are left, or were a moment ago: the role is not    *)
(* read again.                                                             *)
AnyRole ==
    /\ pc = "any"
    /\ \/ Usable(pos) /\ Return(pos)
       \/ ~Usable(pos) /\ AtLimit /\ Return(NoSub)
       \/ ~Usable(pos) /\ ~AtLimit /\ Advance
    /\ UNCHANGED first

(* The kernel; msk->first leaves the list when its socket is closed. *)
Disturb == Kernel(Busy) /\ UNCHANGED <<first, localVars, picked>>

FirstLeaves ==
    /\ ~Busy
    /\ first # NoSub
    /\ ~Active(first)
    /\ first' = NoSub
    /\ UNCHANGED <<envVars, localVars, picked>>

Walk == TryFirst \/ Primary \/ Check \/ AnyRole

Next == Call \/ Walk \/ Disturb \/ FirstLeaves

Spec == Init /\ [][Next]_vars

FairSpec == Spec /\ WF_vars(Call) /\ WF_vars(Walk)

-----------------------------------------------------------------------------
Contract == INSTANCE SendContract WITH busy <- Busy, stored <- TRUE

(* Every call keeps the contract of SendContract, over four walks the      *)
(* kernel acts between: the subflow scheduled was usable under the call, a *)
(* backup one only if every other one was seen inactive or backup, and an  *)
(* undisturbed call refuses only when the policy leaves nothing to send on.*)
KeepsContract == Contract!ContractSpec

(* "Falling back to the first subflow that is usable turns that into an    *)
(* ordinary failover" and "the whole connection then stayed on the backup  *)
(* WAN after the others came back" (comment, lines 61-77): once a          *)
(* non-backup subflow can take data for good, whatever msk->first is and   *)
(* does, calls go on scheduling and schedule non-backup subflows only.     *)
FailsOver ==
    (/\ \E i \in Sub : <>[](Usable(i) /\ ~bkup[i])
     /\ <>[][UNCHANGED <<path, bkup>>]_vars)
        => /\ []<>(picked # NoSub)
           /\ <>[](picked # NoSub => ~bkup[picked])

-----------------------------------------------------------------------------
(* The inductive invariant behind KeepsContract.                           *)

(* What has been seen includes what is so now. *)
SeenIsCurrent ==
    Busy => /\ \A i \in Sub : Usable(i) => i \in usableSeen
            /\ \A i \in Sub : ~bkup[i] => i \in primarySeen
            /\ \A i \in Sub : ~ActivePrimary(i) => i \in idleSeen

(* What the walk under way owes to the ones before it. *)
WalkJustified ==
    /\ pc \in {"idle", "first"} => pos = 1
    /\ pc = "check" => \A i \in Sub : i < pos => i \in idleSeen
    /\ pc = "any" => idleSeen = Sub

(* What an undisturbed call has established so far. *)
QuietWalk ==
    /\ pc = "primary" => \A i \in Sub : i < pos => ~Prefers(i)
    /\ pc = "check" => /\ \A i \in Sub : ~Prefers(i)
                       /\ \A i \in Sub : i < pos => ~ActivePrimary(i)
    /\ pc = "any" => ~HasActivePrimary /\ \A i \in Sub : i < pos => ~Usable(i)

IInv ==
    /\ TypeOK
    /\ SeenIsCurrent
    /\ WalkJustified
    /\ N <= MAX_SUBFLOWS /\ changes = 0 => QuietWalk
=============================================================================
