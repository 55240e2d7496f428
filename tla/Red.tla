-------------------------------- MODULE Red --------------------------------
(***************************************************************************)
(* bpf_red (mptcp-bpf-red): get_send schedules a copy on every usable      *)
(* non-backup subflow, and on the backup ones only when no other subflow   *)
(* is active.                                                              *)
(*                                                                         *)
(* red_schedule() is one walk, run up to twice with has_active_nonbackup() *)
(* in between; one visit is one step, and the kernel may change the        *)
(* subflows between two visits (module MptcpSubflows).                     *)
(***************************************************************************)
EXTENDS MptcpSubflows

CONSTANT
    MAX_SUBFLOWS    \* most subflows red_schedule() visits (16)

ASSUME RedAssumption == MAX_SUBFLOWS \in Nat \ {0}

VARIABLES
    pc,         \* "idle", or the walk get_send is in
    pos,        \* the subflow the walk visits next
    scheduled   \* what the last call has marked so far

vars == <<envVars, pc, pos, scheduled>>

Busy == pc # "idle"

TypeOK ==
    /\ SubflowsTypeOK
    /\ pc \in {"idle", "primaries", "check", "backups"}
    /\ pos \in Sub
    /\ scheduled \subseteq Sub

Init ==
    /\ SubflowsInit
    /\ pc = "idle"
    /\ pos = 1
    /\ scheduled = {}

-----------------------------------------------------------------------------
Return ==
    /\ pc' = "idle"
    /\ pos' = 1
    /\ EndSeen
    /\ UNCHANGED subflowVars

(* The next walk begins at the head of the list. *)
Enter(walk) ==
    /\ pc' = walk
    /\ pos' = 1
    /\ UNCHANGED envVars

Advance ==
    /\ pos' = pos + 1
    /\ UNCHANGED <<envVars, pc>>

(* Mutant: the walk visits one subflow too many. *)
AtEnd_Overrun == pos = N + 1

AtEnd == pos = N

AtLimit == AtEnd \/ pos = MAX_SUBFLOWS

Call ==
    /\ pc = "idle"
    /\ pc' = "primaries"
    /\ scheduled' = {}
    /\ BeginSeen
    /\ UNCHANGED <<subflowVars, pos>>

(* Mutant: the role is left out of the screen, as it once was. *)
Mark_EveryRole(backup) ==
    scheduled' = IF Usable(pos) THEN scheduled \union {pos} ELSE scheduled

(* One visit of red_schedule(). *)
Mark(backup) ==
    scheduled' = IF bkup[pos] = backup /\ Usable(pos)
                 THEN scheduled \union {pos} ELSE scheduled

Primaries ==
    /\ pc = "primaries"
    /\ Mark(FALSE)
    /\ \/ ~AtLimit /\ Advance
       \/ AtLimit /\ scheduled' # {} /\ Return
       \/ AtLimit /\ scheduled' = {} /\ Enter("check")

(* Mutant: nobody asks whether the others are merely full. *)
Check_NotAsked == pc = "check" /\ Enter("backups") /\ UNCHANGED scheduled

(* has_active_nonbackup(), over the whole list. *)
Check ==
    /\ pc = "check"
    /\ \/ ActivePrimary(pos) /\ Return
       \/ ~ActivePrimary(pos) /\ AtEnd /\ Enter("backups")
       \/ ~ActivePrimary(pos) /\ ~AtEnd /\ Advance
    /\ UNCHANGED scheduled

Backups ==
    /\ pc = "backups"
    /\ Mark(TRUE)
    /\ IF AtLimit THEN Return ELSE Advance

Disturb == Kernel(Busy) /\ UNCHANGED <<pc, pos, scheduled>>

Next == Call \/ Primaries \/ Check \/ Backups \/ Disturb

Spec == Init /\ [][Next]_vars

-----------------------------------------------------------------------------
(* "The backup subflows are used only when no other subflow is active, and *)
(* a non-backup subflow that is merely full is waited for" (comment, lines *)
(* 124-129), and nothing unusable is marked, which "turned one dead WAN    *)
(* into a retransmit storm" (lines 107-109).  Over a call the kernel acts  *)
(* under: whatever is marked was usable at some moment of it, and a backup *)
(* subflow is marked only if every other one was seen inactive or backup.  *)
MarksArePermitted ==
    [][Busy => \A i \in scheduled' :
            i \in usableSeen /\ (i \in primarySeen \/ idleSeen = Sub)]_vars

(* Redundancy is complete: a call nothing changed under marks every usable *)
(* subflow of the role in use, and none only when the policy leaves none.  *)
CopiesEverywhere ==
    [][Busy /\ ~Busy' /\ changes = 0 =>
        scheduled' = IF HasActivePrimary
                     THEN {i \in Sub : Usable(i) /\ ~bkup[i]}
                     ELSE {i \in Sub : Usable(i)}]_vars

-----------------------------------------------------------------------------
(* The inductive invariant behind MarksArePermitted.                       *)

(* What has been seen includes what is so now. *)
SeenIsCurrent ==
    Busy => /\ \A i \in Sub : Usable(i) => i \in usableSeen
            /\ \A i \in Sub : ~bkup[i] => i \in primarySeen
            /\ \A i \in Sub : ~ActivePrimary(i) => i \in idleSeen

(* What the pass under way owes to the ones before it. *)
PassJustified ==
    /\ ~Busy => pos = 1
    /\ Busy => scheduled \subseteq usableSeen
    /\ pc = "primaries" => scheduled \subseteq primarySeen
    /\ pc = "check" => scheduled = {} /\ \A i \in Sub : i < pos => i \in idleSeen
    /\ pc = "backups" => idleSeen = Sub

(* What an undisturbed call has done so far. *)
QuietPass ==
    /\ pc = "primaries" =>
        scheduled = {i \in Sub : i < pos /\ Usable(i) /\ ~bkup[i]}
    /\ pc = "check" =>
        /\ \A i \in Sub : ~(Usable(i) /\ ~bkup[i])
        /\ \A i \in Sub : i < pos => ~ActivePrimary(i)
    /\ pc = "backups" =>
        /\ ~HasActivePrimary
        /\ scheduled = {i \in Sub : i < pos /\ Usable(i)}

IInv ==
    /\ TypeOK
    /\ SeenIsCurrent
    /\ PassJustified
    /\ N <= MAX_SUBFLOWS /\ changes = 0 => QuietPass
=============================================================================
