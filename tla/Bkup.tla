-------------------------------- MODULE Bkup --------------------------------
(***************************************************************************)
(* bpf_bkup (mptcp-bpf-bkup): get_send schedules the first non-backup      *)
(* subflow that can take data, and a backup one only when no other subflow *)
(* is active.  One walk of the list decides it: one visit is one step, and *)
(* the kernel may change the subflows between two visits.                  *)
(***************************************************************************)
EXTENDS MptcpSubflows

(* This scheduler does not read the stale mark: a subflow is active or it  *)
(* is not.                                                                 *)
ASSUME BkupAssumption == "stale" \notin PathStates

VARIABLES
    pc,          \* "idle", or "walk": get_send is walking the list
    pos,         \* the subflow the walk visits next
    hasActive,   \* a non-backup subflow was active when visited
    backup,      \* the first backup subflow with room, NoSub: none yet
    picked       \* what the last call scheduled, NoSub when it returned -1

localVars == <<pc, pos, hasActive, backup>>
vars == <<envVars, pc, pos, hasActive, backup, picked>>

Busy == pc # "idle"

TypeOK ==
    /\ SubflowsTypeOK
    /\ path \in [Sub -> PathStates \union {"up"}]
    /\ pc \in {"idle", "walk"}
    /\ pos \in Sub
    /\ hasActive \in BOOLEAN
    /\ backup \in Sub \union {NoSub}
    /\ picked \in Sub \union {NoSub}

Init ==
    /\ SubflowsInit
    /\ pc = "idle"
    /\ pos = 1
    /\ hasActive = FALSE
    /\ backup = NoSub
    /\ picked = NoSub

-----------------------------------------------------------------------------
Return(i) ==
    /\ pc' = "idle"
    /\ picked' = i
    /\ pos' = 1
    /\ hasActive' = FALSE
    /\ backup' = NoSub
    /\ EndSeen
    /\ UNCHANGED subflowVars

Call ==
    /\ pc = "idle"
    /\ pc' = "walk"
    /\ BeginSeen
    /\ UNCHANGED <<subflowVars, pos, hasActive, backup, picked>>

(* Mutant: a subflow counts as active only when it has room as well, so a  *)
(* full one is replaced by a backup one.                                   *)
Waits_ForRoom(i) == Usable(i) /\ ~bkup[i]

(* A non-backup subflow that is active, room or not, keeps the backups out.*)
Waits(i) == ActivePrimary(i)

(* Mutant: backup subflows are skipped and never come back. *)
Spare_Skipped(i) == FALSE

(* A backup subflow worth keeping in mind. *)
Spare(i) == bkup[i] /\ Active(i) /\ free[i]

(* Mutant: the walk visits one subflow too many. *)
AtEnd_Overrun == pos = N + 1

AtEnd == pos = N

(* The first usable non-backup subflow ends the walk.  At the end of the   *)
(* list, the backup one found on the way, unless there is one to wait for. *)
Visit ==
    LET found == ~bkup[pos] /\ Active(pos) /\ free[pos]
        active == hasActive \/ Waits(pos)
        spare == IF backup = NoSub /\ Spare(pos) THEN pos ELSE backup
    IN  /\ pc = "walk"
        /\ \/ found /\ Return(pos)
           \/ ~found /\ AtEnd /\ Return(IF active THEN NoSub ELSE spare)
           \/ /\ ~found /\ ~AtEnd
              /\ pos' = pos + 1
              /\ hasActive' = active
              /\ backup' = spare
              /\ UNCHANGED <<envVars, pc, picked>>

Disturb == Kernel(Busy) /\ UNCHANGED <<localVars, picked>>

Next == Call \/ Visit \/ Disturb

Spec == Init /\ [][Next]_vars

FairSpec == Spec /\ WF_vars(Call) /\ WF_vars(Visit)

-----------------------------------------------------------------------------
Contract == INSTANCE SendContract WITH busy <- Busy, stored <- TRUE

(* Every call keeps the contract of SendContract, from one walk that looks *)
(* at each subflow at another moment: the subflow scheduled had room under *)
(* the call, and a backup one is scheduled only if every other subflow was *)
(* seen inactive or backup ("A non-backup subflow whose send buffer is     *)
(* full is waited for (-1), not replaced by a backup one", lines 36-37).   *)
KeepsContract == Contract!ContractSpec

(* "With no other subflow left, it scheduled nothing at all, so the        *)
(* transfer stopped instead of moving to the backup subflow" (comment,     *)
(* lines 33-34): once only backup subflows are active for good, and one of *)
(* them has room again and again when a walk comes to it, data keeps       *)
(* moving, however often that one and the others fill in between.          *)
MovesToBackup ==
    (/\ <>[](~HasActivePrimary)
     /\ \E i \in Sub : /\ <>[](bkup[i] /\ Active(i))
                      /\ []<>(pc = "walk" /\ pos = i /\ free[i]))
        => []<>(picked # NoSub)
-----------------------------------------------------------------------------
(* The inductive invariant behind KeepsContract.                           *)

(* What has been seen includes what is so now. *)
SeenIsCurrent ==
    Busy => /\ \A i \in Sub : Usable(i) => i \in usableSeen
            /\ \A i \in Sub : ~bkup[i] => i \in primarySeen
            /\ \A i \in Sub : ~ActivePrimary(i) => i \in idleSeen

(* With nobody to wait for, every subflow passed was seen idle; and the    *)
(* backup kept in mind had room when visited.                              *)
WalkJustified ==
    /\ Busy /\ ~hasActive => \A i \in Sub : i < pos => i \in idleSeen
    /\ Busy /\ backup # NoSub => backup \in usableSeen
    /\ ~Busy => ~hasActive /\ backup = NoSub /\ pos = 1

(* What the walk has established, so long as nothing changed under it. *)
QuietWalk ==
    Busy => /\ \A i \in Sub : i < pos => ~(Usable(i) /\ ~bkup[i])
            /\ hasActive => HasActivePrimary
            /\ backup = NoSub => \A i \in Sub : i < pos => ~Usable(i)

IInv ==
    /\ TypeOK
    /\ SeenIsCurrent
    /\ WalkJustified
    /\ changes = 0 => QuietWalk
=============================================================================
