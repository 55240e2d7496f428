---------------------------- MODULE SendContract ----------------------------
(***************************************************************************)
(* What every scheduler of the feed that spreads traffic promises of a     *)
(* get_send call, whatever it chooses by: the abstract specification that  *)
(* RoundRobin, WeightRR, Bkup and First implement.                         *)
(*                                                                         *)
(* A call takes time and the kernel changes the subflows under it.  The    *)
(* subflow it returns has been able to carry data during the call, and it  *)
(* is a backup one only if no subflow was needed before the backups: each  *)
(* of the others has been seen inactive (or backup) at some moment.  A     *)
(* call under which nothing changed decides as if at one moment, and       *)
(* refuses only when the policy leaves nothing to send on.  The one way    *)
(* out that looks at no subflow is a connection whose socket storage       *)
(* cannot be allocated; once it has it, it keeps it.                       *)
(***************************************************************************)
EXTENDS MptcpSubflows

VARIABLES
    busy,     \* a get_send call is under way
    stored,   \* what the connection must keep between calls is allocated
    picked    \* the subflow the last call scheduled; NoSub: it returned -1

contractVars == <<envVars, busy, stored, picked>>

(* A subflow the policy lets the call schedule. *)
Permitted(i) ==
    /\ i \in usableSeen
    /\ i \in primarySeen \/ idleSeen = Sub

(* Nothing to send on: no non-backup subflow can take data, and either one *)
(* that is active is waited for or the backups cannot take data either.    *)
NothingToSendOn ==
    /\ \A i \in Sub : ~(Usable(i) /\ ~bkup[i])
    /\ HasActivePrimary \/ \A i \in Sub : ~Usable(i)

ContractInit ==
    /\ SubflowsInit
    /\ busy = FALSE
    /\ stored \in BOOLEAN
    /\ picked = NoSub

Begin ==
    /\ ~busy
    /\ busy' = TRUE
    /\ BeginSeen
    /\ UNCHANGED <<subflowVars, stored, picked>>

(* The call allocates what is missing and goes on, ... *)
Allocate ==
    /\ busy
    /\ ~stored
    /\ stored' = TRUE
    /\ UNCHANGED <<envVars, busy, picked>>

End(i) ==
    /\ busy
    /\ picked' = i
    /\ busy' = FALSE
    /\ EndSeen
    /\ UNCHANGED <<subflowVars, stored>>

(* ... or gives up, subflows or not. *)
Fail == ~stored /\ End(NoSub)

Schedule(i) == stored /\ Permitted(i) /\ End(i)

Refuse == stored /\ (changes = 0 => NothingToSendOn) /\ End(NoSub)

Disturb == Kernel(busy) /\ UNCHANGED <<busy, stored, picked>>

ContractNext ==
    \/ Begin
    \/ Allocate
    \/ Fail
    \/ \E i \in Sub : Schedule(i)
    \/ Refuse
    \/ Disturb

ContractSpec == ContractInit /\ [][ContractNext]_contractVars
=============================================================================
