--------------------------- MODULE MptcpSubflows ---------------------------
(***************************************************************************)
(* The subflows of one MPTCP connection as a BPF packet scheduler reads    *)
(* them, and the kernel's changes to them.                                 *)
(*                                                                         *)
(* A get_send call holds the msk lock, so nothing is pushed, marked stale  *)
(* or added to the connection's list while it runs; but TCP state,         *)
(* acknowledgements and MP_PRIO options are handled in softirq under the   *)
(* subflow's own lock and can change what the next walk of the same call   *)
(* reads.  The kernel is not in the repository: these actions are external *)
(* and model it from what the schedulers ask of it.                        *)
(*                                                                         *)
(* The history variables remember what each subflow has been at some       *)
(* moment of the call under way: a decision taken over several walks can   *)
(* only be held to that.                                                   *)
(***************************************************************************)
EXTENDS Integers, FiniteSets

CONSTANTS
    N,            \* subflows in the connection's list
    PathStates,   \* the path states the kernel moves subflows between
    MaxChanges    \* bound: kernel changes during one get_send call

ASSUME SubflowsAssumption ==
    /\ N \in Nat \ {0}
    /\ PathStates \subseteq {"down", "stale", "up"}
    /\ MaxChanges \in Nat

Sub == 1..N         \* positions in the connection's list, in walking order
NoSub == 0          \* "no subflow": the NULL pointer, a get_send that returns -1

VARIABLES
    path,           \* "down": not mptcp_subflow_active(); "stale"; "up"
    bkup,           \* subflow->backup || subflow->request_bkup
    free,           \* bpf_sk_stream_memory_free(ssk)
    usableSeen,     \* subflows that have been usable during this call
    primarySeen,    \* ... that have been non-backup during this call
    idleSeen,       \* ... that have been backup or inactive during this call
    changes         \* kernel changes during this call

subflowVars == <<path, bkup, free>>
seenVars == <<usableSeen, primarySeen, idleSeen, changes>>
envVars == <<path, bkup, free, usableSeen, primarySeen, idleSeen, changes>>

Active(i) == path[i] # "down"
Usable(i) == path[i] = "up" /\ free[i]
ActivePrimary(i) == ~bkup[i] /\ Active(i)

(* has_active_nonbackup(), were it taken at one moment *)
HasActivePrimary == \E i \in Sub : ActivePrimary(i)

SubflowsTypeOK ==
    /\ path \in [Sub -> {"down", "stale", "up"}]
    /\ bkup \in [Sub -> BOOLEAN]
    /\ free \in [Sub -> BOOLEAN]
    /\ usableSeen \subseteq Sub
    /\ primarySeen \subseteq Sub
    /\ idleSeen \subseteq Sub
    /\ changes \in 0..MaxChanges

SubflowsInit ==
    /\ path \in [Sub -> PathStates]
    /\ bkup \in [Sub -> BOOLEAN]
    /\ free = [i \in Sub |-> TRUE]
    /\ usableSeen = {}
    /\ primarySeen = {}
    /\ idleSeen = {}
    /\ changes = 0

-----------------------------------------------------------------------------
(* What a call sees begins with the state it starts in, grows with every   *)
(* change made under it, and is forgotten when it returns.                 *)

BeginSeen ==
    /\ usableSeen' = {i \in Sub : Usable(i)}
    /\ primarySeen' = {i \in Sub : ~bkup[i]}
    /\ idleSeen' = {i \in Sub : ~ActivePrimary(i)}
    /\ changes' = 0

EndSeen ==
    /\ usableSeen' = {}
    /\ primarySeen' = {}
    /\ idleSeen' = {}
    /\ changes' = 0

ExtendSeen(busy) ==
    IF busy
    THEN /\ changes < MaxChanges
         /\ changes' = changes + 1
         /\ usableSeen' = usableSeen \union {i \in Sub : Usable(i)'}
         /\ primarySeen' = primarySeen \union {i \in Sub : ~bkup'[i]}
         /\ idleSeen' = idleSeen \union {i \in Sub : ~ActivePrimary(i)'}
    ELSE UNCHANGED seenVars

-----------------------------------------------------------------------------
(* The kernel.                                                             *)

(* The subflow closes: a RST, a FIN, an address withdrawn. *)
Close(i) ==
    /\ "down" \in PathStates
    /\ Active(i)
    /\ path' = [path EXCEPT ![i] = "down"]
    /\ UNCHANGED <<bkup, free>>

(* A subflow (re)joins and is fully established. *)
Establish(i) ==
    /\ path[i] = "down"
    /\ path' = [path EXCEPT ![i] = "up"]
    /\ UNCHANGED <<bkup, free>>

(* mptcp_pm_subflow_chk_stale() and the data that clears the mark. *)
ToggleStale(i) ==
    /\ "stale" \in PathStates
    /\ Active(i)
    /\ path' = [path EXCEPT ![i] = IF path[i] = "up" THEN "stale" ELSE "up"]
    /\ UNCHANGED <<bkup, free>>

(* The peer's MP_PRIO, or the local path manager's. *)
TogglePriority(i) ==
    /\ bkup' = [bkup EXCEPT ![i] = ~bkup[i]]
    /\ UNCHANGED <<path, free>>

(* The send buffer fills with what was pushed ... *)
Fill(i) ==
    /\ free[i]
    /\ free' = [free EXCEPT ![i] = FALSE]
    /\ UNCHANGED <<path, bkup>>

(* ... and an acknowledgement frees it. *)
Drain(i) ==
    /\ ~free[i]
    /\ free' = [free EXCEPT ![i] = TRUE]
    /\ UNCHANGED <<path, bkup>>

(* busy: a get_send call is under way, with the msk lock that pushing data *)
(* and the stale mark need.                                                *)
Kernel(busy) ==
    /\ \E i \in Sub :
        \/ Close(i) \/ Establish(i) \/ TogglePriority(i) \/ Drain(i)
        \/ ~busy /\ (ToggleStale(i) \/ Fill(i))
    /\ ExtendSeen(busy)
=============================================================================
