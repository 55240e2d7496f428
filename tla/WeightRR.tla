------------------------------ MODULE WeightRR ------------------------------
(***************************************************************************)
(* bpf_weight_rr (mptcp-bpf-weight-rr): get_send is a smooth weighted      *)
(* round-robin between the subflows that can take data now.  Every round   *)
(* bumps each candidate's current weight by its configured weight, picks   *)
(* the highest and debits it by the weight of all candidates.              *)
(*                                                                         *)
(* The weights and the current weights live in BPF maps: the user-space    *)
(* weight manager writes the former and the LRU map may drop the latter,   *)
(* both at any moment, as the kernel may change the subflows between two   *)
(* visits of a walk (module MptcpSubflows).                                *)
(***************************************************************************)
EXTENDS MptcpSubflows

CONSTANTS
    NoEntry,         \* a BPF map lookup that misses
    LocalWeights,    \* what the maps keyed by the local side may hold for a subflow
    RemoteWeights,   \* what weight_remote_id may hold for it
    NeutralWeight,   \* the weight of a subflow no map knows (100)
    MaxWeight,       \* no weight is larger
    Evictable        \* subflows whose LRU entry may be dropped

ASSUME WeightRRAssumption ==
    /\ NoEntry \notin Nat
    /\ MaxWeight \in Nat
    /\ LocalWeights \subseteq 0..MaxWeight \union {NoEntry}
    /\ RemoteWeights \subseteq 0..MaxWeight \union {NoEntry}
    /\ NeutralWeight \in 1..MaxWeight
    /\ Evictable \subseteq Sub

VARIABLES
    localWeight,    \* endpoint_weights, or weight_local_id for an IPv6 subflow
    remoteWeight,   \* weight_remote_id
    cw,             \* subflow_cw_map_v2; 0 stands for no entry as well
    pc,             \* "idle", or the walk get_send is in
    pos,            \* the subflow the walk visits next
    hasBackup,      \* a backup subflow is a candidate
    useBackup,      \* the round is among the backup subflows
    best,           \* the winner so far
    bestCw,         \* its current weight
    totalWeight,    \* the weight of the candidates so far
    picked          \* what the last call scheduled, NoSub when it returned -1

mapVars == <<localWeight, remoteWeight>>
localVars == <<pc, pos, hasBackup, useBackup, best, bestCw, totalWeight>>
vars == <<envVars, mapVars, cw, localVars, picked>>

Busy == pc # "idle"

TypeOK ==
    /\ SubflowsTypeOK
    /\ localWeight \in [Sub -> LocalWeights]
    /\ remoteWeight \in [Sub -> RemoteWeights]
    /\ cw \in [Sub -> Int]
    /\ pc \in {"idle", "screen", "check", "round", "commit"}
    /\ pos \in Sub
    /\ hasBackup \in BOOLEAN
    /\ useBackup \in BOOLEAN
    /\ best \in Sub \union {NoSub}
    /\ bestCw \in Int
    /\ totalWeight \in Nat
    /\ picked \in Sub \union {NoSub}

Init ==
    /\ SubflowsInit
    /\ localWeight \in [Sub -> LocalWeights]
    /\ remoteWeight \in [Sub -> RemoteWeights]
    /\ cw = [i \in Sub |-> 0]
    /\ pc = "idle"
    /\ pos = 1
    /\ hasBackup = FALSE
    /\ useBackup = FALSE
    /\ best = NoSub
    /\ bestCw = 0
    /\ totalWeight = 0
    /\ picked = NoSub

-----------------------------------------------------------------------------
(* Mutant: candidates are no longer screened for memory, so a winner whose *)
(* buffer is full pays for a turn it never takes (lines 186-195).          *)
Candidate_Full(i) == path[i] = "up"

(* wrr_candidate().  The pacing rate a candidate must have is part of      *)
(* being usable here: a subflow without one is skipped like a full one.    *)
Candidate(i) == Usable(i)

(* Mutant: an entry of zero is taken at its word. *)
Weight_ZeroCounts(i) ==
    LET entry == IF localWeight[i] # NoEntry THEN localWeight[i] ELSE remoteWeight[i]
    IN  IF entry \in Nat THEN entry ELSE NeutralWeight

(* The remote-id map is asked only when the local one has no entry; an     *)
(* entry of zero counts as no weight.                                      *)
Weight(i) ==
    LET entry == IF localWeight[i] # NoEntry THEN localWeight[i] ELSE remoteWeight[i]
    IN  IF entry \in Nat \ {0} THEN entry ELSE NeutralWeight

(* Mutant: total_weight is not cleared between two calls. *)
Return_KeepsTotal(i) ==
    /\ pc' = "idle"
    /\ picked' = i
    /\ pos' = 1
    /\ hasBackup' = FALSE
    /\ useBackup' = FALSE
    /\ best' = NoSub
    /\ bestCw' = 0
    /\ UNCHANGED totalWeight
    /\ EndSeen
    /\ UNCHANGED <<subflowVars, mapVars>>

Return(i) ==
    /\ pc' = "idle"
    /\ picked' = i
    /\ pos' = 1
    /\ hasBackup' = FALSE
    /\ useBackup' = FALSE
    /\ best' = NoSub
    /\ bestCw' = 0
    /\ totalWeight' = 0
    /\ EndSeen
    /\ UNCHANGED <<subflowVars, mapVars>>

(* Mutant: the walk visits one subflow too many. *)
AtEnd_Overrun == pos = N + 1

AtEnd == pos = N

Enter(walk) == pc' = walk /\ pos' = 1

Call ==
    /\ pc = "idle"
    /\ Enter("screen")
    /\ BeginSeen
    /\ UNCHANGED <<subflowVars, mapVars, cw, hasBackup, useBackup, best, bestCw,
                   totalWeight, picked>>

(* First walk: is the round between non-backup subflows, or is one of the  *)
(* backups a candidate at least?                                           *)
Screen ==
    /\ pc = "screen"
    /\ \/ /\ Candidate(pos) /\ ~bkup[pos]
          /\ Enter("round")
          /\ UNCHANGED <<envVars, mapVars, cw, hasBackup, useBackup, best, bestCw,
                         totalWeight, picked>>
       \/ /\ ~(Candidate(pos) /\ ~bkup[pos])
          /\ IF AtEnd /\ ~hasBackup /\ ~Candidate(pos)
             THEN Return(NoSub) /\ UNCHANGED cw
             ELSE /\ hasBackup' = (hasBackup \/ Candidate(pos))
                  /\ IF AtEnd THEN Enter("check") ELSE pos' = pos + 1 /\ UNCHANGED pc
                  /\ UNCHANGED <<envVars, mapVars, cw, useBackup, best, bestCw,
                                 totalWeight, picked>>

(* Mutant: the backups are loaded without asking for active subflows that  *)
(* are merely full.                                                        *)
Check_NotAsked ==
    /\ pc = "check"
    /\ Enter("round")
    /\ useBackup' = TRUE
    /\ UNCHANGED <<envVars, mapVars, cw, hasBackup, best, bestCw, totalWeight, picked>>

(* has_active_nonbackup(): a non-backup subflow that is merely full is     *)
(* waited for rather than loading the backups.                             *)
Check ==
    /\ pc = "check"
    /\ \/ /\ ActivePrimary(pos)
          /\ Return(NoSub)
          /\ UNCHANGED cw
       \/ /\ ~ActivePrimary(pos)
          /\ IF AtEnd
             THEN Enter("round") /\ useBackup' = TRUE
             ELSE pos' = pos + 1 /\ UNCHANGED <<pc, useBackup>>
          /\ UNCHANGED <<envVars, mapVars, cw, hasBackup, best, bestCw, totalWeight, picked>>

(* One visit of the second walk. *)
InRound(i) == bkup[i] = useBackup /\ Candidate(i)

(* Mutant: the entry is written without what it held. *)
Bump_Forgets(i) ==
    LET bumped == Weight(i)
    IN  /\ cw' = [cw EXCEPT ![i] = bumped]
        /\ totalWeight' = totalWeight + Weight(i)
        /\ IF best = NoSub \/ bumped > bestCw
           THEN best' = i /\ bestCw' = bumped
           ELSE UNCHANGED <<best, bestCw>>

Bump(i) ==
    LET bumped == cw[i] + Weight(i)
    IN  /\ cw' = [cw EXCEPT ![i] = bumped]
        /\ totalWeight' = totalWeight + Weight(i)
        /\ IF best = NoSub \/ bumped > bestCw
           THEN best' = i /\ bestCw' = bumped
           ELSE UNCHANGED <<best, bestCw>>

Round ==
    /\ pc = "round"
    /\ \/ InRound(pos) /\ Bump(pos)
       \/ ~InRound(pos) /\ UNCHANGED <<cw, totalWeight, best, bestCw>>
    /\ IF AtEnd THEN Enter("commit") ELSE pos' = pos + 1 /\ UNCHANGED pc
    /\ UNCHANGED <<envVars, mapVars, hasBackup, useBackup, picked>>

(* Mutant: the winner is debited by its own weight only. *)
Debited_OwnWeight == bestCw - Weight(best)

(* What is left of the winner's current weight. *)
Debited == bestCw - totalWeight

(* The winner is debited from the value the walk computed, then looked at  *)
(* once more and scheduled.                                                *)
Commit ==
    /\ pc = "commit"
    /\ IF best = NoSub
       THEN Return(NoSub) /\ UNCHANGED cw
       ELSE /\ cw' = [cw EXCEPT ![best] = Debited]
            /\ Return(IF free[best] THEN best ELSE NoSub)

-----------------------------------------------------------------------------
(* mptcp-scheduler-weight.sh writes a map entry; any moment will do. *)
SetWeight(i) ==
    /\ \/ /\ \E w \in LocalWeights \ {localWeight[i]} :
                localWeight' = [localWeight EXCEPT ![i] = w]
          /\ UNCHANGED remoteWeight
       \/ /\ \E w \in RemoteWeights \ {remoteWeight[i]} :
                remoteWeight' = [remoteWeight EXCEPT ![i] = w]
          /\ UNCHANGED localWeight
    /\ UNCHANGED <<envVars, cw, localVars, picked>>

(* The LRU map drops the entry for another connection's, or the position   *)
(* is taken by a new subflow, whose socket has no entry yet.               *)
Evict(i) ==
    /\ i \in Evictable
    /\ cw[i] # 0
    /\ cw' = [cw EXCEPT ![i] = 0]
    /\ UNCHANGED <<envVars, mapVars, localVars, picked>>

Disturb == Kernel(Busy) /\ UNCHANGED <<mapVars, cw, localVars, picked>>

Walk == Screen \/ Check \/ Round \/ Commit

Next ==
    \/ Call
    \/ Walk
    \/ Disturb
    \/ \E i \in Sub : SetWeight(i) \/ Evict(i)

Spec == Init /\ [][Next]_vars

FairSpec == Spec /\ WF_vars(Call) /\ WF_vars(Walk)

-----------------------------------------------------------------------------
Contract == INSTANCE SendContract WITH busy <- Busy, stored <- TRUE

(* Every call keeps the contract of SendContract: the winner was usable    *)
(* under the call, a backup one only if every non-backup one was seen      *)
(* inactive, and an undisturbed call refuses only when the policy leaves   *)
(* nothing to send on.                                                     *)
KeepsContract == Contract!ContractSpec

(* "A turn is only spent when it is used" (comment, lines 186-199): a call *)
(* that returns -1, at whichever walk it gives up, has bumped and debited  *)
(* nobody.                                                                 *)
TurnSpentOnlyOnSend ==
    [][Busy /\ ~Busy' /\ picked' = NoSub => totalWeight = 0 /\ UNCHANGED cw]_vars

(* The sum of f over the subflows of A, counted unit by unit: what is held *)
(* less what is owed.                                                      *)
Units(f, A) == UNION {{i} \X (1..f[i]) : i \in A}
Total(f, A) == Cardinality(Units(f, A)) - Cardinality(Units([i \in A |-> -f[i]], A))

(* What the subflows hold beyond what the round under way has given them.  *)
Balance == Total(cw, Sub) - totalWeight

(* Debits match bumps at every step of a round, whatever buffers, weights  *)
(* and candidates do under it: only the LRU map makes credit or loses it,  *)
(* when it drops an entry and when a winner whose entry it has dropped in  *)
(* the round is debited from what the walk had read.                       *)
CreditKept ==
    [][\/ Balance' = Balance
       \/ \E i \in Evictable : Evict(i)
       \/ pc = "commit" /\ cw[best] = 0 /\ Balance' = Balance + bestCw]_vars

(* So while the map drops nothing, the current weights add up to what has  *)
(* been bumped, and to zero outside a call.                                *)
CreditConserved == Total(cw, Sub) = totalWeight

(* No current weight runs away, however the candidates and the weights     *)
(* change from round to round and whatever the LRU map drops: nobody is    *)
(* ever owed, or owes, more than so many rounds' worth (more of them if    *)
(* entries can be dropped), and the __s32 is never near its end.           *)
Span == IF Evictable = {} THEN N ELSE 2 * N
Drift == (Span - 1) * N * MaxWeight
CwBounded == ~Busy => \A i \in Sub : cw[i] \in -Drift..Drift

(* A subflow that is a candidate of every round wins rounds for ever: the  *)
(* others coming and going, changes of weights, buffers that fill and the  *)
(* credit others lose to the LRU map do not starve it.  (Losing its own    *)
(* entry again and again could.)                                           *)
NoStarvation ==
    \A i \in Sub \ Evictable : <>[](Usable(i) /\ ~bkup[i]) => []<>(picked = i)

-----------------------------------------------------------------------------
(* The inductive invariant behind KeepsContract and TurnSpentOnlyOnSend.   *)

(* What has been seen includes what is so now. *)
SeenIsCurrent ==
    Busy => /\ \A i \in Sub : Usable(i) => i \in usableSeen
            /\ \A i \in Sub : ~bkup[i] => i \in primarySeen
            /\ \A i \in Sub : ~ActivePrimary(i) => i \in idleSeen

(* The locals are fresh until the second walk begins. *)
RoundIsFresh ==
    /\ pc = "idle" => ~hasBackup
    /\ pc \notin {"round", "commit"} =>
        best = NoSub /\ totalWeight = 0 /\ ~useBackup

(* The check walk has seen every subflow before pos idle; a round among    *)
(* the backups has seen them all idle.                                     *)
BackupsJustified ==
    /\ pc = "check" => \A i \in Sub : i < pos => i \in idleSeen
    /\ useBackup => idleSeen = Sub

(* The winner so far was a permitted candidate when visited, still has     *)
(* memory, and whoever was bumped left a winner.                           *)
WinnerPermitted ==
    /\ best # NoSub =>
        /\ best \in usableSeen
        /\ useBackup \/ best \in primarySeen
        /\ free[best]
    /\ best = NoSub => totalWeight = 0

(* What the walks have established, so long as nothing changed under them. *)
QuietScreen ==
    /\ pc = "screen" =>
        /\ \A i \in Sub : i < pos => ~(Usable(i) /\ ~bkup[i])
        /\ ~hasBackup => \A i \in Sub : i < pos => ~Usable(i)
        /\ hasBackup => \E i \in Sub : Usable(i) /\ bkup[i]
    /\ pc = "check" =>
        /\ \A i \in Sub : ~(Usable(i) /\ ~bkup[i])
        /\ \E i \in Sub : Usable(i) /\ bkup[i]

QuietRound ==
    /\ pc = "round" => best # NoSub \/ \E i \in Sub : i >= pos /\ InRound(i)
    /\ pc = "commit" => best # NoSub

IInv ==
    /\ TypeOK
    /\ SeenIsCurrent
    /\ RoundIsFresh
    /\ BackupsJustified
    /\ WinnerPermitted
    /\ changes = 0 => QuietScreen /\ QuietRound

(* The inductive invariant behind CreditConserved and CwBounded.  gain is  *)
(* what the round under way has bumped each subflow by, kept its current   *)
(* weight had the map dropped nothing bumped in this round: the round goes *)
(* on with the values it has read.  Without the gains, any k subflows      *)
(* together hold or owe at most k (Span - k) times the most a round can    *)
(* hand out.                                                               *)
Ceiling(k) == (k * (Span - k)) * (N * MaxWeight)

GainOfRound(gain, kept) ==
    /\ Total(gain, Sub) = totalWeight
    /\ \A i \in Sub : gain[i] > 0 => best # NoSub /\ kept[i] <= bestCw
    /\ best # NoSub => gain[best] > 0 /\ kept[best] = bestCw
    /\ pc # "commit" => \A i \in Sub : i >= pos => gain[i] = 0

Dropped(gain, i) == gain[i] > 0 /\ cw[i] = 0 /\ Evictable # {}

NoGroupAhead(gain, kept) ==
    \A A \in SUBSET Sub :
        Total(kept, A) - Total(gain, A) \in -Ceiling(Cardinality(A))..Ceiling(Cardinality(A))

CreditInv ==
    \E gain \in [Sub -> 0..MaxWeight], kept \in [Sub -> Int] :
        /\ GainOfRound(gain, kept)
        /\ \A i \in Sub : cw[i] = kept[i] \/ Dropped(gain, i)
        /\ NoGroupAhead(gain, kept)
=============================================================================
