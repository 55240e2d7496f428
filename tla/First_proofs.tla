---------------------------- MODULE First_proofs ----------------------------
(***************************************************************************)
(* Proofs about First for any number of subflows and any number of kernel  *)
(* changes under a call.                                                   *)
(***************************************************************************)
EXTENDS First, TLAPS

(* Every walk starts at a subflow. *)
LEMMA Bounds == 1 \in Sub /\ 0 \in 0..MaxChanges
BY SubflowsAssumption DEF Sub

(* What the kernel may do to the subflows keeps their types; during a call *)
(* it only adds to what has been seen, and frees memory without taking any.*)
LEMMA KernelStep ==
    ASSUME SubflowsTypeOK, NEW busy \in BOOLEAN, Kernel(busy)
    PROVE  /\ SubflowsTypeOK'
           /\ busy => /\ usableSeen' = usableSeen \union {i \in Sub : Usable(i)'}
                      /\ primarySeen' = primarySeen \union {i \in Sub : ~bkup'[i]}
                      /\ idleSeen' = idleSeen \union {i \in Sub : ~ActivePrimary(i)'}
                      /\ changes' = changes + 1
                      /\ \A i \in Sub : free[i] => free'[i]
           /\ ~busy => UNCHANGED seenVars
<1>1. /\ path' \in [Sub -> {"down", "stale", "up"}]
      /\ bkup' \in [Sub -> BOOLEAN]
      /\ free' \in [Sub -> BOOLEAN]
      /\ busy => \A i \in Sub : free[i] => free'[i]
  BY DEF Kernel, SubflowsTypeOK, Close, Establish, ToggleStale, TogglePriority, Fill, Drain
<1>2. /\ usableSeen' \subseteq Sub /\ primarySeen' \subseteq Sub /\ idleSeen' \subseteq Sub
      /\ changes' \in 0..MaxChanges
  BY SubflowsAssumption DEF Kernel, ExtendSeen, SubflowsTypeOK, seenVars
<1>3. QED
  BY <1>1, <1>2 DEF Kernel, ExtendSeen, SubflowsTypeOK

(* A walk that is not at the end has a next subflow; at the end, or at a   *)
(* limit no list is longer than, all the others are before it.             *)
LEMMA Positions ==
    ASSUME pos \in Sub
    PROVE  /\ ~AtEnd => pos + 1 \in Sub
           /\ \A i \in Sub : i < pos + 1 <=> i < pos \/ i = pos
           /\ AtEnd => \A i \in Sub : i < pos \/ i = pos
           /\ N <= MAX_SUBFLOWS /\ AtLimit => AtEnd
BY SubflowsAssumption, FirstAssumption DEF Sub, AtEnd, AtLimit

(* The return of get_send: no call is under way. *)
LEMMA ReturnInv ==
    ASSUME TypeOK, NEW i \in Sub \union {NoSub}, Return(i), first' = first
    PROVE  IInv'
<1>1. SubflowsTypeOK'
  BY Bounds DEF Return, EndSeen, TypeOK, SubflowsTypeOK, subflowVars
<1>2. pc' = "idle" /\ pos' = 1
  BY DEF Return
<1>3. TypeOK'
  BY <1>1, <1>2, Bounds DEF Return, TypeOK
<1>4. QED
  BY <1>2, <1>3 DEF IInv, SeenIsCurrent, WalkJustified, QuietWalk, Busy

(* A visit that does not end the call, and leads to a walk at a subflow of *)
(* the list, leaves the connection and what is seen of it as they were.    *)
LEMMA StayInv ==
    ASSUME IInv, Busy, UNCHANGED <<envVars, first, picked>>, pos' \in Sub,
           pc' \in {"primary", "check", "any"}
    PROVE  /\ TypeOK' /\ SeenIsCurrent' /\ Busy'
           /\ HasActivePrimary' <=> HasActivePrimary
           /\ \A i \in Sub : /\ Usable(i)' <=> Usable(i)
                             /\ Prefers(i)' <=> Prefers(i)
                             /\ ActivePrimary(i)' <=> ActivePrimary(i)
<1>1. TypeOK'
  BY DEF IInv, TypeOK, SubflowsTypeOK, envVars
<1>2. SeenIsCurrent' /\ Busy'
  BY DEF IInv, SeenIsCurrent, envVars, Usable, ActivePrimary, Active, Busy
<1>3. QED
  BY <1>1, <1>2
     DEF envVars, Usable, Prefers, ActivePrimary, Active, HasActivePrimary

-----------------------------------------------------------------------------
(* Nothing has been seen before the first call. *)
LEMMA InvInit == Init => IInv
<1> SUFFICES ASSUME Init PROVE IInv
  OBVIOUS
<1>1. SubflowsTypeOK
  BY Bounds, SubflowsAssumption DEF Init, SubflowsInit, SubflowsTypeOK
<1>2. QED
  BY <1>1, Bounds
     DEF Init, TypeOK, IInv, SeenIsCurrent, WalkJustified, QuietWalk, Busy

(* A call starts with what it sees now. *)
LEMMA CallInv == IInv /\ Call => IInv'
<1> SUFFICES ASSUME IInv, Call PROVE IInv'
  OBVIOUS
<1>1. SubflowsTypeOK'
  BY Bounds DEF Call, BeginSeen, subflowVars, IInv, TypeOK, SubflowsTypeOK
<1>2. TypeOK'
  BY <1>1 DEF Call, IInv, TypeOK
<1>3. SeenIsCurrent'
  BY DEF Call, BeginSeen, subflowVars, SeenIsCurrent, Usable, ActivePrimary, Active
<1>4. WalkJustified' /\ QuietWalk'
  BY DEF Call, IInv, WalkJustified, QuietWalk
<1>5. QED
  BY <1>2, <1>3, <1>4 DEF IInv

(* msk->first is taken, or the first walk begins. *)
LEMMA TryFirstInv == IInv /\ TryFirst => IInv'
<1> SUFFICES ASSUME IInv, TryFirst PROVE IInv'
  OBVIOUS
<1>1. TypeOK /\ Busy /\ first' = first
  BY DEF IInv, TryFirst, Busy
<1>2. CASE first # NoSub /\ Return(first)
  BY <1>1, <1>2, ReturnInv DEF TypeOK
<1>3. CASE Enter("primary")
  <2>1. TypeOK' /\ SeenIsCurrent'
    BY <1>1, <1>3, StayInv, Bounds DEF Enter
  <2>2. WalkJustified' /\ QuietWalk'
    BY <1>3 DEF Enter, WalkJustified, QuietWalk, Sub
  <2>3. QED
    BY <2>1, <2>2 DEF IInv
<1>4. QED
  BY <1>2, <1>3 DEF TryFirst

(* The walk over the non-backup subflows. *)
LEMMA PrimaryInv == IInv /\ Primary => IInv'
<1> SUFFICES ASSUME IInv, Primary PROVE IInv'
  OBVIOUS
<1>1. TypeOK /\ pos \in Sub /\ Busy /\ pc = "primary" /\ first' = first
  BY DEF IInv, TypeOK, Primary, Busy
<1>2. CASE Return(pos)
  BY <1>1, <1>2, ReturnInv
<1>3. ASSUME N <= MAX_SUBFLOWS, changes = 0, ~Prefers(pos), NEW i \in Sub, i < pos \/ i = pos
      PROVE  ~Prefers(i)
  BY <1>1, <1>3 DEF IInv, QuietWalk
<1>4. CASE ~Prefers(pos) /\ AtLimit /\ Enter("check")
  <2>1. /\ TypeOK' /\ SeenIsCurrent'
        /\ \A i \in Sub : Prefers(i)' <=> Prefers(i)
    BY <1>1, <1>4, StayInv, Bounds DEF Enter
  <2>2. \A i \in Sub : ~(i < pos')
    BY <1>4 DEF Enter, Sub
  <2>3. WalkJustified'
    BY <1>4, <2>2 DEF Enter, WalkJustified
  <2>4. N <= MAX_SUBFLOWS /\ changes' = 0 => QuietWalk'
    BY <1>1, <1>3, <1>4, <2>1, <2>2, Positions DEF Enter, envVars, QuietWalk
  <2>5. QED
    BY <2>1, <2>3, <2>4 DEF IInv
<1>5. CASE ~Prefers(pos) /\ ~AtLimit /\ Advance
  <2>1. pos' \in Sub
    BY <1>1, <1>5, Positions DEF Advance, AtLimit
  <2>2. /\ TypeOK' /\ SeenIsCurrent'
        /\ \A i \in Sub : Prefers(i)' <=> Prefers(i)
    BY <1>1, <1>5, <2>1, StayInv DEF Advance
  <2>3. WalkJustified'
    BY <1>1, <1>5 DEF Advance, WalkJustified
  <2>4. N <= MAX_SUBFLOWS /\ changes' = 0 => QuietWalk'
    BY <1>1, <1>3, <1>5, <2>2, Positions DEF Advance, envVars, QuietWalk
  <2>5. QED
    BY <2>2, <2>3, <2>4 DEF IInv
<1>6. QED
  BY <1>2, <1>4, <1>5 DEF Primary

(* has_active_nonbackup() sees each subflow idle before it says so. *)
LEMMA CheckInv == IInv /\ Check => IInv'
<1> SUFFICES ASSUME IInv, Check PROVE IInv'
  OBVIOUS
<1>1. TypeOK /\ pos \in Sub /\ Busy /\ pc = "check" /\ first' = first
  BY DEF IInv, TypeOK, Check, Busy
<1>2. CASE Return(NoSub)
  BY <1>1, <1>2, ReturnInv
<1>3. ASSUME ~ActivePrimary(pos), NEW i \in Sub, i < pos \/ i = pos
      PROVE  i \in idleSeen
  BY <1>1, <1>3 DEF IInv, SeenIsCurrent, WalkJustified
<1>4. CASE ~ActivePrimary(pos) /\ AtEnd /\ Enter("any")
  <2>1. TypeOK' /\ SeenIsCurrent' /\ (HasActivePrimary' <=> HasActivePrimary)
    BY <1>1, <1>4, StayInv, Bounds DEF Enter
  <2>2. \A i \in Sub : i < pos \/ i = pos
    BY <1>1, <1>4, Positions
  <2>3. WalkJustified'
    BY <1>1, <1>3, <1>4, <2>2 DEF Enter, envVars, WalkJustified, TypeOK, SubflowsTypeOK
  <2>4. ASSUME N <= MAX_SUBFLOWS, changes' = 0 PROVE QuietWalk'
    <3>1. ~HasActivePrimary
      BY <1>1, <1>4, <2>2, <2>4 DEF Enter, envVars, IInv, QuietWalk, HasActivePrimary
    <3>2. QED
      BY <1>4, <2>1, <3>1 DEF Enter, QuietWalk, Sub
  <2>5. QED
    BY <2>1, <2>3, <2>4 DEF IInv
<1>5. CASE ~ActivePrimary(pos) /\ ~AtEnd /\ Advance
  <2>1. pos' \in Sub
    BY <1>1, <1>5, Positions DEF Advance
  <2>2. /\ TypeOK' /\ SeenIsCurrent'
        /\ \A i \in Sub : /\ Prefers(i)' <=> Prefers(i)
                          /\ ActivePrimary(i)' <=> ActivePrimary(i)
    BY <1>1, <1>5, <2>1, StayInv DEF Advance
  <2>3. WalkJustified'
    BY <1>1, <1>3, <1>5, Positions DEF Advance, envVars, WalkJustified
  <2>4. N <= MAX_SUBFLOWS /\ changes' = 0 => QuietWalk'
    BY <1>1, <1>5, <2>2, Positions DEF Advance, envVars, IInv, QuietWalk
  <2>5. QED
    BY <2>2, <2>3, <2>4 DEF IInv
<1>6. QED
  BY <1>2, <1>4, <1>5 DEF Check

(* The walk over whatever is left. *)
LEMMA AnyRoleInv == IInv /\ AnyRole => IInv'
<1> SUFFICES ASSUME IInv, AnyRole PROVE IInv'
  OBVIOUS
<1>1. TypeOK /\ pos \in Sub /\ Busy /\ pc = "any" /\ first' = first
  BY DEF IInv, TypeOK, AnyRole, Busy
<1>2. CASE Return(pos) \/ Return(NoSub)
  BY <1>1, <1>2, ReturnInv
<1>3. CASE ~Usable(pos) /\ ~AtLimit /\ Advance
  <2>1. pos' \in Sub
    BY <1>1, <1>3, Positions DEF Advance, AtLimit
  <2>2. /\ TypeOK' /\ SeenIsCurrent' /\ (HasActivePrimary' <=> HasActivePrimary)
        /\ \A i \in Sub : Usable(i)' <=> Usable(i)
    BY <1>1, <1>3, <2>1, StayInv DEF Advance
  <2>3. WalkJustified'
    BY <1>1, <1>3 DEF Advance, envVars, IInv, WalkJustified
  <2>4. N <= MAX_SUBFLOWS /\ changes' = 0 => QuietWalk'
    BY <1>1, <1>3, <2>2, Positions DEF Advance, envVars, IInv, QuietWalk
  <2>5. QED
    BY <2>2, <2>3, <2>4 DEF IInv
<1>4. QED
  BY <1>2, <1>3 DEF AnyRole

(* The kernel adds to what has been seen, and ends a call's quiet. *)
LEMMA DisturbInv == IInv /\ Disturb => IInv'
<1> SUFFICES ASSUME IInv, Disturb PROVE IInv'
  OBVIOUS
<1>1. Kernel(Busy) /\ UNCHANGED <<first, pc, pos, picked>> /\ Busy \in BOOLEAN
  BY DEF Disturb, localVars, Busy
<1>2. TypeOK /\ SubflowsTypeOK
  BY DEF IInv, TypeOK
<1>3. TypeOK' /\ Busy' = Busy
  BY <1>1, <1>2, KernelStep DEF TypeOK, Busy
<1>4. CASE ~Busy
  BY <1>1, <1>3, <1>4 DEF IInv, SeenIsCurrent, WalkJustified, QuietWalk, Busy
<1>5. CASE Busy
  <2>1. /\ usableSeen' = usableSeen \union {i \in Sub : Usable(i)'}
        /\ primarySeen' = primarySeen \union {i \in Sub : ~bkup'[i]}
        /\ idleSeen' = idleSeen \union {i \in Sub : ~ActivePrimary(i)'}
        /\ changes' = changes + 1
    BY <1>1, <1>2, <1>5, KernelStep
  <2>2. SeenIsCurrent'
    BY <2>1 DEF SeenIsCurrent
  <2>3. idleSeen' \subseteq Sub
    BY <1>3 DEF TypeOK, SubflowsTypeOK
  <2>4. WalkJustified'
    BY <1>1, <2>1, <2>3 DEF IInv, WalkJustified
  <2>5. changes' # 0
    BY <1>2, <2>1, SubflowsAssumption DEF SubflowsTypeOK
  <2>6. QED
    BY <1>3, <2>2, <2>4, <2>5 DEF IInv
<1>6. QED
  BY <1>4, <1>5

(* IInv is inductive. *)
LEMMA InvStep == IInv /\ [Next]_vars => IInv'
<1> SUFFICES ASSUME IInv, [Next]_vars PROVE IInv'
  OBVIOUS
<1>1. CASE UNCHANGED vars
  BY <1>1 DEF vars, envVars, IInv, TypeOK, SubflowsTypeOK, SeenIsCurrent, WalkJustified,
              QuietWalk, Busy, Usable, Prefers, ActivePrimary, HasActivePrimary, Active
<1>2. CASE FirstLeaves
  BY <1>2 DEF FirstLeaves, envVars, localVars, IInv, TypeOK, SubflowsTypeOK, SeenIsCurrent,
              WalkJustified, QuietWalk, Busy
<1>3. QED
  BY <1>1, <1>2, CallInv, TryFirstInv, PrimaryInv, CheckInv, AnyRoleInv, DisturbInv
     DEF Next, Walk

(* The inductive invariant holds of every behaviour. *)
THEOREM Invariance == Spec => []IInv
BY InvInit, InvStep, PTL DEF Spec

(* TypeOK is an invariant of bpf_first: no walk leaves the list. *)
THEOREM TypeCorrect == Spec => []TypeOK
<1>1. IInv => TypeOK
  BY DEF IInv
<1>2. QED
  BY <1>1, Invariance, PTL

-----------------------------------------------------------------------------
(* The refinement.                                                         *)

(* Scheduling a subflow seen usable, and seen in a role the call may use.  *)
LEMMA ScheduleStep ==
    ASSUME Busy, NEW i \in Sub, Return(i), i \in usableSeen, i \in primarySeen \/ idleSeen = Sub
    PROVE  Contract!ContractNext
<1>1. Contract!Schedule(i)
  BY DEF Busy, Return, Contract!Schedule, Contract!End, Contract!Permitted, Contract!EndSeen, EndSeen,
         subflowVars, Contract!subflowVars, Contract!Sub, Sub
<1>2. QED
  BY <1>1 DEF Contract!ContractNext, Contract!Sub, Sub

(* Refusing, when an undisturbed call has nothing to send on. *)
LEMMA RefuseStep ==
    ASSUME Busy, Return(NoSub),
           changes = 0 => /\ \A i \in Sub : ~Prefers(i)
                          /\ HasActivePrimary \/ \A i \in Sub : ~Usable(i)
    PROVE  Contract!ContractNext
<1>1. changes = 0 => Contract!NothingToSendOn
  BY DEF Contract!NothingToSendOn, Contract!Usable, Usable, Prefers, Contract!Sub, Sub,
         Contract!HasActivePrimary, HasActivePrimary, Contract!ActivePrimary,
         ActivePrimary, Contract!Active, Active
<1>2. Contract!Refuse
  BY <1>1
     DEF Busy, Return, Contract!Refuse, Contract!End, Contract!EndSeen, EndSeen, subflowVars,
         Contract!subflowVars, Contract!NoSub, NoSub
<1>3. QED
  BY <1>2 DEF Contract!ContractNext

(* The four walks: each return is one the contract allows, and the visits  *)
(* before it change nothing the contract knows of.                         *)
LEMMA WalkStep ==
    ASSUME N <= MAX_SUBFLOWS, IInv, Walk
    PROVE  [Contract!ContractNext]_(Contract!contractVars)
<1>1. TypeOK /\ SeenIsCurrent /\ WalkJustified /\ Busy /\ pos \in Sub
  BY DEF IInv, TypeOK, Walk, TryFirst, Primary, Check, AnyRole, Busy
<1>2. ASSUME NEW i \in Sub, Prefers(i), Return(i) PROVE Contract!ContractNext
  BY <1>1, <1>2, ScheduleStep DEF SeenIsCurrent, Prefers
<1>3. ASSUME UNCHANGED <<envVars, picked>>, pc' \in {"primary", "check", "any"}
      PROVE  UNCHANGED Contract!contractVars
  BY <1>1, <1>3 DEF Contract!contractVars, Contract!envVars, envVars, Busy
<1>4. CASE TryFirst
  BY <1>1, <1>2, <1>3, <1>4 DEF TryFirst, Enter, TypeOK
<1>5. CASE Primary
  BY <1>1, <1>2, <1>3, <1>5 DEF Primary, Enter, Advance
<1>6. CASE Check
  <2>1. CASE ActivePrimary(pos) /\ Return(NoSub)
    <3>1. changes = 0 => /\ \A i \in Sub : ~Prefers(i)
                         /\ HasActivePrimary \/ \A i \in Sub : ~Usable(i)
      BY <1>1, <1>6, <2>1 DEF IInv, QuietWalk, Check, HasActivePrimary
    <3>2. QED
      BY <1>1, <2>1, <3>1, RefuseStep
  <2>2. QED
    BY <1>3, <1>6, <2>1 DEF Check, Enter, Advance
<1>7. CASE AnyRole
  <2>1. CASE Usable(pos) /\ Return(pos)
    BY <1>1, <1>7, <2>1, ScheduleStep DEF SeenIsCurrent, WalkJustified, AnyRole
  <2>2. CASE ~Usable(pos) /\ AtLimit /\ Return(NoSub)
    <3>1. \A i \in Sub : i < pos \/ i = pos
      BY <1>1, <2>2, Positions
    <3>2. changes = 0 => \A i \in Sub : ~Usable(i)
      BY <1>7, <2>2, <3>1 DEF IInv, QuietWalk, AnyRole
    <3>3. QED
      BY <1>1, <2>2, <3>2, RefuseStep DEF Prefers
  <2>3. QED
    BY <1>3, <1>7, <2>1, <2>2 DEF AnyRole, Advance
<1>8. QED
  BY <1>4, <1>5, <1>6, <1>7 DEF Walk

(* Every step of get_send and of the kernel is a step of the contract or   *)
(* none of its business.                                                   *)
LEMMA ContractStep ==
    ASSUME N <= MAX_SUBFLOWS
    PROVE  IInv /\ [Next]_vars => [Contract!ContractNext]_(Contract!contractVars)
<1> SUFFICES ASSUME IInv, [Next]_vars
             PROVE  [Contract!ContractNext]_(Contract!contractVars)
  OBVIOUS
<1>1. CASE Call
  BY <1>1
     DEF Call, Contract!ContractNext, Contract!Begin, BeginSeen, Contract!BeginSeen,
         Busy, subflowVars, Contract!subflowVars, Sub, Contract!Sub, Usable,
         Contract!Usable, ActivePrimary, Contract!ActivePrimary, Active, Contract!Active
<1>2. CASE Disturb
  <2>1. ExtendSeen(Busy) => Contract!ExtendSeen(Busy)
    BY DEF ExtendSeen, Contract!ExtendSeen, seenVars, Contract!seenVars,
           Usable, Contract!Usable, ActivePrimary, Contract!ActivePrimary,
           Active, Contract!Active, Sub, Contract!Sub
  <2>2. Contract!Kernel(Busy)
    BY <1>2, <2>1
       DEF Disturb, Kernel, Contract!Kernel, Close, Contract!Close, Establish,
           Contract!Establish, ToggleStale, Contract!ToggleStale, TogglePriority,
           Contract!TogglePriority, Fill, Contract!Fill, Drain, Contract!Drain,
           Active, Contract!Active, Sub, Contract!Sub
  <2>3. QED
    BY <1>2, <2>2 DEF Disturb, localVars, Contract!Disturb, Contract!ContractNext, Busy
<1>3. CASE FirstLeaves \/ UNCHANGED vars
  BY <1>3 DEF FirstLeaves, localVars, vars, envVars, Contract!contractVars,
              Contract!envVars, Busy
<1>4. QED
  BY <1>1, <1>2, <1>3, WalkStep DEF Next

(* The first state is one of the contract's. *)
LEMMA ContractInitially == Init => Contract!ContractInit
BY DEF Init, Contract!ContractInit, SubflowsInit, Contract!SubflowsInit, Busy,
       Contract!NoSub, NoSub, Contract!Sub, Sub

(* bpf_first implements the contract on every list its scheduling walks    *)
(* can cover, whatever the kernel does between two walks of a call.  The   *)
(* hypothesis is needed: of a longer list the walks leave the tail out,    *)
(* has_active_nonbackup() does not, and a call with something to send on   *)
(* may refuse.                                                             *)
THEOREM ContractKept ==
    ASSUME N <= MAX_SUBFLOWS
    PROVE  Spec => KeepsContract
<1>1. IInv /\ [Next]_vars => [Contract!ContractNext]_(Contract!contractVars)
  BY ContractStep
<1>2. QED
  BY <1>1, Invariance, ContractInitially, PTL
     DEF Spec, KeepsContract, Contract!ContractSpec
=============================================================================
