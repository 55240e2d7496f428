---------------------------- MODULE Bkup_proofs ----------------------------
(***************************************************************************)
(* Proofs about Bkup for any number of subflows and any number of kernel   *)
(* changes under a call.                                                   *)
(***************************************************************************)
EXTENDS Bkup, TLAPS

(* Every walk starts at a subflow. *)
LEMMA Bounds == 1 \in Sub /\ 0 \in 0..MaxChanges
BY SubflowsAssumption DEF Sub

(* What the kernel may do to the subflows keeps their types; during a call *)
(* it only adds to what has been seen, and frees memory without taking any.*)
LEMMA KernelStep ==
    ASSUME SubflowsTypeOK, NEW busy \in BOOLEAN, Kernel(busy)
    PROVE  /\ SubflowsTypeOK'
           /\ busy => /\ usableSeen' = usableSeen \union {i \in Sub : Usable(i)'}
                      /\ primarySeen' = primarySeen \union {i \in Sub : ~bkup'[i]}
                      /\ idleSeen' = idleSeen \union {i \in Sub : ~ActivePrimary(i)'}
                      /\ changes' = changes + 1
                      /\ \A i \in Sub : free[i] => free'[i]
           /\ ~busy => UNCHANGED seenVars
<1>1. /\ path' \in [Sub -> {"down", "stale", "up"}]
      /\ bkup' \in [Sub -> BOOLEAN]
      /\ free' \in [Sub -> BOOLEAN]
      /\ busy => \A i \in Sub : free[i] => free'[i]
  BY DEF Kernel, SubflowsTypeOK, Close, Establish, ToggleStale, TogglePriority, Fill, Drain
<1>2. /\ usableSeen' \subseteq Sub /\ primarySeen' \subseteq Sub /\ idleSeen' \subseteq Sub
      /\ changes' \in 0..MaxChanges
  BY SubflowsAssumption DEF Kernel, ExtendSeen, SubflowsTypeOK, seenVars
<1>3. QED
  BY <1>1, <1>2 DEF Kernel, ExtendSeen, SubflowsTypeOK

(* The kernel never marks a subflow stale here. *)
LEMMA NeverStale ==
    ASSUME TypeOK, NEW busy \in BOOLEAN, Kernel(busy)
    PROVE  path' \in [Sub -> PathStates \union {"up"}]
BY BkupAssumption
   DEF TypeOK, Kernel, Close, Establish, ToggleStale, TogglePriority, Fill, Drain

(* So being usable is what the walk asks for: active, with room. *)
LEMMA UsableMeansRoom ==
    ASSUME TypeOK, NEW i \in Sub
    PROVE  Usable(i) <=> Active(i) /\ free[i]
BY BkupAssumption DEF TypeOK, SubflowsTypeOK, Usable, Active

(* A walk that is not at the end has a next subflow, and at the end all    *)
(* the others are before it.                                               *)
LEMMA Positions ==
    ASSUME pos \in Sub
    PROVE  /\ ~AtEnd => pos + 1 \in Sub /\ \A i \in Sub : i < pos + 1 => i < pos \/ i = pos
           /\ AtEnd => \A i \in Sub : i < pos \/ i = pos
BY SubflowsAssumption DEF Sub, AtEnd

(* The return of get_send: no call is under way. *)
LEMMA ReturnInv ==
    ASSUME TypeOK, NEW i \in Sub \union {NoSub}, Return(i)
    PROVE  IInv'
<1>1. SubflowsTypeOK'
  BY Bounds DEF Return, EndSeen, TypeOK, SubflowsTypeOK, subflowVars
<1>2. hasActive' = FALSE /\ backup' = NoSub /\ pos' = 1 /\ pc' = "idle"
  BY DEF Return
<1>3. path' \in [Sub -> PathStates \union {"up"}]
  BY DEF Return, TypeOK, subflowVars
<1>4. TypeOK'
  BY <1>1, <1>2, <1>3, Bounds DEF Return, TypeOK
<1>5. QED
  BY <1>2, <1>4 DEF IInv, SeenIsCurrent, WalkJustified, QuietWalk, Busy

-----------------------------------------------------------------------------
(* Nothing has been seen before the first call. *)
LEMMA InvInit == Init => IInv
<1> SUFFICES ASSUME Init PROVE IInv
  OBVIOUS
<1>1. SubflowsTypeOK /\ path \in [Sub -> PathStates \union {"up"}]
  BY Bounds, SubflowsAssumption DEF Init, SubflowsInit, SubflowsTypeOK
<1>2. hasActive = FALSE /\ backup = NoSub /\ pc = "idle" /\ pos = 1
  BY DEF Init
<1>3. TypeOK
  BY <1>1, <1>2, Bounds DEF Init, TypeOK
<1>4. QED
  BY <1>2, <1>3 DEF IInv, SeenIsCurrent, WalkJustified, QuietWalk, Busy

(* A call starts with what it sees now. *)
LEMMA CallInv == IInv /\ Call => IInv'
<1> SUFFICES ASSUME IInv, Call PROVE IInv'
  OBVIOUS
<1>1. pc = "idle" /\ pc' = "walk" /\ ~Busy /\ Busy'
  BY DEF Call, Busy
<1>2. hasActive' = FALSE /\ backup' = NoSub /\ pos' = 1
  BY <1>1 DEF Call, IInv, WalkJustified, TypeOK
<1>3. SubflowsTypeOK' /\ path' \in [Sub -> PathStates \union {"up"}]
  BY Bounds DEF Call, BeginSeen, subflowVars, IInv, TypeOK, SubflowsTypeOK
<1>4. TypeOK'
  BY <1>1, <1>2, <1>3, Bounds DEF Call, IInv, TypeOK
<1>5. SeenIsCurrent'
  BY DEF Call, BeginSeen, subflowVars, SeenIsCurrent, Usable, ActivePrimary, Active
<1>6. \A i \in Sub : ~(i < pos')
  BY <1>2, SubflowsAssumption DEF Sub
<1>7. WalkJustified' /\ QuietWalk'
  BY <1>1, <1>2, <1>6 DEF WalkJustified, QuietWalk
<1>8. QED
  BY <1>4, <1>5, <1>7 DEF IInv

(* A visit passes one more subflow, or ends the call. *)
LEMMA VisitInv == IInv /\ Visit => IInv'
<1> SUFFICES ASSUME IInv, Visit PROVE IInv'
  OBVIOUS
<1> DEFINE found == ~bkup[pos] /\ Active(pos) /\ free[pos]
           active == hasActive \/ Waits(pos)
           spare == IF backup = NoSub /\ Spare(pos) THEN pos ELSE backup
<1>1. TypeOK /\ pos \in Sub /\ Busy /\ pc = "walk"
  BY DEF IInv, TypeOK, Visit, Busy
<1>2. spare \in Sub \union {NoSub} /\ active \in BOOLEAN
  BY <1>1 DEF TypeOK
<1>3. CASE found /\ Return(pos)
  BY <1>1, <1>3, ReturnInv
<1>4. CASE ~found /\ AtEnd /\ Return(IF active THEN NoSub ELSE spare)
  BY <1>1, <1>2, <1>4, ReturnInv
<1>5. CASE /\ ~found /\ ~AtEnd
           /\ pos' = pos + 1 /\ hasActive' = active /\ backup' = spare
           /\ UNCHANGED <<envVars, pc, picked>>
  <2>1. SubflowsTypeOK' /\ path' \in [Sub -> PathStates \union {"up"}]
    BY <1>1, <1>5 DEF envVars, TypeOK, SubflowsTypeOK
  <2>2. TypeOK'
    BY <1>1, <1>2, <1>5, <2>1, Positions DEF TypeOK
  <2>3. Busy'
    BY <1>1, <1>5 DEF Busy
  <2>4. SeenIsCurrent'
    BY <1>1, <1>5 DEF IInv, SeenIsCurrent, envVars, Usable, ActivePrimary, Active
  <2>5. \A i \in Sub : i < pos' => i < pos \/ i = pos
    BY <1>1, <1>5, Positions
  <2>6. WalkJustified'
    <3>1. ASSUME ~active, NEW i \in Sub, i < pos' PROVE i \in idleSeen
      BY <1>1, <2>5, <3>1 DEF IInv, WalkJustified, SeenIsCurrent, Waits
    <3>2. ASSUME spare # NoSub PROVE spare \in usableSeen
      BY <1>1, <3>2, UsableMeansRoom DEF IInv, WalkJustified, SeenIsCurrent, Spare
    <3>3. QED
      BY <1>5, <2>3, <3>1, <3>2 DEF WalkJustified, envVars
  <2>7. ASSUME changes' = 0 PROVE QuietWalk'
    <3>1. changes = 0 /\ QuietWalk
      BY <1>5, <2>7 DEF IInv, envVars
    <3>2. \A i \in Sub : i < pos' => ~(Usable(i) /\ ~bkup[i])
      BY <1>1, <1>5, <2>5, <3>1, UsableMeansRoom DEF QuietWalk
    <3>3. active => HasActivePrimary
      BY <1>1, <3>1 DEF QuietWalk, Waits, HasActivePrimary
    <3>4. ASSUME spare = NoSub, NEW i \in Sub, i < pos' PROVE ~Usable(i)
      <4>1. backup = NoSub /\ ~Spare(pos)
        BY <1>1, <3>4, SubflowsAssumption DEF Sub, NoSub
      <4>2. ~Usable(pos)
        BY <1>1, <1>5, <4>1, UsableMeansRoom DEF Spare
      <4>3. QED
        BY <1>1, <2>5, <3>1, <3>4, <4>1, <4>2 DEF QuietWalk
    <3>5. /\ \A i \in Sub : Usable(i)' <=> Usable(i)
          /\ HasActivePrimary' <=> HasActivePrimary
          /\ bkup' = bkup
      BY <1>5 DEF envVars, Usable, HasActivePrimary, ActivePrimary, Active
    <3>6. QED
      BY <1>5, <3>2, <3>3, <3>4, <3>5 DEF QuietWalk
  <2>8. QED
    BY <2>2, <2>4, <2>6, <2>7 DEF IInv
<1>6. QED
  BY <1>3, <1>4, <1>5 DEF Visit

(* The kernel adds to what has been seen, and ends a call's quiet. *)
LEMMA DisturbInv == IInv /\ Disturb => IInv'
<1> SUFFICES ASSUME IInv, Disturb PROVE IInv'
  OBVIOUS
<1>1. Kernel(Busy) /\ UNCHANGED <<pc, pos, hasActive, backup, picked>> /\ Busy \in BOOLEAN
  BY DEF Disturb, localVars, Busy
<1>2. TypeOK /\ SubflowsTypeOK
  BY DEF IInv, TypeOK
<1>3. TypeOK'
  BY <1>1, <1>2, KernelStep, NeverStale DEF TypeOK
<1>4. Busy' = Busy
  BY <1>1 DEF Busy
<1>5. CASE ~Busy
  BY <1>1, <1>3, <1>4, <1>5 DEF IInv, SeenIsCurrent, WalkJustified, QuietWalk
<1>6. CASE Busy
  <2>1. /\ usableSeen' = usableSeen \union {i \in Sub : Usable(i)'}
        /\ primarySeen' = primarySeen \union {i \in Sub : ~bkup'[i]}
        /\ idleSeen' = idleSeen \union {i \in Sub : ~ActivePrimary(i)'}
        /\ changes' = changes + 1
    BY <1>1, <1>2, <1>6, KernelStep
  <2>2. SeenIsCurrent'
    BY <2>1 DEF SeenIsCurrent
  <2>3. WalkJustified'
    BY <1>1, <1>4, <1>6, <2>1 DEF IInv, WalkJustified
  <2>4. changes' # 0
    BY <1>2, <2>1, SubflowsAssumption DEF SubflowsTypeOK
  <2>5. QED
    BY <1>3, <2>2, <2>3, <2>4 DEF IInv
<1>7. QED
  BY <1>5, <1>6

(* IInv is inductive. *)
LEMMA InvStep == IInv /\ [Next]_vars => IInv'
<1> SUFFICES ASSUME IInv, [Next]_vars PROVE IInv'
  OBVIOUS
<1>1. CASE UNCHANGED vars
  BY <1>1 DEF vars, envVars, IInv, TypeOK, SubflowsTypeOK, SeenIsCurrent, WalkJustified,
              QuietWalk, Busy, Usable, ActivePrimary, HasActivePrimary, Active
<1>2. QED
  BY <1>1, CallInv, VisitInv, DisturbInv DEF Next

(* The inductive invariant holds of every behaviour. *)
THEOREM Invariance == Spec => []IInv
BY InvInit, InvStep, PTL DEF Spec

(* TypeOK is an invariant of bpf_bkup: the walk never leaves the list. *)
THEOREM TypeCorrect == Spec => []TypeOK
<1>1. IInv => TypeOK
  BY DEF IInv
<1>2. QED
  BY <1>1, Invariance, PTL

-----------------------------------------------------------------------------
(* The refinement.                                                         *)

(* Every step of get_send and of the kernel is a step of the contract or   *)
(* none of its business.                                                   *)
LEMMA ContractStep ==
    IInv /\ [Next]_vars => [Contract!ContractNext]_(Contract!contractVars)
<1> SUFFICES ASSUME IInv, [Next]_vars
             PROVE  Contract!ContractNext \/ UNCHANGED Contract!contractVars
  OBVIOUS
<1>1. TypeOK
  BY DEF IInv
<1>2. CASE Call
  BY <1>2
     DEF Call, Contract!ContractNext, Contract!Begin, BeginSeen, Contract!BeginSeen,
         Busy, subflowVars, Contract!subflowVars, Sub, Contract!Sub, Usable,
         Contract!Usable, ActivePrimary, Contract!ActivePrimary, Active, Contract!Active
<1>3. CASE Visit
  <2> DEFINE found == ~bkup[pos] /\ Active(pos) /\ free[pos]
             active == hasActive \/ Waits(pos)
             spare == IF backup = NoSub /\ Spare(pos) THEN pos ELSE backup
  <2>1. pos \in Sub /\ Busy
    BY <1>1, <1>3 DEF TypeOK, Visit, Busy
  <2>2. ASSUME NEW i \in Sub, Return(i), i \in usableSeen, i \in primarySeen \/ idleSeen = Sub
        PROVE  Contract!ContractNext
    <3>1. Contract!Schedule(i)
      BY <2>1, <2>2
         DEF Busy, Return, Contract!Schedule, Contract!End, Contract!Permitted, Contract!EndSeen, EndSeen,
             subflowVars, Contract!subflowVars, Contract!Sub, Sub
    <3>2. QED
      BY <3>1 DEF Contract!ContractNext, Contract!Sub, Sub
  <2>3. CASE found /\ Return(pos)
    <3>1. pos \in usableSeen /\ pos \in primarySeen
      BY <1>1, <2>1, <2>3, UsableMeansRoom DEF IInv, SeenIsCurrent
    <3>2. QED
      BY <2>1, <2>2, <2>3, <3>1
  <2>4. CASE ~found /\ AtEnd /\ Return(IF active THEN NoSub ELSE spare)
    <3>1. \A i \in Sub : i < pos \/ i = pos
      BY <2>1, <2>4, Positions
    <3>2. CASE ~active /\ spare # NoSub
      <4>1. spare \in Sub /\ Return(spare)
        BY <1>1, <2>1, <2>4, <3>2 DEF TypeOK
      <4>2. spare \in usableSeen
        BY <1>1, <2>1, <3>2, UsableMeansRoom DEF IInv, WalkJustified, SeenIsCurrent, Spare
      <4>3. idleSeen = Sub
        <5>1. \A i \in Sub : i \in idleSeen
          BY <2>1, <3>1, <3>2 DEF IInv, WalkJustified, SeenIsCurrent, Waits
        <5>2. QED
          BY <1>1, <5>1 DEF TypeOK, SubflowsTypeOK
      <4>4. QED
        BY <2>2, <4>1, <4>2, <4>3
    <3>3. CASE active \/ spare = NoSub
      <4>1. Return(NoSub)
        BY <2>4, <3>3
      <4>2. ASSUME changes = 0 PROVE Contract!NothingToSendOn
        <5>1. QuietWalk
          BY <4>2 DEF IInv
        <5>2. \A i \in Sub : ~(Usable(i) /\ ~bkup[i])
          BY <1>1, <2>1, <2>4, <3>1, <5>1, UsableMeansRoom DEF QuietWalk
        <5>3. CASE active
          <6>1. HasActivePrimary
            BY <2>1, <5>1, <5>3 DEF QuietWalk, Waits, HasActivePrimary
          <6>2. QED
            BY <5>2, <6>1
               DEF Contract!NothingToSendOn, Contract!Usable, Usable, Contract!Sub, Sub,
                   Contract!HasActivePrimary, HasActivePrimary, Contract!ActivePrimary,
                   ActivePrimary, Contract!Active, Active
        <5>4. CASE spare = NoSub
          <6>1. backup = NoSub /\ ~Spare(pos)
            BY <2>1, <5>4, SubflowsAssumption DEF Sub, NoSub
          <6>2. ~Usable(pos)
            BY <1>1, <2>1, <2>4, <6>1, UsableMeansRoom DEF Spare
          <6>3. \A i \in Sub : ~Usable(i)
            BY <2>1, <3>1, <5>1, <6>1, <6>2 DEF QuietWalk
          <6>4. QED
            BY <6>3 DEF Contract!NothingToSendOn, Contract!Usable, Usable, Contract!Sub, Sub
        <5>5. QED
          BY <3>3, <5>3, <5>4
      <4>3. Contract!Refuse
        BY <2>1, <4>1, <4>2
           DEF Busy, Return, Contract!Refuse, Contract!End, Contract!EndSeen, EndSeen, subflowVars,
               Contract!subflowVars, Contract!NoSub, NoSub
      <4>4. QED
        BY <4>3 DEF Contract!ContractNext
    <3>4. QED
      BY <3>2, <3>3
  <2>5. CASE UNCHANGED <<envVars, pc, picked>>
    BY <2>5 DEF Contract!contractVars, Contract!envVars, envVars, Busy
  <2>6. QED
    BY <1>3, <2>3, <2>4, <2>5 DEF Visit
<1>4. CASE Disturb
  <2>1. ExtendSeen(Busy) => Contract!ExtendSeen(Busy)
    BY DEF ExtendSeen, Contract!ExtendSeen, seenVars, Contract!seenVars,
           Usable, Contract!Usable, ActivePrimary, Contract!ActivePrimary,
           Active, Contract!Active, Sub, Contract!Sub
  <2>2. Contract!Kernel(Busy)
    BY <1>4, <2>1
       DEF Disturb, Kernel, Contract!Kernel, Close, Contract!Close, Establish,
           Contract!Establish, ToggleStale, Contract!ToggleStale, TogglePriority,
           Contract!TogglePriority, Fill, Contract!Fill, Drain, Contract!Drain,
           Active, Contract!Active, Sub, Contract!Sub
  <2>3. QED
    BY <1>4, <2>2 DEF Disturb, localVars, Contract!Disturb, Contract!ContractNext, Busy
<1>5. CASE UNCHANGED vars
  BY <1>5 DEF vars, envVars, Contract!contractVars, Contract!envVars, Busy
<1>6. QED
  BY <1>2, <1>3, <1>4, <1>5 DEF Next

(* The first state is one of the contract's. *)
LEMMA ContractInitially == Init => Contract!ContractInit
BY DEF Init, Contract!ContractInit, SubflowsInit, Contract!SubflowsInit, Busy,
       Contract!NoSub, NoSub, Contract!Sub, Sub

(* bpf_bkup implements the contract with any number of subflows: its       *)
(* single walk, whatever the kernel does meanwhile, opens the backups only *)
(* when every other subflow has been seen inactive.                        *)
THEOREM ContractKept == Spec => KeepsContract
BY Invariance, ContractInitially, ContractStep, PTL
   DEF Spec, KeepsContract, Contract!ContractSpec
=============================================================================
