-------------------------- MODULE WeightRR_proofs --------------------------
(***************************************************************************)
(* Proofs about WeightRR for any number of subflows, any weights, any      *)
(* evictions and any number of kernel changes under a call; about how long *)
(* they leave a subflow waiting (WeightRRWait); and about WeightRRShare,   *)
(* for any number of subflows, weights and states of them.                 *)
(***************************************************************************)
EXTENDS WeightRRShare, WeightRRWait, TLAPS, FiniteSetTheorems

-----------------------------------------------------------------------------
(* Lemmas about the operators of the model.                                *)

(* Every walk starts at a subflow. *)
LEMMA Bounds == 1 \in Sub /\ 0 \in 0..MaxChanges
BY SubflowsAssumption DEF Sub

(* What the kernel may do to the subflows keeps their types; during a call *)
(* it only adds to what has been seen, and frees memory without taking any.*)
LEMMA KernelStep ==
    ASSUME SubflowsTypeOK, NEW busy \in BOOLEAN, Kernel(busy)
    PROVE  /\ SubflowsTypeOK'
           /\ busy => /\ usableSeen' = usableSeen \union {i \in Sub : Usable(i)'}
                      /\ primarySeen' = primarySeen \union {i \in Sub : ~bkup'[i]}
                      /\ idleSeen' = idleSeen \union {i \in Sub : ~ActivePrimary(i)'}
                      /\ changes' = changes + 1
                      /\ \A i \in Sub : free[i] => free'[i]
           /\ ~busy => UNCHANGED seenVars
<1>1. /\ path' \in [Sub -> {"down", "stale", "up"}]
      /\ bkup' \in [Sub -> BOOLEAN]
      /\ free' \in [Sub -> BOOLEAN]
      /\ busy => \A i \in Sub : free[i] => free'[i]
  BY DEF Kernel, SubflowsTypeOK, Close, Establish, ToggleStale, TogglePriority, Fill, Drain
<1>2. /\ usableSeen' \subseteq Sub /\ primarySeen' \subseteq Sub /\ idleSeen' \subseteq Sub
      /\ changes' \in 0..MaxChanges
  BY SubflowsAssumption DEF Kernel, ExtendSeen, SubflowsTypeOK, seenVars
<1>3. QED
  BY <1>1, <1>2 DEF Kernel, ExtendSeen, SubflowsTypeOK

(* Whatever the maps hold, zero and no entry included, a subflow's weight  *)
(* is positive: every bump is one.                                         *)
LEMMA WeightPositive ==
    ASSUME NEW i \in Sub
    PROVE  Weight(i) \in Nat \ {0}
BY WeightRRAssumption DEF Weight

(* It is no larger than what the maps hold. *)
LEMMA WeightAtMost ==
    ASSUME TypeOK, NEW i \in Sub
    PROVE  Weight(i) \in 1..MaxWeight
<1>1. localWeight[i] \in 0..MaxWeight \union {NoEntry}
      /\ remoteWeight[i] \in 0..MaxWeight \union {NoEntry}
  BY WeightRRAssumption DEF TypeOK
<1>2. QED
  BY <1>1, WeightRRAssumption DEF Weight

-----------------------------------------------------------------------------
(* Type correctness.                                                       *)

(* A walk that is not at the end has a next subflow. *)
LEMMA NextPos == ASSUME pos \in Sub, ~AtEnd PROVE pos + 1 \in Sub
BY SubflowsAssumption DEF Sub, AtEnd

(* The return of get_send leaves well-typed locals and nothing seen. *)
LEMMA ReturnType ==
    ASSUME TypeOK, NEW i \in Sub \union {NoSub}, Return(i), cw' \in [Sub -> Int]
    PROVE  TypeOK'
<1>1. SubflowsTypeOK'
  BY Bounds DEF Return, EndSeen, TypeOK, SubflowsTypeOK, subflowVars
<1>2. hasBackup' \in BOOLEAN /\ useBackup' \in BOOLEAN
  BY DEF Return
<1>3. QED
  BY <1>1, <1>2, Bounds DEF Return, TypeOK, mapVars

(* The connection's first state is well typed, its maps as they are found. *)
LEMMA TypeInit == Init => TypeOK
<1> SUFFICES ASSUME Init PROVE TypeOK
  OBVIOUS
<1>1. SubflowsTypeOK
  BY Bounds, SubflowsAssumption DEF Init, SubflowsInit, SubflowsTypeOK
<1>2. hasBackup \in BOOLEAN /\ useBackup \in BOOLEAN
  BY DEF Init
<1>3. QED
  BY <1>1, <1>2, Bounds DEF Init, TypeOK

(* So is what any step of get_send, the kernel or the maps leads to. *)
LEMMA TypeStep == TypeOK /\ [Next]_vars => TypeOK'
<1> SUFFICES ASSUME TypeOK, [Next]_vars PROVE TypeOK'
  OBVIOUS
<1>1. CASE Call
  <2>1. SubflowsTypeOK'
    BY <1>1, Bounds DEF Call, BeginSeen, subflowVars, TypeOK, SubflowsTypeOK
  <2>2. QED
    BY <1>1, <2>1, Bounds DEF Call, Enter, mapVars, TypeOK
<1>2. CASE Screen
  <2>1. CASE Return(NoSub) /\ UNCHANGED cw
    BY <2>1, ReturnType DEF TypeOK
  <2>2. ASSUME UNCHANGED <<envVars, mapVars, cw, useBackup, best, bestCw, totalWeight, picked>>,
               hasBackup' \in BOOLEAN,
               Enter("round") \/ (IF AtEnd THEN Enter("check") ELSE pos' = pos + 1 /\ UNCHANGED pc)
        PROVE  TypeOK'
    <3>1. SubflowsTypeOK'
      BY <2>2 DEF envVars, TypeOK, SubflowsTypeOK
    <3>2. pos' \in Sub /\ pc' \in {"screen", "check", "round"}
      BY <1>2, <2>2, NextPos, Bounds DEF Screen, Enter, TypeOK
    <3>3. QED
      BY <2>2, <3>1, <3>2 DEF mapVars, TypeOK
  <2>3. hasBackup \in BOOLEAN /\ (hasBackup \/ Candidate(pos)) \in BOOLEAN
    BY DEF TypeOK
  <2>4. QED
    BY <1>2, <2>1, <2>2, <2>3 DEF Screen
<1>3. CASE Check
  <2>1. CASE Return(NoSub) /\ UNCHANGED cw
    BY <2>1, ReturnType DEF TypeOK
  <2>2. ASSUME UNCHANGED <<envVars, mapVars, cw, hasBackup, best, bestCw, totalWeight, picked>>,
               IF AtEnd THEN Enter("round") /\ useBackup' = TRUE
                        ELSE pos' = pos + 1 /\ UNCHANGED <<pc, useBackup>>
        PROVE  TypeOK'
    <3>1. SubflowsTypeOK'
      BY <2>2 DEF envVars, TypeOK, SubflowsTypeOK
    <3>2. pos' \in Sub /\ pc' \in {"check", "round"}
      BY <1>3, <2>2, NextPos, Bounds DEF Check, Enter, TypeOK
    <3>3. useBackup' \in BOOLEAN
      BY <2>2 DEF TypeOK
    <3>4. QED
      BY <2>2, <3>1, <3>2, <3>3 DEF mapVars, TypeOK
  <2>3. QED
    BY <1>3, <2>1, <2>2 DEF Check
<1>4. CASE Round
  <2>1. pos \in Sub /\ Weight(pos) \in Nat
    BY WeightPositive DEF TypeOK
  <2>2. /\ cw' \in [Sub -> Int] /\ totalWeight' \in Nat
        /\ best' \in Sub \union {NoSub} /\ bestCw' \in Int
    BY <1>4, <2>1 DEF Round, Bump, TypeOK
  <2>3. pos' \in Sub /\ pc' \in {"round", "commit"}
    BY <1>4, NextPos, Bounds DEF Round, Enter, TypeOK
  <2>4. QED
    BY <1>4, <2>2, <2>3 DEF Round, envVars, mapVars, TypeOK, SubflowsTypeOK
<1>5. CASE Commit
  <2>1. CASE best = NoSub
    BY <1>5, <2>1, ReturnType DEF Commit, TypeOK
  <2>2. CASE best # NoSub
    <3>1. cw' \in [Sub -> Int]
      BY <1>5, <2>2 DEF Commit, Debited, TypeOK
    <3>2. PICK i \in Sub \union {NoSub} : Return(i)
      BY <1>5, <2>2 DEF Commit, TypeOK
    <3>3. QED
      BY <3>1, <3>2, ReturnType
  <2>3. QED
    BY <2>1, <2>2
<1>6. CASE Disturb
  <2>1. SubflowsTypeOK'
    BY <1>6, KernelStep DEF Disturb, TypeOK, Busy
  <2>2. QED
    BY <1>6, <2>1 DEF Disturb, mapVars, localVars, TypeOK
<1>7. ASSUME NEW i \in Sub, SetWeight(i) PROVE TypeOK'
  <2>1. localWeight' \in [Sub -> LocalWeights] /\ remoteWeight' \in [Sub -> RemoteWeights]
    BY <1>7 DEF SetWeight, TypeOK
  <2>2. QED
    BY <1>7, <2>1 DEF SetWeight, envVars, localVars, TypeOK, SubflowsTypeOK
<1>8. ASSUME NEW i \in Sub, Evict(i) PROVE TypeOK'
  BY <1>8 DEF Evict, envVars, mapVars, localVars, TypeOK, SubflowsTypeOK
<1>9. CASE UNCHANGED vars
  BY <1>9 DEF vars, envVars, mapVars, localVars, TypeOK, SubflowsTypeOK
<1>10. QED
  BY <1>1, <1>2, <1>3, <1>4, <1>5, <1>6, <1>7, <1>8, <1>9 DEF Next, Walk

(* TypeOK is an invariant of the scheduler. *)
THEOREM TypeCorrect == Spec => []TypeOK
BY TypeInit, TypeStep, PTL DEF Spec

-----------------------------------------------------------------------------
(* The inductive invariant.                                                *)

(* Before the first call there is nothing to remember. *)
LEMMA InvInit == Init => IInv
<1> SUFFICES ASSUME Init PROVE IInv
  OBVIOUS
<1>1. TypeOK
  BY TypeInit
<1>2. pc = "idle" /\ best = NoSub /\ totalWeight = 0 /\ ~useBackup /\ ~hasBackup
  BY DEF Init
<1>3. QED
  BY <1>1, <1>2
     DEF IInv, SeenIsCurrent, RoundIsFresh, BackupsJustified, WinnerPermitted,
         QuietScreen, QuietRound, Busy

(* A return of get_send re-establishes it: there is no call to speak of. *)
LEMMA ReturnInv ==
    ASSUME TypeOK, NEW i \in Sub \union {NoSub}, Return(i), cw' \in [Sub -> Int]
    PROVE  IInv'
<1>1. TypeOK'
  BY ReturnType
<1>2. /\ pc' = "idle" /\ best' = NoSub /\ totalWeight' = 0
      /\ ~useBackup' /\ ~hasBackup'
  BY DEF Return
<1>3. QED
  BY <1>1, <1>2
     DEF IInv, SeenIsCurrent, RoundIsFresh, BackupsJustified, WinnerPermitted,
         QuietScreen, QuietRound, Busy

(* A call starts with what it sees now and with fresh locals. *)
LEMMA CallInv == IInv /\ Call => IInv'
<1> SUFFICES ASSUME IInv, Call PROVE IInv'
  OBVIOUS
<1>1. TypeOK'
  BY TypeStep DEF IInv, Next
<1>2. /\ pc = "idle" /\ pc' = "screen" /\ pos' = 1
      /\ ~hasBackup' /\ ~useBackup' /\ best' = NoSub /\ totalWeight' = 0
      /\ UNCHANGED <<path, bkup, free>>
  BY DEF IInv, RoundIsFresh, Call, Enter, subflowVars
<1>3. SeenIsCurrent'
  BY <1>2 DEF Call, BeginSeen, SeenIsCurrent, Usable, ActivePrimary, Active
<1>4. \A i \in Sub : ~(i < pos')
  BY <1>2 DEF Sub
<1>5. QED
  BY <1>1, <1>2, <1>3, <1>4
     DEF IInv, RoundIsFresh, BackupsJustified, WinnerPermitted, QuietScreen, QuietRound

(* The first walk learns of every subflow it passes. *)
LEMMA ScreenInv == IInv /\ Screen => IInv'
<1> SUFFICES ASSUME IInv, Screen PROVE IInv'
  OBVIOUS
<1>1. TypeOK /\ TypeOK'
  BY TypeStep DEF IInv, Next, Walk
<1>2. CASE Return(NoSub) /\ UNCHANGED cw
  BY <1>1, <1>2, ReturnInv DEF TypeOK
<1> USE DEF Candidate
<1>3. CASE /\ Candidate(pos) /\ ~bkup[pos]
           /\ Enter("round")
           /\ UNCHANGED <<envVars, mapVars, cw, hasBackup, useBackup, best, bestCw,
                          totalWeight, picked>>
  <2>1. /\ pc = "screen" /\ pc' = "round" /\ pos' = 1
        /\ best' = NoSub /\ totalWeight' = 0 /\ ~useBackup'
        /\ UNCHANGED <<path, bkup, free, usableSeen, primarySeen, idleSeen, changes>>
    BY <1>3 DEF IInv, RoundIsFresh, Screen, Enter, envVars
  <2>2. SeenIsCurrent'
    BY <2>1 DEF IInv, SeenIsCurrent, Usable, ActivePrimary, Active, Busy
  <2>3. \E i \in Sub : i >= pos' /\ InRound(i)'
    <3>1. PICK i \in Sub : i = pos
      BY <1>1 DEF TypeOK
    <3>2. i >= pos'
      BY <2>1, <3>1 DEF Sub
    <3>3. bkup'[i] = useBackup'
      <4>1. bkup'[i] \in BOOLEAN /\ useBackup' \in BOOLEAN
        BY <1>1 DEF TypeOK, SubflowsTypeOK
      <4>2. ~bkup'[i] /\ ~useBackup'
        BY <1>3, <2>1, <3>1
      <4>3. QED
        BY <4>1, <4>2, Zenon
    <3>4. Usable(i)'
      BY <1>3, <2>1, <3>1 DEF Usable
    <3>5. QED
      BY <3>1, <3>2, <3>3, <3>4 DEF InRound
  <2>4. QED
    BY <1>1, <2>1, <2>2, <2>3
       DEF IInv, RoundIsFresh, BackupsJustified, WinnerPermitted, QuietScreen, QuietRound
<1>4. CASE /\ ~(Candidate(pos) /\ ~bkup[pos])
           /\ ~(AtEnd /\ ~hasBackup /\ ~Candidate(pos))
           /\ hasBackup' = (hasBackup \/ Candidate(pos))
           /\ IF AtEnd THEN Enter("check") ELSE pos' = pos + 1 /\ UNCHANGED pc
           /\ UNCHANGED <<envVars, mapVars, cw, useBackup, best, bestCw,
                          totalWeight, picked>>
  <2>1. /\ pc = "screen"
        /\ best' = NoSub /\ totalWeight' = 0 /\ ~useBackup'
        /\ UNCHANGED <<path, bkup, free, usableSeen, primarySeen, idleSeen, changes>>
    BY <1>4 DEF IInv, RoundIsFresh, Screen, envVars
  <2>2. SeenIsCurrent'
    BY <2>1 DEF IInv, SeenIsCurrent, Usable, ActivePrimary, Active, Busy
  <2>3. CASE AtEnd
    <3>1. pc' = "check" /\ pos' = 1 /\ pos = N
      BY <1>4, <2>3 DEF Enter, AtEnd
    <3>2. \A i \in Sub : ~(i < pos')
      BY <3>1 DEF Sub
    <3>3. ASSUME changes' = 0 PROVE QuietScreen'
      <4>1. QuietScreen
        BY <2>1, <3>3 DEF IInv
      <4>2. \A i \in Sub : i < pos \/ i = pos
        BY <3>1, SubflowsAssumption DEF Sub
      <4>3. \A i \in Sub : ~(Usable(i) /\ ~bkup[i])
        BY <1>4, <2>1, <4>1, <4>2 DEF QuietScreen
      <4>4. \E i \in Sub : Usable(i) /\ bkup[i]
        BY <1>1, <1>4, <2>1, <2>3, <4>1 DEF QuietScreen, TypeOK
      <4>5. QED
        BY <2>1, <3>1, <4>3, <4>4 DEF QuietScreen, Usable
    <3>4. QED
      BY <1>1, <2>1, <2>2, <3>1, <3>2, <3>3
         DEF IInv, RoundIsFresh, BackupsJustified, WinnerPermitted, QuietRound
  <2>4. CASE ~AtEnd
    <3>1. pc' = "screen" /\ pos' = pos + 1
      BY <1>4, <2>1, <2>4
    <3>2. ASSUME changes' = 0 PROVE QuietScreen'
      <4>1. QuietScreen
        BY <2>1, <3>2 DEF IInv
      <4>2. \A i \in Sub : i < pos + 1 => i < pos \/ i = pos
        BY <1>1 DEF Sub, TypeOK
      <4>3. \A i \in Sub : i < pos' => ~(Usable(i) /\ ~bkup[i])
        BY <1>4, <2>1, <3>1, <4>1, <4>2 DEF QuietScreen
      <4>4. ~hasBackup' => \A i \in Sub : i < pos' => ~Usable(i)
        BY <1>4, <2>1, <3>1, <4>1, <4>2 DEF QuietScreen
      <4>5. hasBackup' => \E i \in Sub : Usable(i) /\ bkup[i]
        BY <1>1, <1>4, <2>1, <4>1 DEF QuietScreen, TypeOK
      <4>6. QED
        BY <2>1, <3>1, <4>3, <4>4, <4>5 DEF QuietScreen, Usable
    <3>3. QED
      BY <1>1, <2>1, <2>2, <3>1, <3>2
         DEF IInv, RoundIsFresh, BackupsJustified, WinnerPermitted, QuietRound
  <2>5. QED
    BY <2>3, <2>4
<1>5. QED
  BY <1>2, <1>3, <1>4 DEF Screen

(* has_active_nonbackup() sees every subflow it passes idle. *)
LEMMA CheckInv == IInv /\ Check => IInv'
<1> SUFFICES ASSUME IInv, Check PROVE IInv'
  OBVIOUS
<1>1. TypeOK /\ TypeOK'
  BY TypeStep DEF IInv, Next, Walk
<1>2. CASE Return(NoSub) /\ UNCHANGED cw
  BY <1>1, <1>2, ReturnInv DEF TypeOK
<1>3. CASE /\ ~ActivePrimary(pos)
           /\ IF AtEnd
              THEN Enter("round") /\ useBackup' = TRUE
              ELSE pos' = pos + 1 /\ UNCHANGED <<pc, useBackup>>
           /\ UNCHANGED <<envVars, mapVars, cw, hasBackup, best, bestCw, totalWeight, picked>>
  <2>1. /\ pc = "check"
        /\ best' = NoSub /\ totalWeight' = 0 /\ ~useBackup
        /\ UNCHANGED <<path, bkup, free, usableSeen, primarySeen, idleSeen, changes>>
    BY <1>3 DEF IInv, RoundIsFresh, Check, envVars
  <2>2. pos \in idleSeen
    BY <1>1, <1>3, <2>1 DEF IInv, SeenIsCurrent, Busy, TypeOK
  <2>3. CASE AtEnd
    <3>1. pc' = "round" /\ pos' = 1 /\ useBackup' = TRUE /\ pos = N
      BY <1>3, <2>3 DEF Enter, AtEnd
    <3>2. \A i \in Sub : i < pos \/ i = pos
      BY <3>1, SubflowsAssumption DEF Sub
    <3>3. idleSeen' = Sub
      BY <1>1, <2>1, <2>2, <3>2 DEF IInv, BackupsJustified, TypeOK, SubflowsTypeOK
    <3>4. SeenIsCurrent'
      BY <2>1, <3>1 DEF IInv, SeenIsCurrent, Usable, ActivePrimary, Active, Busy
    <3>5. ASSUME changes' = 0 PROVE QuietRound'
      <4>1. PICK i \in Sub : Usable(i) /\ bkup[i]
        BY <2>1, <3>5 DEF IInv, QuietScreen
      <4>2. i >= pos'
        BY <3>1 DEF Sub
      <4>3. bkup'[i] = useBackup'
        BY <1>1, <2>1, <3>1, <4>1 DEF TypeOK, SubflowsTypeOK
      <4>4. InRound(i)'
        BY <2>1, <4>1, <4>3 DEF InRound, Candidate, Usable
      <4>5. QED
        BY <3>1, <4>2, <4>4 DEF QuietRound
    <3>6. QED
      BY <1>1, <2>1, <3>1, <3>3, <3>4, <3>5
         DEF IInv, RoundIsFresh, BackupsJustified, WinnerPermitted, QuietScreen
  <2>4. CASE ~AtEnd
    <3>1. pc' = "check" /\ pos' = pos + 1 /\ ~useBackup'
      BY <1>3, <2>1, <2>4
    <3>2. \A i \in Sub : i < pos' => i < pos \/ i = pos
      BY <1>1, <3>1 DEF Sub, TypeOK
    <3>3. SeenIsCurrent'
      BY <2>1, <3>1 DEF IInv, SeenIsCurrent, Usable, ActivePrimary, Active, Busy
    <3>4. \A i \in Sub : i < pos' => i \in idleSeen'
      BY <2>1, <2>2, <3>2 DEF IInv, BackupsJustified
    <3>5. ASSUME changes' = 0 PROVE QuietScreen'
      BY <2>1, <3>1, <3>5 DEF IInv, QuietScreen, Usable
    <3>6. QED
      BY <1>1, <2>1, <3>1, <3>3, <3>4, <3>5
         DEF IInv, RoundIsFresh, BackupsJustified, WinnerPermitted, QuietRound
  <2>5. QED
    BY <2>3, <2>4
<1>4. QED
  BY <1>2, <1>3 DEF Check

(* A winner was a candidate, in its role, when the second walk visited it. *)
LEMMA RoundInv == IInv /\ Round => IInv'
<1> SUFFICES ASSUME IInv, Round PROVE IInv'
  OBVIOUS
<1>1. TypeOK /\ TypeOK'
  BY TypeStep DEF IInv, Next, Walk
<1>2. /\ pc = "round" /\ pc' \in {"round", "commit"} /\ pos \in Sub
      /\ UNCHANGED <<path, bkup, free, usableSeen, primarySeen, idleSeen, changes,
                     hasBackup, useBackup>>
  BY <1>1 DEF Round, Enter, envVars, TypeOK
<1>3. SeenIsCurrent'
  BY <1>2 DEF IInv, SeenIsCurrent, Usable, ActivePrimary, Active, Busy
<1>4. BackupsJustified'
  BY <1>2 DEF IInv, BackupsJustified
<1>5. \/ best' = best /\ totalWeight' = totalWeight
      \/ best' = pos /\ InRound(pos)
      \/ best' = best /\ best # NoSub
  <2>1. CASE InRound(pos) /\ Bump(pos)
    BY <2>1 DEF Bump
  <2>2. CASE ~InRound(pos) /\ UNCHANGED <<cw, totalWeight, best, bestCw>>
    BY <2>2
  <2>3. QED
    BY <2>1, <2>2 DEF Round
<1>6. WinnerPermitted'
  <2>1. CASE best' = best
    <3>1. best' = NoSub => totalWeight' = 0
      BY <1>2, <1>5, <2>1 DEF IInv, WinnerPermitted, Sub, NoSub
    <3>2. QED
      BY <1>2, <2>1, <3>1 DEF IInv, WinnerPermitted
  <2>2. CASE best' = pos /\ InRound(pos)
    <3>1. pos # NoSub
      BY <1>2 DEF Sub, NoSub
    <3>2. Usable(pos) /\ bkup[pos] = useBackup
      BY <2>2 DEF InRound, Candidate
    <3>3. pos \in usableSeen /\ free[pos]
      BY <1>2, <3>2 DEF IInv, SeenIsCurrent, Busy, Usable
    <3>4. useBackup \/ pos \in primarySeen
      BY <1>2, <3>2 DEF IInv, SeenIsCurrent, Busy
    <3>5. QED
      BY <1>2, <2>2, <3>1, <3>3, <3>4 DEF WinnerPermitted
  <2>3. QED
    BY <1>5, <2>1, <2>2
<1>7. ASSUME changes' = 0 PROVE QuietRound'
  <2>1. best # NoSub \/ \E i \in Sub : i >= pos /\ InRound(i)
    BY <1>2, <1>7 DEF IInv, QuietRound
  <2>2. best' # NoSub \/ \E i \in Sub : i >= pos /\ i # pos /\ InRound(i)
    <3>1. pos # NoSub
      BY <1>2 DEF Sub, NoSub
    <3>2. CASE best # NoSub
      BY <1>5, <3>1, <3>2
    <3>3. CASE InRound(pos)
      BY <3>1, <3>3 DEF Round, Bump
    <3>4. QED
      BY <2>1, <3>2, <3>3
  <2>3. CASE AtEnd
    <3>1. \A i \in Sub : ~(i >= pos /\ i # pos)
      BY <1>2, <2>3, SubflowsAssumption DEF Sub, AtEnd
    <3>2. QED
      BY <2>2, <2>3, <3>1 DEF QuietRound, Round, Enter
  <2>4. CASE ~AtEnd
    <3>1. pos' = pos + 1 /\ pc' = "round"
      BY <1>2, <2>4 DEF Round
    <3>2. \A i \in Sub : i >= pos /\ i # pos => i >= pos'
      BY <1>2, <3>1 DEF Sub
    <3>3. \A i \in Sub : InRound(i) => InRound(i)'
      BY <1>2 DEF InRound, Candidate, Usable
    <3>4. QED
      BY <2>2, <3>1, <3>2, <3>3 DEF QuietRound
  <2>5. QED
    BY <2>3, <2>4
<1>8. QED
  BY <1>1, <1>2, <1>3, <1>4, <1>6, <1>7 DEF IInv, RoundIsFresh, QuietScreen

(* The commit always returns. *)
LEMMA CommitInv == IInv /\ Commit => IInv'
<1> SUFFICES ASSUME IInv, Commit PROVE IInv'
  OBVIOUS
<1>1. TypeOK /\ TypeOK'
  BY TypeStep DEF IInv, Next, Walk
<1>2. \E i \in Sub \union {NoSub} : Return(i)
  BY <1>1 DEF Commit, TypeOK
<1>3. QED
  BY <1>1, <1>2, ReturnInv DEF TypeOK

(* The kernel only adds to what was seen, and ends what is quiet. *)
LEMMA DisturbInv == IInv /\ Disturb => IInv'
<1> SUFFICES ASSUME IInv, Disturb PROVE IInv'
  OBVIOUS
<1>1. TypeOK /\ TypeOK'
  BY TypeStep DEF IInv, Next
<1>2. UNCHANGED <<pc, pos, hasBackup, useBackup, best, bestCw, totalWeight>>
  BY DEF Disturb, localVars
<1>3. Busy \in BOOLEAN /\ Kernel(Busy) /\ SubflowsTypeOK
  BY <1>1 DEF Disturb, Busy, TypeOK
<1>4. CASE pc = "idle"
  BY <1>1, <1>2, <1>4
     DEF IInv, SeenIsCurrent, RoundIsFresh, BackupsJustified, WinnerPermitted,
         QuietScreen, QuietRound, Busy
<1>5. CASE pc # "idle"
  <2>1. /\ usableSeen' = usableSeen \union {i \in Sub : Usable(i)'}
        /\ primarySeen' = primarySeen \union {i \in Sub : ~bkup'[i]}
        /\ idleSeen' = idleSeen \union {i \in Sub : ~ActivePrimary(i)'}
        /\ changes' = changes + 1
        /\ \A i \in Sub : free[i] => free'[i]
    BY <1>3, <1>5, KernelStep DEF Busy
  <2>2. changes' # 0
    BY <1>1, <2>1 DEF TypeOK, SubflowsTypeOK
  <2>3. SeenIsCurrent'
    BY <2>1 DEF SeenIsCurrent
  <2>4. BackupsJustified'
    BY <1>1, <1>2, <2>1 DEF IInv, BackupsJustified, TypeOK, SubflowsTypeOK
  <2>5. WinnerPermitted'
    BY <1>1, <1>2, <2>1 DEF IInv, WinnerPermitted, TypeOK
  <2>6. QED
    BY <1>1, <1>2, <2>2, <2>3, <2>4, <2>5 DEF IInv, RoundIsFresh
<1>6. QED
  BY <1>4, <1>5

(* What the maps hold does not matter. *)
LEMMA MapInv == ASSUME IInv, TypeOK', UNCHANGED <<envVars, localVars>> PROVE IInv'
BY DEF IInv, SeenIsCurrent, RoundIsFresh, BackupsJustified, WinnerPermitted,
       QuietScreen, QuietRound, Busy, InRound, Candidate, Usable, ActivePrimary,
       Active, envVars, localVars

(* Every step keeps the inductive invariant. *)
LEMMA InvStep == IInv /\ [Next]_vars => IInv'
<1> SUFFICES ASSUME IInv, [Next]_vars PROVE IInv'
  OBVIOUS
<1>1. TypeOK'
  BY TypeStep DEF IInv
<1>2. ASSUME NEW i \in Sub, SetWeight(i) \/ Evict(i) PROVE IInv'
  BY <1>1, <1>2, MapInv DEF SetWeight, Evict
<1>3. CASE UNCHANGED vars
  BY <1>1, <1>3, MapInv DEF vars
<1>4. QED
  BY <1>2, <1>3, CallInv, ScreenInv, CheckInv, RoundInv, CommitInv, DisturbInv
     DEF Next, Walk

(* The inductive invariant holds of every behaviour of the scheduler. *)
THEOREM Invariance == Spec => []IInv
BY InvInit, InvStep, PTL DEF Spec

-----------------------------------------------------------------------------
(* The action property and the refinement.                                 *)

(* A call that returns -1 has bumped and debited nobody. *)
THEOREM TurnsNeverWasted == Spec => TurnSpentOnlyOnSend
<1>1. ASSUME IInv, [Next]_vars, Busy, ~Busy', picked' = NoSub
      PROVE  totalWeight = 0 /\ UNCHANGED cw
  <2>1. pc # "idle" /\ pc' = "idle"
    BY <1>1 DEF Busy
  <2>2. Screen \/ Check \/ Commit
    BY <1>1, <2>1
       DEF Next, Walk, Call, Enter, Round, Disturb, SetWeight, Evict, vars, localVars
  <2>3. CASE Screen
    BY <1>1, <2>1, <2>3 DEF Screen, Return, Enter, IInv, RoundIsFresh
  <2>4. CASE Check
    BY <1>1, <2>1, <2>4 DEF Check, Return, Enter, IInv, RoundIsFresh
  <2>5. CASE Commit
    <3>1. best = NoSub
      BY <1>1, <2>5 DEF Commit, Return, IInv, WinnerPermitted
    <3>2. QED
      BY <1>1, <2>5, <3>1 DEF Commit, IInv, WinnerPermitted
  <2>6. QED
    BY <2>2, <2>3, <2>4, <2>5
<1>2. QED
  BY <1>1, Invariance, PTL DEF Spec, TurnSpentOnlyOnSend

(* The first state is one of the contract's. *)
LEMMA ContractInitially == Init => Contract!ContractInit
BY DEF Init, Contract!ContractInit, SubflowsInit, Contract!SubflowsInit, Busy,
       Contract!NoSub, NoSub, Contract!Sub, Sub

(* A refusal is the contract's, if an undisturbed one has nothing to send on. *)
LEMMA RefusalAllowed ==
    ASSUME Busy, Return(NoSub), changes = 0 => Contract!NothingToSendOn
    PROVE  Contract!Refuse
BY DEF Busy, Return, Contract!Refuse, Contract!End, Contract!EndSeen, EndSeen, subflowVars,
       Contract!subflowVars, Contract!NoSub, NoSub

(* Scheduling a permitted subflow is a step of the contract. *)
LEMMA ScheduleAllowed ==
    ASSUME Busy, NEW i \in Sub, Return(i), i \in usableSeen,
           i \in primarySeen \/ idleSeen = Sub
    PROVE  Contract!Schedule(i)
BY DEF Busy, Return, Contract!Schedule, Contract!End, Contract!Permitted, Contract!EndSeen, EndSeen,
       subflowVars, Contract!subflowVars, Contract!Sub, Sub

(* Every step of get_send, of the kernel and of the maps is a step of the  *)
(* contract or none of its business.                                       *)
LEMMA ContractStep ==
    IInv /\ [Next]_vars => [Contract!ContractNext]_(Contract!contractVars)
<1> SUFFICES ASSUME IInv, [Next]_vars
             PROVE  Contract!ContractNext \/ UNCHANGED Contract!contractVars
  OBVIOUS
<1>1. ASSUME UNCHANGED envVars, picked' = picked, Busy' = Busy
      PROVE  UNCHANGED Contract!contractVars
  BY <1>1 DEF Contract!contractVars, Contract!envVars, envVars
<1>2. TypeOK
  BY DEF IInv
<1>3. CASE Call
  BY <1>3
     DEF Call, Enter, Contract!ContractNext, Contract!Begin, BeginSeen, Contract!BeginSeen,
         Busy, subflowVars, Contract!subflowVars, Sub, Contract!Sub, Usable,
         Contract!Usable, ActivePrimary, Contract!ActivePrimary, Active, Contract!Active
<1>4. CASE Screen
  <2>1. CASE Return(NoSub) /\ AtEnd /\ ~hasBackup /\ ~Candidate(pos)
    <3>1. ASSUME changes = 0 PROVE Contract!NothingToSendOn
      <4>1. \A i \in Sub : i < pos \/ i = pos
        BY <1>2, <2>1, SubflowsAssumption DEF Sub, AtEnd
      <4>2. \A i \in Sub : ~Usable(i)
        BY <1>4, <2>1, <3>1, <4>1 DEF Screen, IInv, QuietScreen, Candidate
      <4>3. QED
        BY <4>2 DEF Contract!NothingToSendOn, Contract!Usable, Usable, Contract!Sub, Sub
    <3>2. QED
      BY <1>4, <2>1, <3>1, RefusalAllowed DEF Contract!ContractNext, Screen, Busy
  <2>2. CASE UNCHANGED <<envVars, mapVars, cw, useBackup, best, bestCw, totalWeight, picked>>
             /\ (Enter("round") \/ (IF AtEnd THEN Enter("check") ELSE pos' = pos + 1 /\ UNCHANGED pc))
    BY <1>1, <1>4, <2>2 DEF Screen, Enter, Busy
  <2>3. QED
    BY <1>4, <2>1, <2>2 DEF Screen
<1>5. CASE Check
  <2>1. CASE ActivePrimary(pos) /\ Return(NoSub)
    <3>1. ASSUME changes = 0 PROVE Contract!NothingToSendOn
      <4>1. \A i \in Sub : ~(Usable(i) /\ ~bkup[i])
        BY <1>5, <3>1 DEF Check, IInv, QuietScreen
      <4>2. pos \in Sub
        BY <1>2 DEF TypeOK
      <4>3. Contract!HasActivePrimary
        BY <2>1, <4>2 DEF Contract!HasActivePrimary, Contract!ActivePrimary,
                          ActivePrimary, Contract!Active, Active, Contract!Sub, Sub
      <4>4. QED
        BY <4>1, <4>3 DEF Contract!NothingToSendOn, Contract!Usable, Usable,
                          Contract!Sub, Sub
    <3>2. QED
      BY <1>5, <2>1, <3>1, RefusalAllowed DEF Contract!ContractNext, Check, Busy
  <2>2. CASE UNCHANGED <<envVars, mapVars, cw, hasBackup, best, bestCw, totalWeight, picked>>
             /\ pc' \in {"check", "round"}
    BY <1>1, <1>5, <2>2 DEF Check, Busy
  <2>3. QED
    BY <1>5, <2>1, <2>2 DEF Check, Enter
<1>6. CASE Round
  BY <1>1, <1>6 DEF Round, Enter, Busy
<1>7. CASE Commit
  <2>1. CASE best = NoSub
    <3>1. changes # 0
      BY <1>7, <2>1 DEF IInv, QuietRound, Commit
    <3>2. QED
      BY <1>7, <2>1, <3>1, RefusalAllowed DEF Contract!ContractNext, Commit, Busy
  <2>2. CASE best # NoSub
    <3>1. best \in Sub /\ Return(best)
      BY <1>2, <1>7, <2>2 DEF Commit, IInv, WinnerPermitted, TypeOK
    <3>2. best \in usableSeen /\ (best \in primarySeen \/ idleSeen = Sub)
      BY <2>2 DEF IInv, WinnerPermitted, BackupsJustified
    <3>3. Contract!Schedule(best)
      BY <1>7, <3>1, <3>2, ScheduleAllowed DEF Commit, Busy
    <3>4. QED
      BY <3>1, <3>3 DEF Contract!ContractNext, Contract!Sub, Sub
  <2>3. QED
    BY <2>1, <2>2
<1>8. CASE Disturb
  <2>1. ExtendSeen(Busy) => Contract!ExtendSeen(Busy)
    BY DEF ExtendSeen, Contract!ExtendSeen, seenVars, Contract!seenVars,
           Usable, Contract!Usable, ActivePrimary, Contract!ActivePrimary,
           Active, Contract!Active, Sub, Contract!Sub
  <2>2. Contract!Kernel(Busy)
    BY <1>8, <2>1
       DEF Disturb, Kernel, Contract!Kernel, Close, Contract!Close, Establish,
           Contract!Establish, ToggleStale, Contract!ToggleStale, TogglePriority,
           Contract!TogglePriority, Fill, Contract!Fill, Drain, Contract!Drain,
           Active, Contract!Active, Sub, Contract!Sub
  <2>3. QED
    BY <1>8, <2>2 DEF Disturb, localVars, Contract!Disturb, Contract!ContractNext, Busy
<1>9. ASSUME NEW i \in Sub, SetWeight(i) \/ Evict(i)
      PROVE  Contract!ContractNext \/ UNCHANGED Contract!contractVars
  <2>1. UNCHANGED envVars /\ picked' = picked /\ pc' = pc
    BY <1>9 DEF SetWeight, Evict, localVars
  <2>2. QED
    BY <1>1, <2>1 DEF Busy
<1>10. CASE UNCHANGED vars
  BY <1>1, <1>10 DEF vars, localVars, Busy
<1>11. QED
  BY <1>3, <1>4, <1>5, <1>6, <1>7, <1>8, <1>9, <1>10 DEF Next, Walk

(* bpf_weight_rr implements the contract, with any number of subflows and  *)
(* whatever the kernel, the weight manager and the LRU map do meanwhile.   *)
THEOREM ContractKept == Spec => KeepsContract
BY Invariance, ContractInitially, ContractStep, PTL
   DEF Spec, KeepsContract, Contract!ContractSpec

-----------------------------------------------------------------------------
(* Sums over the subflows.                                                 *)

(* There are finitely many subflows, so any set of them is finite. *)
LEMMA SubFinite == ASSUME NEW A \in SUBSET Sub PROVE IsFiniteSet(A)
<1>1. IsFiniteSet(Sub)
  BY FS_Interval, SubflowsAssumption DEF Sub
<1>2. QED
  BY <1>1, FS_Subset

(* A sum is counted over a finite set. *)
LEMMA UnitsFinite ==
    ASSUME NEW A \in SUBSET Sub, NEW f, \A i \in A : f[i] \in Int
    PROVE  IsFiniteSet(Units(f, A)) /\ Cardinality(Units(f, A)) \in Nat
<1> DEFINE S(i) == {i} \X (1..f[i])
           T == {S(i) : i \in A}
           g == [i \in A |-> S(i)]
<1>1. \A i \in A : IsFiniteSet(S(i))
  <2> SUFFICES ASSUME NEW i \in A PROVE IsFiniteSet(S(i))
    OBVIOUS
  <2>1. IsFiniteSet({i})
    BY FS_Singleton
  <2>2. f[i] \in Int
    OBVIOUS
  <2>3. IsFiniteSet(1..f[i])
    BY <2>2, FS_Interval
  <2>4. QED
    BY <2>1, <2>3, FS_Product
<1>2. g \in Surjection(A, T)
  BY DEF Surjection
<1>3. IsFiniteSet(A)
  BY SubFinite
<1>4. IsFiniteSet(T)
  <2> HIDE DEF T, g
  <2> QED BY <1>2, <1>3, FS_Surjection
<1>5. \A t \in T : IsFiniteSet(t)
  BY <1>1
<1>6. IsFiniteSet(Units(f, A))
  BY <1>4, <1>5, FS_UNION DEF Units
<1>7. QED
  BY <1>6, FS_CardinalityType

(* What one subflow adds to the units. *)
LEMMA ColumnSize ==
    ASSUME NEW i, NEW n \in Int
    PROVE  /\ IsFiniteSet({i} \X (1..n))
           /\ Cardinality({i} \X (1..n)) = IF n > 0 THEN n ELSE 0
<1>1. IsFiniteSet({i}) /\ Cardinality({i}) = 1
  BY FS_Singleton
<1>2. IsFiniteSet(1..n) /\ Cardinality(1..n) = IF n > 0 THEN n ELSE 0
  <2>1. IsFiniteSet(1..n) /\ Cardinality(1..n) = IF 1 > n THEN 0 ELSE n - 1 + 1
    BY 1 \in Int, FS_Interval, Zenon
  <2>2. QED
    BY <2>1
<1>3. IsFiniteSet({i} \X (1..n)) /\ Cardinality({i} \X (1..n)) = Cardinality({i}) * Cardinality(1..n)
  BY <1>1, <1>2, FS_Product, Zenon
<1>4. QED
  BY <1>1, <1>2, <1>3

(* One more subflow adds its units, if it holds any. *)
LEMMA UnitsAdd ==
    ASSUME NEW A \in SUBSET Sub, NEW i \in Sub \ A, NEW f,
           \A j \in A \union {i} : f[j] \in Int
    PROVE  Cardinality(Units(f, A \union {i}))
              = Cardinality(Units(f, A)) + (IF f[i] > 0 THEN f[i] ELSE 0)
<1> DEFINE U == Units(f, A)
           V == {i} \X (1..f[i])
           n == IF f[i] > 0 THEN f[i] ELSE 0
<1>1. f[i] \in Int /\ n \in Nat
  OBVIOUS
<1>2. IsFiniteSet(V) /\ Cardinality(V) = n
  BY <1>1, ColumnSize
<1>3. Units(f, A \union {i}) = U \union V
  BY DEF Units
<1>4. Cardinality(U \intersect V) = 0
  <2>1. U \intersect V = {}
    BY DEF Units
  <2>2. QED
    BY <2>1, FS_EmptySet
<1>5. IsFiniteSet(U) /\ Cardinality(U) \in Nat
  BY UnitsFinite
<1>6. Cardinality(U \union V) = Cardinality(U) + n
  <2> HIDE DEF U, V, n
  <2>1. Cardinality(U \union V) = Cardinality(U) + Cardinality(V) - 0
    BY <1>2, <1>4, <1>5, FS_Union
  <2>2. QED
    BY <1>1, <1>2, <1>5, <2>1
<1>7. QED
  BY <1>3, <1>6

(* Only the values over A matter. *)
LEMMA UnitsAgree ==
    ASSUME NEW A, NEW f, NEW g, \A i \in A : f[i] = g[i]
    PROVE  Units(f, A) = Units(g, A)
BY DEF Units

(* Who holds nothing adds nothing. *)
LEMMA UnitsNone ==
    ASSUME NEW A, NEW f, \A i \in A : f[i] \in Int /\ f[i] <= 0
    PROVE  Units(f, A) = {} /\ Cardinality(Units(f, A)) = 0
<1>1. \A i \in A : 1..f[i] = {}
  OBVIOUS
<1>2. Units(f, A) = {}
  BY <1>1 DEF Units
<1>3. QED
  BY <1>2, FS_EmptySet

(* A sum of integers is an integer. *)
LEMMA TotalInt ==
    ASSUME NEW A \in SUBSET Sub, NEW f \in [Sub -> Int]
    PROVE  Total(f, A) \in Int
<1> DEFINE g == [i \in A |-> -f[i]]
<1>1. \A i \in A : f[i] \in Int /\ g[i] \in Int
  OBVIOUS
<1>2. Cardinality(Units(f, A)) \in Nat /\ Cardinality(Units(g, A)) \in Nat
  <2> HIDE DEF g
  <2> QED BY <1>1, UnitsFinite
<1>3. QED
  BY <1>2 DEF Total

(* The sum over one more subflow. *)
LEMMA TotalAdd ==
    ASSUME NEW A \in SUBSET Sub, NEW i \in Sub \ A, NEW f \in [Sub -> Int]
    PROVE  Total(f, A \union {i}) = Total(f, A) + f[i]
<1> DEFINE B == A \union {i}
           g == [j \in A |-> -f[j]]
           h == [j \in B |-> -f[j]]
<1>1. /\ \A j \in B : f[j] \in Int /\ h[j] = -f[j]
      /\ \A j \in A : g[j] = h[j] /\ j \in Sub
      /\ B \in SUBSET Sub
  OBVIOUS
<1>2. /\ Cardinality(Units(f, A)) \in Nat /\ Cardinality(Units(h, A)) \in Nat
      /\ Cardinality(Units(f, B)) = Cardinality(Units(f, A)) + (IF f[i] > 0 THEN f[i] ELSE 0)
      /\ Cardinality(Units(h, B)) = Cardinality(Units(h, A)) + (IF h[i] > 0 THEN h[i] ELSE 0)
  <2>1. \A j \in B : f[j] \in Int /\ h[j] \in Int
    BY <1>1
  <2> HIDE DEF h
  <2>2. QED
    BY <2>1, UnitsFinite, UnitsAdd
<1>3. Units(g, A) = Units(h, A)
  <2> HIDE DEF g, h
  <2> QED BY <1>1, UnitsAgree
<1>4. QED
  BY <1>1, <1>2, <1>3 DEF Total

(* Functions that agree on A have the same sum over it. *)
LEMMA TotalAgree ==
    ASSUME NEW A, NEW f, NEW g, \A i \in A : f[i] = g[i]
    PROVE  Total(f, A) = Total(g, A)
<1>1. Units(f, A) = Units(g, A)
  BY UnitsAgree
<1>2. [i \in A |-> -f[i]] = [i \in A |-> -g[i]]
  OBVIOUS
<1>3. QED
  BY <1>1, <1>2 DEF Total

(* The sum over one subflow less. *)
LEMMA TotalRemove ==
    ASSUME NEW A \in SUBSET Sub, NEW i \in A, NEW f \in [Sub -> Int]
    PROVE  Total(f, A) = Total(f, A \ {i}) + f[i]
<1>1. A \ {i} \in SUBSET Sub /\ i \in Sub \ (A \ {i}) /\ (A \ {i}) \union {i} = A
  OBVIOUS
<1>2. QED
  BY <1>1, TotalAdd

(* The sum after one value has changed, as a bump and a debit do. *)
LEMMA TotalUpdate ==
    ASSUME NEW A \in SUBSET Sub, NEW i \in Sub, NEW f \in [Sub -> Int], NEW g \in [Sub -> Int],
           \A j \in Sub : j # i => g[j] = f[j]
    PROVE  /\ i \in A => Total(g, A) = Total(f, A) + (g[i] - f[i])
           /\ i \notin A => Total(g, A) = Total(f, A)
<1>1. \A j \in Sub \ {i} : g[j] = f[j]
  OBVIOUS
<1>2. Total(f, A) \in Int /\ Total(f, A \ {i}) \in Int
  BY TotalInt
<1>3. Total(g, A \ {i}) = Total(f, A \ {i})
  BY <1>1, TotalAgree
<1>4. CASE i \in A
  <2>1. Total(f, A) = Total(f, A \ {i}) + f[i]
    BY <1>4, TotalRemove
  <2>2. Total(g, A) = Total(g, A \ {i}) + g[i]
    BY <1>1, <1>4, TotalRemove
  <2>3. f[i] \in Int /\ g[i] \in Int
    OBVIOUS
  <2>4. QED
    BY <1>2, <1>3, <1>4, <2>1, <2>2, <2>3
<1>5. CASE i \notin A
  BY <1>1, <1>5, TotalAgree
<1>6. QED
  BY <1>4, <1>5

(* A sum of naturals is the number of their units. *)
LEMMA TotalNat ==
    ASSUME NEW A \in SUBSET Sub, NEW f \in [Sub -> Nat]
    PROVE  Total(f, A) = Cardinality(Units(f, A)) /\ Total(f, A) \in Nat /\ IsFiniteSet(Units(f, A))
<1> DEFINE g == [i \in A |-> -f[i]]
<1>1. \A i \in A : f[i] \in Int /\ g[i] \in Int /\ g[i] <= 0
  OBVIOUS
<1>2. Cardinality(Units(f, A)) \in Nat /\ Cardinality(Units(g, A)) = 0 /\ IsFiniteSet(Units(f, A))
  <2> HIDE DEF g
  <2> QED BY <1>1, UnitsFinite, UnitsNone
<1>3. QED
  BY <1>2 DEF Total

(* A sum of naturals grows with the set. *)
LEMMA TotalMonotone ==
    ASSUME NEW B \in SUBSET Sub, NEW A \in SUBSET B, NEW f \in [Sub -> Nat]
    PROVE  Total(f, A) <= Total(f, B)
<1>1. Units(f, A) \subseteq Units(f, B)
  BY DEF Units
<1>2. QED
  BY <1>1, TotalNat, FS_Subset

(* A sum of zeros. *)
LEMMA TotalZero ==
    ASSUME NEW A \in SUBSET Sub, NEW f, \A i \in A : f[i] = 0
    PROVE  Total(f, A) = 0
<1> DEFINE g == [i \in A |-> -f[i]]
<1>1. \A i \in A : f[i] \in Int /\ f[i] <= 0 /\ g[i] \in Int /\ g[i] <= 0
  OBVIOUS
<1>2. Cardinality(Units(f, A)) = 0 /\ Cardinality(Units(g, A)) = 0
  <2> HIDE DEF g
  <2> QED BY <1>1, UnitsNone
<1>3. QED
  BY <1>2 DEF Total

(* A positive sum has a positive term. *)
LEMMA TotalPositive ==
    ASSUME NEW A \in SUBSET Sub, NEW f \in [Sub -> Int], Total(f, A) > 0
    PROVE  \E i \in A : f[i] > 0
<1>1. SUFFICES ASSUME \A i \in A : ~(f[i] > 0) PROVE FALSE
  OBVIOUS
<1> DEFINE g == [i \in A |-> -f[i]]
<1>2. \A i \in A : f[i] \in Int /\ f[i] <= 0 /\ g[i] \in Int
  BY <1>1
<1>3. Cardinality(Units(f, A)) = 0 /\ Cardinality(Units(g, A)) \in Nat
  <2> HIDE DEF g
  <2> QED BY <1>2, UnitsFinite, UnitsNone
<1>4. QED
  BY <1>3 DEF Total

(* Naturals that are nowhere larger and have the same sum are the same. *)
LEMMA TotalEqual ==
    ASSUME NEW A \in SUBSET Sub, NEW f \in [Sub -> Nat], NEW g \in [Sub -> Nat],
           \A i \in A : f[i] <= g[i], Total(f, A) = Total(g, A)
    PROVE  \A i \in A : f[i] = g[i]
<1>1. Units(f, A) \subseteq Units(g, A)
  <2>1. \A i \in A : 1..f[i] \subseteq 1..g[i]
    OBVIOUS
  <2>2. QED
    BY <2>1 DEF Units
<1>2. Units(f, A) = Units(g, A)
  BY <1>1, TotalNat, FS_Subset
<1>3. SUFFICES ASSUME NEW i \in A, f[i] < g[i] PROVE FALSE
  OBVIOUS
<1>4. <<i, g[i]>> \in Units(g, A)
  <2>1. g[i] \in 1..g[i]
    BY <1>3
  <2>2. QED
    BY <2>1 DEF Units
<1>5. <<i, g[i]>> \notin Units(f, A)
  <2>1. g[i] \notin 1..f[i]
    BY <1>3
  <2>2. QED
    BY <2>1 DEF Units
<1>6. QED
  BY <1>2, <1>4, <1>5

(* The sum over one subflow. *)
LEMMA TotalSingle ==
    ASSUME NEW i \in Sub, NEW f \in [Sub -> Int]
    PROVE  Total(f, {i}) = f[i]
<1>1. Total(f, {}) = 0
  BY TotalZero
<1>2. {} \in SUBSET Sub /\ i \in Sub \ {} /\ {} \union {i} = {i} /\ f[i] \in Int
  OBVIOUS
<1>3. Total(f, {i}) = Total(f, {}) + f[i]
  BY <1>2, TotalAdd
<1>4. QED
  BY <1>1, <1>2, <1>3

(* Only the members of A matter to a sum that is zero elsewhere. *)
LEMMA TotalRestrict ==
    ASSUME NEW A \in SUBSET Sub, NEW f \in [Sub -> Nat], \A i \in Sub \ A : f[i] = 0
    PROVE  Total(f, Sub) = Total(f, A)
<1>1. Units(f, Sub) = Units(f, A)
  <2>1. \A i \in Sub : (1..f[i]) # {} => i \in A
    OBVIOUS
  <2>2. QED
    BY <2>1 DEF Units
<1>2. QED
  BY <1>1, TotalNat

(* What is zero does not count. *)
LEMMA TotalWithin ==
    ASSUME NEW A \in SUBSET Sub, NEW B \in SUBSET A, NEW f \in [Sub -> Int],
           \A i \in A \ B : f[i] = 0
    PROVE  Total(f, A) = Total(f, B)
<1> DEFINE g == [i \in A |-> -f[i]]
           h == [i \in B |-> -f[i]]
<1>1. Units(f, A) = Units(f, B)
  <2>1. \A i \in A : (1..f[i]) # {} => i \in B
    OBVIOUS
  <2>2. QED
    BY <2>1 DEF Units
<1>2. Units(g, A) = Units(h, B)
  <2>1. \A i \in A : (1..g[i]) # {} => i \in B
    OBVIOUS
  <2>2. \A i \in B : g[i] = h[i]
    OBVIOUS
  <2> HIDE DEF g, h
  <2>3. QED
    BY <2>1, <2>2 DEF Units
<1>3. QED
  BY <1>1, <1>2 DEF Total

(* There are N subflows. *)
LEMMA SubsCount == IsFiniteSet(Sub) /\ Cardinality(Sub) = N
<1>1. N \in Int /\ N > 0
  BY SubflowsAssumption
<1>2. IsFiniteSet(1..N) /\ Cardinality(1..N) = IF 1 > N THEN 0 ELSE N - 1 + 1
  BY <1>1, FS_Interval, 1 \in Int, Zenon
<1>3. QED
  BY <1>1, <1>2 DEF Sub

(* A sum of values up to m. *)
LEMMA TotalAtMost ==
    ASSUME NEW A \in SUBSET Sub, NEW m \in Nat, NEW f \in [Sub -> Int], \A i \in A : f[i] <= m
    PROVE  Total(f, A) <= Cardinality(A) * m
<1> DEFINE g == [i \in A |-> -f[i]]
<1>1. IsFiniteSet(A) /\ Cardinality(A) \in Nat
  BY SubFinite, FS_CardinalityType
<1>2. IsFiniteSet(1..m) /\ Cardinality(1..m) = m
  <2>1. IsFiniteSet(1..m) /\ Cardinality(1..m) = IF 1 > m THEN 0 ELSE m - 1 + 1
    BY FS_Interval, 1 \in Int, m \in Int, Zenon
  <2>2. QED
    BY <2>1
<1>3. IsFiniteSet(A \X (1..m)) /\ Cardinality(A \X (1..m)) = Cardinality(A) * m
  BY <1>1, <1>2, FS_Product
<1>4. Units(f, A) \subseteq A \X (1..m)
  <2>1. \A i \in A : 1..f[i] \subseteq 1..m
    OBVIOUS
  <2>2. QED
    BY <2>1 DEF Units
<1>5. Cardinality(Units(f, A)) <= Cardinality(A) * m /\ Cardinality(Units(f, A)) \in Nat
  BY <1>3, <1>4, FS_Subset, FS_CardinalityType
<1>6. Cardinality(Units(g, A)) \in Nat
  <2>1. \A i \in A : g[i] \in Int
    OBVIOUS
  <2> HIDE DEF g
  <2>2. QED
    BY <2>1, UnitsFinite, FS_CardinalityType
<1>7. Cardinality(A) * m \in Nat
  BY <1>1
<1> HIDE DEF g
<1>8. Total(f, A) = Cardinality(Units(f, A)) - Cardinality(Units(g, A))
  BY DEF Total, g
<1>9. QED
  BY <1>5, <1>6, <1>7, <1>8

-----------------------------------------------------------------------------
(* The credit of the current weights.                                      *)

(* A group of subflows is no larger than all of them. *)
LEMMA GroupSize ==
    ASSUME NEW A \in SUBSET Sub
    PROVE  /\ IsFiniteSet(A) /\ Cardinality(A) \in 0..N
           /\ \A i \in Sub \ A : Cardinality(A \union {i}) = Cardinality(A) + 1
           /\ \A i \in A : Cardinality(A \ {i}) = Cardinality(A) - 1
<1>1. IsFiniteSet(A) /\ Cardinality(A) \in Nat
  BY SubFinite, FS_CardinalityType
<1>2. Cardinality(A) <= N
  BY SubsCount, FS_Subset
<1>3. \A i \in Sub \ A : Cardinality(A \union {i}) = Cardinality(A) + 1
  BY <1>1, FS_AddElement
<1>4. \A i \in A : Cardinality(A \ {i}) = Cardinality(A) - 1
  BY <1>1, FS_RemoveElement
<1>5. QED
  BY <1>1, <1>2, <1>3, <1>4, SubflowsAssumption

(* Span is at least the number of subflows. *)
LEMMA SpanSize ==
    /\ N \in Nat /\ MaxWeight \in Nat /\ N * MaxWeight \in Nat
    /\ Span \in Nat /\ Span >= N
    /\ Evictable # {} => Span = 2 * N
BY SubflowsAssumption, WeightRRAssumption DEF Span

(* The ceiling of a group, of the groups with one more and one less.       *)
LEMMA CeilingArch ==
    ASSUME NEW k \in 0..N
    PROVE  /\ Ceiling(k) \in Nat
           /\ Ceiling(k + 1) \in Int /\ Ceiling(k - 1) \in Int
           /\ Ceiling(k + 1) + Ceiling(k - 1) = 2 * Ceiling(k) - 2 * (N * MaxWeight)
<1> DEFINE P == N * MaxWeight
           S == Span
           q == k * (S - k)
<1>1. N \in Nat /\ P \in Nat /\ S \in Nat /\ S - k \in Nat
  BY SpanSize
<1> HIDE DEF P, S
<1>2. q \in Nat
  BY <1>1
<1>3. (k + 1) * (S - (k + 1)) = q + S - 2 * k - 1
  BY <1>1
<1>4. (k - 1) * (S - (k - 1)) = q - S + 2 * k - 1
  BY <1>1
<1>5. /\ Ceiling(k) = q * P
      /\ Ceiling(k + 1) = (q + S - 2 * k - 1) * P
      /\ Ceiling(k - 1) = (q - S + 2 * k - 1) * P
  BY <1>3, <1>4 DEF Ceiling, P, S
<1>6. \A a, b \in Int : (a + b) * P = a * P + b * P
  BY <1>1
<1> HIDE DEF q
<1>7. (q + S - 2 * k - 1) * P + (q - S + 2 * k - 1) * P = (2 * q - 2) * P
  BY <1>1, <1>2, <1>6
<1>8. (2 * q - 2) * P = 2 * (q * P) - 2 * P
  BY <1>1, <1>2
<1>9. q * P \in Nat /\ (q + S - 2 * k - 1) * P \in Int /\ (q - S + 2 * k - 1) * P \in Int
  BY <1>1, <1>2
<1>10. QED
  BY <1>5, <1>7, <1>8, <1>9 DEF P

(* Of a map that drops entries, a larger group has a higher ceiling.       *)
LEMMA CeilingGrows ==
    ASSUME Evictable # {}, NEW k \in 0..N, NEW j \in 0..k
    PROVE  Ceiling(j) <= Ceiling(k)
<1> DEFINE P == N * MaxWeight
<1>1. N \in Nat /\ P \in Nat /\ Span = 2 * N
  BY SpanSize
<1> HIDE DEF P
<1>2. PICK d \in Nat : k = j + d
  BY <1>1
<1>3. PICK e \in Nat : 2 * N = j + k + e
  BY <1>1
<1>4. k * (2 * N - k) = j * (2 * N - j) + d * e
  <2>1. 2 * N - k = j + e /\ 2 * N - j = j + d + e
    BY <1>1, <1>2, <1>3
  <2>2. (j + d) * (j + e) = j * (j + d + e) + d * e
    BY <1>2, <1>3
  <2>3. QED
    BY <1>2, <2>1, <2>2
<1>5. d * e \in Nat /\ j * (2 * N - j) \in Nat
  BY <1>1, <1>2, <1>3
<1>6. \A a, b \in Nat : a * P <= (a + b) * P
  BY <1>1
<1>7. QED
  BY <1>1, <1>4, <1>5, <1>6 DEF Ceiling, P

(* A step that moves no credit keeps it where it is: before a winner there *)
(* is none to move, and after one the walk goes on.                        *)
LEMMA CreditStays ==
    ASSUME CreditInv, TypeOK, TypeOK', UNCHANGED <<cw, totalWeight, best>>,
           best # NoSub => /\ bestCw' = bestCw
                           /\ pc' = "commit" \/ (pc # "commit" /\ pos' >= pos)
    PROVE  CreditInv'
<1>1. PICK gain \in [Sub -> 0..MaxWeight], kept \in [Sub -> Int] :
        /\ GainOfRound(gain, kept)
        /\ \A i \in Sub : cw[i] = kept[i] \/ Dropped(gain, i)
        /\ NoGroupAhead(gain, kept)
  BY DEF CreditInv
<1>2. \A i \in Sub : gain[i] \in Nat
  OBVIOUS
<1>3. ASSUME pc' # "commit", NEW i \in Sub, i >= pos' PROVE gain[i] = 0
  <2>1. CASE best = NoSub
    BY <1>1, <1>2, <2>1 DEF GainOfRound
  <2>2. CASE best # NoSub
    <3>1. i >= pos
      BY <1>3, <2>2 DEF TypeOK, Sub
    <3>2. QED
      BY <1>1, <1>3, <2>2, <3>1 DEF GainOfRound
  <2>3. QED
    BY <2>1, <2>2
<1>4. GainOfRound(gain, kept)'
  BY <1>1, <1>2, <1>3 DEF GainOfRound
<1>5. \A i \in Sub : cw'[i] = kept[i] \/ Dropped(gain, i)'
  BY <1>1 DEF Dropped
<1>6. NoGroupAhead(gain, kept)'
  BY <1>1 DEF NoGroupAhead
<1>7. QED
  BY <1>4, <1>5, <1>6 DEF CreditInv

(* A bump gives one subflow its weight, and counts it. *)
LEMMA CreditBump ==
    ASSUME CreditInv, TypeOK, TypeOK', pc = "round", Bump(pos),
           pc' = "commit" \/ (pc' = "round" /\ pos' = pos + 1)
    PROVE  CreditInv'
<1>1. PICK gain \in [Sub -> 0..MaxWeight], kept \in [Sub -> Int] :
        /\ GainOfRound(gain, kept)
        /\ \A i \in Sub : cw[i] = kept[i] \/ Dropped(gain, i)
        /\ NoGroupAhead(gain, kept)
  BY DEF CreditInv
<1>2. pos \in Sub /\ cw \in [Sub -> Int] /\ cw[pos] \in Int /\ totalWeight \in Nat
      /\ bestCw \in Int /\ pos # NoSub
  <2>1. pos \in Sub /\ cw \in [Sub -> Int] /\ totalWeight \in Nat /\ bestCw \in Int
    BY DEF TypeOK
  <2>2. pos # NoSub
    BY <2>1 DEF Sub, NoSub
  <2>3. QED
    BY <2>1, <2>2
<1>3. PICK w \in 1..MaxWeight : w = Weight(pos)
  BY <1>2, WeightAtMost
<1>4. gain \in [Sub -> Int] /\ gain[pos] = 0 /\ kept[pos] = cw[pos]
  <2>1. \A i \in Sub : i >= pos => gain[i] = 0
    BY <1>1 DEF GainOfRound
  <2>2. gain[pos] = 0
    BY <1>2, <2>1 DEF Sub
  <2>3. QED
    BY <1>1, <1>2, <2>2 DEF Dropped
<1>5. PICK gain2 \in [Sub -> 0..MaxWeight] : gain2 = [gain EXCEPT ![pos] = w]
  <2>1. w \in 0..MaxWeight
    BY <1>3
  <2>2. QED
    BY <1>2, <2>1
<1>6. PICK kept2 \in [Sub -> Int] : kept2 = [kept EXCEPT ![pos] = cw[pos] + w]
  <2>1. cw[pos] + w \in Int
    BY <1>2, <1>3
  <2>2. QED
    BY <1>2, <2>1
<1>7. /\ cw' = [cw EXCEPT ![pos] = cw[pos] + w]
      /\ totalWeight' = totalWeight + w
      /\ \/ (best = NoSub \/ cw[pos] + w > bestCw) /\ best' = pos /\ bestCw' = cw[pos] + w
         \/ best # NoSub /\ ~(cw[pos] + w > bestCw) /\ best' = best /\ bestCw' = bestCw
  BY <1>3 DEF Bump
<1>8. \A i \in Sub : /\ i # pos => /\ gain2[i] = gain[i] /\ kept2[i] = kept[i]
                                   /\ cw'[i] = cw[i]
                     /\ gain2[pos] = w /\ kept2[pos] = cw[pos] + w /\ cw'[pos] = cw[pos] + w
  BY <1>2, <1>5, <1>6, <1>7
<1>9. ASSUME NEW A \in SUBSET Sub
      PROVE  /\ Total(kept2, A) = Total(kept, A) + (IF pos \in A THEN w ELSE 0)
             /\ Total(gain2, A) = Total(gain, A) + (IF pos \in A THEN w ELSE 0)
             /\ Total(kept, A) \in Int /\ Total(gain, A) \in Int
  <2>1. gain2 \in [Sub -> Int] /\ w \in Int
    BY <1>3, <1>5
  <2>2. /\ pos \in A => Total(kept2, A) = Total(kept, A) + (kept2[pos] - kept[pos])
        /\ pos \notin A => Total(kept2, A) = Total(kept, A)
    BY <1>2, <1>8, TotalUpdate
  <2>3. /\ pos \in A => Total(gain2, A) = Total(gain, A) + (gain2[pos] - gain[pos])
        /\ pos \notin A => Total(gain2, A) = Total(gain, A)
    BY <1>2, <1>4, <1>8, <2>1, TotalUpdate
  <2>4. Total(kept, A) \in Int /\ Total(gain, A) \in Int
    BY <1>4, TotalInt
  <2>5. kept2[pos] - kept[pos] = w /\ gain2[pos] - gain[pos] = w
    BY <1>2, <1>4, <1>8, <2>1
  <2>6. QED
    BY <2>1, <2>2, <2>3, <2>4, <2>5
<1>10. NoGroupAhead(gain2, kept2)'
  <2>1. ASSUME NEW A \in SUBSET Sub
        PROVE  Total(kept2, A) - Total(gain2, A) = Total(kept, A) - Total(gain, A)
    <3>1. w \in Int
      BY <1>3
    <3>2. QED
      BY <1>9, <3>1
  <2>2. QED
    BY <1>1, <2>1 DEF NoGroupAhead
<1>11. GainOfRound(gain2, kept2)'
  <2>1. Total(gain2, Sub) = totalWeight'
    BY <1>1, <1>2, <1>7, <1>9 DEF GainOfRound
  <2>2. w > 0 /\ w \in Int /\ \A i \in Sub : gain[i] \in Nat /\ kept[i] \in Int
    BY <1>2, <1>3
  <2>3. \A i \in Sub : gain2[i] > 0 => best' # NoSub /\ kept2[i] <= bestCw'
    BY <1>1, <1>2, <1>7, <1>8, <2>2 DEF GainOfRound
  <2>4. best' # NoSub => gain2[best'] > 0 /\ kept2[best'] = bestCw'
    <3>1. CASE best' = pos /\ bestCw' = cw[pos] + w
      BY <1>2, <1>8, <2>2, <3>1
    <3>2. CASE best # NoSub /\ best' = best /\ bestCw' = bestCw
      <4>1. best \in Sub /\ gain[best] > 0 /\ kept[best] = bestCw
        BY <1>1, <3>2 DEF GainOfRound, TypeOK
      <4>2. best # pos
        BY <1>4, <4>1
      <4>3. QED
        BY <1>8, <3>2, <4>1, <4>2
    <3>3. QED
      BY <1>7, <3>1, <3>2
  <2>5. ASSUME pc' # "commit", NEW i \in Sub, i >= pos' PROVE gain2[i] = 0
    <3>1. i >= pos /\ i # pos
      BY <1>2, <2>5 DEF Sub
    <3>2. QED
      BY <1>1, <1>8, <3>1 DEF GainOfRound
  <2>6. QED
    BY <2>1, <2>3, <2>4, <2>5 DEF GainOfRound
<1>12. \A i \in Sub : cw'[i] = kept2[i] \/ Dropped(gain2, i)'
  BY <1>1, <1>8 DEF Dropped
<1>13. QED
  BY <1>10, <1>11, <1>12 DEF CreditInv

(* A round that has bumped nobody yet. *)
LEMMA NoGain ==
    \E none \in [Sub -> 0..MaxWeight] :
        /\ none = [i \in Sub |-> 0]
        /\ \A A \in SUBSET Sub : Total(none, A) = 0
<1>1. [i \in Sub |-> 0] \in [Sub -> 0..MaxWeight]
  BY SpanSize
<1>2. \A A \in SUBSET Sub : Total([i \in Sub |-> 0], A) = 0
  <2> DEFINE none == [i \in Sub |-> 0]
  <2>1. SUFFICES ASSUME NEW A \in SUBSET Sub PROVE Total(none, A) = 0
    OBVIOUS
  <2>2. \A i \in A : none[i] = 0
    OBVIOUS
  <2> HIDE DEF none
  <2>3. QED
    BY <2>2, TotalZero
<1>3. QED
  BY <1>1, <1>2

(* Before the first call nobody holds or owes anything. *)
LEMMA CreditInit == Init => CreditInv
<1> SUFFICES ASSUME Init PROVE CreditInv
  OBVIOUS
<1>1. cw \in [Sub -> Int] /\ \A i \in Sub : cw[i] = 0
  BY DEF Init
<1>2. PICK gain \in [Sub -> 0..MaxWeight] :
        gain = [i \in Sub |-> 0] /\ \A A \in SUBSET Sub : Total(gain, A) = 0
  BY NoGain
<1>3. GainOfRound(gain, cw)
  BY <1>2 DEF Init, GainOfRound
<1>4. NoGroupAhead(gain, cw)
  <2> SUFFICES ASSUME NEW A \in SUBSET Sub
               PROVE  Total(cw, A) - Total(gain, A)
                        \in -Ceiling(Cardinality(A))..Ceiling(Cardinality(A))
    BY DEF NoGroupAhead
  <2>1. Ceiling(Cardinality(A)) \in Nat
    BY GroupSize, CeilingArch
  <2>2. Total(cw, A) = 0 /\ Total(gain, A) = 0
    BY <1>1, <1>2, TotalZero
  <2>3. QED
    BY <2>1, <2>2
<1>5. QED
  BY <1>1, <1>3, <1>4 DEF CreditInv

(* The debit takes back from the winner all that the round has handed out. *)
(* A group without the winner cannot have gone over its ceiling: with the  *)
(* winner, who is at least as far ahead as any it bumped, it would be over *)
(* that of a larger group.  Nor can one with the winner have gone under    *)
(* its floor, by the same argument about a subflow it leaves out.          *)
LEMMA DebitKeepsCeilings ==
    ASSUME NEW gain \in [Sub -> 0..MaxWeight], NEW kept \in [Sub -> Int],
           NEW debited \in [Sub -> Int], NEW A \in SUBSET Sub,
           GainOfRound(gain, kept), NoGroupAhead(gain, kept), TypeOK, best # NoSub,
           debited[best] = bestCw - totalWeight,
           \A i \in Sub : i # best => debited[i] = kept[i]
    PROVE  Total(debited, A) \in -Ceiling(Cardinality(A))..Ceiling(Cardinality(A))
<1> DEFINE W == totalWeight
           P == N * MaxWeight
           k == Cardinality(A)
<1>1. MaxWeight \in Nat /\ N \in Nat /\ P \in Nat
  BY SpanSize
<1>2. gain \in [Sub -> Nat] /\ gain \in [Sub -> Int]
  BY <1>1
<1>3. /\ best \in Sub /\ kept[best] = bestCw /\ Total(gain, Sub) = W
      /\ \A i \in Sub : gain[i] > 0 => kept[i] <= kept[best]
  BY DEF GainOfRound, TypeOK
<1>4. W \in Nat /\ W <= P
  <2>1. W \in Nat
    BY DEF TypeOK
  <2>2. \A i \in Sub : gain[i] <= MaxWeight
    BY <1>1
  <2>3. Total(gain, Sub) <= Cardinality(Sub) * MaxWeight
    BY <1>1, <1>2, <2>2, TotalAtMost
  <2>4. QED
    BY <1>3, <2>1, <2>3, SubsCount
<1>5. ASSUME NEW B \in SUBSET Sub
      PROVE  /\ Total(kept, B) \in Int /\ Total(gain, B) \in Nat /\ Total(gain, B) <= W
             /\ Ceiling(Cardinality(B)) \in Nat
             /\ Total(kept, B) - Total(gain, B) <= Ceiling(Cardinality(B))
             /\ Total(kept, B) - Total(gain, B) >= -Ceiling(Cardinality(B))
  <2>1. Total(kept, B) \in Int /\ Total(gain, B) \in Nat
    BY <1>2, TotalInt, TotalNat
  <2>2. Total(gain, B) <= W
    BY <1>2, <1>3, TotalMonotone
  <2>3. Ceiling(Cardinality(B)) \in Nat
    BY GroupSize, CeilingArch
  <2>4. Total(kept, B) - Total(gain, B) \in -Ceiling(Cardinality(B))..Ceiling(Cardinality(B))
    BY DEF NoGroupAhead
  <2>5. QED
    BY <2>1, <2>2, <2>3, <2>4
<1>6. /\ best \in A => Total(debited, A) = Total(kept, A) - W
      /\ best \notin A => Total(debited, A) = Total(kept, A)
  <2>1. /\ best \in A => Total(debited, A) = Total(kept, A) + (debited[best] - kept[best])
        /\ best \notin A => Total(debited, A) = Total(kept, A)
    BY <1>3, TotalUpdate
  <2>2. kept[best] \in Int /\ bestCw \in Int
    BY <1>3
  <2>3. debited[best] - kept[best] = -W
    BY <1>3, <1>4, <2>2
  <2>4. QED
    BY <1>4, <1>5, <2>1, <2>3
<1>7. /\ k \in 0..N
      /\ Ceiling(k) \in Nat /\ Ceiling(k + 1) \in Int /\ Ceiling(k - 1) \in Int
      /\ Ceiling(k + 1) + Ceiling(k - 1) = 2 * Ceiling(k) - 2 * P
  BY GroupSize, CeilingArch
<1>8. CASE best \notin A /\ \A i \in A : gain[i] = 0
  <2>1. Total(gain, A) = 0
    BY <1>8, TotalZero
  <2> HIDE DEF W, P, k
  <2>2. QED
    BY <1>5, <1>6, <1>8, <2>1 DEF k
<1>9. CASE best \notin A /\ \E i \in A : gain[i] # 0
  <2>1. PICK i \in A : gain[i] # 0
    BY <1>9
  <2> DEFINE B == A \union {best}
             C == A \ {i}
  <2>2. kept[i] <= kept[best] /\ kept[i] \in Int /\ kept[best] \in Int
    BY <1>2, <1>3, <2>1
  <2>3. B \in SUBSET Sub /\ C \in SUBSET Sub /\ best \in Sub \ A
    BY <1>3, <1>9
  <2>4. Cardinality(B) = k + 1 /\ Cardinality(C) = k - 1
    BY <2>1, <2>3, GroupSize
  <2>5. Total(kept, B) = Total(kept, A) + kept[best] /\ Total(kept, A) = Total(kept, C) + kept[i]
    BY <2>1, <2>3, TotalAdd, TotalRemove
  <2> HIDE DEF B, C
  <2>6. /\ Total(kept, B) \in Int /\ Total(gain, B) \in Nat /\ Total(gain, B) <= W
        /\ Total(kept, B) - Total(gain, B) <= Ceiling(k + 1)
    BY <1>5, <2>3, <2>4
  <2>7. /\ Total(kept, C) \in Int /\ Total(gain, C) \in Nat /\ Total(gain, C) <= W
        /\ Total(kept, C) - Total(gain, C) <= Ceiling(k - 1)
    BY <1>5, <2>3, <2>4
  <2>8. /\ Total(kept, A) \in Int /\ Total(gain, A) \in Nat /\ Total(gain, A) <= W
        /\ Total(kept, A) - Total(gain, A) >= -Ceiling(k)
    BY <1>5
  <2>9. Total(debited, A) = Total(kept, A)
    BY <1>6, <1>9
  <2> HIDE DEF W, P, k
  <2>10. Total(kept, A) <= Ceiling(k)
    BY <1>1, <1>4, <1>7, <2>2, <2>5, <2>6, <2>7, <2>8
  <2>11. Total(kept, A) >= -Ceiling(k)
    BY <1>7, <2>8
  <2>12. QED
    BY <1>7, <2>8, <2>9, <2>10, <2>11 DEF k
<1>10. CASE best \in A /\ \A j \in Sub \ A : gain[j] = 0
  <2>1. Total(gain, A) = W
    BY <1>2, <1>3, <1>10, TotalRestrict
  <2> HIDE DEF W, P, k
  <2>2. QED
    BY <1>4, <1>5, <1>6, <1>10, <2>1 DEF k
<1>11. CASE best \in A /\ \E j \in Sub \ A : gain[j] # 0
  <2>1. PICK j \in Sub \ A : gain[j] # 0
    BY <1>11
  <2> DEFINE B == A \union {j}
             C == A \ {best}
  <2>2. kept[j] <= kept[best] /\ kept[j] \in Int /\ kept[best] \in Int
    BY <1>2, <1>3, <2>1
  <2>3. B \in SUBSET Sub /\ C \in SUBSET Sub
    BY <2>1
  <2>4. Cardinality(B) = k + 1 /\ Cardinality(C) = k - 1
    BY <1>11, <2>1, GroupSize
  <2>5. Total(kept, B) = Total(kept, A) + kept[j] /\ Total(kept, A) = Total(kept, C) + kept[best]
    BY <1>11, <2>1, TotalAdd, TotalRemove
  <2> HIDE DEF B, C
  <2>6. /\ Total(kept, B) \in Int /\ Total(gain, B) \in Nat
        /\ Total(kept, B) - Total(gain, B) >= -Ceiling(k + 1)
    BY <1>5, <2>3, <2>4
  <2>7. /\ Total(kept, C) \in Int /\ Total(gain, C) \in Nat
        /\ Total(kept, C) - Total(gain, C) >= -Ceiling(k - 1)
    BY <1>5, <2>3, <2>4
  <2>8. /\ Total(kept, A) \in Int /\ Total(gain, A) \in Nat /\ Total(gain, A) <= W
        /\ Total(kept, A) - Total(gain, A) <= Ceiling(k)
    BY <1>5
  <2>9. Total(debited, A) = Total(kept, A) - W
    BY <1>6, <1>11
  <2> HIDE DEF W, P, k
  <2>10. Total(kept, A) - W >= -Ceiling(k)
    BY <1>1, <1>4, <1>7, <2>2, <2>5, <2>6, <2>7, <2>8
  <2>11. Total(kept, A) - W <= Ceiling(k)
    BY <1>4, <1>7, <2>8
  <2>12. QED
    BY <1>4, <1>7, <2>8, <2>9, <2>10, <2>11 DEF k
<1>12. QED
  BY <1>8, <1>9, <1>10, <1>11

(* Entries that are dropped count for nothing: what is left is the credit  *)
(* of a smaller group, with a lower ceiling.                               *)
LEMMA DropKeepsCeilings ==
    ASSUME Evictable # {}, NEW f \in [Sub -> Int], NEW g \in [Sub -> Int],
           NEW A \in SUBSET Sub, \A i \in A : g[i] = f[i] \/ g[i] = 0,
           \A B \in SUBSET A : Total(f, B) \in -Ceiling(Cardinality(B))..Ceiling(Cardinality(B))
    PROVE  Total(g, A) \in -Ceiling(Cardinality(A))..Ceiling(Cardinality(A))
<1> DEFINE B == {i \in A : g[i] = f[i]}
<1>1. B \in SUBSET A /\ B \in SUBSET Sub
  OBVIOUS
<1>2. Total(g, A) = Total(g, B)
  <2>1. \A i \in A \ B : g[i] = 0
    OBVIOUS
  <2> HIDE DEF B
  <2>2. QED
    BY <1>1, <2>1, TotalWithin
<1>3. Total(g, B) = Total(f, B)
  BY TotalAgree
<1>4. Total(f, B) \in Int /\ Total(f, B) \in -Ceiling(Cardinality(B))..Ceiling(Cardinality(B))
  BY <1>1, TotalInt
<1>5. /\ Cardinality(A) \in 0..N /\ Cardinality(B) \in 0..Cardinality(A)
      /\ Ceiling(Cardinality(A)) \in Nat /\ Ceiling(Cardinality(B)) \in Nat
  <2>1. Cardinality(A) \in 0..N /\ Cardinality(B) \in 0..N /\ IsFiniteSet(A)
    BY <1>1, GroupSize
  <2>2. Cardinality(B) <= Cardinality(A)
    BY <1>1, <2>1, FS_Subset
  <2>3. QED
    BY <2>1, <2>2, CeilingArch
<1> HIDE DEF B
<1>6. Ceiling(Cardinality(B)) <= Ceiling(Cardinality(A))
  BY <1>5, CeilingGrows
<1>7. QED
  BY <1>2, <1>3, <1>4, <1>5, <1>6

(* The debit, written from what the round has read: the entries the map    *)
(* has dropped meanwhile stay dropped.                                     *)
LEMMA CreditCommit ==
    ASSUME CreditInv, TypeOK, TypeOK', Commit, best # NoSub
    PROVE  CreditInv'
<1>0. best \in Sub /\ best' = NoSub /\ totalWeight' = 0
  BY DEF Commit, Return, TypeOK
<1>1. PICK gain \in [Sub -> 0..MaxWeight], kept \in [Sub -> Int] :
        /\ GainOfRound(gain, kept)
        /\ \A i \in Sub : cw[i] = kept[i] \/ Dropped(gain, i)
        /\ NoGroupAhead(gain, kept)
  BY DEF CreditInv
<1>2. PICK now \in [Sub -> Int] : now = cw' /\ now = [cw EXCEPT ![best] = bestCw - totalWeight]
  BY DEF Commit, Debited, TypeOK
<1>3. PICK debited \in [Sub -> Int] : debited = [kept EXCEPT ![best] = bestCw - totalWeight]
  <2>1. bestCw - totalWeight \in Int
    BY DEF TypeOK
  <2>2. QED
    BY <1>0, <2>1
<1>4. /\ debited[best] = bestCw - totalWeight
      /\ \A i \in Sub : i # best => debited[i] = kept[i]
  BY <1>0, <1>3
<1>5. \A A \in SUBSET Sub : Total(debited, A) \in -Ceiling(Cardinality(A))..Ceiling(Cardinality(A))
  BY <1>1, <1>4, DebitKeepsCeilings
<1>6. \A i \in Sub : now[i] = debited[i] \/ (now[i] = 0 /\ Evictable # {})
  BY <1>0, <1>1, <1>2, <1>3 DEF Dropped, TypeOK
<1>7. PICK none \in [Sub -> 0..MaxWeight] :
        none = [i \in Sub |-> 0] /\ \A A \in SUBSET Sub : Total(none, A) = 0
  BY NoGain
<1>8. NoGroupAhead(none, now)'
  <2> SUFFICES ASSUME NEW A \in SUBSET Sub
               PROVE  Total(now, A) - Total(none, A)
                        \in -Ceiling(Cardinality(A))..Ceiling(Cardinality(A))
    BY DEF NoGroupAhead
  <2>1. CASE Evictable = {}
    <3>1. Total(now, A) = Total(debited, A)
      BY <1>6, <2>1, TotalAgree
    <3>2. Total(now, A) \in Int /\ Total(none, A) = 0
      BY <1>2, <1>7, TotalInt
    <3>3. QED
      BY <1>5, <3>1, <3>2
  <2>2. CASE Evictable # {}
    <3>1. Total(now, A) \in -Ceiling(Cardinality(A))..Ceiling(Cardinality(A))
      <4>1. \A i \in A : now[i] = debited[i] \/ now[i] = 0
        BY <1>6
      <4>2. \A B \in SUBSET A : Total(debited, B) \in -Ceiling(Cardinality(B))..Ceiling(Cardinality(B))
        BY <1>5
      <4>3. QED
        BY <2>2, <4>1, <4>2, DropKeepsCeilings
    <3>2. Total(now, A) \in Int /\ Total(none, A) = 0
      BY <1>2, <1>7, TotalInt
    <3>3. QED
      BY <3>1, <3>2
  <2>3. QED
    BY <2>1, <2>2
<1>9. GainOfRound(none, now)'
  BY <1>0, <1>7 DEF GainOfRound
<1>10. QED
  BY <1>2, <1>8, <1>9 DEF CreditInv

(* get_send keeps the credit. *)
LEMMA CreditWalk ==
    ASSUME IInv, IInv', CreditInv, Call \/ Walk
    PROVE  CreditInv'
<1>1. TypeOK /\ TypeOK'
  BY DEF IInv
<1>2. CASE Call
  BY <1>1, <1>2, CreditStays DEF Call, Enter, IInv, RoundIsFresh
<1>3. CASE Screen
  BY <1>1, <1>3, CreditStays DEF Screen, Return, Enter, IInv, RoundIsFresh
<1>4. CASE Check
  BY <1>1, <1>4, CreditStays DEF Check, Return, Enter, IInv, RoundIsFresh
<1>5. CASE Round
  <2>1. pc = "round" /\ (pc' = "commit" \/ (pc' = "round" /\ pos' = pos + 1))
    BY <1>5 DEF Round, Enter
  <2>2. CASE Bump(pos)
    BY <1>1, <2>1, <2>2, CreditBump
  <2>3. CASE UNCHANGED <<cw, totalWeight, best, bestCw>>
    <3>1. pos + 1 >= pos
      BY <1>1 DEF TypeOK, Sub
    <3>2. QED
      BY <1>1, <2>1, <2>3, <3>1, CreditStays
  <2>4. QED
    BY <1>5, <2>2, <2>3 DEF Round
<1>6. CASE Commit
  <2>1. CASE best = NoSub
    BY <1>1, <1>6, <2>1, CreditStays DEF Commit, Return, IInv, WinnerPermitted
  <2>2. CASE best # NoSub
    BY <1>1, <1>6, <2>2, CreditCommit
  <2>3. QED
    BY <2>1, <2>2
<1>7. QED
  BY <1>2, <1>3, <1>4, <1>5, <1>6 DEF Walk

(* The map drops an entry: one the round has not bumped is forgotten at    *)
(* once, one it has bumped when the round ends.                            *)
LEMMA CreditEvict ==
    ASSUME CreditInv, TypeOK, NEW i \in Sub, Evict(i)
    PROVE  CreditInv'
<1>1. PICK gain \in [Sub -> 0..MaxWeight], kept \in [Sub -> Int] :
        /\ GainOfRound(gain, kept)
        /\ \A j \in Sub : cw[j] = kept[j] \/ Dropped(gain, j)
        /\ NoGroupAhead(gain, kept)
  BY DEF CreditInv
<1>2. /\ Evictable # {} /\ cw' = [cw EXCEPT ![i] = 0]
      /\ UNCHANGED <<pc, pos, best, bestCw, totalWeight>>
  BY DEF Evict, localVars
<1>3. cw'[i] = 0 /\ \A j \in Sub : j # i => cw'[j] = cw[j]
  BY <1>2 DEF TypeOK
<1>4. CASE gain[i] > 0
  <2>1. \A j \in Sub : cw'[j] = kept[j] \/ Dropped(gain, j)'
    BY <1>1, <1>2, <1>3, <1>4 DEF Dropped
  <2>2. GainOfRound(gain, kept)' /\ NoGroupAhead(gain, kept)'
    BY <1>1, <1>2 DEF GainOfRound, NoGroupAhead
  <2>3. QED
    BY <2>1, <2>2 DEF CreditInv
<1>5. CASE ~(gain[i] > 0)
  <2>1. PICK kept2 \in [Sub -> Int] : kept2 = [kept EXCEPT ![i] = 0]
    <3>1. 0 \in Int
      OBVIOUS
    <3>2. QED
      BY <3>1
  <2>2. kept2[i] = 0 /\ \A j \in Sub : j # i => kept2[j] = kept[j]
    BY <2>1
  <2>3. gain \in [Sub -> Int] /\ gain[i] = 0
    BY <1>5, SpanSize
  <2>4. \A j \in Sub : cw'[j] = kept2[j] \/ Dropped(gain, j)'
    BY <1>1, <1>3, <2>2 DEF Dropped
  <2>5. GainOfRound(gain, kept2)'
    <3>1. \A j \in Sub : gain[j] > 0 => kept2[j] = kept[j]
      BY <1>5, <2>2
    <3>2. best # NoSub => best \in Sub
      BY DEF TypeOK
    <3>3. QED
      BY <1>1, <1>2, <3>1, <3>2 DEF GainOfRound
  <2>6. NoGroupAhead(gain, kept2)'
    <3> SUFFICES ASSUME NEW A \in SUBSET Sub
                 PROVE  Total(kept2, A) - Total(gain, A)
                          \in -Ceiling(Cardinality(A))..Ceiling(Cardinality(A))
      BY DEF NoGroupAhead
    <3>1. CASE i \notin A
      <4>1. Total(kept2, A) = Total(kept, A)
        BY <2>2, <3>1, TotalAgree
      <4>2. QED
        BY <1>1, <4>1 DEF NoGroupAhead
    <3>2. CASE i \in A
      <4> DEFINE B == A \ {i}
      <4>1. B \in SUBSET Sub /\ Cardinality(B) = Cardinality(A) - 1
        BY <3>2, GroupSize
      <4>2. Total(kept2, B) = Total(kept, B)
        BY <2>2, TotalAgree
      <4>3. Total(kept2, A) = Total(kept2, B) + kept2[i] /\ Total(gain, A) = Total(gain, B) + gain[i]
        BY <2>3, <3>2, TotalRemove
      <4> HIDE DEF B
      <4>4. Total(kept, B) \in Int /\ Total(gain, B) \in Int
        BY <2>3, <4>1, TotalInt
      <4>5. Total(kept, B) - Total(gain, B) \in -Ceiling(Cardinality(B))..Ceiling(Cardinality(B))
        BY <1>1, <4>1 DEF NoGroupAhead
      <4>6. /\ Cardinality(A) \in 0..N /\ Cardinality(B) \in 0..Cardinality(A)
            /\ Cardinality(B) \in 0..N
        BY <4>1, GroupSize
      <4>7. /\ Ceiling(Cardinality(B)) \in Nat /\ Ceiling(Cardinality(A)) \in Nat
            /\ Ceiling(Cardinality(B)) <= Ceiling(Cardinality(A))
        BY <1>2, <4>6, CeilingArch, CeilingGrows
      <4>8. Total(kept2, A) - Total(gain, A) = Total(kept, B) - Total(gain, B)
        BY <2>2, <2>3, <4>2, <4>3, <4>4
      <4>9. QED
        BY <4>4, <4>5, <4>7, <4>8
    <3>3. QED
      BY <3>1, <3>2
  <2>7. QED
    BY <2>4, <2>5, <2>6 DEF CreditInv
<1>6. QED
  BY <1>4, <1>5

(* Every step keeps the credit: the kernel changes subflows and the weight *)
(* manager writes weights, neither touches it.                             *)
LEMMA CreditStep ==
    ASSUME IInv, IInv', CreditInv, [Next]_vars
    PROVE  CreditInv'
<1>1. TypeOK /\ TypeOK'
  BY DEF IInv
<1>2. CASE Call \/ Walk
  BY <1>2, CreditWalk
<1>3. ASSUME UNCHANGED <<cw, localVars>> PROVE CreditInv'
  <2>1. pos' >= pos
    BY <1>1, <1>3 DEF localVars, TypeOK, Sub
  <2>2. QED
    BY <1>1, <1>3, <2>1, CreditStays DEF localVars
<1>4. CASE Disturb
  BY <1>3, <1>4 DEF Disturb
<1>5. ASSUME NEW i \in Sub, SetWeight(i) PROVE CreditInv'
  BY <1>3, <1>5 DEF SetWeight
<1>6. ASSUME NEW i \in Sub, Evict(i) PROVE CreditInv'
  BY <1>1, <1>6, CreditEvict
<1>7. CASE UNCHANGED vars
  BY <1>3, <1>7 DEF vars
<1>8. QED
  BY <1>2, <1>4, <1>5, <1>6, <1>7 DEF Next

(* The credit's inductive invariant, whatever the map drops. *)
THEOREM CreditInvariance == Spec => []CreditInv
<1>1. IInv /\ IInv' /\ CreditInv /\ [Next]_vars => CreditInv'
  BY CreditStep
<1>2. QED
  BY <1>1, Invariance, CreditInit, PTL DEF Spec

-----------------------------------------------------------------------------
(* A bump adds the same to both sides of the balance, and a debit takes    *)
(* the same from both, but for what the winner's entry has lost since.     *)
LEMMA BalanceWalk ==
    ASSUME IInv, IInv', Call \/ Walk
    PROVE  \/ Balance' = Balance
           \/ pc = "commit" /\ best # NoSub /\ Balance' = Balance + (bestCw - cw[best])
<1>1. /\ TypeOK /\ TypeOK' /\ cw \in [Sub -> Int] /\ cw' \in [Sub -> Int]
      /\ totalWeight \in Nat /\ bestCw \in Int
  BY DEF IInv, TypeOK
<1>2. Total(cw, Sub) \in Int /\ Sub \in SUBSET Sub
  BY <1>1, TotalInt
<1>3. ASSUME UNCHANGED <<cw, totalWeight>> PROVE Balance' = Balance
  BY <1>3 DEF Balance
<1>4. CASE Call \/ Screen \/ Check
  BY <1>3, <1>4 DEF Call, Screen, Check, Return, IInv, RoundIsFresh
<1>5. CASE Round
  <2>1. pos \in Sub
    BY <1>1 DEF TypeOK
  <2>2. CASE Bump(pos)
    <3>1. PICK w \in Nat : w = Weight(pos)
      BY <2>1, WeightPositive
    <3>2. cw' = [cw EXCEPT ![pos] = cw[pos] + w] /\ totalWeight' = totalWeight + w
      BY <2>2, <3>1 DEF Bump
    <3>3. /\ cw[pos] \in Int /\ cw'[pos] = cw[pos] + w
          /\ \A i \in Sub : i # pos => cw'[i] = cw[i]
      BY <1>1, <2>1, <3>2
    <3>4. Total(cw', Sub) = Total(cw, Sub) + (cw'[pos] - cw[pos])
      BY <1>1, <1>2, <2>1, <3>3, TotalUpdate
    <3>5. QED
      BY <1>1, <1>2, <3>2, <3>3, <3>4 DEF Balance
  <2>3. CASE UNCHANGED <<cw, totalWeight, best, bestCw>>
    BY <1>3, <2>3
  <2>4. QED
    BY <1>5, <2>2, <2>3 DEF Round
<1>6. CASE Commit
  <2>1. CASE best = NoSub
    BY <1>3, <1>6, <2>1 DEF Commit, Return, IInv, WinnerPermitted
  <2>2. CASE best # NoSub
    <3>1. /\ pc = "commit" /\ best \in Sub /\ totalWeight' = 0
          /\ cw' = [cw EXCEPT ![best] = bestCw - totalWeight]
      BY <1>1, <1>6, <2>2 DEF Commit, Return, Debited, TypeOK
    <3>2. /\ cw[best] \in Int /\ cw'[best] = bestCw - totalWeight
          /\ \A i \in Sub : i # best => cw'[i] = cw[i]
      BY <1>1, <3>1
    <3>3. Total(cw', Sub) = Total(cw, Sub) + (cw'[best] - cw[best])
      <4>1. best \in Sub
        BY <3>1
      <4>2. QED
        BY <1>1, <1>2, <3>2, <4>1, TotalUpdate
    <3>4. QED
      BY <1>1, <1>2, <2>2, <3>1, <3>2, <3>3 DEF Balance
  <2>3. QED
    BY <2>1, <2>2
<1>7. QED
  BY <1>4, <1>5, <1>6 DEF Walk

(* The winner's entry holds what the walk has read, or was dropped since.  *)
LEMMA WinnersEntry ==
    ASSUME TypeOK, CreditInv, best # NoSub
    PROVE  cw[best] = bestCw \/ cw[best] = 0
<1>1. PICK gain \in [Sub -> 0..MaxWeight], kept \in [Sub -> Int] :
        /\ GainOfRound(gain, kept)
        /\ \A i \in Sub : cw[i] = kept[i] \/ Dropped(gain, i)
  BY DEF CreditInv
<1>2. best \in Sub /\ kept[best] = bestCw
  BY <1>1 DEF GainOfRound, TypeOK
<1>3. QED
  BY <1>1, <1>2 DEF Dropped

LEMMA CreditKeptStep ==
    ASSUME IInv, IInv', CreditInv, [Next]_vars
    PROVE  \/ Balance' = Balance
           \/ \E i \in Evictable : Evict(i)
           \/ pc = "commit" /\ cw[best] = 0 /\ Balance' = Balance + bestCw
<1>1. TypeOK /\ cw \in [Sub -> Int] /\ totalWeight \in Int /\ bestCw \in Int
  BY DEF IInv, TypeOK
<1>2. Balance \in Int
  <2>1. Sub \in SUBSET Sub
    OBVIOUS
  <2>2. Total(cw, Sub) \in Int
    BY <1>1, <2>1, TotalInt
  <2>3. QED
    BY <1>1, <2>2 DEF Balance
<1>3. CASE Call \/ Walk
  <2>1. ASSUME pc = "commit", best # NoSub, Balance' = Balance + (bestCw - cw[best])
        PROVE  Balance' = Balance \/ (cw[best] = 0 /\ Balance' = Balance + bestCw)
    BY <1>1, <1>2, <2>1, WinnersEntry
  <2>2. QED
    BY <1>3, <2>1, BalanceWalk
<1>4. ASSUME UNCHANGED <<cw, totalWeight>> PROVE Balance' = Balance
  BY <1>4 DEF Balance
<1>5. CASE Disturb \/ (\E i \in Sub : SetWeight(i)) \/ UNCHANGED vars
  BY <1>4, <1>5 DEF Disturb, SetWeight, vars, localVars
<1>6. ASSUME NEW i \in Sub, Evict(i) PROVE \E j \in Evictable : Evict(j)
  BY <1>6 DEF Evict
<1>7. QED
  BY <1>3, <1>5, <1>6 DEF Next

(* No candidate that comes or goes, no weight that changes under a round   *)
(* and no winner that turns out full loses credit or makes any: only the   *)
(* LRU map does.                                                           *)
THEOREM CreditNeverLost == Spec => CreditKept
<1>1. IInv /\ IInv' /\ CreditInv /\ [Next]_vars =>
        \/ Balance' = Balance
        \/ \E i \in Evictable : Evict(i)
        \/ pc = "commit" /\ cw[best] = 0 /\ Balance' = Balance + bestCw
  BY CreditKeptStep
<1>2. QED
  BY <1>1, Invariance, CreditInvariance, PTL DEF Spec, CreditKept

(* If the map drops no entry, the ceiling of all the subflows is zero.     *)
LEMMA ConservedAll == Evictable = {} /\ TypeOK /\ CreditInv => CreditConserved
<1> SUFFICES ASSUME Evictable = {}, TypeOK, CreditInv PROVE CreditConserved
  OBVIOUS
<1>1. PICK gain \in [Sub -> 0..MaxWeight], kept \in [Sub -> Int] :
        /\ GainOfRound(gain, kept)
        /\ \A i \in Sub : cw[i] = kept[i] \/ Dropped(gain, i)
        /\ NoGroupAhead(gain, kept)
  BY DEF CreditInv
<1>2. Total(cw, Sub) = Total(kept, Sub)
  BY <1>1, TotalAgree DEF Dropped
<1>3. Total(kept, Sub) \in Int
  BY TotalInt
<1>4. Total(kept, Sub) - Total(gain, Sub) \in -Ceiling(N)..Ceiling(N)
  BY <1>1, SubsCount DEF NoGroupAhead
<1>5. Ceiling(N) = 0
  <2>1. Span = N /\ N - N = 0 /\ N * 0 = 0 /\ 0 * (N * MaxWeight) = 0
    BY SpanSize DEF Span
  <2>2. QED
    BY <2>1 DEF Ceiling
<1>6. Total(gain, Sub) = totalWeight /\ totalWeight \in Nat
  BY <1>1 DEF GainOfRound, TypeOK
<1>7. QED
  BY <1>2, <1>3, <1>4, <1>5, <1>6 DEF CreditConserved

(* Without evictions the current weights add up to zero outside a call and *)
(* under one to what it has bumped.                                        *)
THEOREM CreditAddsUp ==
    ASSUME Evictable = {}
    PROVE  Spec => []CreditConserved
<1>1. IInv /\ CreditInv => CreditConserved
  BY ConservedAll DEF IInv
<1>2. QED
  BY <1>1, Invariance, CreditInvariance, PTL

(* Between calls no current weight is further from zero than Drift. *)
LEMMA DriftBound == IInv /\ CreditInv => CwBounded
<1> SUFFICES ASSUME IInv, CreditInv, ~Busy, NEW i \in Sub
             PROVE  cw[i] \in -Drift..Drift
  BY DEF CwBounded
<1>1. PICK gain \in [Sub -> 0..MaxWeight], kept \in [Sub -> Int] :
        /\ GainOfRound(gain, kept)
        /\ \A j \in Sub : cw[j] = kept[j] \/ Dropped(gain, j)
        /\ NoGroupAhead(gain, kept)
  BY DEF CreditInv
<1>2. best = NoSub
  BY DEF IInv, RoundIsFresh, Busy
<1>3. gain \in [Sub -> Int] /\ gain[i] = 0
  BY <1>1, <1>2, SpanSize DEF GainOfRound
<1>4. cw[i] = kept[i] /\ kept[i] \in Int
  BY <1>1, <1>3 DEF Dropped
<1>5. Total(kept, {i}) - Total(gain, {i}) \in -Ceiling(1)..Ceiling(1)
  <2>1. {i} \in SUBSET Sub /\ Cardinality({i}) = 1
    BY FS_Singleton
  <2>2. QED
    BY <1>1, <2>1 DEF NoGroupAhead
<1>6. Total(kept, {i}) = kept[i] /\ Total(gain, {i}) = 0
  BY <1>3, TotalSingle
<1>7. Ceiling(1) = Drift
  <2>1. 1 * (Span - 1) = Span - 1 /\ (Span - 1) * N * MaxWeight = (Span - 1) * (N * MaxWeight)
    BY SpanSize
  <2>2. QED
    BY <2>1 DEF Ceiling, Drift
<1>8. QED
  BY <1>4, <1>5, <1>6, <1>7

(* However many subflows there are, however they, their memory and their   *)
(* weights change and whatever entries the map drops, a current weight     *)
(* stays within Drift: it does not run away with time.                     *)
THEOREM NoDrift == Spec => []CwBounded
BY DriftBound, Invariance, CreditInvariance, PTL

-----------------------------------------------------------------------------
(* How long a subflow waits for a turn.                                    *)

LEMMA DriftNat == Drift \in Nat
<1>1. Span - 1 \in Nat /\ N \in Nat /\ MaxWeight \in Nat
  BY SpanSize, SubflowsAssumption, WeightRRAssumption
<1>2. (Span - 1) * N \in Nat
  BY <1>1
<1>3. QED
  BY <1>1, <1>2 DEF Drift

(* What happens outside the walks neither bumps nor debits anybody; only   *)
(* an eviction sets a current weight, and starts the count again.          *)
LEMMA WaitStays ==
    ASSUME WaitPays, UNCHANGED <<cw, passed>>
    PROVE  WaitPays'
BY DEF WaitPays, Drift, Span

LEMMA WaitEvict ==
    ASSUME TypeOK, WaitPays, NEW i \in Sub, Evict(i), passed' = [passed EXCEPT ![i] = 0]
    PROVE  WaitPays'
<1>1. cw' = [cw EXCEPT ![i] = 0] /\ cw \in [Sub -> Int] /\ passed \in [Sub -> Nat]
  BY DEF Evict, TypeOK, WaitPays
<1>2. Drift \in Nat /\ Drift' = Drift
  BY DriftNat DEF Drift, Span
<1>3. \A j \in Sub : passed'[j] <= cw'[j] + Drift
  BY <1>1, <1>2 DEF WaitPays
<1>4. QED
  BY <1>1, <1>2, <1>3 DEF WaitPays

(* A bump is worth one unit of credit at least. *)
LEMMA WaitRound ==
    ASSUME TypeOK, WaitPays, Round, Wait
    PROVE  WaitPays'
<1>1. /\ pc = "round" /\ pos \in Sub /\ Drift \in Nat /\ Drift' = Drift
      /\ cw \in [Sub -> Int] /\ passed \in [Sub -> Nat]
  BY DriftNat DEF Round, TypeOK, WaitPays, Drift, Span
<1>2. passed' = [i \in Sub |-> IF i = pos /\ InRound(i) THEN passed[i] + 1 ELSE passed[i]]
  BY <1>1 DEF Wait, Winning, Bumping
<1>3. CASE InRound(pos) /\ Bump(pos)
  <2>1. Weight(pos) \in Nat /\ Weight(pos) >= 1
    BY <1>1, WeightPositive
  <2>2. cw' = [cw EXCEPT ![pos] = cw[pos] + Weight(pos)]
    BY <1>3 DEF Bump
  <2>3. passed' = [passed EXCEPT ![pos] = passed[pos] + 1]
    BY <1>1, <1>2, <1>3
  <2>4. \A j \in Sub : passed'[j] <= cw'[j] + Drift
    BY <1>1, <2>1, <2>2, <2>3 DEF WaitPays
  <2>5. QED
    BY <1>1, <2>3, <2>4 DEF WaitPays
<1>4. CASE ~InRound(pos) /\ cw' = cw
  <2>1. passed' = passed
    BY <1>1, <1>2, <1>4
  <2>2. QED
    BY <1>4, <2>1, WaitStays
<1>5. QED
  BY <1>3, <1>4 DEF Round

(* Winning clears the count, and leaves the winner no further in debt than *)
(* a call may.                                                             *)
LEMMA WaitCommit ==
    ASSUME TypeOK, WaitPays, Commit, Wait, CwBounded'
    PROVE  WaitPays'
<1>1. /\ pc = "commit" /\ ~Busy' /\ Drift \in Nat /\ Drift' = Drift
      /\ cw \in [Sub -> Int] /\ passed \in [Sub -> Nat]
  BY DriftNat DEF Commit, Return, Busy, TypeOK, WaitPays, Drift, Span
<1>2. passed' = [i \in Sub |-> IF i = best THEN 0 ELSE passed[i]]
  BY <1>1 DEF Wait, Winning, Bumping
<1>3. CASE best = NoSub /\ cw' = cw
  <2>1. passed' = passed
    BY <1>1, <1>2, <1>3 DEF NoSub, Sub
  <2>2. QED
    BY <1>3, <2>1, WaitStays
<1>4. CASE cw' = [cw EXCEPT ![best] = Debited]
  <2>1. \A j \in Sub : cw'[j] \in -Drift..Drift
    BY <1>1 DEF CwBounded
  <2>2. \A j \in Sub : passed'[j] <= cw'[j] + Drift
    BY <1>1, <1>2, <1>4, <2>1 DEF WaitPays
  <2>3. passed' \in [Sub -> Nat]
    BY <1>1, <1>2
  <2>4. QED
    BY <1>1, <2>2, <2>3 DEF WaitPays
<1>5. QED
  BY <1>3, <1>4 DEF Commit

LEMMA WaitStep ==
    ASSUME TypeOK, WaitPays, CwBounded', [WaitNext]_waitVars
    PROVE  WaitPays'
<1>1. CASE (Call \/ Disturb \/ \E i \in Sub : SetWeight(i)) /\ UNCHANGED passed
  BY <1>1, WaitStays DEF Call, Disturb, SetWeight
<1>2. CASE Walk /\ Wait
  <2>1. CASE Screen \/ Check
    <3>1. cw' = cw
      BY <2>1 DEF Screen, Check
    <3>2. passed' = passed
      BY <1>2, <2>1 DEF Wait, Winning, Bumping, Screen, Check, WaitPays
    <3>3. QED
      BY <3>1, <3>2, WaitStays
  <2>2. QED
    BY <1>2, <2>1, WaitRound, WaitCommit DEF Walk
<1>3. CASE \E i \in Sub : Evict(i) /\ passed' = [passed EXCEPT ![i] = 0]
  BY <1>3, WaitEvict
<1>4. CASE UNCHANGED waitVars
  BY <1>4, WaitStays DEF waitVars, vars
<1>5. QED
  BY <1>1, <1>2, <1>3, <1>4 DEF WaitNext

(* Every round a subflow is bumped in vain adds to its credit, which is at *)
(* least -Drift when it last won and at most Drift between calls.          *)
THEOREM NobodyPassedOver == WaitSpec => []BypassBounded
<1>1. WaitInit => Init /\ WaitPays
  BY DriftNat DEF WaitInit, Init, WaitPays
<1>2. [WaitNext]_waitVars => [Next]_vars
  BY DEF WaitNext, waitVars, Next
<1>3. WaitSpec => [](IInv /\ CwBounded)
  BY <1>1, <1>2, Invariance, NoDrift, PTL DEF WaitSpec, Spec
<1>4. TypeOK /\ WaitPays /\ CwBounded' /\ [WaitNext]_waitVars => WaitPays'
  BY WaitStep
<1>5. WaitSpec => []WaitPays
  BY <1>1, <1>3, <1>4, PTL DEF WaitSpec, IInv
<1>6. IInv /\ CwBounded /\ WaitPays => BypassBounded
  BY DriftNat DEF CwBounded, WaitPays, BypassBounded
<1>7. QED
  BY <1>3, <1>5, <1>6, PTL

-----------------------------------------------------------------------------
(* The shares, while nothing but get_send happens.                         *)

(* The weights are positive, and the period is at least each of them. *)
LEMMA PeriodPositive ==
    /\ Rotation \in SUBSET Sub
    /\ Weights \in [Sub -> Nat] /\ \A i \in Sub : Weights[i] = Weight(i) /\ Weight(i) > 0
    /\ Period \in Nat
    /\ \A i \in Rotation : Period > 0
<1>1. Rotation \in SUBSET Sub
  BY DEF Rotation
<1>2. Weights \in [Sub -> Nat] /\ \A i \in Sub : Weights[i] = Weight(i) /\ Weight(i) > 0
  BY WeightPositive DEF Weights
<1>3. Period \in Nat
  BY <1>1, <1>2, TotalNat DEF Period
<1>4. ASSUME NEW i \in Rotation PROVE Period > 0
  <2>1. {i} \in SUBSET Rotation /\ i \in Sub /\ Weights \in [Sub -> Int]
    BY <1>1, <1>2
  <2>2. Total(Weights, {i}) <= Period
    BY <1>1, <1>2, <2>1, TotalMonotone DEF Period
  <2>3. Total(Weights, {i}) = Weights[i]
    BY <2>1, TotalSingle
  <2>4. QED
    BY <1>2, <1>3, <2>1, <2>2, <2>3
<1>5. QED
  BY <1>1, <1>2, <1>3, <1>4

(* Neither changes while the subflows and the maps do not. *)
LEMMA RotationFixed ==
    ASSUME UNCHANGED <<subflowVars, mapVars>>
    PROVE  /\ Rotation' = Rotation /\ Weights' = Weights /\ Period' = Period
           /\ \A i \in Sub : Weight(i)' = Weight(i)
<1>1. Rotation' = Rotation
  BY DEF subflowVars, Rotation, Usable, HasActivePrimary, ActivePrimary, Active
<1>2. \A i \in Sub : Weight(i)' = Weight(i)
  BY DEF mapVars, Weight
<1>3. Weights' = Weights
  BY <1>2 DEF Weights
<1>4. QED
  BY <1>1, <1>2, <1>3 DEF Period

(* A step of get_send changes neither. *)
LEMMA WalkFixes == Call \/ Walk => UNCHANGED <<subflowVars, mapVars>>
BY DEF Call, Walk, Screen, Check, Round, Commit, Return, envVars, subflowVars

(* What a round more does to a lag: without a win it grows by the weight,  *)
(* and a win takes a period off.                                           *)
LEMMA LagArithmetic ==
    ASSUME NEW r \in Nat, NEW n \in Nat, NEW w \in Nat, NEW p \in Nat
    PROVE  /\ r * w - n * p \in Int
           /\ (r + 1) * w - n * p = (r * w - n * p) + w
           /\ (r + 1) * w - (n + 1) * p = (r * w - n * p) + w - p
OBVIOUS

(* At the end of a period every member of the rotation has won as many     *)
(* rounds as its weight: none of them more, as it would be a round ahead,  *)
(* and they add up.                                                        *)
LEMMA ShareIsExact ==
    ASSUME ShareInv, Rounds = Period
    PROVE  /\ \A i \in Rotation : won[i] = Weight(i) /\ Lag(i) = 0
           /\ \A i \in Sub \ Rotation : won[i] = 0
<1>1. won \in [Sub -> Nat] /\ \A i \in Sub \ Rotation : won[i] = 0
  BY DEF ShareInv, CwIsLag
<1>2. \A i \in Rotation : won[i] <= Weights[i]
  <2> SUFFICES ASSUME NEW i \in Rotation, won[i] >= Weights[i] + 1 PROVE FALSE
    BY <1>1, PeriodPositive
  <2>1. /\ Period \in Nat /\ Period > 0
        /\ won[i] \in Nat /\ Weights[i] \in Nat /\ Weight(i) = Weights[i]
    BY <1>1, PeriodPositive
  <2>2. -Period < Period * Weights[i] - won[i] * Period
    BY <2>1 DEF ShareInv, NeverAhead, Lag
  <2>3. won[i] * Period >= (Weights[i] + 1) * Period
    BY <2>1
  <2>4. QED
    BY <2>1, <2>2, <2>3
<1>3. Total(won, Rotation) = Total(Weights, Rotation)
  <2>1. Total(won, Sub) = Total(won, Rotation)
    BY <1>1, PeriodPositive, TotalRestrict
  <2>2. QED
    BY <2>1 DEF Rounds, Period
<1>4. \A i \in Rotation : won[i] = Weights[i]
  BY <1>1, <1>2, <1>3, PeriodPositive, TotalEqual
<1>5. ASSUME NEW i \in Rotation PROVE won[i] = Weight(i) /\ Lag(i) = 0
  <2>1. won[i] = Weight(i) /\ Weight(i) \in Nat /\ Period \in Nat
    BY <1>4, PeriodPositive
  <2>2. QED
    BY <2>1 DEF Lag
<1>6. QED
  BY <1>1, <1>5

(* The first period has had no round. *)
LEMMA ShareInitially == ShareInit => ShareInv
<1> SUFFICES ASSUME ShareInit PROVE ShareInv
  OBVIOUS
<1>1. pc = "idle" /\ best = NoSub /\ totalWeight = 0 /\ \A i \in Sub : cw[i] = 0
  BY DEF ShareInit, Init
<1>2. won \in [Sub -> Nat] /\ \A i \in Sub : won[i] = 0
  BY DEF ShareInit
<1>3. Bumped = {}
  BY <1>1 DEF Bumped, Passed
<1>4. Rounds = 0 /\ Total(Weights, {}) = 0
  BY <1>2, TotalZero DEF Rounds
<1>5. \A i \in Rotation : Lag(i) = 0
  BY <1>2, <1>4, PeriodPositive DEF Lag
<1>6. NeverAhead
  BY <1>5, PeriodPositive DEF NeverAhead
<1>7. QED
  BY <1>1, <1>2, <1>3, <1>4, <1>5, <1>6, PeriodPositive
     DEF ShareInv, RoundIsRotation, Busy, CwIsLag, BestIsLargest

(* A step that bumps nobody and ends no round leaves the shares alone. *)
LEMMA ShareStays ==
    ASSUME ShareInv, Call \/ Walk, UNCHANGED <<cw, won, totalWeight, best>>,
           best = NoSub \/ bestCw' = bestCw, Bumped' = Bumped, RoundIsRotation'
    PROVE  ShareInv'
<1>1. /\ Rotation' = Rotation /\ Weights' = Weights /\ Period' = Period
      /\ \A i \in Sub : Weight(i)' = Weight(i)
  BY RotationFixed, WalkFixes
<1>2. Rounds' = Rounds /\ \A i \in Sub : Lag(i)' = Lag(i)
  BY <1>1 DEF Rounds, Lag
<1>3. CwIsLag' /\ NeverAhead'
  BY <1>1, <1>2, PeriodPositive DEF ShareInv, CwIsLag, NeverAhead
<1>4. BestIsLargest'
  BY DEF ShareInv, BestIsLargest
<1>5. QED
  BY <1>1, <1>2, <1>3, <1>4 DEF ShareInv

(* The walks before the round find out who is in it. *)
LEMMA ShareBefore ==
    ASSUME IInv, ShareInv, Call \/ Screen \/ Check, Tally
    PROVE  ShareInv'
<1>1. pc \in {"idle", "screen", "check"} /\ pc' \in {"idle", "screen", "check", "round"}
      /\ (pc' = "round" => pos' = 1)
  BY DEF Call, Screen, Check, Enter, Return, IInv, TypeOK
<1>2. Bumped = {} /\ Bumped' = {}
  <2>1. \A i \in Sub : ~Passed(i) /\ ~Passed(i)'
    BY <1>1 DEF Passed, Sub
  <2>2. Rotation \subseteq Sub /\ Rotation' \subseteq Sub
    BY DEF Rotation
  <2>3. QED
    BY <2>1, <2>2 DEF Bumped
<1>3. best = NoSub /\ totalWeight = 0 /\ ~useBackup
  BY <1>1 DEF IInv, RoundIsFresh
<1>4. UNCHANGED <<cw, won, totalWeight, best>>
  BY <1>3 DEF Call, Screen, Check, Return, Tally, Busy, Enter
<1>5. UNCHANGED <<path, bkup, free>> /\ Rotation' = Rotation
  BY RotationFixed, WalkFixes DEF Walk, subflowVars
<1>6. Busy' => idleSeen' = {i \in Sub : ~ActivePrimary(i)'}
  BY <1>1, <1>5
     DEF ShareInv, RoundIsRotation, Busy, Call, BeginSeen, Screen, Check, Return,
         envVars, ActivePrimary, Active
<1>7. ASSUME pc' \in {"round", "commit"}, NEW i \in Sub
      PROVE  InRound(i)' <=> i \in Rotation'
  <2>1. TypeOK /\ TypeOK'
    BY TypeStep DEF IInv, Next, Walk
  <2>2. bkup[i] \in BOOLEAN /\ useBackup' \in BOOLEAN /\ InRound(i)' = (bkup[i] = useBackup' /\ Usable(i))
    BY <1>5, <2>1 DEF InRound, Candidate, Usable, TypeOK, SubflowsTypeOK
  <2>3. CASE Screen
    <3>1. pos \in Sub /\ Usable(pos) /\ ~bkup[pos] /\ ~useBackup'
      BY <1>1, <1>3, <1>7, <2>1, <2>3 DEF Screen, Return, Enter, Candidate, TypeOK
    <3>2. Rotation = {j \in Sub : Usable(j) /\ bkup[j] = FALSE}
      <4>1. bkup[pos] = FALSE
        BY <2>1, <3>1 DEF TypeOK, SubflowsTypeOK
      <4>2. QED
        BY <3>1, <4>1 DEF Rotation
    <3>3. QED
      BY <1>5, <2>2, <3>1, <3>2
  <2>4. CASE Check
    <3>1. pc = "check" /\ useBackup' = TRUE /\ ~ActivePrimary(pos) /\ AtEnd /\ idleSeen' = idleSeen
      BY <1>1, <1>3, <1>7, <2>4 DEF Check, Return, Enter, envVars
    <3>2. useBackup' /\ IInv'
      BY <3>1, InvStep, <2>4 DEF Next, Walk
    <3>3. \A j \in Sub : ~ActivePrimary(j)
      BY <3>1, <3>2 DEF IInv, BackupsJustified, ShareInv, RoundIsRotation, Busy
    <3>4. \A j \in Sub : ~(Usable(j) /\ bkup[j] = FALSE)
      BY <3>3 DEF ActivePrimary, Active, Usable
    <3>5. Rotation = {j \in Sub : Usable(j) /\ bkup[j] = TRUE}
      BY <3>3, <3>4 DEF Rotation, HasActivePrimary
    <3>6. QED
      BY <1>5, <2>2, <3>1, <3>5
  <2>5. CASE Call
    BY <1>7, <2>5 DEF Call, Enter
  <2>6. QED
    BY <2>3, <2>4, <2>5
<1>8. RoundIsRotation'
  BY <1>6, <1>7 DEF RoundIsRotation
<1>9. QED
  BY <1>2, <1>3, <1>4, <1>8, ShareStays DEF Walk

(* The round bumps the next member of the rotation, or passes an outsider. *)
LEMMA ShareRound ==
    ASSUME IInv, IInv', ShareInv, Round, Tally
    PROVE  ShareInv'
<1>1. TypeOK /\ TypeOK'
  BY DEF IInv
<1>2. /\ pc = "round" /\ pos \in Sub /\ UNCHANGED <<path, bkup, free, idleSeen, useBackup>>
      /\ \/ AtEnd /\ pc' = "commit"
         \/ ~AtEnd /\ pc' = "round" /\ pos' = pos + 1
  BY <1>1 DEF Round, Enter, envVars, TypeOK
<1>3. /\ Rotation' = Rotation /\ Weights' = Weights /\ Period' = Period
      /\ \A i \in Sub : Weight(i)' = Weight(i)
  BY RotationFixed, WalkFixes DEF Walk
<1>4. won' = won /\ Rounds' = Rounds /\ \A i \in Sub : Lag(i)' = Lag(i)
  <2>1. won' = won
    BY <1>2 DEF Tally, Busy
  <2>2. QED
    BY <1>3, <2>1 DEF Rounds, Lag
<1>5. RoundIsRotation'
  BY <1>2, <1>3
     DEF ShareInv, RoundIsRotation, Busy, InRound, Candidate, Usable, ActivePrimary, Active
<1>6. \A i \in Sub : Passed(i)' <=> Passed(i) \/ i = pos
  BY <1>2, SubflowsAssumption DEF Passed, AtEnd, Sub
<1>7. InRound(pos) <=> pos \in Rotation
  BY <1>2 DEF ShareInv, RoundIsRotation
<1>8. Rotation \in SUBSET Sub
  BY PeriodPositive
<1>9. CASE ~InRound(pos) /\ UNCHANGED <<cw, totalWeight, best, bestCw>>
  <2>1. Bumped' = Bumped
    BY <1>3, <1>6, <1>7, <1>8, <1>9 DEF Bumped
  <2>2. QED
    BY <1>4, <1>5, <1>9, <2>1, ShareStays DEF Walk
<1>10. CASE InRound(pos) /\ Bump(pos)
  <2>1. pos \in Rotation /\ pos \notin Bumped /\ Bumped' = Bumped \union {pos}
        /\ Bumped \in SUBSET Rotation
    <3>1. ~Passed(pos)
      BY <1>2 DEF Passed, Sub
    <3>2. QED
      BY <1>3, <1>6, <1>7, <1>8, <1>10, <3>1 DEF Bumped
  <2>2. PICK w \in Nat : w = Weight(pos) /\ w = Weights[pos]
    BY <1>2, PeriodPositive
  <2>3. /\ cw \in [Sub -> Int] /\ cw' = [cw EXCEPT ![pos] = cw[pos] + w]
        /\ totalWeight' = totalWeight + w
        /\ \/ (best = NoSub \/ cw[pos] + w > bestCw) /\ best' = pos /\ bestCw' = cw[pos] + w
           \/ best # NoSub /\ ~(cw[pos] + w > bestCw) /\ best' = best /\ bestCw' = bestCw
    BY <1>1, <1>10, <2>2 DEF Bump, TypeOK
  <2>4. cw'[pos] = cw[pos] + w /\ \A i \in Sub : i # pos => cw'[i] = cw[i]
    BY <1>2, <2>3
  <2>5. CwIsLag'
    <3>1. \A i \in Sub \ Rotation' : won'[i] = 0 /\ cw'[i] = 0
      BY <1>3, <1>4, <2>1, <2>4 DEF ShareInv, CwIsLag
    <3>2. ASSUME NEW i \in Rotation
          PROVE  /\ i \in Sub /\ Lag(i) \in Int /\ Lag(i)' = Lag(i) /\ Weight(i)' = Weight(i)
                 /\ cw[i] = Lag(i) + (IF i \in Bumped THEN Weight(i) ELSE 0)
      <4>1. i \in Sub /\ Weight(i) \in Nat /\ Period \in Nat /\ Rounds \in Nat /\ won[i] \in Nat
        BY <1>8, PeriodPositive, TotalNat DEF ShareInv, Rounds
      <4>2. Lag(i) \in Int
        BY <4>1, LagArithmetic DEF Lag
      <4>3. cw[i] = Lag(i) + (IF i \in Bumped THEN Weight(i) ELSE 0)
        BY DEF ShareInv, CwIsLag
      <4>4. QED
        BY <1>3, <1>4, <4>1, <4>2, <4>3
    <3>3. ASSUME NEW i \in Rotation, i = pos PROVE cw'[i] = Lag(i)' + w
      <4>1. cw[i] = Lag(i) /\ Lag(i)' = Lag(i)
        BY <2>1, <3>3, <3>2
      <4>2. QED
        BY <2>4, <3>3, <4>1
    <3>4. ASSUME NEW i \in Rotation, i # pos
          PROVE  cw'[i] = Lag(i)' + (IF i \in Bumped THEN Weight(i)' ELSE 0)
      <4>1. /\ cw[i] = Lag(i) + (IF i \in Bumped THEN Weight(i) ELSE 0)
            /\ Lag(i)' = Lag(i) /\ Weight(i)' = Weight(i) /\ cw'[i] = cw[i]
        BY <2>4, <3>4, <3>2
      <4>2. QED
        BY <4>1
    <3>5. \A i \in Rotation' : cw'[i] = Lag(i)' + (IF i \in Bumped' THEN Weight(i)' ELSE 0)
      BY <1>2, <1>3, <2>1, <2>2, <3>3, <3>4
    <3>6. totalWeight' = Total(Weights', Bumped')
      <4>1. Weights \in [Sub -> Int] /\ Bumped \in SUBSET Sub /\ pos \in Sub \ Bumped
        BY <1>2, <1>8, <2>1, PeriodPositive
      <4>2. Total(Weights, Bumped \union {pos}) = Total(Weights, Bumped) + Weights[pos]
        BY <4>1, TotalAdd
      <4>3. QED
        BY <1>3, <2>1, <2>2, <2>3, <4>2 DEF ShareInv, CwIsLag
    <3>7. QED
      BY <3>1, <3>5, <3>6 DEF CwIsLag
  <2>6. BestIsLargest'
    <3>1. pos # NoSub /\ cw[pos] \in Int /\ bestCw \in Int /\ Bumped \subseteq Sub
          /\ \A i \in Sub : cw[i] \in Int
      BY <1>1, <1>2, <1>8, <2>1, <2>3 DEF Sub, NoSub, TypeOK
    <3>2. CASE best = NoSub
      <4>1. Bumped' = {pos}
        BY <2>1, <3>2 DEF ShareInv, BestIsLargest
      <4>2. QED
        BY <2>2, <2>3, <2>4, <3>1, <3>2, <4>1 DEF BestIsLargest
    <3>3. CASE best # NoSub
      <4>1. /\ best \in Bumped /\ cw[best] = bestCw
            /\ \A i \in Bumped : cw[i] <= bestCw /\ cw'[i] = cw[i]
        BY <2>1, <2>4, <3>1, <3>3 DEF ShareInv, BestIsLargest
      <4>2. CASE best' = pos /\ bestCw' = cw[pos] + w /\ cw[pos] + w > bestCw
        <5>1. \A i \in Bumped' : cw'[i] <= bestCw'
          BY <2>1, <2>2, <2>4, <3>1, <4>1, <4>2
        <5>2. QED
          BY <2>1, <2>4, <3>1, <4>2, <5>1 DEF BestIsLargest
      <4>3. CASE best' = best /\ bestCw' = bestCw /\ ~(cw[pos] + w > bestCw)
        <5>1. \A i \in Bumped' : cw'[i] <= bestCw'
          BY <2>1, <2>2, <2>4, <3>1, <4>1, <4>3
        <5>2. QED
          BY <2>1, <2>4, <3>3, <4>1, <4>3, <5>1 DEF BestIsLargest
      <4>4. QED
        BY <2>3, <3>3, <4>2, <4>3
    <3>4. QED
      BY <3>2, <3>3
  <2>7. NeverAhead'
    BY <1>3, <1>4, <1>8 DEF ShareInv, NeverAhead
  <2>8. QED
    BY <1>3, <1>4, <1>5, <2>5, <2>6, <2>7 DEF ShareInv
<1>11. QED
  BY <1>9, <1>10 DEF Round

(* The current weights go on adding up to what has been bumped.            *)
LEMMA ConservedWalk ==
    ASSUME IInv, IInv', CreditConserved, Call \/ Walk, best # NoSub => cw[best] = bestCw
    PROVE  CreditConserved'
<1>1. TypeOK /\ TypeOK' /\ Sub \in SUBSET Sub
  BY DEF IInv
<1>2. /\ Total(cw, Sub) \in Int /\ Total(cw', Sub) \in Int
      /\ totalWeight \in Int /\ totalWeight' \in Int
  BY <1>1, TotalInt DEF TypeOK
<1>3. best # NoSub => bestCw - cw[best] = 0
  BY <1>1 DEF TypeOK
<1>4. Balance' = Balance
  BY <1>2, <1>3, BalanceWalk DEF Balance
<1>5. QED
  BY <1>2, <1>4 DEF Balance, CreditConserved

(* The commit gives the round to the largest current weight, which is      *)
(* positive as all of them add up to a period: the winner is not ahead yet.*)
LEMMA ShareCommit ==
    ASSUME IInv, IInv', CreditConserved, ShareInv, Commit, Tally
    PROVE  ShareInv'
<1>1. TypeOK /\ TypeOK'
  BY DEF IInv
<1>2. pc = "commit" /\ pc' = "idle" /\ best' = NoSub
  BY DEF Commit, Return
<1>3. /\ Rotation' = Rotation /\ Weights' = Weights /\ Period' = Period
      /\ \A i \in Sub : Weight(i)' = Weight(i)
  BY RotationFixed, WalkFixes DEF Walk
<1>4. Bumped = Rotation /\ Bumped' = {} /\ RoundIsRotation'
  BY <1>2 DEF Bumped, Passed, RoundIsRotation, Busy
<1>5. CASE best = NoSub
  <2>1. UNCHANGED <<cw, won, totalWeight, best>>
    BY <1>5 DEF Commit, Return, Tally, IInv, WinnerPermitted
  <2>2. Bumped' = Bumped
    BY <1>4, <1>5 DEF ShareInv, BestIsLargest
  <2>3. QED
    BY <1>4, <1>5, <2>1, <2>2, ShareStays DEF Walk
<1>6. CASE best # NoSub
  <2>1. /\ best \in Rotation /\ Rotation \in SUBSET Sub /\ cw[best] = bestCw
        /\ \A i \in Rotation : cw[i] <= bestCw
    BY <1>4, <1>6, PeriodPositive DEF ShareInv, BestIsLargest
  <2>2. /\ Period \in Nat /\ Period > 0 /\ Rounds \in Nat /\ Rounds <= Period
        /\ won \in [Sub -> Nat] /\ cw \in [Sub -> Int]
    BY <1>1, <2>1, PeriodPositive, TotalNat DEF ShareInv, Rounds, TypeOK
  <2>3. totalWeight = Period
    BY <1>4 DEF ShareInv, CwIsLag, Period
  <2>4. picked' = best
    BY <1>1, <1>2, <1>6, <2>1 DEF Commit, Return, IInv, WinnerPermitted
  <2>5. cw' \in [Sub -> Int] /\ cw'[best] = cw[best] - Period /\ totalWeight' = 0
        /\ \A i \in Sub : i # best => cw'[i] = cw[i]
    BY <1>1, <1>6, <2>1, <2>2, <2>3 DEF Commit, Debited, Return
  <2>6. bestCw > 0 /\ bestCw \in Int
    <3>1. Total(cw, Sub) > 0
      BY <2>2, <2>3 DEF CreditConserved
    <3>2. PICK i \in Sub : cw[i] > 0
      BY <2>2, <3>1, TotalPositive
    <3>3. i \in Rotation
      BY <3>2 DEF ShareInv, CwIsLag
    <3>4. QED
      BY <2>1, <2>2, <3>2, <3>3
  <2>7. /\ \A i \in Sub \ Rotation : won[i] = 0 /\ cw[i] = 0
        /\ \A i \in Rotation : cw[i] = Lag(i) + Weight(i) /\ -Period < Lag(i)
    BY <1>4 DEF ShareInv, CwIsLag, NeverAhead
  <2>8. Busy /\ ~Busy' /\ picked' # NoSub
    BY <1>2, <1>6, <2>4 DEF Busy
  <2>9. /\ won' \in [Sub -> Nat] /\ Rounds' <= Period
        /\ \A i \in Sub \ Rotation : won'[i] = 0
        /\ \A i \in Rotation : Lag(i)' = Lag(i) + Weight(i) - (IF i = best THEN Period ELSE 0)
    <3>1. CASE Rounds < Period
      <4>1. won' = [won EXCEPT ![best] = @ + 1]
        BY <2>2, <2>4, <2>8, <3>1 DEF Tally
      <4>2. /\ won' \in [Sub -> Nat] /\ won'[best] = won[best] + 1
            /\ \A i \in Sub : i # best => won'[i] = won[i]
        BY <2>1, <2>2, <4>1
      <4>3. Rounds' = Rounds + 1
        <5>1. won \in [Sub -> Int] /\ won' \in [Sub -> Int] /\ best \in Sub /\ Sub \in SUBSET Sub
          BY <2>1, <2>2, <4>2
        <5>2. Total(won', Sub) = Total(won, Sub) + (won'[best] - won[best])
          BY <4>2, <5>1, TotalUpdate
        <5>3. won[best] \in Nat /\ Total(won, Sub) \in Int
          BY <2>1, <2>2, <5>1, TotalInt
        <5>4. QED
          BY <4>2, <5>2, <5>3 DEF Rounds
      <4>4. ASSUME NEW i \in Rotation
            PROVE  Lag(i)' = Lag(i) + Weight(i) - (IF i = best THEN Period ELSE 0)
        <5>1. i \in Sub /\ won[i] \in Nat /\ Weight(i) \in Nat
          BY <2>1, <2>2, PeriodPositive
        <5>2. Lag(i)' = (Rounds + 1) * Weight(i) - won'[i] * Period
          BY <1>3, <4>3, <5>1 DEF Lag
        <5>3. won'[i] = IF i = best THEN won[i] + 1 ELSE won[i]
          BY <4>2, <5>1
        <5>4. /\ Lag(i) \in Int
              /\ (Rounds + 1) * Weight(i) - won[i] * Period = Lag(i) + Weight(i)
              /\ (Rounds + 1) * Weight(i) - (won[i] + 1) * Period = Lag(i) + Weight(i) - Period
          BY <2>2, <5>1, LagArithmetic DEF Lag
        <5>5. QED
          BY <2>2, <5>1, <5>2, <5>3, <5>4
      <4>5. QED
        BY <2>1, <2>2, <2>7, <3>1, <4>2, <4>3, <4>4
    <3>2. CASE Rounds = Period
      <4>1. won' = [i \in Sub |-> IF i = best THEN 1 ELSE 0]
        BY <2>4, <2>8, <3>2 DEF Tally
      <4>2. /\ won' \in [Sub -> Nat] /\ won'[best] = 1
            /\ \A i \in Sub : i # best => won'[i] = 0
        BY <2>1, <4>1
      <4>3. Rounds' = 1
        <5>1. {best} \in SUBSET Sub /\ best \in Sub /\ won' \in [Sub -> Int]
          BY <2>1, <4>2
        <5>2. Total(won', Sub) = Total(won', {best})
          BY <4>2, <5>1, TotalRestrict
        <5>3. Total(won', {best}) = 1
          BY <4>2, <5>1, TotalSingle
        <5>4. QED
          BY <5>2, <5>3 DEF Rounds
      <4>4. ASSUME NEW i \in Rotation
            PROVE  Lag(i)' = Lag(i) + Weight(i) - (IF i = best THEN Period ELSE 0)
        <5>1. i \in Sub /\ Weight(i) \in Nat /\ Lag(i) = 0
          BY <2>1, <3>2, PeriodPositive, ShareIsExact
        <5>2. Lag(i)' = 1 * Weight(i) - won'[i] * Period
          BY <1>3, <4>3, <5>1 DEF Lag
        <5>3. won'[i] = IF i = best THEN 1 ELSE 0
          BY <4>2, <5>1
        <5>4. QED
          BY <2>2, <5>1, <5>2, <5>3
      <4>5. QED
        BY <2>1, <2>2, <4>2, <4>3, <4>4
    <3>3. QED
      BY <2>2, <3>1, <3>2
  <2>10. \A i \in Rotation : /\ cw'[i] = Lag(i)' /\ -Period < Lag(i)'
    <3> SUFFICES ASSUME NEW i \in Rotation PROVE cw'[i] = Lag(i)' /\ -Period < Lag(i)'
      OBVIOUS
    <3>1. i \in Sub /\ Weight(i) \in Nat /\ won[i] \in Nat /\ cw[i] \in Int
      BY <2>1, <2>2, PeriodPositive
    <3>2. Lag(i) \in Int
      BY <2>2, <3>1, LagArithmetic DEF Lag
    <3>3. cw[i] = Lag(i) + Weight(i) /\ -Period < Lag(i)
      BY <2>7
    <3>4. Lag(i)' = Lag(i) + Weight(i) - (IF i = best THEN Period ELSE 0)
      BY <2>9
    <3>5. cw'[i] = IF i = best THEN cw[i] - Period ELSE cw[i]
      BY <2>5, <3>1
    <3>6. CASE i = best
      BY <2>1, <2>2, <2>6, <3>1, <3>2, <3>3, <3>4, <3>5, <3>6
    <3>7. CASE i # best
      BY <2>2, <3>1, <3>2, <3>3, <3>4, <3>5, <3>7
    <3>8. QED
      BY <3>6, <3>7
  <2>11. CwIsLag'
    <3>1. \A i \in Sub \ Rotation' : won'[i] = 0 /\ cw'[i] = 0
      BY <1>3, <2>1, <2>5, <2>7, <2>9
    <3>2. \A i \in Rotation' : cw'[i] = Lag(i)' + (IF i \in Bumped' THEN Weight(i)' ELSE 0)
      <4>1. \A i \in Rotation : cw'[i] = Lag(i)' /\ cw'[i] \in Int
        BY <2>1, <2>5, <2>10
      <4>2. QED
        BY <1>3, <1>4, <4>1
    <3>3. Total(Weights', Bumped') = 0
      BY <1>4, TotalZero
    <3>4. QED
      BY <2>5, <3>1, <3>2, <3>3 DEF CwIsLag
  <2>12. NeverAhead'
    BY <1>3, <2>10 DEF NeverAhead
  <2>13. QED
    BY <1>2, <1>3, <1>4, <2>9, <2>11, <2>12 DEF ShareInv, BestIsLargest
<1>7. QED
  BY <1>5, <1>6

(* Nothing but get_send happens. *)
LEMMA ShareStep ==
    ASSUME IInv, IInv', CreditConserved, ShareInv, [(Call \/ Walk) /\ Tally]_shareVars
    PROVE  CreditConserved' /\ ShareInv'
<1>1. CASE (Call \/ Walk) /\ Tally
  <2>1. best # NoSub => cw[best] = bestCw
    BY DEF ShareInv, BestIsLargest
  <2>2. QED
    BY <1>1, <2>1, ConservedWalk, ShareBefore, ShareRound, ShareCommit DEF Walk
<1>2. CASE UNCHANGED shareVars
  <2>1. UNCHANGED <<envVars, mapVars, cw, localVars, picked, won>>
    BY <1>2 DEF shareVars, vars
  <2>3. CreditConserved'
    BY <2>1 DEF CreditConserved, localVars
  <2>4. /\ Rotation' = Rotation /\ Weights' = Weights /\ Period' = Period
        /\ \A i \in Sub : Weight(i)' = Weight(i)
    BY <2>1, RotationFixed DEF envVars, subflowVars
  <2>5. Rounds' = Rounds /\ \A i \in Sub : Lag(i)' = Lag(i)
    BY <2>1, <2>4 DEF Rounds, Lag
  <2>6. Bumped' = Bumped /\ Rotation \in SUBSET Sub
    BY <2>1, <2>4, PeriodPositive DEF Bumped, Passed, localVars
  <2>7. RoundIsRotation'
    BY <2>1, <2>4
       DEF ShareInv, RoundIsRotation, Busy, InRound, Candidate, Usable, ActivePrimary,
           Active, envVars, localVars
  <2>8. CwIsLag' /\ NeverAhead'
    BY <2>1, <2>4, <2>5, <2>6 DEF ShareInv, CwIsLag, NeverAhead, localVars
  <2>9. BestIsLargest'
    BY <2>1, <2>6 DEF ShareInv, BestIsLargest, localVars
  <2>10. QED
    BY <2>1, <2>3, <2>4, <2>5, <2>7, <2>8, <2>9 DEF ShareInv
<1>3. QED
  BY <1>1, <1>2

(* The invariants of the shares. *)
THEOREM ShareInvariance == ShareSpec => [](IInv /\ CreditConserved /\ ShareInv)
<1>1. ShareInit => IInv /\ CreditConserved /\ ShareInv
  <2>1. ASSUME Init PROVE CreditConserved
    <3>1. Total(cw, Sub) = 0
      BY <2>1, TotalZero DEF Init
    <3>2. QED
      BY <2>1, <3>1 DEF Init, CreditConserved
  <2>2. QED
    BY <2>1, InvInit, ShareInitially DEF ShareInit
<1>2. IInv /\ [(Call \/ Walk) /\ Tally]_shareVars => IInv'
  BY InvStep DEF Next, shareVars
<1>3. IInv /\ IInv' /\ CreditConserved /\ ShareInv /\ [(Call \/ Walk) /\ Tally]_shareVars
         => CreditConserved' /\ ShareInv'
  BY ShareStep
<1>4. QED
  BY <1>1, <1>2, <1>3, PTL DEF ShareSpec

(* While nothing else happens, a period of as many rounds as the weights   *)
(* of the rotation add up to gives each of its members exactly as many     *)
(* rounds as its weight and the others none: for any number of subflows,   *)
(* in any state, and any weights.                                          *)
THEOREM SharesAreExact == ShareSpec => []ExactShare
<1>1. ShareInv => ExactShare
  <2>1. ASSUME ShareInv, Rounds = Period, NEW i \in Sub
        PROVE  won[i] = IF i \in Rotation THEN Weight(i) ELSE 0
    BY <2>1, ShareIsExact
  <2>2. QED
    BY <2>1 DEF ExactShare
<1>2. QED
  BY <1>1, ShareInvariance, PTL

(* And no subflow is ever a whole round ahead of its share. *)
THEOREM NobodyRoundAhead == ShareSpec => []NeverAhead
<1>1. ShareInv => NeverAhead
  BY DEF ShareInv
<1>2. QED
  BY <1>1, ShareInvariance, PTL

-----------------------------------------------------------------------------
(* How far behind its share a subflow falls.                               *)

(* A round bumps the next member of the rotation, or nobody. *)
LEMMA RoundBumps ==
    ASSUME IInv, ShareInv, Round
    PROVE  \/ Bumped' = Bumped /\ cw' = cw
           \/ /\ pos \in Rotation \ Bumped /\ Bumped' = Bumped \union {pos}
              /\ cw' = [cw EXCEPT ![pos] = cw[pos] + Weights[pos]]
<1>1. /\ pc = "round" /\ pos \in Sub
      /\ \/ AtEnd /\ pc' = "commit"
         \/ ~AtEnd /\ pc' = "round" /\ pos' = pos + 1
  BY DEF Round, Enter, IInv, TypeOK
<1>2. Rotation' = Rotation /\ Rotation \in SUBSET Sub
  BY RotationFixed, WalkFixes, PeriodPositive DEF Walk
<1>3. \A i \in Sub : Passed(i)' <=> Passed(i) \/ i = pos
  BY <1>1, SubflowsAssumption DEF Passed, AtEnd, Sub
<1>4. InRound(pos) <=> pos \in Rotation
  BY <1>1 DEF ShareInv, RoundIsRotation
<1>5. CASE ~InRound(pos) /\ cw' = cw
  BY <1>2, <1>3, <1>4, <1>5 DEF Bumped
<1>6. CASE InRound(pos) /\ Bump(pos)
  <2>1. ~Passed(pos)
    BY <1>1 DEF Passed, Sub
  <2>2. pos \in Rotation \ Bumped /\ Bumped' = Bumped \union {pos}
    BY <1>2, <1>3, <1>4, <1>6, <2>1 DEF Bumped
  <2>3. Weights[pos] = Weight(pos)
    BY <1>1 DEF Weights
  <2>4. QED
    BY <1>6, <2>2, <2>3 DEF Bump
<1>7. QED
  BY <1>5, <1>6 DEF Round

(* What a group is owed is a number, and does not change with the bump of  *)
(* a member.                                                               *)
LEMMA OwedType ==
    ASSUME IInv, NEW A \in SUBSET Sub
    PROVE  /\ Total(cw, A) \in Int /\ Total(Weights, A \intersect Bumped) \in Nat
           /\ Owed(A) \in Int
<1>1. cw \in [Sub -> Int] /\ Weights \in [Sub -> Nat] /\ A \intersect Bumped \in SUBSET Sub
  BY PeriodPositive DEF IInv, TypeOK
<1>2. QED
  BY <1>1, TotalInt, TotalNat DEF Owed

LEMMA BumpOwes ==
    ASSUME IInv, IInv', ShareInv, pos \in Rotation \ Bumped, Bumped' = Bumped \union {pos},
           cw' = [cw EXCEPT ![pos] = cw[pos] + Weights[pos]],
           Weights' = Weights, NEW A \in SUBSET Sub
    PROVE  Owed(A)' = Owed(A)
<1>1. /\ cw \in [Sub -> Int] /\ cw' \in [Sub -> Int] /\ Weights \in [Sub -> Int]
      /\ pos \in Sub /\ Weights[pos] \in Nat
  <2>1. cw \in [Sub -> Int] /\ cw' \in [Sub -> Int] /\ pos \in Sub
    BY DEF IInv, TypeOK
  <2>2. Weights \in [Sub -> Nat]
    BY PeriodPositive
  <2>3. QED
    BY <2>1, <2>2
<1>2. cw[pos] \in Int /\ cw'[pos] = cw[pos] + Weights[pos] /\ \A i \in Sub : i # pos => cw'[i] = cw[i]
  BY <1>1
<1>3. /\ pos \in A => Total(cw', A) = Total(cw, A) + (cw'[pos] - cw[pos])
      /\ pos \notin A => Total(cw', A) = Total(cw, A)
  <2>1. PICK now \in [Sub -> Int] : now = cw'
    BY <1>1
  <2>2. \A i \in Sub : i # pos => now[i] = cw[i]
    BY <1>2, <2>1
  <2>3. /\ pos \in A => Total(now, A) = Total(cw, A) + (now[pos] - cw[pos])
        /\ pos \notin A => Total(now, A) = Total(cw, A)
    BY <1>1, <2>2, TotalUpdate
  <2>4. QED
    BY <2>1, <2>3
<1>4. Total(cw, A) \in Int /\ Total(Weights, A \intersect Bumped) \in Nat
  BY OwedType
<1>5. CASE pos \in A
  <2>1. A \intersect Bumped \in SUBSET Sub /\ pos \in Sub \ (A \intersect Bumped)
        /\ A \intersect Bumped' = (A \intersect Bumped) \union {pos}
    BY <1>1, <1>5
  <2>2. Total(Weights, A \intersect Bumped') = Total(Weights, A \intersect Bumped) + Weights[pos]
    BY <1>1, <2>1, TotalAdd
  <2>3. QED
    BY <1>1, <1>2, <1>3, <1>4, <1>5, <2>2 DEF Owed
<1>6. CASE pos \notin A
  <2>1. A \intersect Bumped' = A \intersect Bumped
    BY <1>6
  <2>2. QED
    BY <1>3, <1>6, <2>1 DEF Owed
<1>7. QED
  BY <1>5, <1>6

(* The slopes of the bound, in D-ths of a period: k subflows may be owed k *)
(* times the k-th.                                                         *)
Slopes(D, slope) ==
    /\ D \in Nat \ {0}
    /\ slope \in [Sub -> Nat]
    /\ \A k \in 1..(N - 1) : (k + 1) * (slope[k] - slope[k + 1]) >= D

(* A group without the winner: as the winner has the largest current       *)
(* weight of all, the group with the winner was owed at least 1/k more, at *)
(* most what the next slope allows and a period.                           *)
LEMMA SlopeArithmetic ==
    ASSUME NEW k \in Nat, k > 0, NEW D \in Nat, NEW P \in Nat, NEW s \in Nat, NEW t \in Nat,
           NEW a \in Int, NEW b \in Int, NEW w \in Nat, w <= P,
           (k + 1) * (s - t) >= D, a <= k * b,
           D * ((a + b) - w) <= (k + 1) * (t * P)
    PROVE  D * a <= k * (s * P)
<1>1. D * (a + b) <= (k + 1) * (t * P) + D * P
  <2>1. D * ((a + b) - w) = D * (a + b) - D * w
    OBVIOUS
  <2>2. D * w <= D * P
    OBVIOUS
  <2>3. D * (a + b) \in Int /\ D * w \in Int /\ D * P \in Int /\ (k + 1) * (t * P) \in Int
    OBVIOUS
  <2>4. QED
    BY <2>1, <2>2, <2>3
<1>2. D * P <= (k + 1) * (s * P) - (k + 1) * (t * P)
  <2>1. D * P <= ((k + 1) * (s - t)) * P
    OBVIOUS
  <2>2. ((k + 1) * (s - t)) * P = (k + 1) * (s * P) - (k + 1) * (t * P)
    OBVIOUS
  <2>3. QED
    BY <2>1, <2>2
<1>3. D * (a + b) <= (k + 1) * (s * P)
  <2>1. D * (a + b) \in Int /\ (k + 1) * (s * P) \in Int /\ (k + 1) * (t * P) \in Int /\ D * P \in Int
    OBVIOUS
  <2>2. QED
    BY <1>1, <1>2, <2>1
<1>4. (k + 1) * (D * a) <= k * (D * (a + b))
  <2>1. D * a <= D * (k * b)
    OBVIOUS
  <2>2. k * (D * (a + b)) = k * (D * a) + D * (k * b) /\ (k + 1) * (D * a) = k * (D * a) + D * a
    OBVIOUS
  <2>3. D * a \in Int /\ D * (k * b) \in Int /\ k * (D * a) \in Int
    OBVIOUS
  <2>4. QED
    BY <2>1, <2>2, <2>3
<1>5. k * (D * (a + b)) <= (k + 1) * (k * (s * P))
  <2> DEFINE x == D * (a + b)
             y == s * P
  <2>1. x \in Int /\ y \in Int /\ x <= (k + 1) * y
    BY <1>3
  <2> HIDE DEF x, y
  <2>2. k * x <= k * ((k + 1) * y)
    BY <2>1
  <2>3. k * ((k + 1) * y) = (k + 1) * (k * y)
    BY <2>1
  <2>4. QED
    BY <2>2, <2>3 DEF x, y
<1>6. QED
  <2> DEFINE x == D * a
             y == k * (s * P)
  <2>1. x \in Int /\ y \in Int /\ k * (D * (a + b)) \in Int /\ (k + 1) * x \in Int /\ (k + 1) * y \in Int
    OBVIOUS
  <2>2. (k + 1) * x <= (k + 1) * y
    BY <1>4, <1>5, <2>1
  <2> HIDE DEF x, y
  <2>3. ~(x > y)
    <3> SUFFICES ASSUME x > y PROVE FALSE
      OBVIOUS
    <3>1. (k + 1) * x >= (k + 1) * (y + 1)
      BY <2>1
    <3>2. (k + 1) * (y + 1) = (k + 1) * y + (k + 1)
      BY <2>1
    <3>3. QED
      BY <2>1, <2>2, <3>1, <3>2
  <2>4. QED
    BY <2>1, <2>3 DEF x, y

(* The commit keeps every group within its slope. *)
LEMMA CommitBehind ==
    ASSUME IInv, IInv', CreditConserved, ShareInv, Commit, best # NoSub,
           NEW D, NEW slope, Slopes(D, slope), GroupsBehind(D, slope),
           NEW A \in (SUBSET Rotation) \ {{}}
    PROVE  D * Total(cw', A) <= Cardinality(A) * (slope[Cardinality(A)] * Period)
<1> DEFINE k == Cardinality(A)
           a == Total(cw, A)
<1>1. /\ pc = "commit" /\ best \in Sub /\ bestCw \in Int
      /\ cw \in [Sub -> Int] /\ cw' = [cw EXCEPT ![best] = bestCw - totalWeight]
  BY DEF Commit, Debited, IInv, TypeOK
<1>2. Bumped = Rotation /\ Rotation \in SUBSET Sub
  BY <1>1, PeriodPositive DEF Bumped, Passed
<1>3. /\ best \in Rotation /\ cw[best] = bestCw /\ \A i \in Rotation : cw[i] <= bestCw
      /\ totalWeight = Period /\ Period \in Nat /\ Weights \in [Sub -> Nat]
  BY <1>2, PeriodPositive DEF ShareInv, BestIsLargest, CwIsLag, Period
<1>4. D \in Nat /\ slope \in [Sub -> Nat] /\ A \in SUBSET Sub /\ A \in SUBSET Rotation
  BY <1>2 DEF Slopes
<1>5. k \in 1..N
  <2>1. IsFiniteSet(A) /\ k \in 0..N
    BY <1>4, GroupSize
  <2>2. k # 0
    BY <2>1, FS_EmptySet
  <2>3. QED
    BY <2>1, <2>2, SubflowsAssumption
<1>6. /\ best \in A => Total(cw', A) = a - Period
      /\ best \notin A => Total(cw', A) = a
      /\ a \in Int
  <2>1. cw' \in [Sub -> Int] /\ cw'[best] = cw[best] - Period /\ cw[best] \in Int
        /\ \A i \in Sub : i # best => cw'[i] = cw[i]
    BY <1>1, <1>3 DEF IInv, TypeOK
  <2>2. PICK now \in [Sub -> Int] : now = cw'
    BY <2>1
  <2>3. /\ best \in A => Total(now, A) = a + (now[best] - cw[best])
        /\ best \notin A => Total(now, A) = a
    <3>1. \A i \in Sub : i # best => now[i] = cw[i]
      BY <2>1, <2>2
    <3>2. QED
      BY <1>1, <1>4, <3>1, TotalUpdate
  <2>4. a \in Int
    BY <1>1, <1>4, TotalInt
  <2>5. QED
    BY <1>3, <2>1, <2>2, <2>3, <2>4
<1>7. ASSUME NEW B \in SUBSET Rotation, B # {}
      PROVE  /\ Total(Weights, B) \in Nat /\ Total(Weights, B) <= Period /\ Total(cw, B) \in Int
             /\ D * (Total(cw, B) - Total(Weights, B)) <= Cardinality(B) * (slope[Cardinality(B)] * Period)
  <2>1. B \in SUBSET Sub /\ B \intersect Bumped = B
    BY <1>2, <1>7
  <2>2. Total(Weights, B) \in Nat /\ Total(Weights, B) <= Period /\ Total(cw, B) \in Int
    BY <1>1, <1>2, <1>3, <2>1, TotalNat, TotalInt, TotalMonotone DEF Period
  <2>3. D * Owed(B) <= Cardinality(B) * (slope[Cardinality(B)] * Period)
    BY <1>7 DEF GroupsBehind
  <2>4. QED
    BY <2>1, <2>2, <2>3 DEF Owed
<1>8. CASE best \in A
  <2> DEFINE w == Total(Weights, A)
             F == k * (slope[k] * Period)
  <2>1. w \in Nat /\ w <= Period /\ D * (a - w) <= F
    BY <1>4, <1>7
  <2>2. slope[k] \in Nat
    BY <1>4, <1>5 DEF Sub
  <2>3. F \in Int
    BY <1>3, <1>5, <2>2
  <2> HIDE DEF w, F, a, k
  <2>4. D * (a - Period) <= D * (a - w)
    <3>1. PICK d \in Nat : a - w = (a - Period) + d
      BY <1>3, <1>6, <2>1
    <3>2. D * ((a - Period) + d) = D * (a - Period) + D * d /\ D * d \in Nat /\ D * (a - Period) \in Int
      BY <1>3, <1>4, <1>6
    <3>3. QED
      BY <3>1, <3>2
  <2>5. D * (a - Period) \in Int /\ D * (a - w) \in Int
    BY <1>3, <1>4, <1>6, <2>1
  <2>6. D * (a - Period) <= F
    BY <2>1, <2>3, <2>4, <2>5
  <2>7. QED
    BY <1>6, <1>8, <2>6 DEF F, k
<1>9. CASE best \notin A
  <2> DEFINE B == A \union {best}
             b == bestCw
             w == Total(Weights, B)
  <2>1. B \in SUBSET Rotation /\ B # {} /\ best \in Sub \ A
    BY <1>1, <1>3, <1>4, <1>9
  <2>2. Cardinality(B) = k + 1 /\ k + 1 \in 1..N /\ k \in 1..(N - 1)
    <3>1. Cardinality(B) = k + 1 /\ B \in SUBSET Sub
      BY <1>2, <1>4, <2>1, GroupSize
    <3>2. Cardinality(B) \in 0..N
      BY <3>1, GroupSize
    <3>3. QED
      BY <1>5, <3>1, <3>2, SubflowsAssumption
  <2>3. Total(cw, B) = a + b
    BY <1>1, <1>3, <1>4, <2>1, TotalAdd
  <2>4. w \in Nat /\ w <= Period /\ D * ((a + b) - w) <= (k + 1) * (slope[k + 1] * Period)
    <3>1. /\ w \in Nat /\ w <= Period
          /\ D * (Total(cw, B) - w) <= Cardinality(B) * (slope[Cardinality(B)] * Period)
      BY <1>7, <2>1
    <3>2. Cardinality(B) = k + 1
      BY <2>2
    <3> HIDE DEF B, w, a, k, b
    <3>3. Total(cw, B) - w = (a + b) - w
      BY <2>3
    <3>4. QED
      BY <3>1, <3>2, <3>3, Zenon
  <2>5. a <= k * b
    <3>1. b \in Nat
      <4>1. Period > 0
        BY <1>3, PeriodPositive
      <4>2. Total(cw, Sub) > 0
        BY <1>3, <4>1 DEF CreditConserved
      <4>3. PICK i \in Sub : cw[i] > 0
        BY <1>1, <4>2, TotalPositive
      <4>4. i \in Rotation
        BY <4>3 DEF ShareInv, CwIsLag
      <4>5. QED
        BY <1>1, <1>3, <4>3, <4>4
    <3>2. \A i \in A : cw[i] <= b
      BY <1>3, <1>4
    <3>3. QED
      BY <1>1, <1>4, <3>1, <3>2, TotalAtMost
  <2>6. slope[k] \in Nat /\ slope[k + 1] \in Nat /\ (k + 1) * (slope[k] - slope[k + 1]) >= D
    BY <1>4, <1>5, <2>2 DEF Slopes, Sub
  <2>7. k \in Nat /\ k > 0 /\ b \in Int
    BY <1>1, <1>5
  <2> HIDE DEF B, b, w, a, k
  <2>8. D * a <= k * (slope[k] * Period)
    BY <1>3, <1>4, <1>6, <2>4, <2>5, <2>6, <2>7, SlopeArithmetic
  <2>9. QED
    BY <1>6, <1>9, <2>8 DEF k
<1>10. QED
  BY <1>8, <1>9

(* Every step keeps every group within its slope. *)
LEMMA BehindStep ==
    ASSUME IInv, IInv', CreditConserved, ShareInv, ShareInv',
           NEW D, NEW slope, Slopes(D, slope), GroupsBehind(D, slope),
           [(Call \/ Walk) /\ Tally]_shareVars
    PROVE  GroupsBehind(D, slope)'
<1>1. UNCHANGED <<subflowVars, mapVars>>
  BY WalkFixes DEF shareVars, vars, envVars, subflowVars
<1>2. Rotation' = Rotation /\ Weights' = Weights /\ Period' = Period /\ Rotation \in SUBSET Sub
  BY <1>1, RotationFixed, PeriodPositive
<1>3. ASSUME \A A \in (SUBSET Rotation) \ {{}} : Owed(A)' = Owed(A)
      PROVE  GroupsBehind(D, slope)'
  BY <1>2, <1>3 DEF GroupsBehind
<1>4. ASSUME Bumped' = Bumped, cw' = cw PROVE GroupsBehind(D, slope)'
  BY <1>2, <1>3, <1>4 DEF Owed
<1>5. CASE Call \/ Screen \/ Check
  <2>1. \A i \in Sub : ~Passed(i) /\ ~Passed(i)'
    BY <1>5 DEF Call, Screen, Check, Enter, Return, Passed, Sub
  <2>2. Bumped = {} /\ Bumped' = {}
    BY <1>2, <2>1 DEF Bumped
  <2>3. cw' = cw
    BY <1>5 DEF Call, Screen, Check
  <2>4. QED
    BY <1>4, <2>2, <2>3
<1>6. CASE Round
  <2>1. CASE Bumped' = Bumped /\ cw' = cw
    BY <1>4, <2>1
  <2>2. CASE /\ pos \in Rotation \ Bumped /\ Bumped' = Bumped \union {pos}
             /\ cw' = [cw EXCEPT ![pos] = cw[pos] + Weights[pos]]
    <3>1. ASSUME NEW A \in (SUBSET Rotation) \ {{}} PROVE Owed(A)' = Owed(A)
      <4>1. A \in SUBSET Sub
        BY <1>2
      <4>2. QED
        BY <1>2, <2>2, <4>1, BumpOwes
    <3>2. QED
      BY <1>3, <3>1
  <2>3. QED
    BY <1>6, <2>1, <2>2, RoundBumps
<1>7. CASE Commit
  <2>1. pc = "commit" /\ pc' = "idle"
    BY <1>7 DEF Commit, Return
  <2>2. Bumped = Rotation /\ Bumped' = {}
    BY <2>1 DEF Bumped, Passed
  <2>3. CASE best = NoSub
    <3>1. Rotation = {}
      BY <2>2, <2>3 DEF ShareInv, BestIsLargest
    <3>2. QED
      BY <1>2, <3>1 DEF GroupsBehind
  <2>4. CASE best # NoSub
    <3>1. ASSUME NEW A \in (SUBSET Rotation) \ {{}}
          PROVE  D * Owed(A)' <= Cardinality(A) * (slope[Cardinality(A)] * Period)
      <4>1. D * Total(cw', A) <= Cardinality(A) * (slope[Cardinality(A)] * Period)
        BY <1>7, <2>4, CommitBehind
      <4>2. Owed(A)' = Total(cw', A)
        <5>1. A \intersect Bumped' = {} /\ A \in SUBSET Sub
          BY <1>2, <2>2
        <5>2. Total(Weights', A \intersect Bumped') = 0
          BY <5>1, TotalZero
        <5>3. Total(cw', A) \in Int
          <6>1. cw' \in [Sub -> Int]
            BY DEF IInv, TypeOK
          <6>2. QED
            BY <5>1, <6>1, TotalInt
        <5>4. QED
          BY <5>2, <5>3 DEF Owed
      <4>3. QED
        BY <4>1, <4>2
    <3>2. QED
      BY <1>2, <3>1 DEF GroupsBehind
  <2>5. QED
    BY <2>3, <2>4
<1>8. CASE UNCHANGED shareVars
  <2>1. cw' = cw /\ pc' = pc /\ pos' = pos
    BY <1>8 DEF shareVars, vars, localVars
  <2>2. Bumped' = Bumped
    BY <1>2, <2>1 DEF Bumped, Passed
  <2>3. QED
    BY <1>4, <2>1, <2>2
<1>9. QED
  BY <1>5, <1>6, <1>7, <1>8 DEF Walk

(* At the start nobody is owed anything. *)
LEMMA BehindInit ==
    ASSUME NEW D, NEW slope, Slopes(D, slope), ShareInit
    PROVE  GroupsBehind(D, slope)
<1> SUFFICES ASSUME NEW A \in (SUBSET Rotation) \ {{}}
             PROVE  D * Owed(A) <= Cardinality(A) * (slope[Cardinality(A)] * Period)
  BY DEF GroupsBehind
<1>1. A \in SUBSET Sub /\ Period \in Nat
  BY PeriodPositive
<1>2. Cardinality(A) \in 1..N
  <2>1. IsFiniteSet(A) /\ Cardinality(A) \in 0..N
    BY <1>1, GroupSize
  <2>2. Cardinality(A) # 0
    BY <2>1, FS_EmptySet
  <2>3. QED
    BY <2>1, <2>2, SubflowsAssumption
<1>3. Bumped = {} /\ \A i \in Sub : cw[i] = 0
  BY DEF ShareInit, Init, Bumped, Passed
<1>4. Total(cw, A) = 0 /\ Total(Weights, A \intersect Bumped) = 0
  BY <1>1, <1>3, TotalZero
<1>5. slope[Cardinality(A)] \in Nat /\ D \in Nat
  BY <1>2 DEF Slopes, Sub
<1>6. Cardinality(A) * (slope[Cardinality(A)] * Period) \in Nat
  BY <1>1, <1>2, <1>5
<1>7. QED
  BY <1>4, <1>5, <1>6 DEF Owed

(* Of a group of one, it is the lag. *)
LEMMA LagOfOne ==
    ASSUME IInv, ShareInv, NEW D, NEW slope, Slopes(D, slope), GroupsBehind(D, slope),
           NEW i \in Rotation
    PROVE  D * Lag(i) <= slope[1] * Period
<1>1. i \in Sub /\ {i} \in SUBSET Sub /\ {i} \in (SUBSET Rotation) \ {{}} /\ Period \in Nat
  BY PeriodPositive
<1>2. cw \in [Sub -> Int] /\ Weights \in [Sub -> Nat] /\ Weights[i] = Weight(i) /\ Weight(i) \in Nat
  BY <1>1, PeriodPositive DEF IInv, TypeOK
<1>3. Total(cw, {i}) = cw[i] /\ cw[i] \in Int
  BY <1>1, <1>2, TotalSingle
<1>4. Total(Weights, {i} \intersect Bumped) = IF i \in Bumped THEN Weight(i) ELSE 0
  <2>1. CASE i \in Bumped
    <3>1. {i} \intersect Bumped = {i} /\ Weights \in [Sub -> Int]
      BY <1>2, <2>1
    <3>2. QED
      BY <1>1, <1>2, <2>1, <3>1, TotalSingle
  <2>2. CASE i \notin Bumped
    <3>1. {i} \intersect Bumped = {} /\ {} \in SUBSET Sub
      BY <2>2
    <3>2. QED
      BY <2>2, <3>1, TotalZero
  <2>3. QED
    BY <2>1, <2>2
<1>5. Lag(i) \in Int
  <2>1. Rounds \in Nat /\ won[i] \in Nat
    BY <1>1, TotalNat DEF ShareInv, Rounds
  <2>2. QED
    BY <1>1, <1>2, <2>1, LagArithmetic DEF Lag
<1>6. Owed({i}) = Lag(i)
  <2>1. cw[i] = Lag(i) + (IF i \in Bumped THEN Weight(i) ELSE 0)
    BY DEF ShareInv, CwIsLag
  <2>2. QED
    BY <1>2, <1>3, <1>4, <1>5, <2>1 DEF Owed
<1>7. Cardinality({i}) = 1
  BY FS_Singleton
<1>8. D * Lag(i) <= 1 * (slope[1] * Period)
  BY <1>1, <1>6, <1>7 DEF GroupsBehind
<1>9. slope[1] * Period \in Int
  <2>1. slope[1] \in Nat
    BY Bounds DEF Slopes
  <2>2. QED
    BY <1>1, <2>1
<1>10. QED
  BY <1>8, <1>9

(* However many subflows share the rounds, none falls further behind its   *)
(* share than a bound of its own: with D times the slopes (s), s_N >= 0    *)
(* and s_k >= s_(k+1) + D / (k+1), it is s_1 / D rounds, so for large D as *)
(* close to 1/2 + 1/3 + ... + 1/N as one likes.                            *)
THEOREM NobodyFarBehind ==
    ASSUME NEW CONSTANT D, NEW CONSTANT slope, Slopes(D, slope)
    PROVE  ShareSpec => [](\A i \in Rotation : D * Lag(i) <= slope[1] * Period)
<1>1. ShareInit => GroupsBehind(D, slope)
  BY BehindInit
<1>2. IInv /\ IInv' /\ CreditConserved /\ ShareInv /\ ShareInv' /\ GroupsBehind(D, slope)
        /\ [(Call \/ Walk) /\ Tally]_shareVars
      => GroupsBehind(D, slope)'
  BY BehindStep
<1>3. IInv /\ ShareInv /\ GroupsBehind(D, slope)
      => \A i \in Rotation : D * Lag(i) <= slope[1] * Period
  BY LagOfOne
<1>4. QED
  BY <1>1, <1>2, <1>3, ShareInvariance, PTL DEF ShareSpec

(* Sixths are enough for a bound that needs no slopes: 1/2 for the first   *)
(* step of them and 1/3 for each of the others.                            *)
LEMMA Sixths == Slopes(6, [k \in Sub |-> IF k = 1 THEN 2 * N - 1 ELSE 2 * (N - k)])
<1> DEFINE s == [k \in Sub |-> IF k = 1 THEN 2 * N - 1 ELSE 2 * (N - k)]
<1>1. N \in Nat /\ N > 0
  BY SubflowsAssumption
<1>2. s \in [Sub -> Nat]
  BY <1>1 DEF Sub
<1>3. ASSUME NEW k \in 1..(N - 1) PROVE (k + 1) * (s[k] - s[k + 1]) >= 6
  <2>1. k \in Sub /\ k + 1 \in Sub /\ k + 1 # 1
    BY <1>1 DEF Sub
  <2>2. s[k + 1] = 2 * (N - (k + 1)) /\ s[k] = IF k = 1 THEN 2 * N - 1 ELSE 2 * (N - k)
    BY <2>1
  <2> HIDE DEF s
  <2>3. CASE k = 1
    BY <1>1, <2>2, <2>3
  <2>4. CASE k # 1
    <3>1. s[k] - s[k + 1] = 2
      BY <1>1, <2>2, <2>4
    <3>2. QED
      BY <1>1, <2>4, <3>1
  <2>5. QED
    BY <2>3, <2>4
<1>4. QED
  BY <1>2, <1>3 DEF Slopes

(* With N subflows, none is ever behind by more than (2 N - 1) / 6 rounds. *)
THEOREM BehindInSixths ==
    ShareSpec => [](\A i \in Rotation : 6 * Lag(i) <= (2 * N - 1) * Period)
<1> DEFINE s == [k \in Sub |-> IF k = 1 THEN 2 * N - 1 ELSE 2 * (N - k)]
<1>1. s[1] = 2 * N - 1
  BY Bounds
<1>2. Slopes(6, s)
  BY Sixths
<1> HIDE DEF s
<1>3. ShareInit => GroupsBehind(6, s)
  BY <1>2, BehindInit
<1>4. IInv /\ IInv' /\ CreditConserved /\ ShareInv /\ ShareInv' /\ GroupsBehind(6, s)
        /\ [(Call \/ Walk) /\ Tally]_shareVars
      => GroupsBehind(6, s)'
  BY <1>2, BehindStep
<1>5. IInv /\ ShareInv /\ GroupsBehind(6, s)
      => \A i \in Rotation : 6 * Lag(i) <= (2 * N - 1) * Period
  BY <1>1, <1>2, LagOfOne
<1>6. QED
  BY <1>3, <1>4, <1>5, ShareInvariance, PTL DEF ShareSpec

(* Up to three subflows, that is less than one round: whatever their       *)
(* weights, the rounds are interleaved.                                    *)
THEOREM ThreeInterleave ==
    ASSUME N <= 3
    PROVE  ShareSpec => []Interleaved
<1>1. ShareInv /\ (\A i \in Rotation : 6 * Lag(i) <= (2 * N - 1) * Period) => Interleaved
  <2> SUFFICES ASSUME ShareInv, NEW i \in Rotation, 6 * Lag(i) <= (2 * N - 1) * Period
               PROVE  NeverAhead /\ Lag(i) < Period
    BY DEF Interleaved, ShareInv
  <2>1. Period \in Nat /\ Period > 0 /\ i \in Sub /\ Weight(i) \in Nat
    BY PeriodPositive
  <2>2. Lag(i) \in Int
    <3>1. Rounds \in Nat /\ won[i] \in Nat
      BY <2>1, TotalNat DEF ShareInv, Rounds
    <3>2. QED
      BY <2>1, <3>1, LagArithmetic DEF Lag
  <2>3. (2 * N - 1) * Period <= 5 * Period
    <3>1. N \in {1, 2, 3}
      BY SubflowsAssumption
    <3>2. QED
      BY <2>1, <3>1
  <2>4. (2 * N - 1) * Period \in Int
    BY <2>1, SubflowsAssumption
  <2>5. Lag(i) < Period
    BY <2>1, <2>2, <2>3, <2>4
  <2>6. QED
    BY <2>5 DEF ShareInv
<1>2. QED
  BY <1>1, BehindInSixths, ShareInvariance, PTL
=============================================================================
