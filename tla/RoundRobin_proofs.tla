------------------------- MODULE RoundRobin_proofs -------------------------
(***************************************************************************)
(* Proofs about RoundRobin for any number of subflows, any cap on a round, *)
(* any width of the turn and any number of kernel changes under a call.    *)
(***************************************************************************)
EXTENDS RoundRobin, TLAPS, FiniteSetTheorems

(* Every walk starts at a subflow. *)
LEMMA Bounds == 1 \in Sub /\ 0 \in 0..MaxChanges
BY SubflowsAssumption DEF Sub

(* What the kernel may do to the subflows keeps their types; during a call *)
(* it only adds to what has been seen, and frees memory without taking any.*)
LEMMA KernelStep ==
    ASSUME SubflowsTypeOK, NEW busy \in BOOLEAN, Kernel(busy)
    PROVE  /\ SubflowsTypeOK'
           /\ busy => /\ usableSeen' = usableSeen \union {i \in Sub : Usable(i)'}
                      /\ primarySeen' = primarySeen \union {i \in Sub : ~bkup'[i]}
                      /\ idleSeen' = idleSeen \union {i \in Sub : ~ActivePrimary(i)'}
                      /\ changes' = changes + 1
                      /\ \A i \in Sub : free[i] => free'[i]
           /\ ~busy => UNCHANGED seenVars
<1>1. /\ path' \in [Sub -> {"down", "stale", "up"}]
      /\ bkup' \in [Sub -> BOOLEAN]
      /\ free' \in [Sub -> BOOLEAN]
      /\ busy => \A i \in Sub : free[i] => free'[i]
  BY DEF Kernel, SubflowsTypeOK, Close, Establish, ToggleStale, TogglePriority, Fill, Drain
<1>2. /\ usableSeen' \subseteq Sub /\ primarySeen' \subseteq Sub /\ idleSeen' \subseteq Sub
      /\ changes' \in 0..MaxChanges
  BY SubflowsAssumption DEF Kernel, ExtendSeen, SubflowsTypeOK, seenVars
<1>3. QED
  BY <1>1, <1>2 DEF Kernel, ExtendSeen, SubflowsTypeOK

Counting == pc \in {"count", "countAny"}

(* The usable subflows of the round the walk has passed, and all of them. *)
Passed == {i \in Sub : i < pos /\ Rotates(i)}
InRound == {i \in Sub : Rotates(i)}

(* The counters stay below the cap, the turn's position below the count;  *)
(* a walk has a turn to go by, and one still to be created has none.      *)
Counters ==
    /\ pc \in {"idle", "create", "count", "check"} => ~useBackup
    /\ pc = "countAny" => useBackup
    /\ Counting => nr < MAX_SUBFLOWS
    /\ pc \in {"idle", "create", "check"} => nr = 0
    /\ pc # "pick" => idx = 0
    /\ pc = "pick" => idx <= target /\ target < nr
    /\ pc \in {"idle", "create"} => pos = 1 /\ target = 0
    /\ pc \in Walks => turn \in Turns
    /\ pc = "create" => ~HasStorage

(* What has been seen includes the present, ... *)
SeenIsCurrent == Busy =>
    /\ \A i \in Sub : Usable(i) => i \in usableSeen
    /\ \A i \in Sub : ~bkup[i] => i \in primarySeen
    /\ \A i \in Sub : ~ActivePrimary(i) => i \in idleSeen

(* ... and what opened the round of the backups.                          *)
BackupsJustified ==
    /\ pc = "check" => \A i \in Sub : i < pos => i \in idleSeen
    /\ useBackup => idleSeen = Sub

(* Under a kernel that keeps still the counts are exact, so the walk that  *)
(* schedules cannot run off the list.                                      *)
Quiet == Busy /\ changes = 0 =>
    /\ Counting => nr = Cardinality(Passed)
    /\ pc = "pick" => idx = Cardinality(Passed) /\ nr <= Cardinality(InRound)
    /\ pc \in {"check", "countAny"} => \A i \in Sub : ~(Usable(i) /\ ~bkup[i])

IInv == TypeOK /\ Counters /\ SeenIsCurrent /\ BackupsJustified /\ Quiet

-----------------------------------------------------------------------------
(* Finite sets of subflows and their sizes.                                *)
LEMMA Sizes ==
    ASSUME NEW S \in SUBSET Sub
    PROVE  IsFiniteSet(S) /\ Cardinality(S) \in Nat
<1>1. IsFiniteSet(Sub)
  BY SubflowsAssumption, FS_Interval DEF Sub
<1>2. QED
  BY <1>1, FS_Subset, FS_CardinalityType

(* Passing a subflow counts it if it is of the round.                      *)
LEMMA PassOne ==
    ASSUME NEW p \in Sub, NEW S \in SUBSET Sub
    PROVE  Cardinality({i \in Sub : i < p + 1 /\ i \in S}) =
               Cardinality({i \in Sub : i < p /\ i \in S}) + (IF p \in S THEN 1 ELSE 0)
<1> DEFINE before == {i \in Sub : i < p /\ i \in S}
           upto == {i \in Sub : i < p + 1 /\ i \in S}
<1>1. p \in Int /\ \A i \in Sub : i \in Int
  BY DEF Sub
<1>2. \A i \in Sub : i < p + 1 <=> i < p \/ i = p
  BY <1>1
<1>3. p \notin before
  BY <1>1
<1>4. IsFiniteSet(before) /\ Cardinality(before) \in Nat
  BY Sizes
<1>5. CASE p \in S
  <2>1. upto = before \union {p}
    BY <1>2, <1>5
  <2>2. Cardinality(upto) = Cardinality(before) + 1
    BY <1>3, <1>4, <2>1, FS_AddElement
  <2>3. QED
    BY <1>5, <2>2
<1>6. CASE p \notin S
  <2>1. upto = before
    BY <1>2, <1>6
  <2>2. Cardinality(upto) = Cardinality(before) + 0
    BY <1>4, <2>1
  <2>3. QED
    BY <1>6, <2>2
<1>7. QED
  BY <1>5, <1>6

(* At the end of the list every subflow has been passed.                   *)
LEMMA Positions ==
    ASSUME pos \in Sub
    PROVE  /\ ~AtEnd => pos + 1 \in Sub
           /\ AtEnd => \A i \in Sub : i < pos + 1
           /\ \A i \in Sub : i < pos + 1 <=> i < pos \/ i = pos
           /\ \A i \in Sub : ~(i < 1)
BY SubflowsAssumption DEF Sub, AtEnd

(* The size of what has been passed once pos has.                          *)
LEMMA PassPos ==
    ASSUME TypeOK
    PROVE  /\ Cardinality(Passed) \in Nat /\ Cardinality(InRound) \in Nat
           /\ Cardinality({i \in Sub : i < pos + 1 /\ Rotates(i)}) =
                  Cardinality(Passed) + (IF Rotates(pos) THEN 1 ELSE 0)
           /\ Cardinality({i \in Sub : i < pos + 1 /\ Rotates(i)}) <= Cardinality(InRound)
           /\ AtEnd => {i \in Sub : i < pos + 1 /\ Rotates(i)} = InRound
<1>1. pos \in Sub
  BY DEF TypeOK
<1> DEFINE upto == {i \in Sub : i < pos + 1 /\ Rotates(i)}
<1>2. /\ Passed = {i \in Sub : i < pos /\ i \in InRound}
      /\ upto = {i \in Sub : i < pos + 1 /\ i \in InRound}
      /\ pos \in InRound <=> Rotates(pos)
  BY <1>1 DEF Passed, InRound
<1>3. InRound \in SUBSET Sub /\ Passed \in SUBSET Sub
  BY DEF InRound, Passed
<1>4. Cardinality(upto) = Cardinality(Passed) + (IF Rotates(pos) THEN 1 ELSE 0)
  BY <1>1, <1>2, <1>3, PassOne
<1>5. upto \in SUBSET InRound /\ IsFiniteSet(InRound)
  BY <1>2, <1>3, Sizes
<1>6. AtEnd => upto = InRound
  BY <1>1, <1>2, <1>3, Positions
<1>7. QED
  BY <1>3, <1>4, <1>5, <1>6, Sizes, FS_Subset

-----------------------------------------------------------------------------
(* The return of get_send: no call is under way. *)
LEMMA ReturnInv ==
    ASSUME TypeOK, NEW i \in Sub \union {NoSub}, Return(i),
           turn' \in Turns \union {NoStorage}
    PROVE  IInv'
<1>1. SubflowsTypeOK'
  BY Bounds DEF Return, EndSeen, TypeOK, SubflowsTypeOK, subflowVars
<1>2. /\ pc' = "idle" /\ pos' = 1 /\ nr' = 0 /\ idx' = 0 /\ target' = 0
      /\ useBackup' = FALSE /\ picked' = i
  BY DEF Return, ResetLocals
<1>3. 0 \in 0..MAX_SUBFLOWS
  BY RoundRobinAssumption
<1>4. TypeOK'
  BY <1>1, <1>2, <1>3, Bounds DEF TypeOK
<1>5. QED
  BY <1>2, <1>4
     DEF IInv, Counters, Counting, SeenIsCurrent, BackupsJustified, Quiet, Busy, Walks

(* Nothing has been counted before the first call. *)
LEMMA InvInit == Init => IInv
<1> SUFFICES ASSUME Init PROVE IInv
  OBVIOUS
<1>1. /\ pc = "idle" /\ pos = 1 /\ nr = 0 /\ idx = 0 /\ target = 0
      /\ turn \in {0, NoStorage} /\ useBackup = FALSE /\ picked = NoSub
  BY DEF Init
<1>2. SubflowsTypeOK
  BY Bounds, SubflowsAssumption DEF Init, SubflowsInit, SubflowsTypeOK
<1>3. 0 \in Turns /\ 0 \in 0..MAX_SUBFLOWS
  BY RoundRobinAssumption DEF Turns
<1>4. TypeOK
  BY <1>1, <1>2, <1>3, Bounds DEF TypeOK
<1>5. QED
  BY <1>1, <1>4
     DEF IInv, Counters, Counting, SeenIsCurrent, BackupsJustified, Quiet, Busy, Walks

(* A step of a walk that leaves the subflows and the round alone. *)
LEMMA StayInv ==
    ASSUME IInv, Busy, Busy', UNCHANGED <<envVars, useBackup>>, TypeOK', Counters',
           pc' = "check" => \A i \in Sub : i < pos' => i \in idleSeen,
           changes = 0 => /\ Counting' => nr' = Cardinality(Passed')
                          /\ pc' = "pick" => /\ idx' = Cardinality(Passed')
                                             /\ nr' <= Cardinality(InRound)
                          /\ pc' \in {"check", "countAny"} =>
                                 \A i \in Sub : ~(Usable(i) /\ ~bkup[i])
    PROVE  IInv'
<1>1. InRound' = InRound /\ \A i \in Sub : Usable(i)' = Usable(i)
  BY DEF InRound, Rotates, Usable, envVars
<1>2. SeenIsCurrent'
  BY DEF IInv, SeenIsCurrent, Usable, ActivePrimary, Active, envVars
<1>3. BackupsJustified'
  BY DEF IInv, BackupsJustified, envVars
<1>4. Quiet'
  BY <1>1 DEF Quiet, envVars, Counting
<1>5. QED
  BY <1>2, <1>3, <1>4 DEF IInv

(* The walk of a call starts at the head, with nothing passed. *)
LEMMA NothingPassed ==
    ASSUME pos' = 1
    PROVE  Passed' = {} /\ Cardinality(Passed') = 0
<1>1. \A i \in Sub : ~(i < 1)
  BY DEF Sub
<1>2. QED
  BY <1>1, FS_EmptySet DEF Passed

LEMMA CallInv == IInv /\ Call => IInv'
<1> SUFFICES ASSUME IInv, Call PROVE IInv'
  OBVIOUS
<1>1. TypeOK /\ Counters
  BY DEF IInv
<1>2. /\ pc = "idle" /\ pc' = (IF HasStorage THEN "count" ELSE "create") /\ pos' = 1
      /\ UNCHANGED <<subflowVars, nr, useBackup, target, idx, turn, picked>> /\ BeginSeen
  BY DEF Call, Enter
<1>3. SubflowsTypeOK'
  BY <1>1, <1>2, Bounds DEF BeginSeen, subflowVars, TypeOK, SubflowsTypeOK
<1>4. TypeOK'
  BY <1>1, <1>2, <1>3, Bounds DEF TypeOK, Walks
<1>5. Counters'
  BY <1>1, <1>2, RoundRobinAssumption DEF Counters, Counting, TypeOK, HasStorage, Walks
<1>6. SeenIsCurrent'
  BY <1>2 DEF BeginSeen, subflowVars, SeenIsCurrent, Usable, ActivePrimary, Active
<1>7. BackupsJustified'
  BY <1>1, <1>2 DEF Counters, BackupsJustified
<1>8. Quiet'
  BY <1>1, <1>2, NothingPassed DEF Quiet, Counting, Counters
<1>9. QED
  BY <1>4, <1>5, <1>6, <1>7, <1>8 DEF IInv

(* The storage is there, with no turn taken, or the call is over. *)
LEMMA CreateInv == IInv /\ Create => IInv'
<1> SUFFICES ASSUME IInv, Create PROVE IInv'
  OBVIOUS
<1>1. TypeOK /\ Counters /\ pc = "create" /\ Busy /\ NoSub \in Sub \union {NoSub}
  BY DEF IInv, Create, Busy
<1>2. CASE Return(NoSub) /\ UNCHANGED turn
  BY <1>1, <1>2, ReturnInv DEF TypeOK
<1>3. CASE /\ turn' = 0
           /\ Enter("count")
           /\ UNCHANGED <<envVars, nr, useBackup, target, idx, picked>>
  <2>1. pc' = "count" /\ pos' = 1 /\ 0 \in Turns
    BY <1>3, RoundRobinAssumption DEF Enter, Turns
  <2>2. TypeOK'
    BY <1>1, <1>3, <2>1, Bounds DEF TypeOK, envVars, SubflowsTypeOK, Walks
  <2>3. Counters'
    BY <1>1, <1>3, <2>1, RoundRobinAssumption DEF Counters, Counting, Walks, HasStorage
  <2>4. nr' = Cardinality(Passed')
    BY <1>1, <1>3, <2>1, NothingPassed DEF Counters
  <2>5. QED
    BY <1>1, <1>3, <2>1, <2>2, <2>3, <2>4, StayInv DEF Busy
<1>4. QED
  BY <1>2, <1>3 DEF Create

(* The first walk: a subflow is counted, and at the end, or at the cap,    *)
(* the turn is taken modulo the count.                                     *)
LEMMA CountInv == IInv /\ Count => IInv'
<1> SUFFICES ASSUME IInv, Count PROVE IInv'
  OBVIOUS
<1> DEFINE counted == IF ~bkup[pos] /\ Usable(pos) THEN nr + 1 ELSE nr
           upto == {i \in Sub : i < pos + 1 /\ Rotates(i)}
<1>1. TypeOK /\ Counters /\ pc = "count" /\ Counting /\ Busy /\ ~useBackup /\ idx = 0
  BY DEF IInv, Count, Counters, Counting, Busy
<1>2. UNCHANGED <<envVars, useBackup, idx, turn, picked>> /\ nr' = counted
  BY DEF Count
<1>3. /\ pos \in Sub /\ nr \in Nat /\ nr < MAX_SUBFLOWS /\ MAX_SUBFLOWS \in Nat
      /\ turn \in Nat /\ target \in Nat
  BY <1>1, RoundRobinAssumption DEF TypeOK, Counters, Walks, Turns
<1>4. counted \in 0..MAX_SUBFLOWS
  BY <1>3
<1>5. changes = 0 => counted = Cardinality(upto)
  <2>1. ASSUME changes = 0 PROVE nr = Cardinality(Passed)
    BY <1>1, <2>1 DEF IInv, Quiet
  <2>2. (~bkup[pos] /\ Usable(pos)) <=> Rotates(pos)
    BY <1>1 DEF Rotates
  <2>3. QED
    BY <1>1, <1>3, <2>1, <2>2, PassPos
<1> HIDE DEF counted
<1>6. CASE ~AtEnd /\ counted # MAX_SUBFLOWS /\ pos' = pos + 1 /\ UNCHANGED <<pc, target>>
  <2>1. TypeOK'
    BY <1>1, <1>2, <1>3, <1>4, <1>6, Positions DEF TypeOK, envVars, SubflowsTypeOK
  <2>2. Counters'
    BY <1>1, <1>2, <1>3, <1>4, <1>6 DEF Counters, Counting, Walks, HasStorage
  <2>3. Passed' = upto
    BY <1>2, <1>6 DEF Passed, Rotates, Usable, envVars
  <2>4. QED
    BY <1>1, <1>2, <1>5, <1>6, <2>1, <2>2, <2>3, StayInv DEF Busy, Counting
<1>7. CASE counted > 0 /\ target' = turn % counted /\ Enter("pick")
  <2>1. pc' = "pick" /\ pos' = 1
    BY <1>7 DEF Enter
  <2>2. turn % counted \in Nat /\ turn % counted < counted
    BY <1>3, <1>4, <1>7
  <2>3. TypeOK'
    BY <1>1, <1>2, <1>4, <1>7, <2>1, <2>2, Bounds DEF TypeOK, envVars, SubflowsTypeOK, Walks
  <2>4. Counters'
    BY <1>1, <1>2, <1>7, <2>1, <2>2 DEF Counters, Counting, Walks, HasStorage
  <2>5. changes = 0 => idx' = Cardinality(Passed') /\ nr' <= Cardinality(InRound)
    BY <1>1, <1>2, <1>5, <2>1, PassPos, NothingPassed
  <2>6. QED
    BY <1>1, <1>2, <2>1, <2>3, <2>4, <2>5, StayInv DEF Busy, Counting
<1>8. CASE AtEnd /\ counted = 0 /\ Enter("check") /\ UNCHANGED target
  <2>1. pc' = "check" /\ pos' = 1
    BY <1>8 DEF Enter
  <2>2. TypeOK'
    BY <1>1, <1>2, <1>4, <1>8, <2>1, Bounds DEF TypeOK, envVars, SubflowsTypeOK, Walks
  <2>3. Counters'
    BY <1>1, <1>2, <1>8, <2>1 DEF Counters, Counting, Walks, HasStorage
  <2>4. ASSUME changes = 0 PROVE \A i \in Sub : ~(Usable(i) /\ ~bkup[i])
    <3>1. Cardinality(InRound) = 0
      BY <1>1, <1>5, <1>8, <2>4, PassPos
    <3>2. InRound = {}
      BY <3>1, Sizes, FS_EmptySet DEF InRound
    <3>3. QED
      BY <1>1, <3>2 DEF InRound, Rotates
  <2>5. \A i \in Sub : ~(i < pos')
    BY <1>3, <2>1, Positions
  <2>6. QED
    BY <1>1, <1>2, <2>1, <2>2, <2>3, <2>4, <2>5, StayInv DEF Busy, Counting
<1>9. QED
  BY <1>6, <1>7, <1>8 DEF Count, counted

(* The look at why no non-backup subflow can take data: each is passed     *)
(* when it has been seen inactive, and the last one opens the round of the *)
(* backups.                                                                *)
LEMMA CheckInv == IInv /\ Check => IInv'
<1> SUFFICES ASSUME IInv, Check PROVE IInv'
  OBVIOUS
<1>1. TypeOK /\ Counters /\ SeenIsCurrent /\ pc = "check" /\ Busy /\ ~useBackup /\ nr = 0 /\ idx = 0
  BY DEF IInv, Check, Counters, Busy
<1>2. pos \in Sub /\ turn \in Turns \union {NoStorage} /\ NoSub \in Sub \union {NoSub}
  BY <1>1 DEF TypeOK
<1>3. CASE Return(NoSub) /\ UNCHANGED turn
  BY <1>1, <1>2, <1>3, ReturnInv
<1>4. CASE /\ ~ActivePrimary(pos)
           /\ IF AtEnd
              THEN Enter("countAny") /\ useBackup' = TRUE
              ELSE pos' = pos + 1 /\ UNCHANGED <<pc, useBackup>>
           /\ UNCHANGED <<envVars, nr, target, idx, turn, picked>>
  <2>1. \A i \in Sub : i < pos + 1 => i \in idleSeen
    BY <1>1, <1>2, <1>4, Positions DEF IInv, SeenIsCurrent, BackupsJustified
  <2>2. CASE ~AtEnd
    <3>1. pos' = pos + 1 /\ UNCHANGED <<envVars, pc, useBackup, nr, target, idx, turn, picked>>
      BY <1>4, <2>2
    <3>2. TypeOK'
      BY <1>1, <1>2, <2>2, <3>1, Positions DEF TypeOK, envVars, SubflowsTypeOK
    <3>3. Counters'
      BY <1>1, <3>1 DEF Counters, Counting, Walks, HasStorage
    <3>4. changes = 0 => \A i \in Sub : ~(Usable(i) /\ ~bkup[i])
      BY <1>1 DEF IInv, Quiet
    <3>5. QED
      BY <1>1, <2>1, <3>1, <3>2, <3>3, <3>4, StayInv DEF Busy, Counting
  <2>3. CASE AtEnd
    <3>1. /\ pc' = "countAny" /\ pos' = 1 /\ useBackup' = TRUE
          /\ UNCHANGED <<envVars, nr, target, idx, turn, picked>>
      BY <1>4, <2>3 DEF Enter
    <3>2. TypeOK'
      BY <1>1, <3>1, Bounds DEF TypeOK, envVars, SubflowsTypeOK, Walks
    <3>3. Counters'
      BY <1>1, <3>1, RoundRobinAssumption DEF Counters, Counting, Walks, HasStorage
    <3>4. SeenIsCurrent'
      BY <1>1, <3>1 DEF SeenIsCurrent, Usable, ActivePrimary, Active, envVars, Busy
    <3>5. idleSeen' = Sub
      <4>1. \A i \in Sub : i \in idleSeen
        BY <1>2, <2>1, <2>3, Positions
      <4>2. QED
        BY <1>1, <3>1, <4>1 DEF TypeOK, SubflowsTypeOK, envVars
    <3>6. Quiet'
      BY <1>1, <3>1, NothingPassed DEF IInv, Quiet, Counting, Usable, envVars
    <3>7. QED
      BY <3>1, <3>2, <3>3, <3>4, <3>5, <3>6 DEF IInv, BackupsJustified
  <2>4. QED
    BY <2>2, <2>3
<1>5. QED
  BY <1>3, <1>4 DEF Check

(* The count of every usable subflow, as the first walk's. *)
LEMMA CountAnyInv == IInv /\ CountAny => IInv'
<1> SUFFICES ASSUME IInv, CountAny PROVE IInv'
  OBVIOUS
<1> DEFINE counted == IF Usable(pos) THEN nr + 1 ELSE nr
           upto == {i \in Sub : i < pos + 1 /\ Rotates(i)}
<1>1. TypeOK /\ Counters /\ pc = "countAny" /\ Counting /\ Busy /\ useBackup /\ idx = 0
  BY DEF IInv, CountAny, Counters, Counting, Busy
<1>2. /\ pos \in Sub /\ nr \in Nat /\ nr < MAX_SUBFLOWS /\ MAX_SUBFLOWS \in Nat
      /\ turn \in Nat /\ turn \in Turns
      /\ target \in Nat /\ NoSub \in Sub \union {NoSub}
  BY <1>1, RoundRobinAssumption DEF TypeOK, Counters, Walks, Turns
<1>3. counted \in 0..MAX_SUBFLOWS
  BY <1>2
<1>4. changes = 0 => counted = Cardinality(upto)
  <2>1. ASSUME changes = 0 PROVE nr = Cardinality(Passed)
    BY <1>1, <2>1 DEF IInv, Quiet
  <2>2. Usable(pos) <=> Rotates(pos)
    BY <1>1 DEF Rotates
  <2>3. QED
    BY <1>1, <1>2, <2>1, <2>2, PassPos
<1> HIDE DEF counted
<1>5. CASE /\ ~AtEnd /\ counted # MAX_SUBFLOWS /\ nr' = counted /\ pos' = pos + 1
           /\ UNCHANGED <<envVars, pc, useBackup, target, idx, turn, picked>>
  <2>1. TypeOK'
    BY <1>1, <1>2, <1>3, <1>5, Positions DEF TypeOK, envVars, SubflowsTypeOK
  <2>2. Counters'
    BY <1>1, <1>2, <1>3, <1>5 DEF Counters, Counting, Walks, HasStorage
  <2>3. Passed' = upto
    BY <1>5 DEF Passed, Rotates, Usable, envVars
  <2>4. changes = 0 => \A i \in Sub : ~(Usable(i) /\ ~bkup[i])
    BY <1>1 DEF IInv, Quiet
  <2>5. QED
    BY <1>1, <1>4, <1>5, <2>1, <2>2, <2>3, <2>4, StayInv DEF Busy, Counting
<1>6. CASE /\ counted > 0 /\ nr' = counted /\ target' = turn % counted /\ Enter("pick")
           /\ UNCHANGED <<envVars, useBackup, idx, turn, picked>>
  <2>1. pc' = "pick" /\ pos' = 1
    BY <1>6 DEF Enter
  <2>2. turn % counted \in Nat /\ turn % counted < counted
    BY <1>2, <1>3, <1>6
  <2>3. TypeOK'
    BY <1>1, <1>3, <1>6, <2>1, <2>2, Bounds DEF TypeOK, envVars, SubflowsTypeOK, Walks
  <2>4. Counters'
    BY <1>1, <1>6, <2>1, <2>2 DEF Counters, Counting, Walks, HasStorage
  <2>5. changes = 0 => idx' = Cardinality(Passed') /\ nr' <= Cardinality(InRound)
    BY <1>1, <1>4, <1>6, <2>1, PassPos, NothingPassed
  <2>6. QED
    BY <1>1, <1>6, <2>1, <2>3, <2>4, <2>5, StayInv DEF Busy, Counting
<1>7. CASE Return(NoSub) /\ UNCHANGED turn
  BY <1>1, <1>2, <1>7, ReturnInv
<1>8. QED
  BY <1>5, <1>6, <1>7 DEF CountAny, counted

(* The scheduling walk passes a subflow or ends the call. *)
LEMMA PickInv == IInv /\ Pick => IInv'
<1> SUFFICES ASSUME IInv, Pick PROVE IInv'
  OBVIOUS
<1> DEFINE passed == IF Rotates(pos) THEN idx + 1 ELSE idx
           upto == {i \in Sub : i < pos + 1 /\ Rotates(i)}
<1>1. TypeOK /\ Counters /\ pc = "pick" /\ Busy
  BY DEF IInv, Pick, Busy
<1>2. /\ pos \in Sub /\ NoSub \in Sub \union {NoSub}
      /\ idx \in Nat /\ idx <= target /\ target < nr /\ target \in Nat
      /\ nr \in Nat /\ nr <= MAX_SUBFLOWS /\ MAX_SUBFLOWS \in Nat
      /\ turn \in Turns /\ NextTurn(turn) \in Turns
  BY <1>1, RoundRobinAssumption DEF TypeOK, Counters, NextTurn, Walks, Turns
<1>3. CASE Return(pos) /\ turn' = NextTurn(turn)
  BY <1>1, <1>2, <1>3, ReturnInv
<1>4. CASE Return(NoSub) /\ UNCHANGED turn
  BY <1>1, <1>2, <1>4, ReturnInv
<1>5. CASE /\ ~(Rotates(pos) /\ idx = target) /\ ~AtEnd
           /\ idx' = passed /\ pos' = pos + 1
           /\ UNCHANGED <<envVars, pc, nr, useBackup, target, turn, picked>>
  <2>1. passed \in 0..MAX_SUBFLOWS /\ passed <= target
    BY <1>2, <1>5
  <2>2. changes = 0 => passed = Cardinality(upto) /\ nr <= Cardinality(InRound)
    BY <1>1, <1>2, PassPos DEF IInv, Quiet
  <2> HIDE DEF passed
  <2>3. TypeOK'
    BY <1>1, <1>2, <1>5, <2>1, Positions DEF TypeOK, envVars, SubflowsTypeOK
  <2>4. Counters'
    BY <1>1, <1>2, <1>5, <2>1 DEF Counters, Counting, Walks, HasStorage
  <2>5. Passed' = upto
    BY <1>5 DEF Passed, Rotates, Usable, envVars
  <2>6. QED
    BY <1>1, <1>5, <2>2, <2>3, <2>4, <2>5, StayInv DEF Busy, Counting
<1>6. QED
  BY <1>3, <1>4, <1>5 DEF Pick

(* The kernel adds to what has been seen, and ends a call's quiet. *)
LEMMA DisturbInv == IInv /\ Disturb => IInv'
<1> SUFFICES ASSUME IInv, Disturb PROVE IInv'
  OBVIOUS
<1>1. Kernel(Busy) /\ UNCHANGED <<localVars, turn, picked>> /\ Busy \in BOOLEAN
  BY DEF Disturb, Busy
<1>2. TypeOK /\ SubflowsTypeOK /\ Counters
  BY DEF IInv, TypeOK
<1>3. TypeOK'
  BY <1>1, <1>2, KernelStep DEF TypeOK, localVars
<1>4. Busy' = Busy /\ Counters'
  BY <1>1, <1>2 DEF Busy, Counters, Counting, HasStorage, localVars
<1>5. CASE ~Busy
  BY <1>1, <1>2, <1>3, <1>4, <1>5
     DEF IInv, SeenIsCurrent, BackupsJustified, Quiet, Counters, localVars, Busy
<1>6. CASE Busy
  <2>1. /\ usableSeen' = usableSeen \union {i \in Sub : Usable(i)'}
        /\ primarySeen' = primarySeen \union {i \in Sub : ~bkup'[i]}
        /\ idleSeen' = idleSeen \union {i \in Sub : ~ActivePrimary(i)'}
        /\ changes' = changes + 1
    BY <1>1, <1>2, <1>6, KernelStep
  <2>2. SeenIsCurrent'
    BY <2>1 DEF SeenIsCurrent
  <2>3. BackupsJustified'
    BY <1>1, <2>1 DEF IInv, BackupsJustified, localVars
  <2>4. changes' # 0
    BY <1>2, <2>1, SubflowsAssumption DEF SubflowsTypeOK
  <2>5. QED
    BY <1>3, <1>4, <2>2, <2>3, <2>4 DEF IInv, Quiet
<1>7. QED
  BY <1>5, <1>6

(* IInv is inductive. *)
LEMMA InvStep == IInv /\ [Next]_vars => IInv'
<1> SUFFICES ASSUME IInv, [Next]_vars PROVE IInv'
  OBVIOUS
<1>1. CASE UNCHANGED vars
  BY <1>1 DEF vars, envVars, localVars, IInv, TypeOK, SubflowsTypeOK, Counters, Counting,
              SeenIsCurrent, BackupsJustified, Quiet, Busy, Passed, InRound, Rotates,
              Usable, ActivePrimary, Active, HasStorage
<1>2. QED
  BY <1>1, CallInv, CreateInv, CountInv, CheckInv, CountAnyInv, PickInv, DisturbInv DEF Next, Walk

(* The inductive invariant holds of every behaviour. *)
THEOREM Invariance == Spec => []IInv
BY InvInit, InvStep, PTL DEF Spec

(* TypeOK is an invariant of bpf_rr: no walk leaves the list, no counter   *)
(* passes MAX_SUBFLOWS and the turn, once there, stays in its width.       *)
THEOREM TypeCorrect == Spec => []TypeOK
<1>1. IInv => TypeOK
  BY DEF IInv
<1>2. QED
  BY <1>1, Invariance, PTL

(* The turn moves on only with a subflow scheduled (TurnSpentOnlyOnSend):  *)
(* a refusal and a walk whose target is gone leave it where it is, and the *)
(* storage, once there, is not created anew.                               *)
THEOREM TurnsNeverWasted == Spec => TurnSpentOnlyOnSend
<1> DEFINE Spent == turn' # turn =>
                \/ ~HasStorage /\ turn' = 0
                \/ pc = "pick" /\ picked' # NoSub /\ Usable(picked')
<1>1. IInv /\ [Next]_vars => [Spent]_vars
  <2> SUFFICES ASSUME IInv, Next, turn' # turn PROVE Spent
    BY DEF vars
  <2>1. CASE Create
    BY <2>1 DEF Create, IInv, Counters
  <2>2. CASE ~Create
    <3>1. Pick /\ Rotates(pos) /\ picked' = pos
      BY <2>2 DEF Next, Walk, Call, Count, Check, CountAny, Pick, Disturb, Return
    <3>2. pos # NoSub
      BY SubflowsAssumption DEF IInv, TypeOK, Sub, NoSub
    <3>3. QED
      BY <3>1, <3>2 DEF Pick, Rotates
  <2>3. QED
    BY <2>1, <2>2
<1>2. QED
  BY <1>1, Invariance, PTL DEF Spec, TurnSpentOnlyOnSend

-----------------------------------------------------------------------------
(* The refinement.                                                         *)

LEMMA ScheduleStep ==
    ASSUME Busy, HasStorage, HasStorage', NEW i \in Sub, Return(i),
           i \in usableSeen, i \in primarySeen \/ idleSeen = Sub
    PROVE  Contract!ContractNext
<1>1. Contract!Schedule(i)
  BY DEF Busy, Return, Contract!Schedule, Contract!End, Contract!Permitted,
         Contract!EndSeen, EndSeen, subflowVars, Contract!subflowVars, Contract!Sub, Sub
<1>2. QED
  BY <1>1 DEF Contract!ContractNext, Contract!Sub, Sub

LEMMA RefuseStep ==
    ASSUME Busy, HasStorage, HasStorage', Return(NoSub),
           changes = 0 => /\ \A i \in Sub : ~(Usable(i) /\ ~bkup[i])
                          /\ HasActivePrimary \/ \A i \in Sub : ~Usable(i)
    PROVE  Contract!ContractNext
<1>1. changes = 0 => Contract!NothingToSendOn
  BY DEF Contract!NothingToSendOn, Contract!Usable, Usable, Contract!Sub, Sub,
         Contract!HasActivePrimary, HasActivePrimary, Contract!ActivePrimary,
         ActivePrimary, Contract!Active, Active
<1>2. Contract!Refuse
  BY <1>1 DEF Busy, Return, Contract!Refuse, Contract!End, Contract!EndSeen, EndSeen,
              subflowVars, HasStorage, Contract!subflowVars, Contract!NoSub, NoSub
<1>3. QED
  BY <1>2 DEF Contract!ContractNext

(* A walk over a list the kernel left alone ends at the turn's subflow.    *)
LEMMA QuietPickFinds ==
    ASSUME IInv, pc = "pick", changes = 0, ~(Rotates(pos) /\ idx = target)
    PROVE  ~AtEnd /\ (IF Rotates(pos) THEN idx + 1 ELSE idx) # MAX_SUBFLOWS
<1> DEFINE passed == IF Rotates(pos) THEN idx + 1 ELSE idx
           upto == {i \in Sub : i < pos + 1 /\ Rotates(i)}
<1>1. TypeOK /\ Busy
  BY DEF IInv, Busy
<1>2. /\ idx \in Nat /\ idx <= target /\ target < nr /\ target \in Nat
      /\ nr \in Nat /\ nr <= MAX_SUBFLOWS /\ MAX_SUBFLOWS \in Nat
  BY <1>1, RoundRobinAssumption DEF IInv, TypeOK, Counters
<1>3. passed \in Nat /\ passed < nr
  BY <1>2
<1>4. passed = Cardinality(upto) /\ nr <= Cardinality(InRound)
  BY <1>1, <1>2, PassPos DEF IInv, Quiet
<1> HIDE DEF passed
<1>5. ~AtEnd
  BY <1>1, <1>2, <1>3, <1>4, PassPos
<1>6. passed # MAX_SUBFLOWS
  BY <1>2, <1>3
<1>7. QED
  BY <1>5, <1>6 DEF passed

(* A walk has the storage, and leaves it. *)
LEMMA StorageKept ==
    ASSUME IInv, Walk, ~Create
    PROVE  HasStorage /\ HasStorage'
<1>1. pc \in Walks
  BY DEF Walk, Count, Check, CountAny, Pick, Walks
<1>2. turn \in Turns /\ NextTurn(turn) \in Turns
  BY <1>1, RoundRobinAssumption DEF IInv, Counters, Turns, NextTurn
<1>3. turn' \in {turn, NextTurn(turn)}
  BY DEF Walk, Count, Check, CountAny, Pick
<1>4. QED
  BY <1>2, <1>3, RoundRobinAssumption DEF HasStorage, Turns, NoStorage

(* The walks, as the contract sees them. *)
LEMMA WalkStep ==
    ASSUME IInv, Walk
    PROVE  Contract!ContractNext \/ UNCHANGED Contract!contractVars
<1>1. TypeOK /\ Counters /\ SeenIsCurrent /\ BackupsJustified /\ Quiet /\ pos \in Sub
  BY DEF IInv, TypeOK
<1>2. Busy
  BY DEF Walk, Create, Count, Check, CountAny, Pick, Busy
<1>3. CASE Busy' /\ UNCHANGED <<envVars, picked, HasStorage>>
  BY <1>2, <1>3 DEF Contract!contractVars, Contract!envVars, envVars
<1>4. CASE Create
  <2>1. ~HasStorage
    BY <1>1, <1>4 DEF Create, Counters
  <2>2. CASE Return(NoSub) /\ UNCHANGED turn
    BY <1>2, <2>1, <2>2
       DEF Return, Busy, Contract!ContractNext, Contract!Fail, Contract!End, EndSeen,
           Contract!EndSeen, subflowVars, Contract!subflowVars, HasStorage, NoSub, Contract!NoSub
  <2>3. CASE turn' = 0 /\ Enter("count") /\ UNCHANGED <<envVars, picked>>
    BY <1>2, <2>1, <2>3
       DEF Enter, Busy, Contract!ContractNext, Contract!Allocate, envVars, Contract!envVars,
           HasStorage, NoStorage
  <2>4. QED
    BY <1>4, <2>2, <2>3 DEF Create
<1>5. ASSUME ~Create PROVE HasStorage /\ HasStorage'
  BY <1>5, StorageKept
<1>6. CASE Count
  BY <1>3, <1>5, <1>6 DEF Count, Create, Enter, Busy
<1>7. CASE Check
  <2>1. CASE ActivePrimary(pos) /\ Return(NoSub)
    <3>1. HasActivePrimary
      BY <1>1, <2>1 DEF HasActivePrimary
    <3>2. changes = 0 => \A i \in Sub : ~(Usable(i) /\ ~bkup[i])
      BY <1>1, <1>2, <1>7 DEF Check, Quiet
    <3>3. QED
      BY <1>2, <1>5, <1>7, <2>1, <3>1, <3>2, RefuseStep DEF Check, Create
  <2>2. CASE ~ActivePrimary(pos)
    BY <1>3, <1>5, <1>7, <2>2 DEF Check, Create, Enter, Busy
  <2>3. QED
    BY <1>7, <2>1, <2>2 DEF Check
<1>8. CASE CountAny
  <2>1. CASE /\ AtEnd /\ Return(NoSub)
             /\ (IF Usable(pos) THEN nr + 1 ELSE nr) = 0
    <3>1. ASSUME changes = 0 PROVE \A i \in Sub : ~Usable(i)
      <4>1. pc = "countAny" /\ useBackup /\ nr = Cardinality(Passed) /\ nr \in Nat
        BY <1>1, <1>2, <1>8, <3>1 DEF CountAny, Counters, Quiet, Counting, TypeOK
      <4>2. nr = 0 /\ ~Usable(pos) /\ ~Rotates(pos)
        BY <2>1, <4>1 DEF Rotates
      <4>3. Cardinality(InRound) = 0
        BY <1>1, <2>1, <4>1, <4>2, PassPos
      <4>4. InRound = {}
        BY <4>3, Sizes, FS_EmptySet DEF InRound
      <4>5. QED
        BY <4>1, <4>4 DEF InRound, Rotates
    <3>2. QED
      BY <1>2, <1>5, <1>8, <2>1, <3>1, RefuseStep DEF CountAny, Create
  <2>2. CASE pc' # "idle" /\ UNCHANGED <<envVars, picked>>
    BY <1>3, <1>5, <1>8, <2>2 DEF CountAny, Create, Busy
  <2>3. QED
    BY <1>8, <2>1, <2>2 DEF CountAny, Enter
<1>9. CASE Pick
  <2>1. CASE Rotates(pos) /\ Return(pos)
    <3>1. pos \in usableSeen /\ (pos \in primarySeen \/ idleSeen = Sub)
      BY <1>1, <1>2, <2>1 DEF Rotates, SeenIsCurrent, BackupsJustified
    <3>2. QED
      BY <1>1, <1>2, <1>5, <1>9, <2>1, <3>1, ScheduleStep DEF Pick, Create
  <2>2. CASE /\ ~(Rotates(pos) /\ idx = target) /\ Return(NoSub)
             /\ AtEnd \/ (IF Rotates(pos) THEN idx + 1 ELSE idx) = MAX_SUBFLOWS
    <3>1. changes # 0
      BY <1>9, <2>2, QuietPickFinds DEF Pick
    <3>2. QED
      BY <1>2, <1>5, <1>9, <2>2, <3>1, RefuseStep DEF Pick, Create
  <2>3. CASE pc' # "idle" /\ UNCHANGED <<envVars, picked>>
    BY <1>3, <1>5, <1>9, <2>3 DEF Pick, Create, Busy
  <2>4. QED
    BY <1>9, <2>1, <2>2, <2>3 DEF Pick
<1>10. QED
  BY <1>4, <1>6, <1>7, <1>8, <1>9 DEF Walk

(* Every step of get_send and of the kernel is a step of the contract or   *)
(* none of its business.                                                   *)
LEMMA ContractStep ==
    IInv /\ [Next]_vars => [Contract!ContractNext]_(Contract!contractVars)
<1> SUFFICES ASSUME IInv, [Next]_vars
             PROVE  Contract!ContractNext \/ UNCHANGED Contract!contractVars
  OBVIOUS
<1>1. CASE Call
  BY <1>1
     DEF Call, Enter, HasStorage, Contract!ContractNext, Contract!Begin, BeginSeen, Contract!BeginSeen,
         Busy, subflowVars, Contract!subflowVars, Sub, Contract!Sub, Usable,
         Contract!Usable, ActivePrimary, Contract!ActivePrimary, Active, Contract!Active
<1>2. CASE Disturb
  <2>1. ExtendSeen(Busy) => Contract!ExtendSeen(Busy)
    BY DEF ExtendSeen, Contract!ExtendSeen, seenVars, Contract!seenVars,
           Usable, Contract!Usable, ActivePrimary, Contract!ActivePrimary,
           Active, Contract!Active, Sub, Contract!Sub
  <2>2. Contract!Kernel(Busy)
    BY <1>2, <2>1
       DEF Disturb, Kernel, Contract!Kernel, Close, Contract!Close, Establish,
           Contract!Establish, ToggleStale, Contract!ToggleStale, TogglePriority,
           Contract!TogglePriority, Fill, Contract!Fill, Drain, Contract!Drain,
           Active, Contract!Active, Sub, Contract!Sub
  <2>3. QED
    BY <1>2, <2>2 DEF Disturb, localVars, HasStorage, Contract!Disturb,
                         Contract!ContractNext, Busy
<1>3. CASE UNCHANGED vars
  BY <1>3 DEF vars, envVars, localVars, HasStorage, Contract!contractVars,
              Contract!envVars, Busy
<1>4. QED
  BY <1>1, <1>2, <1>3, WalkStep DEF Next

LEMMA ContractInitially == Init => Contract!ContractInit
BY DEF Init, Contract!ContractInit, SubflowsInit, Contract!SubflowsInit, Busy,
       HasStorage, Contract!NoSub, NoSub, Contract!Sub, Sub

(* bpf_rr implements the contract (KeepsContract) with any number of       *)
(* subflows, also more than MAX_SUBFLOWS: its walks count and schedule in  *)
(* the same order under a kernel that keeps still, and under any other     *)
(* the backups open only when every other subflow has been seen inactive.  *)
THEOREM ContractKept == Spec => KeepsContract
BY Invariance, ContractInitially, ContractStep, PTL
   DEF Spec, KeepsContract, Contract!ContractSpec
-----------------------------------------------------------------------------
(* The rotation, call by call.                                             *)

(* A round takes turns between the usable subflows of its role, the first  *)
(* MAX_SUBFLOWS of them on the list.                                       *)
RoundSize == LET usable == Cardinality(InRound)
             IN  IF usable < MAX_SUBFLOWS THEN usable ELSE MAX_SUBFLOWS

(* A scheduling walk the kernel left alone ends at the subflow whose rank  *)
(* in the round is the turn modulo its size, and moves the turn on by one: *)
(* calls over one set visit its ranks one after another.                   *)
TurnsByRank ==
    [][pc = "pick" /\ pc' = "idle" /\ changes = 0
        => /\ picked' \in InRound
           /\ Cardinality({i \in InRound : i < picked'}) = turn % RoundSize
           /\ turn' = NextTurn(turn)]_vars

(* What the scheduling walk was given: the turn, which nothing else moves, *)
(* modulo a count that is the size of the round.                           *)
TargetIsTurn == pc = "pick" =>
    /\ target = turn % nr
    /\ changes = 0 => nr = RoundSize

(* A count that stopped at the end of the list or at the cap is the size   *)
(* of the round.                                                           *)
LEMMA CountIsSize ==
    ASSUME TypeOK, NEW counted \in 0..MAX_SUBFLOWS, AtEnd \/ counted = MAX_SUBFLOWS,
           counted = Cardinality({i \in Sub : i < pos + 1 /\ Rotates(i)})
    PROVE  counted = RoundSize
<1> DEFINE upto == {i \in Sub : i < pos + 1 /\ Rotates(i)}
<1>1. /\ Cardinality(upto) <= Cardinality(InRound) /\ Cardinality(InRound) \in Nat
      /\ AtEnd => Cardinality(upto) = Cardinality(InRound)
  BY PassPos
<1>2. counted = Cardinality(upto) /\ MAX_SUBFLOWS \in Nat
  BY RoundRobinAssumption
<1> HIDE DEF upto
<1>3. QED
  BY <1>1, <1>2 DEF RoundSize

(* The two counts hand the turn over to the scheduling walk, ...           *)
LEMMA CountTurn == IInv /\ Count /\ pc' = "pick" => TargetIsTurn'
<1> SUFFICES ASSUME IInv, Count, pc' = "pick" PROVE TargetIsTurn'
  OBVIOUS
<1> DEFINE counted == IF ~bkup[pos] /\ Usable(pos) THEN nr + 1 ELSE nr
           upto == {i \in Sub : i < pos + 1 /\ Rotates(i)}
<1>1. TypeOK /\ Counters /\ pc = "count" /\ Counting /\ Busy /\ ~useBackup
  BY DEF IInv, Count, Counters, Counting, Busy
<1>2. /\ UNCHANGED <<envVars, useBackup, turn>> /\ nr' = counted
      /\ target' = turn % counted
      /\ AtEnd \/ counted = MAX_SUBFLOWS
  BY <1>1 DEF Count, Enter
<1>3. /\ pos \in Sub /\ nr \in Nat /\ counted \in 0..MAX_SUBFLOWS
  BY <1>1, RoundRobinAssumption DEF TypeOK, Counters
<1>4. ASSUME changes = 0 PROVE counted = RoundSize
  <2>1. nr = Cardinality(Passed)
    BY <1>1, <1>4 DEF IInv, Quiet
  <2>2. (~bkup[pos] /\ Usable(pos)) <=> Rotates(pos)
    BY <1>1 DEF Rotates
  <2>3. counted = Cardinality(upto)
    BY <1>1, <1>3, <2>1, <2>2, PassPos
  <2> HIDE DEF counted
  <2>4. QED
    BY <1>1, <1>2, <1>3, <2>3, CountIsSize
<1>5. target' = turn' % nr'
  BY <1>1 DEF Count, Enter
<1> HIDE DEF counted
<1>6. RoundSize' = RoundSize /\ changes' = changes
  BY <1>2 DEF RoundSize, InRound, Rotates, Usable, envVars
<1>7. changes' = 0 => nr' = RoundSize'
  BY <1>2, <1>4, <1>6
<1>8. QED
  BY <1>5, <1>7, Zenon DEF TargetIsTurn

LEMMA CountAnyTurn == IInv /\ CountAny /\ pc' = "pick" => TargetIsTurn'
<1> SUFFICES ASSUME IInv, CountAny, pc' = "pick" PROVE TargetIsTurn'
  OBVIOUS
<1> DEFINE counted == IF Usable(pos) THEN nr + 1 ELSE nr
           upto == {i \in Sub : i < pos + 1 /\ Rotates(i)}
<1>1. TypeOK /\ Counters /\ pc = "countAny" /\ Counting /\ Busy /\ useBackup
  BY DEF IInv, CountAny, Counters, Counting, Busy
<1>2. /\ UNCHANGED <<envVars, useBackup, turn>> /\ nr' = counted
      /\ target' = turn % counted
      /\ AtEnd \/ counted = MAX_SUBFLOWS
  BY <1>1 DEF CountAny, Enter, Return
<1>3. /\ pos \in Sub /\ nr \in Nat /\ counted \in 0..MAX_SUBFLOWS
  BY <1>1, RoundRobinAssumption DEF TypeOK, Counters
<1>4. ASSUME changes = 0 PROVE counted = RoundSize
  <2>1. nr = Cardinality(Passed)
    BY <1>1, <1>4 DEF IInv, Quiet
  <2>2. Usable(pos) <=> Rotates(pos)
    BY <1>1 DEF Rotates
  <2>3. counted = Cardinality(upto)
    BY <1>1, <1>3, <2>1, <2>2, PassPos
  <2> HIDE DEF counted
  <2>4. QED
    BY <1>1, <1>2, <1>3, <2>3, CountIsSize
<1>5. target' = turn' % nr'
  BY <1>1 DEF CountAny, Enter, Return
<1> HIDE DEF counted
<1>6. RoundSize' = RoundSize /\ changes' = changes
  BY <1>2 DEF RoundSize, InRound, Rotates, Usable, envVars
<1>7. changes' = 0 => nr' = RoundSize'
  BY <1>2, <1>4, <1>6
<1>8. QED
  BY <1>5, <1>7, Zenon DEF TargetIsTurn

(* ... which nothing takes from it before the call returns.                *)
LEMMA TurnStep == IInv /\ TargetIsTurn /\ [Next]_vars => TargetIsTurn'
<1> SUFFICES ASSUME IInv, TargetIsTurn, [Next]_vars, pc' = "pick" PROVE TargetIsTurn'
  BY DEF TargetIsTurn
<1>1. CASE UNCHANGED <<envVars, pc, nr, useBackup, target, turn>>
  BY <1>1 DEF TargetIsTurn, RoundSize, InRound, Rotates, Usable, envVars
<1>2. CASE Pick
  BY <1>1, <1>2 DEF Pick, Return
<1>3. CASE Disturb
  <2>1. UNCHANGED <<pc, nr, target, turn>> /\ Kernel(Busy) /\ Busy \in BOOLEAN /\ Busy
    BY <1>3 DEF Disturb, localVars, Busy
  <2>2. SubflowsTypeOK /\ changes \in Nat
    BY SubflowsAssumption DEF IInv, TypeOK, SubflowsTypeOK
  <2>3. changes' = changes + 1
    BY <2>1, <2>2, KernelStep
  <2>4. changes' # 0
    BY <2>2, <2>3
  <2>5. target' = turn' % nr'
    BY <2>1, Zenon DEF TargetIsTurn
  <2>6. QED
    BY <2>4, <2>5 DEF TargetIsTurn
<1>4. CASE UNCHANGED vars
  BY <1>1, <1>4 DEF vars
<1>5. ~Call /\ ~Create /\ ~Check
  BY DEF Call, Create, Check, Enter, Return
<1>6. QED
  BY <1>2, <1>3, <1>4, <1>5, CountTurn, CountAnyTurn DEF Next, Walk

(* bpf_rr's rotation (TurnsByRank), whatever disturbed the calls before,   *)
(* for any number of subflows and across the wrap: one that goes on        *)
(* undisturbed serves the ranks in turn, so that it can leave nobody out.  *)
THEOREM RotatesByRank == Spec => TurnsByRank
<1> DEFINE Ranked == pc = "pick" /\ pc' = "idle" /\ changes = 0
                        => /\ picked' \in InRound
                           /\ Cardinality({i \in InRound : i < picked'}) = turn % RoundSize
                           /\ turn' = NextTurn(turn)
<1>1. Init => TargetIsTurn
  BY DEF Init, TargetIsTurn
<1>2. IInv /\ TargetIsTurn /\ [Next]_vars => [Ranked]_vars
  <2> SUFFICES ASSUME IInv, TargetIsTurn, Next, pc = "pick", pc' = "idle", changes = 0
               PROVE  /\ picked' \in InRound
                      /\ Cardinality({i \in InRound : i < picked'}) = turn % RoundSize
                      /\ turn' = NextTurn(turn)
    BY DEF vars
  <2>1. Pick
    BY DEF Next, Walk, Call, Create, Count, Check, CountAny, Disturb, localVars
  <2>2. Rotates(pos) /\ idx = target
    BY <2>1, QuietPickFinds DEF Pick
  <2>3. picked' = pos /\ turn' = NextTurn(turn)
    BY <2>1, <2>2 DEF Pick, Return
  <2>4. pos \in InRound /\ {i \in InRound : i < pos} = Passed
    BY <2>2 DEF IInv, TypeOK, InRound, Passed
  <2>5. idx = Cardinality(Passed) /\ target = turn % RoundSize
    BY DEF IInv, Quiet, Busy, TargetIsTurn
  <2>6. QED
    BY <2>2, <2>3, <2>4, <2>5
<1>3. QED
  BY <1>1, <1>2, Invariance, TurnStep, PTL DEF Spec, TurnsByRank
=============================================================================
