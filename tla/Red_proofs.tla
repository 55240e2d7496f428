---------------------------- MODULE Red_proofs -----------------------------
(***************************************************************************)
(* Proofs about Red for any number of subflows and any number of kernel    *)
(* changes under a call.                                                   *)
(***************************************************************************)
EXTENDS Red, TLAPS

(* Every walk starts at a subflow. *)
LEMMA Bounds == 1 \in Sub /\ 0 \in 0..MaxChanges
BY SubflowsAssumption DEF Sub

(* What the kernel may do to the subflows keeps their types; during a call *)
(* it only adds to what has been seen, and frees memory without taking any.*)
LEMMA KernelStep ==
    ASSUME SubflowsTypeOK, NEW busy \in BOOLEAN, Kernel(busy)
    PROVE  /\ SubflowsTypeOK'
           /\ busy => /\ usableSeen' = usableSeen \union {i \in Sub : Usable(i)'}
                      /\ primarySeen' = primarySeen \union {i \in Sub : ~bkup'[i]}
                      /\ idleSeen' = idleSeen \union {i \in Sub : ~ActivePrimary(i)'}
                      /\ changes' = changes + 1
                      /\ \A i \in Sub : free[i] => free'[i]
           /\ ~busy => UNCHANGED seenVars
<1>1. /\ path' \in [Sub -> {"down", "stale", "up"}]
      /\ bkup' \in [Sub -> BOOLEAN]
      /\ free' \in [Sub -> BOOLEAN]
      /\ busy => \A i \in Sub : free[i] => free'[i]
  BY DEF Kernel, SubflowsTypeOK, Close, Establish, ToggleStale, TogglePriority, Fill, Drain
<1>2. /\ usableSeen' \subseteq Sub /\ primarySeen' \subseteq Sub /\ idleSeen' \subseteq Sub
      /\ changes' \in 0..MaxChanges
  BY SubflowsAssumption DEF Kernel, ExtendSeen, SubflowsTypeOK, seenVars
<1>3. QED
  BY <1>1, <1>2 DEF Kernel, ExtendSeen, SubflowsTypeOK

(* A walk that is not at the end has a next subflow; at the end, or at a   *)
(* limit no list is longer than, all the others are before it.             *)
LEMMA Positions ==
    ASSUME pos \in Sub
    PROVE  /\ ~AtEnd => pos + 1 \in Sub
           /\ \A i \in Sub : i < pos + 1 <=> i < pos \/ i = pos
           /\ AtEnd => \A i \in Sub : i < pos \/ i = pos
           /\ N <= MAX_SUBFLOWS /\ AtLimit => AtEnd
BY SubflowsAssumption, RedAssumption DEF Sub, AtEnd, AtLimit

(* The return of get_send: no call is under way. *)
LEMMA ReturnInv ==
    ASSUME TypeOK, Return, scheduled' \subseteq Sub
    PROVE  IInv'
<1>1. SubflowsTypeOK'
  BY Bounds DEF Return, EndSeen, TypeOK, SubflowsTypeOK, subflowVars
<1>2. pc' = "idle" /\ pos' = 1
  BY DEF Return
<1>3. TypeOK'
  BY <1>1, <1>2, Bounds DEF TypeOK
<1>4. QED
  BY <1>2, <1>3 DEF IInv, SeenIsCurrent, PassJustified, QuietPass, Busy

(* A visit that does not end the call leaves the connection as it was. *)
LEMMA StaySeen ==
    ASSUME IInv, Busy, UNCHANGED envVars
    PROVE  SubflowsTypeOK' /\ SeenIsCurrent'
<1>1. SubflowsTypeOK'
  BY DEF IInv, TypeOK, SubflowsTypeOK, envVars
<1>2. SeenIsCurrent'
  BY DEF IInv, SeenIsCurrent, envVars, Usable, ActivePrimary, Active
<1>3. QED
  BY <1>1, <1>2

(* What is marked in a visit was usable, and of the role of the pass. *)
LEMMA MarkIsEntitled ==
    ASSUME IInv, Busy, NEW backup \in BOOLEAN, Mark(backup)
    PROVE  /\ scheduled' \subseteq scheduled \union {pos}
           /\ scheduled' \subseteq Sub
           /\ scheduled' \subseteq usableSeen
           /\ ~backup /\ scheduled \subseteq primarySeen => scheduled' \subseteq primarySeen
BY DEF IInv, TypeOK, SeenIsCurrent, PassJustified, Mark

-----------------------------------------------------------------------------
(* Nothing has been seen before the first call. *)
LEMMA InvInit == Init => IInv
<1> SUFFICES ASSUME Init PROVE IInv
  OBVIOUS
<1>1. SubflowsTypeOK
  BY Bounds, SubflowsAssumption DEF Init, SubflowsInit, SubflowsTypeOK
<1>2. QED
  BY <1>1, Bounds
     DEF Init, TypeOK, IInv, SeenIsCurrent, PassJustified, QuietPass, Busy

(* A call starts with what it sees now and nothing marked. *)
LEMMA CallInv == IInv /\ Call => IInv'
<1> SUFFICES ASSUME IInv, Call PROVE IInv'
  OBVIOUS
<1>1. SubflowsTypeOK'
  BY Bounds DEF Call, BeginSeen, subflowVars, IInv, TypeOK, SubflowsTypeOK
<1>2. TypeOK' /\ pos' = 1
  BY <1>1 DEF Call, IInv, TypeOK, PassJustified, Busy
<1>3. SeenIsCurrent'
  BY DEF Call, BeginSeen, subflowVars, SeenIsCurrent, Usable, ActivePrimary, Active
<1>4. PassJustified'
  BY DEF Call, PassJustified, Busy
<1>5. \A i \in Sub : ~(i < pos')
  BY <1>2 DEF Sub
<1>6. QuietPass'
  BY <1>5 DEF Call, QuietPass
<1>7. QED
  BY <1>2, <1>3, <1>4, <1>6 DEF IInv

(* The pass over the non-backup subflows. *)
LEMMA PrimariesInv == IInv /\ Primaries => IInv'
<1> SUFFICES ASSUME IInv, Primaries PROVE IInv'
  OBVIOUS
<1>1. TypeOK /\ pos \in Sub /\ Busy /\ pc = "primaries" /\ Mark(FALSE)
  BY DEF IInv, TypeOK, Primaries, Busy
<1>2. /\ scheduled' \subseteq Sub
      /\ scheduled' \subseteq usableSeen
      /\ scheduled' \subseteq primarySeen
  BY <1>1, MarkIsEntitled DEF IInv, PassJustified
<1>3. ASSUME N <= MAX_SUBFLOWS, changes = 0
      PROVE  scheduled' = {i \in Sub : (i < pos \/ i = pos) /\ Usable(i) /\ ~bkup[i]}
  BY <1>1, <1>3 DEF IInv, QuietPass, Mark, TypeOK, SubflowsTypeOK, Sub
<1>4. CASE ~AtLimit /\ Advance
  <2>1. SubflowsTypeOK' /\ SeenIsCurrent' /\ Busy'
    BY <1>1, <1>4, StaySeen DEF Advance, Busy
  <2>2. TypeOK'
    BY <1>1, <1>2, <1>4, <2>1, Positions DEF Advance, AtLimit, TypeOK
  <2>3. PassJustified'
    BY <1>1, <1>2, <1>4, <2>1 DEF Advance, PassJustified, envVars
  <2>4. N <= MAX_SUBFLOWS /\ changes' = 0 => QuietPass'
    BY <1>1, <1>3, <1>4, Positions DEF Advance, envVars, QuietPass, Usable
  <2>5. QED
    BY <2>1, <2>2, <2>3, <2>4 DEF IInv
<1>5. CASE AtLimit /\ scheduled' # {} /\ Return
  BY <1>1, <1>2, <1>5, ReturnInv
<1>6. CASE AtLimit /\ scheduled' = {} /\ Enter("check")
  <2>1. SubflowsTypeOK' /\ SeenIsCurrent' /\ Busy'
    BY <1>1, <1>6, StaySeen DEF Enter, Busy
  <2>2. TypeOK'
    BY <1>2, <1>6, <2>1, Bounds DEF Enter, TypeOK
  <2>3. \A i \in Sub : ~(i < pos')
    BY <1>6 DEF Enter, Sub
  <2>4. PassJustified'
    BY <1>6, <2>1, <2>3 DEF Enter, PassJustified
  <2>5. N <= MAX_SUBFLOWS /\ changes' = 0 => QuietPass'
    <3>1. ASSUME N <= MAX_SUBFLOWS, changes = 0, NEW i \in Sub
          PROVE  ~(Usable(i) /\ ~bkup[i])
      BY <1>1, <1>3, <1>6, <3>1, Positions
    <3>2. QED
      BY <1>6, <2>3, <3>1 DEF Enter, envVars, QuietPass, Usable
  <2>6. QED
    BY <2>1, <2>2, <2>4, <2>5 DEF IInv
<1>7. QED
  BY <1>4, <1>5, <1>6 DEF Primaries

(* has_active_nonbackup() sees each subflow idle before it says so. *)
LEMMA CheckInv == IInv /\ Check => IInv'
<1> SUFFICES ASSUME IInv, Check PROVE IInv'
  OBVIOUS
<1>1. TypeOK /\ pos \in Sub /\ Busy /\ pc = "check" /\ scheduled' = scheduled /\ scheduled = {}
  BY DEF IInv, TypeOK, Check, Busy, PassJustified
<1>2. CASE ActivePrimary(pos) /\ Return
  BY <1>1, <1>2, ReturnInv
<1>3. ASSUME ~ActivePrimary(pos), NEW i \in Sub, i < pos \/ i = pos
      PROVE  i \in idleSeen
  BY <1>1, <1>3 DEF IInv, SeenIsCurrent, PassJustified
<1>4. CASE ~ActivePrimary(pos) /\ AtEnd /\ Enter("backups")
  <2>1. SubflowsTypeOK' /\ SeenIsCurrent' /\ Busy'
    BY <1>1, <1>4, StaySeen DEF Enter, Busy
  <2>2. TypeOK'
    BY <1>1, <1>4, <2>1, Bounds DEF Enter, TypeOK
  <2>3. \A i \in Sub : i < pos \/ i = pos
    BY <1>1, <1>4, Positions
  <2>4. idleSeen = Sub
    BY <1>1, <1>3, <1>4, <2>3 DEF TypeOK, SubflowsTypeOK
  <2>5. PassJustified'
    BY <1>1, <1>4, <2>1, <2>4 DEF Enter, PassJustified, envVars
  <2>6. N <= MAX_SUBFLOWS /\ changes' = 0 => QuietPass'
    <3>1. ASSUME N <= MAX_SUBFLOWS, changes = 0 PROVE ~HasActivePrimary
      BY <1>1, <1>4, <2>3, <3>1 DEF IInv, QuietPass, HasActivePrimary
    <3>2. \A i \in Sub : ~(i < pos')
      BY <1>4 DEF Enter, Sub
    <3>3. QED
      BY <1>1, <1>4, <3>1, <3>2
         DEF Enter, envVars, QuietPass, HasActivePrimary, ActivePrimary, Active
  <2>7. QED
    BY <2>1, <2>2, <2>5, <2>6 DEF IInv
<1>5. CASE ~ActivePrimary(pos) /\ ~AtEnd /\ Advance
  <2>1. SubflowsTypeOK' /\ SeenIsCurrent' /\ Busy'
    BY <1>1, <1>5, StaySeen DEF Advance, Busy
  <2>2. TypeOK'
    BY <1>1, <1>5, <2>1, Positions DEF Advance, TypeOK
  <2>3. PassJustified'
    BY <1>1, <1>3, <1>5, <2>1, Positions DEF Advance, PassJustified, envVars
  <2>4. N <= MAX_SUBFLOWS /\ changes' = 0 => QuietPass'
    BY <1>1, <1>5, Positions
       DEF Advance, envVars, IInv, QuietPass, Usable, ActivePrimary, Active
  <2>5. QED
    BY <2>1, <2>2, <2>3, <2>4 DEF IInv
<1>6. QED
  BY <1>2, <1>4, <1>5 DEF Check

(* The pass over the backups. *)
LEMMA BackupsInv == IInv /\ Backups => IInv'
<1> SUFFICES ASSUME IInv, Backups PROVE IInv'
  OBVIOUS
<1>1. TypeOK /\ pos \in Sub /\ Busy /\ pc = "backups" /\ Mark(TRUE)
  BY DEF IInv, TypeOK, Backups, Busy
<1>2. scheduled' \subseteq Sub /\ scheduled' \subseteq usableSeen
  BY <1>1, MarkIsEntitled
<1>3. CASE AtLimit /\ Return
  BY <1>1, <1>2, <1>3, ReturnInv
<1>4. CASE ~AtLimit /\ Advance
  <2>1. SubflowsTypeOK' /\ SeenIsCurrent' /\ Busy'
    BY <1>1, <1>4, StaySeen DEF Advance, Busy
  <2>2. TypeOK'
    BY <1>1, <1>2, <1>4, <2>1, Positions DEF Advance, AtLimit, TypeOK
  <2>3. PassJustified'
    BY <1>1, <1>2, <1>4, <2>1 DEF Advance, IInv, PassJustified, envVars
  <2>4. N <= MAX_SUBFLOWS /\ changes' = 0 => QuietPass'
    <3>1. ASSUME N <= MAX_SUBFLOWS, changes = 0
          PROVE  scheduled' = {i \in Sub : (i < pos \/ i = pos) /\ Usable(i)}
      <4>1. Usable(pos) => bkup[pos] = TRUE
        BY <1>1, <3>1 DEF IInv, QuietPass, HasActivePrimary, ActivePrimary, Usable, Active,
                          TypeOK, SubflowsTypeOK
      <4>2. QED
        BY <1>1, <3>1, <4>1 DEF IInv, QuietPass, Mark, Sub
    <3>2. QED
      BY <1>1, <1>4, <3>1, Positions
         DEF Advance, envVars, IInv, QuietPass, Usable, HasActivePrimary, ActivePrimary, Active
  <2>5. QED
    BY <2>1, <2>2, <2>3, <2>4 DEF IInv
<1>5. QED
  BY <1>3, <1>4 DEF Backups

(* The kernel adds to what has been seen, and ends a call's quiet. *)
LEMMA DisturbInv == IInv /\ Disturb => IInv'
<1> SUFFICES ASSUME IInv, Disturb PROVE IInv'
  OBVIOUS
<1>1. Kernel(Busy) /\ UNCHANGED <<pc, pos, scheduled>> /\ Busy \in BOOLEAN
  BY DEF Disturb, Busy
<1>2. TypeOK /\ SubflowsTypeOK
  BY DEF IInv, TypeOK
<1>3. TypeOK' /\ Busy' = Busy
  BY <1>1, <1>2, KernelStep DEF TypeOK, Busy
<1>4. CASE ~Busy
  BY <1>1, <1>3, <1>4 DEF IInv, SeenIsCurrent, PassJustified, QuietPass, Busy
<1>5. CASE Busy
  <2>1. /\ usableSeen' = usableSeen \union {i \in Sub : Usable(i)'}
        /\ primarySeen' = primarySeen \union {i \in Sub : ~bkup'[i]}
        /\ idleSeen' = idleSeen \union {i \in Sub : ~ActivePrimary(i)'}
        /\ changes' = changes + 1
    BY <1>1, <1>2, <1>5, KernelStep
  <2>2. SeenIsCurrent'
    BY <2>1 DEF SeenIsCurrent
  <2>3. idleSeen' \subseteq Sub
    BY <1>3 DEF TypeOK, SubflowsTypeOK
  <2>4. PassJustified'
    BY <1>1, <1>3, <1>5, <2>1, <2>3 DEF IInv, PassJustified
  <2>5. changes' # 0
    BY <1>2, <2>1, SubflowsAssumption DEF SubflowsTypeOK
  <2>6. QED
    BY <1>3, <2>2, <2>4, <2>5 DEF IInv
<1>6. QED
  BY <1>4, <1>5

(* IInv is inductive. *)
LEMMA InvStep == IInv /\ [Next]_vars => IInv'
<1> SUFFICES ASSUME IInv, [Next]_vars PROVE IInv'
  OBVIOUS
<1>1. CASE UNCHANGED vars
  BY <1>1 DEF vars, envVars, IInv, TypeOK, SubflowsTypeOK, SeenIsCurrent, PassJustified,
              QuietPass, Busy, Usable, ActivePrimary, HasActivePrimary, Active
<1>2. QED
  BY <1>1, CallInv, PrimariesInv, CheckInv, BackupsInv, DisturbInv DEF Next

(* The inductive invariant holds of every behaviour. *)
THEOREM Invariance == Spec => []IInv
BY InvInit, InvStep, PTL DEF Spec

(* TypeOK is an invariant of bpf_red: no walk leaves the list. *)
THEOREM TypeCorrect == Spec => []TypeOK
<1>1. IInv => TypeOK
  BY DEF IInv
<1>2. QED
  BY <1>1, Invariance, PTL

-----------------------------------------------------------------------------
(* The two action properties.                                              *)

(* Whatever bpf_red marks was able to take the copy, and a backup subflow  *)
(* is marked only if every other one has been seen inactive or backup.     *)
THEOREM MarksJustified == Spec => MarksArePermitted
<1>1. ASSUME IInv, [Next]_vars, Busy
      PROVE  \A i \in scheduled' : i \in usableSeen /\ (i \in primarySeen \/ idleSeen = Sub)
  <2>1. pc \in {"primaries", "check", "backups"}
    BY <1>1 DEF IInv, TypeOK, Busy
  <2>2. CASE Primaries
    BY <1>1, <2>2, MarkIsEntitled DEF Primaries, IInv, PassJustified
  <2>3. CASE Backups
    BY <1>1, <2>3, MarkIsEntitled DEF Backups, IInv, PassJustified
  <2>4. CASE scheduled' = scheduled
    BY <1>1, <2>1, <2>4 DEF IInv, PassJustified
  <2>5. QED
    BY <1>1, <2>2, <2>3, <2>4 DEF Next, vars, Call, Check, Disturb, Busy
<1>2. QED
  BY <1>1, Invariance, PTL DEF Spec, MarksArePermitted

(* An undisturbed call copies onto every usable subflow of the role in     *)
(* use, on any list no longer than the limit of the walks.                 *)
THEOREM Redundant == ASSUME N <= MAX_SUBFLOWS PROVE Spec => CopiesEverywhere
<1>1. ASSUME IInv, [Next]_vars, Busy, ~Busy', changes = 0
      PROVE  scheduled' = IF HasActivePrimary
                          THEN {i \in Sub : Usable(i) /\ ~bkup[i]}
                          ELSE {i \in Sub : Usable(i)}
  <2>1. TypeOK /\ pos \in Sub /\ QuietPass /\ pc # "idle" /\ pc' = "idle"
    BY <1>1 DEF IInv, TypeOK, Busy
  <2>2. CASE Primaries
    <3>1. AtLimit /\ scheduled' # {} /\ pc = "primaries" /\ Mark(FALSE)
      BY <2>1, <2>2 DEF Primaries, Advance, Enter
    <3>2. scheduled' = {i \in Sub : Usable(i) /\ ~bkup[i]}
      BY <2>1, <3>1, Positions DEF QuietPass, Mark, TypeOK, SubflowsTypeOK
    <3>3. HasActivePrimary
      BY <3>1, <3>2 DEF HasActivePrimary, ActivePrimary, Usable, Active
    <3>4. QED
      BY <3>2, <3>3
  <2>3. CASE Check
    <3>1. ActivePrimary(pos) /\ scheduled' = {} /\ pc = "check"
      BY <1>1, <2>1, <2>3 DEF Check, Advance, Enter, IInv, PassJustified
    <3>2. QED
      BY <2>1, <3>1 DEF QuietPass, HasActivePrimary
  <2>4. CASE Backups
    <3>1. AtLimit /\ pc = "backups" /\ Mark(TRUE)
      BY <2>1, <2>4 DEF Backups, Advance
    <3>2. ~HasActivePrimary /\ (Usable(pos) => bkup[pos] = TRUE)
      BY <2>1, <3>1 DEF QuietPass, HasActivePrimary, ActivePrimary, Usable, Active,
                        TypeOK, SubflowsTypeOK
    <3>3. scheduled' = {i \in Sub : Usable(i)}
      BY <2>1, <3>1, <3>2, Positions DEF QuietPass, Mark
    <3>4. QED
      BY <3>2, <3>3
  <2>5. QED
    BY <1>1, <2>1, <2>2, <2>3, <2>4 DEF Next, vars, Call, Disturb
<1>2. QED
  BY <1>1, Invariance, PTL DEF Spec, CopiesEverywhere
=============================================================================
