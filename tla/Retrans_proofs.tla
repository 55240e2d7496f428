--------------------------- MODULE Retrans_proofs ---------------------------
(***************************************************************************)
(* Proofs about Retrans for any number of subflows, any stale count and    *)
(* any number of kernel changes under a call.                              *)
(***************************************************************************)
EXTENDS Retrans, TLAPS

(* What has been seen includes the present. *)
SeenIsCurrent == Busy => \A i \in Sub :
    /\ Idle(i) => i \in idleSeen
    /\ ~bkup[i] => i \in primarySeen
    /\ ~(Idle(i) /\ ~bkup[i]) => i \in declined
    /\ ~Progressing(i) => i \in stuckSeen

(* What the walk keeps is justified by what it has passed. *)
WalkJustified ==
    /\ pick # NoSub => pick \in idleSeen /\ pick \in primarySeen
    /\ backup # NoSub => backup \in idleSeen
    /\ pick = NoSub => \A i \in Sub : i < pos => i \in declined
    /\ minStale > 1 => \A i \in Sub : i < pos => i \in stuckSeen

(* Under a kernel that keeps still it is also what there is now. *)
Quiet == changes = 0 =>
    /\ pick = NoSub => \A i \in Sub : i < pos => (Idle(i) => bkup[i])
    /\ backup = NoSub => \A i \in Sub : i < pos => (Idle(i) => ~bkup[i])
    /\ minStale <= 1 => \E i \in Sub : Progressing(i)

AtRest == ~Busy => /\ pos = 1 /\ pick = NoSub /\ backup = NoSub
                   /\ minStale = INT_MAX /\ changes = 0

IInv == TypeOK /\ SeenIsCurrent /\ (Busy => WalkJustified /\ Quiet) /\ AtRest

-----------------------------------------------------------------------------
LEMMA Constants == /\ 1 \in Sub /\ INT_MAX \in Nat /\ INT_MAX > 1 /\ 0 \in 0..MaxChanges
                   /\ 0 \in 0..MaxStale /\ INT_MAX \in 0..INT_MAX
                   /\ MaxStale \in Nat /\ MaxChanges \in Nat
                   /\ \A i \in Sub : ~(i < 1) /\ i # NoSub
BY RetransAssumption DEF Sub, NoSub, INT_MAX

(* A walk that is not at the end has a next subflow, and at the end all    *)
(* have been passed.                                                       *)
LEMMA Positions ==
    ASSUME pos \in Sub
    PROVE  /\ ~AtEnd => pos + 1 \in Sub
           /\ AtEnd => \A i \in Sub : i < pos \/ i = pos
           /\ \A i \in Sub : i < pos + 1 <=> i < pos \/ i = pos
BY RetransAssumption DEF Sub, AtEnd

(* What a call sees only grows, and takes in the state a step ends in.     *)
LEMMA SeenGrows ==
    ASSUME TypeOK, NEW count \in 0..MaxChanges, See(TRUE, count)
    PROVE  /\ idleSeen \subseteq idleSeen' /\ primarySeen \subseteq primarySeen'
           /\ declined \subseteq declined' /\ stuckSeen \subseteq stuckSeen'
           /\ idleSeen' \subseteq Sub /\ primarySeen' \subseteq Sub
           /\ declined' \subseteq Sub /\ stuckSeen' \subseteq Sub
           /\ SeenIsCurrent' /\ changes' = count
BY DEF TypeOK, See, SeenIsCurrent

LEMMA InvInit == Init => IInv
<1> SUFFICES ASSUME Init PROVE IInv
  OBVIOUS
<1>1. ~Busy
  BY DEF Init, Busy
<1>2. TypeOK
  BY Constants DEF Init, TypeOK
<1>3. QED
  BY <1>1, <1>2 DEF IInv, SeenIsCurrent, AtRest, Init

(* The timer fires: the walk starts with nothing passed. *)
LEMMA CallInv == IInv /\ Call => IInv'
<1> SUFFICES ASSUME IInv, Call PROVE IInv'
  OBVIOUS
<1>1. /\ TypeOK /\ ~Busy /\ Busy' /\ pos = 1 /\ pick = NoSub /\ backup = NoSub
      /\ minStale = INT_MAX
  BY DEF IInv, Call, Busy, AtRest
<1>2. UNCHANGED <<linkVars, pos, pick, backup, minStale, picked>> /\ See(FALSE, 0) /\ pc' = "walk"
  BY DEF Call
<1>3. /\ idleSeen' \subseteq Sub /\ primarySeen' \subseteq Sub
      /\ declined' \subseteq Sub /\ stuckSeen' \subseteq Sub
      /\ SeenIsCurrent' /\ changes' = 0
  BY <1>2 DEF See, SeenIsCurrent
<1>4. TypeOK'
  BY <1>1, <1>2, <1>3, Constants DEF TypeOK, linkVars
<1>5. WalkJustified' /\ Quiet'
  BY <1>1, <1>2, Constants DEF WalkJustified, Quiet
<1>6. QED
  BY <1>1, <1>3, <1>4, <1>5 DEF IInv, AtRest

-----------------------------------------------------------------------------
(* What a visit leads to, by the names of Visit. *)
LeastOf == IF active[pos] /\ queued[pos] THEN Least(staleCount[pos]) ELSE minStale
SpareOf == IF backup = NoSub /\ Idle(pos) /\ bkup[pos] THEN pos ELSE backup
FirstOf == IF pick = NoSub /\ Idle(pos) /\ ~bkup[pos] THEN pos ELSE pick

(* It is justified by what has been passed, pos included.                  *)
LEMMA VisitJustified ==
    ASSUME IInv, Busy
    PROVE  /\ FirstOf \in Sub \union {NoSub} /\ SpareOf \in Sub \union {NoSub}
           /\ LeastOf \in 0..INT_MAX
           /\ FirstOf # NoSub => FirstOf \in idleSeen /\ FirstOf \in primarySeen
           /\ SpareOf # NoSub => SpareOf \in idleSeen
           /\ FirstOf = NoSub => \A i \in Sub : i < pos \/ i = pos => i \in declined
           /\ LeastOf > 1 => \A i \in Sub : i < pos \/ i = pos => i \in stuckSeen
<1>1. /\ TypeOK /\ SeenIsCurrent /\ WalkJustified /\ pos \in Sub
      /\ minStale \in 0..INT_MAX /\ staleCount[pos] \in 0..MaxStale
  BY DEF IInv, TypeOK
<1>2. FirstOf \in Sub \union {NoSub} /\ SpareOf \in Sub \union {NoSub}
  BY <1>1 DEF TypeOK, FirstOf, SpareOf
<1>3. LeastOf \in 0..INT_MAX
  BY <1>1, Constants DEF LeastOf, Least, INT_MAX
<1>4. /\ FirstOf # NoSub => FirstOf \in idleSeen /\ FirstOf \in primarySeen
      /\ SpareOf # NoSub => SpareOf \in idleSeen
  BY <1>1 DEF FirstOf, SpareOf, SeenIsCurrent, WalkJustified
<1>5. FirstOf = NoSub => \A i \in Sub : i < pos \/ i = pos => i \in declined
  BY <1>1, Constants DEF FirstOf, SeenIsCurrent, WalkJustified
<1>6. ASSUME LeastOf > 1 PROVE minStale > 1 /\ ~Progressing(pos)
  BY <1>1, <1>6, Constants DEF LeastOf, Least, Progressing
<1>7. LeastOf > 1 => \A i \in Sub : i < pos \/ i = pos => i \in stuckSeen
  BY <1>1, <1>6 DEF SeenIsCurrent, WalkJustified
<1>8. QED
  BY <1>2, <1>3, <1>4, <1>5, <1>7

(* Under a kernel that keeps still it is what there is now.                *)
LEMMA VisitQuiet ==
    ASSUME IInv, Busy, changes = 0
    PROVE  /\ FirstOf = NoSub => \A i \in Sub : i < pos \/ i = pos => (Idle(i) => bkup[i])
           /\ SpareOf = NoSub => \A i \in Sub : i < pos \/ i = pos => (Idle(i) => ~bkup[i])
           /\ LeastOf <= 1 => \E i \in Sub : Progressing(i)
<1>1. /\ TypeOK /\ Quiet /\ pos \in Sub
      /\ minStale \in 0..INT_MAX /\ staleCount[pos] \in 0..MaxStale
  BY DEF IInv, TypeOK
<1>2. FirstOf = NoSub => \A i \in Sub : i < pos \/ i = pos => (Idle(i) => bkup[i])
  BY <1>1, Constants DEF FirstOf, Quiet
<1>3. SpareOf = NoSub => \A i \in Sub : i < pos \/ i = pos => (Idle(i) => ~bkup[i])
  BY <1>1, Constants DEF SpareOf, Quiet
<1>4. ASSUME LeastOf <= 1, ~(minStale <= 1) PROVE Progressing(pos)
  BY <1>1, <1>4, Constants DEF LeastOf, Least, Progressing
<1>5. LeastOf <= 1 => \E i \in Sub : Progressing(i)
  BY <1>1, <1>4 DEF Quiet
<1>6. QED
  BY <1>2, <1>3, <1>5

(* A visit: the subflow chk_stale writes off was neither idle nor making   *)
(* progress, and is not afterwards.                                        *)
LEMMA VisitActive ==
    ASSUME TypeOK, Visit
    PROVE  /\ active' \in [Sub -> BOOLEAN]
           /\ \A i \in Sub : (Idle(i)' <=> Idle(i)) /\ (Progressing(i)' <=> Progressing(i))
           /\ UNCHANGED <<bkup, queued, staleCount>>
<1>1. pos \in Sub /\ UNCHANGED <<bkup, queued, staleCount>>
  BY DEF Visit, TypeOK
<1>2. CASE UNCHANGED active
  BY <1>1, <1>2 DEF TypeOK, Idle, Progressing
<1>3. CASE /\ active[pos] /\ queued[pos] /\ staleCount[pos] = MaxStale
           /\ active' = [active EXCEPT ![pos] = FALSE]
  <2>1. ~(MaxStale <= 1)
    BY RetransAssumption
  <2>2. active' \in [Sub -> BOOLEAN] /\ ~active'[pos] /\ \A i \in Sub : i # pos => active'[i] = active[i]
    BY <1>1, <1>3 DEF TypeOK
  <2>3. \A i \in Sub : i # pos => (Idle(i)' <=> Idle(i)) /\ (Progressing(i)' <=> Progressing(i))
    BY <1>1, <2>2 DEF Idle, Progressing
  <2>4. ASSUME NEW i \in Sub, i = pos
        PROVE  (Idle(i)' <=> Idle(i)) /\ (Progressing(i)' <=> Progressing(i))
    <3>1. ~Idle(i) /\ ~Progressing(i)
      BY <1>3, <2>1, <2>4 DEF Idle, Progressing
    <3>2. ~Idle(i)' /\ ~Progressing(i)'
      BY <1>1, <2>2, <2>4 DEF Idle, Progressing
    <3>3. QED
      BY <3>1, <3>2
  <2>5. \A i \in Sub : (Idle(i)' <=> Idle(i)) /\ (Progressing(i)' <=> Progressing(i))
    BY <2>3, <2>4
  <2>6. QED
    BY <1>1, <2>2, <2>5
<1>4. QED
  BY <1>2, <1>3 DEF Visit

LEMMA VisitInv == IInv /\ Visit => IInv'
<1> SUFFICES ASSUME IInv, Visit PROVE IInv'
  OBVIOUS
<1>1. TypeOK /\ Busy /\ pos \in Sub /\ changes \in 0..MaxChanges
  BY DEF IInv, TypeOK, Visit, Busy
<1>2. /\ active' \in [Sub -> BOOLEAN] /\ UNCHANGED <<bkup, queued, staleCount>>
      /\ \A i \in Sub : (Idle(i)' <=> Idle(i)) /\ (Progressing(i)' <=> Progressing(i))
  BY <1>1, VisitActive
<1>3. \/ AtEnd /\ Return(Choice(FirstOf, SpareOf, LeastOf))
      \/ /\ ~AtEnd /\ pos' = pos + 1 /\ pick' = FirstOf /\ backup' = SpareOf
         /\ minStale' = LeastOf /\ See(TRUE, changes) /\ UNCHANGED <<pc, picked>>
  BY DEF Visit, FirstOf, SpareOf, LeastOf
<1>4. CASE AtEnd /\ Return(Choice(FirstOf, SpareOf, LeastOf))
  <2>1. Choice(FirstOf, SpareOf, LeastOf) \in Sub \union {NoSub}
    BY <1>1, VisitJustified DEF Choice
  <2>2. /\ pc' = "idle" /\ pos' = 1 /\ pick' = NoSub /\ backup' = NoSub /\ minStale' = INT_MAX
        /\ picked' \in Sub \union {NoSub} /\ Forget
    BY <1>4, <2>1 DEF Return
  <2>3. TypeOK'
    BY <1>1, <1>2, <2>2, Constants DEF TypeOK, Forget
  <2>4. QED
    BY <2>2, <2>3 DEF IInv, SeenIsCurrent, AtRest, Busy, Forget
<1>5. CASE /\ ~AtEnd /\ pos' = pos + 1 /\ pick' = FirstOf /\ backup' = SpareOf
           /\ minStale' = LeastOf /\ See(TRUE, changes) /\ UNCHANGED <<pc, picked>>
  <2>1. /\ idleSeen \subseteq idleSeen' /\ primarySeen \subseteq primarySeen'
        /\ declined \subseteq declined' /\ stuckSeen \subseteq stuckSeen'
        /\ idleSeen' \subseteq Sub /\ primarySeen' \subseteq Sub
        /\ declined' \subseteq Sub /\ stuckSeen' \subseteq Sub
        /\ SeenIsCurrent' /\ changes' = changes
    BY <1>1, <1>5, SeenGrows
  <2>2. \A i \in Sub : i < pos' <=> i < pos \/ i = pos
    BY <1>1, <1>5, Positions
  <2>3. TypeOK'
    BY <1>1, <1>2, <1>5, <2>1, VisitJustified, Positions DEF TypeOK
  <2>4. WalkJustified'
    BY <1>1, <1>5, <2>1, <2>2, VisitJustified DEF WalkJustified
  <2>5. Quiet'
    BY <1>1, <1>2, <1>5, <2>1, <2>2, VisitQuiet DEF Quiet
  <2>6. QED
    BY <1>1, <1>5, <2>1, <2>3, <2>4, <2>5 DEF IInv, AtRest, Busy
<1>6. QED
  BY <1>3, <1>4, <1>5

(* The kernel adds to what has been seen, and ends a call's quiet. *)
LEMMA KernelInv == ASSUME IInv, NEW i \in Sub, Kernel(i) PROVE IInv'
<1>1. TypeOK /\ Busy' = Busy /\ UNCHANGED <<localVars, picked>> /\ Changed
  BY DEF IInv, Kernel, localVars, Busy
<1>2. /\ active' \in [Sub -> BOOLEAN] /\ bkup' \in [Sub -> BOOLEAN]
      /\ queued' \in [Sub -> BOOLEAN] /\ staleCount' \in [Sub -> 0..MaxStale]
  <2>1. 0 \in 0..MaxStale /\ MaxStale \in Nat
    BY Constants
  <2>2. CASE Toggle(i) \/ Prio(i) \/ Push(i)
    BY <1>1, <2>2 DEF TypeOK, Toggle, Prio, Push
  <2>3. CASE Ack(i)
    BY <1>1, <2>1, <2>3 DEF TypeOK, Ack
  <2>4. CASE Timeout(i)
    <3>1. staleCount[i] + 1 \in 0..MaxStale
      BY <1>1, <2>1, <2>4 DEF TypeOK, Timeout
    <3>2. QED
      BY <1>1, <2>4, <3>1 DEF TypeOK, Timeout
  <2>5. QED
    BY <2>2, <2>3, <2>4 DEF Kernel
<1>3. CASE ~Busy
  BY <1>1, <1>2, <1>3 DEF IInv, TypeOK, SeenIsCurrent, AtRest, Changed, seenVars, localVars, Busy
<1>4. CASE Busy
  <2>1. changes + 1 \in 0..MaxChanges /\ changes + 1 # 0 /\ See(TRUE, changes + 1)
    <3>1. changes < MaxChanges /\ See(TRUE, changes + 1) /\ changes \in 0..MaxChanges
      BY <1>1, <1>4 DEF TypeOK, Changed
    <3>2. changes + 1 \in 0..MaxChanges /\ changes + 1 # 0
      <4>1. changes < MaxChanges /\ changes \in 0..MaxChanges /\ MaxChanges \in Nat
        BY <3>1, Constants
      <4>2. QED
        BY <4>1
    <3>3. QED
      BY <3>1, <3>2
  <2>2. /\ idleSeen \subseteq idleSeen' /\ primarySeen \subseteq primarySeen'
        /\ declined \subseteq declined' /\ stuckSeen \subseteq stuckSeen'
        /\ idleSeen' \subseteq Sub /\ primarySeen' \subseteq Sub
        /\ declined' \subseteq Sub /\ stuckSeen' \subseteq Sub
        /\ SeenIsCurrent' /\ changes' = changes + 1
    BY <1>1, <2>1, SeenGrows
  <2>3. TypeOK'
    BY <1>1, <1>2, <2>1, <2>2 DEF TypeOK, localVars
  <2>4. WalkJustified'
    BY <1>1, <1>4, <2>2 DEF IInv, WalkJustified, localVars
  <2>5. Quiet'
    BY <2>1, <2>2 DEF Quiet
  <2>6. QED
    BY <1>1, <1>4, <2>2, <2>3, <2>4, <2>5 DEF IInv, AtRest
<1>5. QED
  BY <1>3, <1>4

LEMMA InvStep == IInv /\ [Next]_vars => IInv'
<1> SUFFICES ASSUME IInv, [Next]_vars PROVE IInv'
  OBVIOUS
<1>1. CASE UNCHANGED vars
  BY <1>1 DEF vars, IInv, TypeOK, SeenIsCurrent, WalkJustified, Quiet, AtRest, Busy,
              Idle, Progressing
<1>2. QED
  BY <1>1, CallInv, VisitInv, KernelInv DEF Next

(* The inductive invariant holds of every behaviour. *)
THEOREM Invariance == Spec => []IInv
BY InvInit, InvStep, PTL DEF Spec

(* TypeOK is an invariant of get_retrans: the walk never leaves the list.  *)
THEOREM TypeCorrect == Spec => []TypeOK
<1>1. IInv => TypeOK
  BY DEF IInv
<1>2. QED
  BY <1>1, Invariance, PTL

-----------------------------------------------------------------------------
(* Only the last visit ends a call. *)
LEMMA CallEnds ==
    ASSUME IInv, [Next]_vars, Busy, ~Busy'
    PROVE  AtEnd /\ pos \in Sub /\ picked' = Choice(FirstOf, SpareOf, LeastOf)
<1>1. Visit
  BY DEF Next, Call, Kernel, localVars, Busy, vars
<1>2. QED
  BY <1>1 DEF IInv, TypeOK, Visit, Return, FirstOf, SpareOf, LeastOf, Busy

(* get_retrans chooses a subflow that was idle during the call, and a      *)
(* backup one only if no other was needed and none made progress, each at  *)
(* some moment of the call (ChoiceIsEntitled).                             *)
THEOREM ChoicesEntitled == Spec => ChoiceIsEntitled
<1> DEFINE Entitled ==
             Busy /\ ~Busy' /\ picked' # NoSub =>
                 /\ picked' \in idleSeen
                 /\ picked' \in primarySeen \/ (declined = Sub /\ stuckSeen = Sub)
<1>1. IInv /\ [Next]_vars => [Entitled]_vars
  <2> SUFFICES ASSUME IInv, [Next]_vars, Busy, ~Busy', picked' # NoSub
               PROVE  /\ picked' \in idleSeen
                      /\ picked' \in primarySeen \/ (declined = Sub /\ stuckSeen = Sub)
    OBVIOUS
  <2>1. AtEnd /\ pos \in Sub /\ picked' = Choice(FirstOf, SpareOf, LeastOf)
    BY CallEnds
  <2>2. \A i \in Sub : i < pos \/ i = pos
    BY <2>1, Positions
  <2>3. CASE FirstOf # NoSub
    BY <2>1, <2>3, VisitJustified DEF Choice
  <2>4. CASE FirstOf = NoSub
    <3>1. picked' = SpareOf /\ LeastOf > 1
      BY <2>1, <2>4 DEF Choice
    <3>2. picked' \in idleSeen
      BY <3>1, VisitJustified
    <3>3. \A i \in Sub : i \in declined /\ i \in stuckSeen
      BY <2>2, <2>4, <3>1, VisitJustified
    <3>4. declined = Sub /\ stuckSeen = Sub
      BY <3>3 DEF IInv, TypeOK
    <3>5. QED
      BY <3>2, <3>4
  <2>5. QED
    BY <2>3, <2>4
<1>2. QED
  BY <1>1, Invariance, PTL DEF Spec, ChoiceIsEntitled

(* A call nothing changed under refuses only when no non-backup subflow is *)
(* idle, and no backup one either unless some subflow makes progress       *)
(* (RefusesOnlyWithReason).                                                *)
THEOREM RefusalsJustified == Spec => RefusesOnlyWithReason
<1> DEFINE Reason ==
             Busy /\ ~Busy' /\ changes = 0 /\ picked' = NoSub =>
                 /\ \A i \in Sub : Idle(i) => bkup[i]
                 /\ (\E i \in Sub : Progressing(i)) \/ ~(\E i \in Sub : Idle(i))
<1>1. IInv /\ [Next]_vars => [Reason]_vars
  <2> SUFFICES ASSUME IInv, [Next]_vars, Busy, ~Busy', changes = 0, picked' = NoSub
               PROVE  /\ \A i \in Sub : Idle(i) => bkup[i]
                      /\ (\E i \in Sub : Progressing(i)) \/ ~(\E i \in Sub : Idle(i))
    OBVIOUS
  <2>1. AtEnd /\ pos \in Sub /\ picked' = Choice(FirstOf, SpareOf, LeastOf)
    BY CallEnds
  <2>2. \A i \in Sub : i < pos \/ i = pos
    BY <2>1, Positions
  <2>3. FirstOf = NoSub
    BY <2>1 DEF Choice
  <2>4. \A i \in Sub : Idle(i) => bkup[i]
    BY <2>2, <2>3, VisitQuiet
  <2>5. CASE LeastOf > 1
    <3>1. SpareOf = NoSub
      BY <2>1, <2>3, <2>5 DEF Choice
    <3>2. \A i \in Sub : Idle(i) => ~bkup[i]
      BY <2>2, <3>1, VisitQuiet
    <3>3. QED
      BY <2>4, <3>2
  <2>6. CASE ~(LeastOf > 1)
    <3>1. LeastOf <= 1
      <4>1. LeastOf \in 0..INT_MAX
        BY VisitJustified
      <4>2. QED
        BY <2>6, <4>1, Constants
    <3>2. QED
      BY <2>4, <3>1, VisitQuiet
  <2>7. QED
    BY <2>5, <2>6
<1>2. QED
  BY <1>1, Invariance, PTL DEF Spec, RefusesOnlyWithReason
=============================================================================
