------------------------ MODULE BalancedRoute_proofs ------------------------
(***************************************************************************)
(* Proofs about BalancedRoute for any set of WANs, any streak and any      *)
(* number of kills.                                                        *)
(*                                                                         *)
(* Two inductive invariants, each WAN by WAN.  LoopInv is about a tracker  *)
(* alone: how its variables, its state file and the probes of its WAN are  *)
(* related at each step.  RouteInv adds the lock and what the tracker that *)
(* holds it has computed.                                                  *)
(***************************************************************************)
EXTENDS BalancedRoute, TLAPS

Loop(w) ==
    /\ streak[w] = 0 \/ streak[w] <= seen[w]
    /\ Recovering(w) => streak[w] < TriesUp
    /\ started[w] => state[w] = "down"
    /\ state[w] = "down" => Recovering(w) \/ pc[w] = "up"
    /\ pc[w] = "up" => seen[w] = TriesUp /\ ~started[w]
    /\ pc[w] = "fail" => prev[w] = "ERROR" /\ (state[w] = "up" => seen[w] = Failed)
    /\ pc[w] \in {"fail", "look"} => seen[w] <= Poor
    /\ pc[w] = "look" => state[w] = "down"
    /\ pc[w] \in {"check", "rejoin"} => state[w] = "up"
    /\ w \in Steady => state[w] = "up" /\ ~Recovering(w) /\ pc[w] \notin {"fail", "look", "up"}

LoopInv == \A w \in WANs : Loop(w)

(* What a tracker rebuilds follows from the state of its own WAN. *)
Job(w) ==
    /\ job[w] # "none" <=> pc[w] \in {"lock", "install"}
    /\ job[w] = "join" => state[w] = "up"
    /\ job[w] \in {"drop", "keep"} => state[w] = "down"

(* Only the holder of the lock has nexthops to install: without its own    *)
(* WAN if that went down, and never none unless it has nothing to rebuild. *)
Holding(w) ==
    /\ pc[w] = "install" <=> holder = w
    /\ pc[w] = "install" /\ job[w] = "drop" => w \notin plan[w]
    /\ pc[w] = "install" /\ job[w] # "keep" => plan[w] # {}

(* NoDeadPath, of the nexthops about to be installed as well. *)
Covered(w) == state[w] = "down" => Leaving(w) \/ missed[w]

RouteInv == \A w \in WANs :
    /\ Job(w)
    /\ Holding(w)
    /\ w \in route \/ InFlight(w) => Covered(w)

IInv == TypeOK /\ LoopInv /\ RouteInv

-----------------------------------------------------------------------------
(* The type invariant, WAN by WAN, as the steps use it. *)
LEMMA Types ==
    ASSUME TypeOK, NEW w \in WANs
    PROVE  /\ TriesUp \in Nat \ {0}
           /\ state[w] \in {"up", "down"}
           /\ prev[w] \in {"", "OK", "ERROR"}
           /\ started[w] \in BOOLEAN
           /\ streak[w] \in Nat /\ streak[w] <= TriesUp
           /\ seen[w] \in Int /\ -1 <= seen[w] /\ seen[w] <= TriesUp
           /\ pc[w] \in Stages
           /\ plan[w] \subseteq WANs
<1>1. seen[w] \in Failed..TriesUp /\ streak[w] \in 0..TriesUp
  BY DEF TypeOK, TrackerTypeOK
<1>2. TriesUp \in Nat \ {0}
  BY TrackerAssumption
<1>3. seen[w] \in Int /\ -1 <= seen[w] /\ seen[w] <= TriesUp
  BY <1>1, <1>2 DEF Failed
<1>4. streak[w] \in Nat /\ streak[w] <= TriesUp
  BY <1>1, <1>2
<1>5. QED
  BY <1>2, <1>3, <1>4 DEF TypeOK, TrackerTypeOK

(* A probe that fails or is poor says so; a good one adds to those before. *)
LEMMA ProbeFinds ==
    ASSUME TypeOK, NEW w \in WANs, NEW probe \in Probes
    PROVE  /\ Observed(w, probe) \in Failed..TriesUp
           /\ probe = "bad" => Observed(w, probe) = -1
           /\ probe = "poor" => Observed(w, probe) = 0
           /\ probe = "good" => /\ Observed(w, probe) >= 1
                                /\ Observed(w, probe) = TriesUp \/ Observed(w, probe) > seen[w]
<1>1. seen[w] \in Int /\ -1 <= seen[w] /\ seen[w] <= TriesUp /\ TriesUp \in Nat \ {0}
  BY Types
<1>2. CASE probe = "bad"
  BY <1>1, <1>2 DEF Observed, Failed
<1>3. CASE probe = "poor"
  BY <1>1, <1>3 DEF Observed, Failed, Poor
<1>4. CASE probe = "good"
  BY <1>1, <1>4 DEF Observed, Failed
<1>5. QED
  BY <1>2, <1>3, <1>4, TrackerAssumption

(* What a cycle does with the tracker's variables, in terms of whether it  *)
(* passes, and is held by the streak.                                      *)
LEMMA CycleEffect ==
    ASSUME TypeOK, NEW w \in WANs, NEW probe \in Probes, Cycle(w, probe),
           Recovering(w) => streak[w] < TriesUp
    PROVE  /\ streak' \in [WANs -> 0..TriesUp]
           /\ streak'[w] = IF Recovering(w) /\ Passes(w, probe) THEN streak[w] + 1 ELSE 0
           /\ prev'[w] = IF /\ Passes(w, probe)
                            /\ ~(Recovering(w) /\ streak'[w] < TriesUp)
                         THEN "OK" ELSE "ERROR"
           /\ started'[w] <=> /\ started[w] /\ Passes(w, probe)
                              /\ Recovering(w) /\ streak'[w] < TriesUp
           /\ seen'[w] = Observed(w, probe)
           /\ Hooks(w, prev'[w], Shown(w, probe))
           /\ pc[w] = "cycle"
           /\ UNCHANGED state
           /\ w \in Steady => probe = "good"
<1> DEFINE n == IF Recovering(w) /\ Passes(w, probe) THEN streak[w] + 1 ELSE 0
           held == Recovering(w) /\ n < TriesUp
           status == IF Passes(w, probe) /\ ~held THEN "OK" ELSE "ERROR"
<1>0. TriesUp \in Nat /\ TriesUp # 0 /\ streak[w] \in Nat
  BY Types
<1>1. n \in 0..TriesUp
  BY <1>0
<1>2. /\ pc[w] = "cycle" /\ UNCHANGED state /\ (w \in Steady => probe = "good")
      /\ streak' = [streak EXCEPT ![w] = n] /\ prev' = [prev EXCEPT ![w] = status]
      /\ started' = [started EXCEPT ![w] = @ /\ Passes(w, probe) /\ held]
      /\ seen' = [seen EXCEPT ![w] = Observed(w, probe)]
      /\ Hooks(w, status, Shown(w, probe))
  BY DEF Cycle
<1>3. streak'[w] = n /\ prev'[w] = status /\ seen'[w] = Observed(w, probe)
  BY <1>2 DEF TypeOK, TrackerTypeOK
<1>4. started'[w] = (started[w] /\ Passes(w, probe) /\ held)
  BY <1>2 DEF TypeOK, TrackerTypeOK
<1>5. streak' \in [WANs -> 0..TriesUp]
  BY <1>1, <1>2 DEF TypeOK, TrackerTypeOK
<1>6. Hooks(w, prev'[w], Shown(w, probe))
  BY <1>2, <1>3
<1>7. started'[w] <=> started[w] /\ Passes(w, probe) /\ Recovering(w) /\ streak'[w] < TriesUp
  BY <1>3, <1>4
<1>8. prev'[w] = IF Passes(w, probe) /\ ~(Recovering(w) /\ streak'[w] < TriesUp) THEN "OK" ELSE "ERROR"
  BY <1>3
<1>9. streak'[w] = IF Recovering(w) /\ Passes(w, probe) THEN streak[w] + 1 ELSE 0
  BY <1>3
<1>10. pc[w] = "cycle" /\ UNCHANGED state /\ (w \in Steady => probe = "good")
  BY <1>2
<1> HIDE DEF n, held, status
<1>11. QED
  BY <1>3, <1>5, <1>6, <1>7, <1>8, <1>9, <1>10

(* The hook a cycle runs. *)
LEMMA HookRun ==
    ASSUME TypeOK, NEW w \in WANs, NEW status \in {"OK", "ERROR"}, NEW shown,
           pc[w] = "cycle", Hooks(w, status, shown)
    PROVE  /\ pc' \in [WANs -> Stages]
           /\ pc'[w] \in {"cycle", "check", "up", "fail"}
           /\ pc'[w] = "up" => status = "OK" /\ state[w] # "up"
           /\ pc'[w] = "check" => status = "OK" /\ state[w] = "up"
           /\ pc'[w] = "fail" => status = "ERROR" /\ shown # "ERROR"
           /\ pc'[w] = "cycle" => status = shown
           /\ \A x \in WANs : x # w => pc'[x] = pc[x]
<1>1. pc \in [WANs -> Stages]
  BY DEF TypeOK
<1>2. CASE status = "OK" /\ pc' = [pc EXCEPT ![w] = IF state[w] = "up" THEN "check" ELSE "up"]
  BY <1>1, <1>2 DEF Stages
<1>3. CASE status = "ERROR" /\ shown # "ERROR" /\ pc' = [pc EXCEPT ![w] = "fail"]
  BY <1>1, <1>3 DEF Stages
<1>4. CASE status = shown /\ UNCHANGED pc
  BY <1>1, <1>4
<1>5. QED
  BY <1>2, <1>3, <1>4 DEF Hooks

(* The cycle keeps what a tracker keeps. *)
LEMMA CycleLoop ==
    ASSUME TypeOK, NEW w \in WANs, NEW probe \in Probes, Cycle(w, probe), Loop(w)
    PROVE  Loop(w)'
<1> DEFINE recovering == prev[w] = "ERROR" \/ started[w]
           passes == probe = "good" \/ (probe = "poor" /\ ~recovering)
           shown == IF ~started[w] THEN prev[w] ELSE IF passes THEN "ERROR" ELSE ""
           streaky == recovering /\ passes
           ok == passes /\ ~(recovering /\ streak'[w] < TriesUp)
<1>1. Recovering(w) => streak[w] < TriesUp
  BY DEF Loop
<1>2. /\ streak'[w] = IF streaky THEN streak[w] + 1 ELSE 0
      /\ prev'[w] = IF ok THEN "OK" ELSE "ERROR"
      /\ started'[w] <=> started[w] /\ passes /\ recovering /\ streak'[w] < TriesUp
      /\ seen'[w] = Observed(w, probe)
      /\ Hooks(w, prev'[w], shown)
  BY <1>1, CycleEffect DEF Recovering, Passes, Shown
<1>3. pc[w] = "cycle" /\ state'[w] = state[w] /\ (w \in Steady => probe = "good")
  BY <1>1, CycleEffect
<1>4. /\ streak[w] = 0 \/ streak[w] <= seen[w]
      /\ recovering => streak[w] < TriesUp
      /\ started[w] => state[w] = "down"
      /\ state[w] = "down" => recovering
      /\ w \in Steady => state[w] = "up" /\ ~recovering
  BY <1>3 DEF Loop, Recovering, Failed
<1>5. prev'[w] \in {"OK", "ERROR"}
  BY <1>2
<1>6. /\ pc'[w] \in {"cycle", "check", "up", "fail"}
      /\ pc'[w] = "up" => prev'[w] = "OK" /\ state[w] # "up"
      /\ pc'[w] = "check" => prev'[w] = "OK" /\ state[w] = "up"
      /\ pc'[w] = "fail" => prev'[w] = "ERROR" /\ shown # "ERROR"
      /\ pc'[w] = "cycle" => prev'[w] = shown
  BY <1>2, <1>3, <1>5, HookRun
<1> HIDE DEF passes, shown, streaky, ok, recovering
<1>7. /\ Observed(w, probe) \in Int /\ -1 <= Observed(w, probe)
      /\ probe # "good" => Observed(w, probe) <= 0
      /\ probe = "bad" => Observed(w, probe) = -1
      /\ probe = "good" => Observed(w, probe) >= 1
      /\ probe = "good" => Observed(w, probe) = TriesUp \/ Observed(w, probe) > seen[w]
      /\ Observed(w, probe) <= TriesUp
  <2>1. TriesUp \in Nat
    BY TrackerAssumption
  <2>2. QED
    BY <2>1, ProbeFinds, TrackerAssumption DEF Failed
<1>0. /\ TriesUp \in Nat /\ TriesUp # 0
      /\ streak[w] \in Nat /\ seen[w] \in Int /\ -1 <= seen[w]
  BY Types
<1>8. streak'[w] = 0 \/ streak'[w] <= seen'[w]
  <2>1. CASE ~streaky
    BY <1>0, <1>2, <1>7, <2>1, ProbeFinds DEF Failed
  <2>2. CASE streaky
    <3>1. probe = "good" /\ streak'[w] = streak[w] + 1 /\ streak[w] < TriesUp
      BY <1>2, <1>4, <2>2 DEF streaky, passes
    <3>2. QED
      BY <1>0, <1>2, <1>4, <1>7, <3>1
  <2>3. QED
    BY <2>1, <2>2
<1>9. recovering /\ ~passes => ~ok
  BY DEF ok
<1>10. (prev'[w] = "ERROR" \/ started'[w]) => streak'[w] < TriesUp
  BY <1>0, <1>2, <1>4 DEF ok, streaky
<1>11. state'[w] = "down" => (prev'[w] = "ERROR" \/ started'[w]) \/ pc'[w] = "up"
  BY <1>2, <1>3, <1>4, <1>6, Types DEF ok, shown, recovering
<1>12. pc'[w] = "up" => seen'[w] = TriesUp /\ ~started'[w]
  <2> SUFFICES ASSUME pc'[w] = "up" PROVE seen'[w] = TriesUp /\ ~started'[w]
    OBVIOUS
  <2>1. state[w] = "down" /\ prev'[w] = "OK"
    BY <1>6, Types
  <2>2. recovering /\ ok
    BY <1>2, <1>4, <2>1
  <2>3. passes /\ ~(streak'[w] < TriesUp) /\ probe = "good"
    BY <2>2 DEF ok, passes
  <2>4. streak'[w] = streak[w] + 1 /\ ~started'[w]
    BY <1>2, <2>2, <2>3 DEF streaky
  <2>5. seen'[w] >= TriesUp /\ seen'[w] <= TriesUp /\ seen'[w] \in Int
    BY <1>0, <1>2, <1>7, <1>8, <2>3, <2>4
  <2>6. QED
    BY <1>0, <2>4, <2>5
<1>13. pc'[w] = "fail" => ~passes /\ (state[w] = "up" => ~recovering)
  BY <1>2, <1>4, <1>6, Types DEF ok, shown, recovering
<1>14. pc'[w] = "fail" => prev'[w] = "ERROR" /\ (state'[w] = "up" => seen'[w] = -1)
  BY <1>2, <1>3, <1>6, <1>7, <1>13, TrackerAssumption DEF passes
<1>15. pc'[w] = "fail" => seen'[w] <= 0
  BY <1>2, <1>7, <1>13 DEF passes
<1>16. w \in Steady => ok /\ ~started'[w]
  BY <1>2, <1>3, <1>4, Types DEF ok, passes, recovering
<1>17. w \in Steady => prev'[w] # "ERROR" /\ pc'[w] \notin {"fail", "look", "up"}
  BY <1>2, <1>4, <1>6, <1>16, Types
<1>18. started'[w] => state'[w] = "down"
  BY <1>2, <1>3, <1>4
<1>19. QED
  BY <1>3, <1>4, <1>6, <1>8, <1>10, <1>11, <1>12, <1>14, <1>15, <1>16, <1>17, <1>18
     DEF Loop, Recovering, Failed, Poor

-----------------------------------------------------------------------------
(* A step of one tracker leaves what the others keep. *)
LEMMA OtherLoop ==
    ASSUME NEW x \in WANs, Loop(x),
           state'[x] = state[x], prev'[x] = prev[x], started'[x] = started[x],
           streak'[x] = streak[x], pc'[x] = pc[x], seen'[x] = seen[x]
    PROVE  Loop(x)'
BY DEF Loop, Recovering

(* A step of the hooks from one stage to the next. *)
LEMMA AtEffect ==
    ASSUME TypeOK, NEW w \in WANs, NEW here, NEW there \in Stages, At(w, here, there)
    PROVE  /\ TrackerTypeOK' /\ pc' \in [WANs -> Stages]
           /\ pc[w] = here /\ pc'[w] = there
           /\ \A x \in WANs : x # w => pc'[x] = pc[x]
           /\ UNCHANGED <<state, prev, started, streak, seen>>
BY DEF At, TypeOK, TrackerTypeOK

(* Entering a stage nothing is asked of keeps LoopInv. *)
LEMMA AtLoop ==
    ASSUME TypeOK, LoopInv, NEW w \in WANs, NEW here,
           NEW there \in {"cycle", "check", "lock", "install", "rejoin"}, At(w, here, there),
           here # "up", there \in {"check", "rejoin"} => state[w] = "up"
    PROVE  LoopInv'
<1>1. /\ pc[w] = here /\ pc'[w] = there
      /\ \A x \in WANs : x # w => pc'[x] = pc[x]
      /\ UNCHANGED <<state, prev, started, streak, seen>>
  BY AtEffect DEF Stages
<1>2. \A x \in WANs : x # w => Loop(x)'
  BY <1>1, OtherLoop DEF LoopInv
<1>3. Loop(w)'
  BY <1>1 DEF LoopInv, Loop, Recovering
<1>4. QED
  BY <1>2, <1>3 DEF LoopInv

(* RouteInv is kept by a step of w that keeps it of w. *)
LEMMA RouteFrame ==
    ASSUME RouteInv, NEW w \in WANs, Job(w)', Holding(w)',
           \A x \in WANs : x # w =>
               /\ state'[x] = state[x] /\ pc'[x] = pc[x]
               /\ job'[x] = job[x] /\ plan'[x] = plan[x]
               /\ holder' = x <=> holder = x,
           \A x \in WANs : x \in route' \/ InFlight(x)' => Covered(x)'
    PROVE  RouteInv'
<1>1. ASSUME NEW x \in WANs, x # w PROVE Job(x)' /\ Holding(x)'
  BY <1>1 DEF RouteInv, Job, Holding
<1>2. QED
  BY <1>1 DEF RouteInv

(* In particular a step that changes neither the routes nor the plans, if  *)
(* no WAN stops leaving.                                                   *)
LEMMA QuietFrame ==
    ASSUME RouteInv, NEW w \in WANs, Job(w)', Holding(w)',
           \A x \in WANs : x # w =>
               /\ state'[x] = state[x] /\ pc'[x] = pc[x] /\ started'[x] = started[x]
               /\ job'[x] = job[x] /\ plan'[x] = plan[x] /\ missed'[x] = missed[x]
               /\ holder' = x <=> holder = x,
           route' = route, pc'[w] # "install", Covered(w) => Covered(w)'
    PROVE  RouteInv'
<1>1. ASSUME NEW x \in WANs, InFlight(x)' PROVE InFlight(x)
  BY <1>1 DEF InFlight
<1>2. ASSUME NEW x \in WANs, Covered(x) PROVE Covered(x)'
  BY <1>2 DEF Covered, Leaving, AtIt
<1>3. \A x \in WANs : x \in route' \/ InFlight(x)' => Covered(x)'
  BY <1>1, <1>2 DEF RouteInv
<1>4. QED
  BY <1>3, RouteFrame

-----------------------------------------------------------------------------
LEMMA InvInit == Init => IInv
<1> SUFFICES ASSUME Init PROVE IInv
  OBVIOUS
<1>0. TriesUp \in Nat /\ TriesUp > 0
  BY TrackerAssumption
<1>1. TypeOK
  <2>1. 0 \in 0..TriesUp /\ Poor \in Failed..TriesUp
    BY <1>0 DEF Failed, Poor
  <2>2. TrackerTypeOK
    BY <2>1 DEF Init, TrackerInit, TrackerTypeOK
  <2>3. QED
    BY <2>2 DEF Init, TrackerInit, TypeOK, Stages
<1>2. ASSUME NEW w \in WANs PROVE Loop(w)
  <2>1. /\ state[w] = "up" /\ prev[w] = "" /\ ~started[w]
        /\ streak[w] = 0 /\ pc[w] = "cycle" /\ seen[w] = 0
    BY DEF Init, TrackerInit, Poor
  <2>2. QED
    BY <1>0, <2>1 DEF Loop, Recovering, Poor
<1>3. RouteInv
  BY RouteAssumption
     DEF Init, TrackerInit, RouteInv, Job, Holding, Covered, InFlight
<1>4. QED
  BY <1>1, <1>2, <1>3 DEF IInv, LoopInv

(* A cycle does not lose a failure that a restart had left to apply. *)
LEMMA CycleLeaves ==
    ASSUME TypeOK, NEW w \in WANs, NEW probe \in Probes, Cycle(w, probe), Loop(w),
           state[w] = "down", started[w]
    PROVE  started'[w] \/ pc'[w] \in {"fail", "up"}
<1> DEFINE shown == IF Passes(w, probe) THEN "ERROR" ELSE ""
<1>1. /\ prev'[w] = IF Passes(w, probe) /\ ~(Recovering(w) /\ streak'[w] < TriesUp)
                    THEN "OK" ELSE "ERROR"
      /\ started'[w] <=> started[w] /\ Passes(w, probe) /\ Recovering(w) /\ streak'[w] < TriesUp
      /\ Hooks(w, prev'[w], shown)
      /\ pc[w] = "cycle"
  BY CycleEffect DEF Loop, Shown
<1>2. /\ pc'[w] \in {"cycle", "check", "up", "fail"}
      /\ pc'[w] = "check" => state[w] = "up"
      /\ pc'[w] = "cycle" => prev'[w] = shown
  BY <1>1, HookRun
<1>3. CASE pc'[w] = "cycle"
  BY <1>1, <1>2, <1>3 DEF Recovering
<1>4. QED
  BY <1>2, <1>3

LEMMA TrackStep ==
    ASSUME IInv, NEW w \in WANs, Track(w)
    PROVE  IInv'
<1>1. PICK probe \in Probes : Cycle(w, probe)
  BY DEF Track
<1>2. UNCHANGED routeVars /\ TypeOK /\ LoopInv /\ RouteInv /\ Loop(w)
  BY DEF Track, IInv, LoopInv
<1>3. UNCHANGED state /\ pc[w] = "cycle" /\ (Recovering(w) => streak[w] < TriesUp)
  BY <1>1, <1>2 DEF Cycle, Loop
<1>4. TypeOK'
  <2>1. streak' \in [WANs -> 0..TriesUp]
    BY <1>1, <1>2, <1>3, CycleEffect
  <2>2. /\ prev' \in [WANs -> {"", "OK", "ERROR"}]
        /\ started' \in [WANs -> BOOLEAN]
    BY <1>1, <1>2 DEF Cycle, TypeOK, TrackerTypeOK, Passes, Recovering
  <2>3. seen' \in [WANs -> Failed..TriesUp]
    BY <1>1, <1>2, ProbeFinds DEF Cycle, TypeOK, TrackerTypeOK
  <2>4. pc' \in [WANs -> Stages]
    BY <1>1, <1>2 DEF Cycle, Hooks, TypeOK, Stages
  <2>5. QED
    BY <1>2, <1>3, <2>1, <2>2, <2>3, <2>4 DEF TypeOK, TrackerTypeOK, routeVars
<1>5. \A x \in WANs : x # w =>
        /\ prev'[x] = prev[x] /\ started'[x] = started[x] /\ streak'[x] = streak[x]
        /\ pc'[x] = pc[x] /\ seen'[x] = seen[x]
  BY <1>1, <1>2 DEF Cycle, Hooks, TypeOK, TrackerTypeOK
<1>6. LoopInv'
  <2>1. Loop(w)'
    BY <1>1, <1>2, CycleLoop
  <2>2. QED
    BY <1>2, <1>3, <1>5, <2>1, OtherLoop DEF LoopInv
<1>7. pc'[w] \in {"cycle", "check", "up", "fail"}
  BY <1>1, <1>2, <1>3 DEF Cycle, Hooks, TypeOK
<1>8. Job(w)' /\ Holding(w)'
  BY <1>2, <1>3, <1>7 DEF RouteInv, Job, Holding, routeVars
<1>9. Covered(w) => Covered(w)'
  <2> SUFFICES ASSUME Covered(w), state[w] = "down", ~missed[w] PROVE Leaving(w)'
    BY <1>2, <1>3 DEF Covered, routeVars
  <2>1. started[w]
    BY <1>2, <1>3 DEF Covered, Leaving, AtIt, RouteInv, Job
  <2>2. QED
    BY <1>1, <1>2, <2>1, CycleLeaves DEF Leaving, AtIt
<1>10. RouteInv'
  BY <1>2, <1>3, <1>5, <1>7, <1>8, <1>9, QuietFrame DEF routeVars
<1>11. QED
  BY <1>4, <1>6, <1>10 DEF IInv

LEMMA MarkStep ==
    ASSUME IInv, NEW w \in WANs, Mark(w)
    PROVE  IInv'
<1>1. /\ UNCHANGED <<route, endpoint, holder, job, plan>>
      /\ missed' = [missed EXCEPT ![w] = FALSE]
      /\ TypeOK /\ LoopInv /\ RouteInv
  BY DEF Mark, IInv
<1>2. \/ pc[w] = "fail" /\ pc'[w] = "look" /\ state'[w] = "down"
      \/ pc[w] = "up" /\ pc'[w] = "check" /\ state'[w] = "up"
  <2>1. state \in [WANs -> {"up", "down"}] /\ pc \in [WANs -> Stages]
    BY <1>1 DEF TypeOK, TrackerTypeOK
  <2>2. MarkDown(w) => pc[w] = "fail" /\ pc'[w] = "look" /\ state'[w] = "down"
    BY <2>1 DEF MarkDown
  <2>3. MarkUp(w) => pc[w] = "up" /\ pc'[w] = "check" /\ state'[w] = "up"
    BY <2>1 DEF MarkUp
  <2>4. QED
    BY <2>2, <2>3 DEF Mark
<1>3. /\ UNCHANGED <<prev, started, streak, seen>>
      /\ \A x \in WANs : x # w =>
             pc'[x] = pc[x] /\ state'[x] = state[x] /\ missed'[x] = missed[x]
  <2>1. /\ state \in [WANs -> {"up", "down"}] /\ pc \in [WANs -> Stages]
        /\ missed \in [WANs -> BOOLEAN]
    BY <1>1 DEF TypeOK, TrackerTypeOK
  <2>2. CASE MarkDown(w)
    BY <1>1, <2>1, <2>2 DEF MarkDown
  <2>3. CASE MarkUp(w)
    BY <1>1, <2>1, <2>3 DEF MarkUp
  <2>4. QED
    BY <2>2, <2>3 DEF Mark
<1>4. TypeOK'
  <2>1. state' \in [WANs -> {"up", "down"}] /\ pc' \in [WANs -> Stages]
    <3>1. CASE MarkDown(w)
      BY <1>1, <3>1 DEF MarkDown, TypeOK, TrackerTypeOK, Stages
    <3>2. CASE MarkUp(w)
      BY <1>1, <3>2 DEF MarkUp, TypeOK, TrackerTypeOK, Stages
    <3>3. QED
      BY <3>1, <3>2 DEF Mark
  <2>2. QED
    BY <1>1, <1>3, <2>1 DEF TypeOK, TrackerTypeOK
<1>5. LoopInv'
  <2>1. Loop(w)'
    BY <1>1, <1>2, <1>3 DEF LoopInv, Loop, Recovering
  <2>2. QED
    BY <1>1, <1>3, <2>1, OtherLoop DEF LoopInv
<1>6. Job(w)' /\ Holding(w)' /\ (Covered(w) => Covered(w)')
  BY <1>1, <1>2 DEF RouteInv, Job, Holding, Covered, Leaving, AtIt
<1>7. RouteInv'
  BY <1>1, <1>2, <1>3, <1>6, QuietFrame
<1>8. QED
  BY <1>4, <1>5, <1>7 DEF IInv

LEMMA LookStep ==
    ASSUME IInv, NEW w \in WANs, Look(w)
    PROVE  IInv'
<1>1. TypeOK /\ LoopInv /\ RouteInv
  BY DEF IInv
<1>2. \/ /\ At(w, "look", "lock") /\ endpoint[w]
         /\ job' = [job EXCEPT ![w] = IF w \in route THEN "drop" ELSE "keep"]
         /\ missed' = [missed EXCEPT ![w] = w \notin route /\ InFlight(w)]
      \/ /\ At(w, "look", "cycle") /\ UNCHANGED job
         /\ missed' = [missed EXCEPT ![w] = w \in route \/ InFlight(w)]
  BY DEF Look
<1>3. /\ pc[w] = "look" /\ pc'[w] \in {"lock", "cycle"}
      /\ TrackerTypeOK' /\ pc' \in [WANs -> Stages]
      /\ \A x \in WANs : x # w => pc'[x] = pc[x]
      /\ UNCHANGED <<state, prev, started, streak, seen>>
  BY <1>1, <1>2, AtEffect DEF Stages
<1>4. UNCHANGED <<route, holder, plan>> /\ endpoint' = [endpoint EXCEPT ![w] = FALSE]
  BY DEF Look
<1>5. LoopInv'
  BY <1>1, <1>2, AtLoop
<1>6. /\ job' \in [WANs -> {"none", "drop", "keep", "join"}]
      /\ missed' \in [WANs -> BOOLEAN]
      /\ \A x \in WANs : x # w => job'[x] = job[x] /\ missed'[x] = missed[x]
      /\ pc'[w] = "lock" => job'[w] = IF w \in route THEN "drop" ELSE "keep"
      /\ pc'[w] = "cycle" => job'[w] = job[w]
      /\ pc'[w] = "lock" => (missed'[w] <=> w \notin route /\ InFlight(w))
      /\ pc'[w] = "cycle" => (missed'[w] <=> w \in route \/ InFlight(w))
  BY <1>1, <1>2 DEF At, TypeOK
<1>7. TypeOK'
  BY <1>1, <1>3, <1>4, <1>6 DEF TypeOK
<1>8. Job(w)' /\ Holding(w)'
  BY <1>1, <1>3, <1>4, <1>6 DEF LoopInv, Loop, RouteInv, Job, Holding
<1>9. ASSUME NEW x \in WANs, x \in route' \/ InFlight(x)' PROVE Covered(x)'
  <2>1. x \in route \/ InFlight(x)
    BY <1>3, <1>4, <1>9 DEF InFlight
  <2>2. CASE x # w
    BY <1>1, <1>3, <1>6, <2>1, <2>2 DEF RouteInv, Covered, Leaving, AtIt
  <2>3. CASE x = w
    BY <1>3, <1>6, <2>1, <2>3 DEF Covered, Leaving, AtIt
  <2>4. QED
    BY <2>2, <2>3
<1>10. RouteInv'
  BY <1>1, <1>3, <1>4, <1>6, <1>8, <1>9, RouteFrame
<1>11. QED
  BY <1>5, <1>7, <1>10 DEF IInv

LEMMA CheckStep ==
    ASSUME IInv, NEW w \in WANs, Check(w)
    PROVE  IInv'
<1>1. TypeOK /\ LoopInv /\ RouteInv
  BY DEF IInv
<1>2. \/ At(w, "check", "cycle") /\ UNCHANGED job
      \/ At(w, "check", "lock") /\ job' = [job EXCEPT ![w] = "join"]
  BY DEF Check
<1>3. /\ pc[w] = "check" /\ pc'[w] \in {"lock", "cycle"}
      /\ TrackerTypeOK' /\ pc' \in [WANs -> Stages]
      /\ \A x \in WANs : x # w => pc'[x] = pc[x]
      /\ UNCHANGED <<state, prev, started, streak, seen>>
  BY <1>1, <1>2, AtEffect DEF Stages
<1>4. UNCHANGED <<route, holder, plan, missed>> /\ endpoint' \in [WANs -> BOOLEAN]
  BY <1>1 DEF Check, TypeOK
<1>5. LoopInv'
  BY <1>1, <1>2, AtLoop
<1>6. /\ job' \in [WANs -> {"none", "drop", "keep", "join"}]
      /\ \A x \in WANs : x # w => job'[x] = job[x]
      /\ pc'[w] = "lock" => job'[w] = "join"
      /\ pc'[w] = "cycle" => job'[w] = job[w]
  BY <1>1, <1>2 DEF At, TypeOK
<1>7. TypeOK'
  BY <1>1, <1>3, <1>4, <1>6 DEF TypeOK
<1>8. state[w] = "up"
  BY <1>1, <1>3 DEF LoopInv, Loop
<1>9. Job(w)' /\ Holding(w)' /\ Covered(w)'
  BY <1>1, <1>3, <1>4, <1>6, <1>8 DEF RouteInv, Job, Holding, Covered
<1>10. RouteInv'
  BY <1>1, <1>3, <1>4, <1>6, <1>9, QuietFrame
<1>11. QED
  BY <1>5, <1>7, <1>10 DEF IInv

LEMMA RejoinStep ==
    ASSUME IInv, NEW w \in WANs, Rejoin(w)
    PROVE  IInv'
<1>1. TypeOK /\ LoopInv /\ RouteInv
  BY DEF IInv
<1>2. At(w, "rejoin", "cycle") /\ UNCHANGED <<route, holder, job, plan, missed>>
  BY DEF Rejoin
<1>3. /\ pc[w] = "rejoin" /\ pc'[w] = "cycle"
      /\ TrackerTypeOK' /\ pc' \in [WANs -> Stages]
      /\ \A x \in WANs : x # w => pc'[x] = pc[x]
      /\ UNCHANGED <<state, prev, started, streak, seen>>
  BY <1>1, <1>2, AtEffect DEF Stages
<1>4. TypeOK'
  BY <1>1, <1>2, <1>3 DEF TypeOK, Rejoin
<1>5. LoopInv'
  BY <1>1, <1>2, AtLoop
<1>6. Job(w)' /\ Holding(w)' /\ (Covered(w) => Covered(w)')
  BY <1>1, <1>2, <1>3 DEF RouteInv, Job, Holding, Covered, Leaving, AtIt
<1>7. RouteInv'
  BY <1>1, <1>2, <1>3, <1>6, QuietFrame
<1>8. QED
  BY <1>4, <1>5, <1>7 DEF IInv

-----------------------------------------------------------------------------
(* The rebuild under the lock is computed from the states of the moment:   *)
(* no WAN that is down is in it, and a WAN that never fails is.            *)
LEMMA TakeStep ==
    ASSUME IInv, NEW w \in WANs, Take(w)
    PROVE  IInv'
<1>1. TypeOK /\ LoopInv /\ RouteInv
  BY DEF IInv
<1>2. /\ At(w, "lock", "install") /\ holder = Nobody /\ holder' = w
      /\ plan' = [plan EXCEPT ![w] = IF job[w] = "keep" THEN {} ELSE Up]
      /\ UNCHANGED <<route, endpoint, job, missed>>
  BY DEF Take
<1>3. /\ pc[w] = "lock" /\ pc'[w] = "install"
      /\ TrackerTypeOK' /\ pc' \in [WANs -> Stages]
      /\ \A x \in WANs : x # w => pc'[x] = pc[x]
      /\ UNCHANGED <<state, prev, started, streak, seen>>
  BY <1>1, <1>2, AtEffect DEF Stages
<1>4. /\ plan' \in [WANs -> SUBSET WANs]
      /\ plan'[w] = IF job[w] = "keep" THEN {} ELSE Up
      /\ \A x \in WANs : x # w => plan'[x] = plan[x]
  BY <1>1, <1>2 DEF TypeOK, Up
<1>5. TypeOK'
  BY <1>1, <1>2, <1>3, <1>4 DEF TypeOK
<1>6. LoopInv'
  BY <1>1, <1>2, AtLoop
<1>7. Up # {}
  BY <1>1, RouteAssumption, TrackerAssumption DEF LoopInv, Loop, Up
<1>8. Job(w)'
  BY <1>1, <1>2, <1>3 DEF RouteInv, Job
<1>9. job[w] = "drop" => w \notin Up
  BY <1>1 DEF RouteInv, Job, Up
<1>10. Holding(w)'
  BY <1>2, <1>3, <1>4, <1>7, <1>9 DEF Holding
<1>11. \A x \in WANs : x # w => (holder' = x <=> holder = x)
  BY <1>2, RouteAssumption
<1>12. ASSUME NEW x \in WANs, x \in route' \/ InFlight(x)' PROVE Covered(x)'
  <2>1. CASE x \in route \/ InFlight(x)
    BY <1>1, <1>2, <1>3, <2>1 DEF RouteInv, Covered, Leaving, AtIt
  <2>2. CASE ~(x \in route \/ InFlight(x))
    <3>1. x \in Up
      BY <1>2, <1>3, <1>4, <1>12, <2>2 DEF InFlight
    <3>2. QED
      BY <1>3, <3>1 DEF Up, Covered
  <2>3. QED
    BY <2>1, <2>2
<1>13. RouteInv'
  BY <1>1, <1>3, <1>2, <1>4, <1>8, <1>10, <1>11, <1>12, RouteFrame
<1>14. QED
  BY <1>5, <1>6, <1>13 DEF IInv

(* What is installed: what was computed, or else the route of the first    *)
(* WAN still up, or nothing.                                               *)
LEMMA InstallRoute ==
    ASSUME IInv, NEW w \in WANs, Install(w)
    PROVE  /\ route' \subseteq WANs
           /\ \A x \in route' : \/ x \in plan[w]
                                \/ x \in Up
                                \/ x \in route /\ job[w] = "keep"
<1>1. TypeOK /\ RouteInv /\ pc[w] = "install"
  BY DEF IInv, Install, At
<1>2. CASE plan[w] # {}
  BY <1>1, <1>2, Types DEF Install
<1>3. CASE plan[w] = {}
  <2>1. job[w] = "keep"
    BY <1>1, <1>3 DEF RouteInv, Holding
  <2>2. \/ route' = route
        \/ \E x \in Up : route' = {x}
    BY <1>3 DEF Install, FallBack
  <2>3. QED
    BY <1>1, <2>1, <2>2 DEF TypeOK, Up
<1>4. QED
  BY <1>2, <1>3

LEMMA InstallStep ==
    ASSUME IInv, NEW w \in WANs, Install(w)
    PROVE  IInv'
<1> DEFINE there == IF job[w] = "join" THEN "rejoin" ELSE "cycle"
<1>1. TypeOK /\ LoopInv /\ RouteInv
  BY DEF IInv
<1>2. /\ At(w, "install", there) /\ holder' = Nobody
      /\ job' = [job EXCEPT ![w] = "none"] /\ plan' = [plan EXCEPT ![w] = {}]
      /\ UNCHANGED <<endpoint, missed>>
  BY DEF Install
<1>3. there \in {"cycle", "rejoin"} /\ (there = "rejoin" => state[w] = "up")
  BY <1>1 DEF RouteInv, Job
<1> HIDE DEF there
<1>4. /\ pc[w] = "install" /\ pc'[w] = there
      /\ TrackerTypeOK' /\ pc' \in [WANs -> Stages]
      /\ \A x \in WANs : x # w => pc'[x] = pc[x]
      /\ UNCHANGED <<state, prev, started, streak, seen>>
  BY <1>1, <1>2, <1>3, AtEffect DEF Stages
<1>5. LoopInv'
  BY <1>1, <1>2, <1>3, AtLoop
<1>6. /\ job' \in [WANs -> {"none", "drop", "keep", "join"}]
      /\ plan' \in [WANs -> SUBSET WANs]
      /\ job'[w] = "none"
      /\ \A x \in WANs : x # w => job'[x] = job[x] /\ plan'[x] = plan[x]
  BY <1>1, <1>2 DEF TypeOK
<1>7. TypeOK'
  BY <1>1, <1>2, <1>4, <1>6, InstallRoute DEF TypeOK
<1>8. holder = w
  BY <1>1, <1>4 DEF RouteInv, Holding
<1>9. Job(w)' /\ Holding(w)'
  BY <1>2, <1>3, <1>4, <1>6, RouteAssumption DEF Job, Holding
<1>10. \A x \in WANs : ~InFlight(x)'
  BY <1>1, <1>3, <1>4, <1>8 DEF InFlight, RouteInv, Holding
<1>11. ASSUME NEW x \in WANs, x \in route' PROVE Covered(x)'
  <2>1. CASE x \in Up
    BY <1>4, <2>1 DEF Up, Covered
  <2>2. CASE x \in plan[w] \/ (x \in route /\ job[w] = "keep")
    <3>1. Covered(x)
      BY <1>1, <1>4, <2>2 DEF RouteInv, InFlight
    <3>2. CASE x # w
      BY <1>2, <1>4, <1>6, <3>1, <3>2 DEF Covered, Leaving, AtIt
    <3>3. CASE x = w
      <4>1. job[w] # "drop"
        BY <1>1, <1>4, <2>2, <3>3 DEF RouteInv, Holding
      <4>2. QED
        BY <1>2, <1>4, <3>1, <3>3, <4>1 DEF Covered, Leaving, AtIt
    <3>4. QED
      BY <3>2, <3>3
  <2>3. QED
    BY <1>11, <2>1, <2>2, InstallRoute
<1>12. \A x \in WANs : x # w => (holder' = x <=> holder = x)
  BY <1>2, <1>8, RouteAssumption
<1>13. RouteInv'
  BY <1>1, <1>4, <1>6, <1>9, <1>10, <1>11, <1>12, RouteFrame
<1>14. QED
  BY <1>5, <1>7, <1>13 DEF IInv

(* A kill while the state is down leaves the failure to apply again.       *)
LEMMA DieStep ==
    ASSUME IInv, NEW w \in WANs, Die(w)
    PROVE  IInv'
<1>1. TypeOK /\ LoopInv /\ RouteInv
  BY DEF IInv
<1>2. /\ w \notin Steady /\ UNCHANGED <<state, seen>>
      /\ prev' = [prev EXCEPT ![w] = ""]
      /\ started' = [started EXCEPT ![w] = state[w] = "down"]
      /\ streak' = [streak EXCEPT ![w] = 0]
      /\ pc' = [pc EXCEPT ![w] = "cycle"]
  BY DEF Die, Restart
<1>3. /\ holder' = IF holder = w THEN Nobody ELSE holder
      /\ job' = [job EXCEPT ![w] = "none"] /\ plan' = [plan EXCEPT ![w] = {}]
      /\ UNCHANGED <<route, endpoint, missed>>
  BY DEF Die
<1>4. TypeOK'
  <2>1. 0 \in 0..TriesUp /\ (state[w] = "down") \in BOOLEAN
    BY TrackerAssumption
  <2>2. TrackerTypeOK'
    <3>1. streak' \in [WANs -> 0..TriesUp] /\ started' \in [WANs -> BOOLEAN]
      BY <1>1, <1>2, <2>1 DEF TypeOK, TrackerTypeOK
    <3>2. QED
      BY <1>1, <1>2, <3>1 DEF TypeOK, TrackerTypeOK
  <2>3. QED
    BY <1>1, <1>2, <1>3, <2>2 DEF TypeOK, Stages
<1>5. /\ prev'[w] = "" /\ (started'[w] <=> state[w] = "down") /\ streak'[w] = 0
      /\ pc'[w] = "cycle" /\ job'[w] = "none"
      /\ \A x \in WANs : x # w =>
            /\ prev'[x] = prev[x] /\ started'[x] = started[x] /\ streak'[x] = streak[x]
            /\ pc'[x] = pc[x] /\ job'[x] = job[x] /\ plan'[x] = plan[x]
  BY <1>1, <1>2, <1>3 DEF TypeOK, TrackerTypeOK
<1>6. LoopInv'
  <2>1. 0 < TriesUp
    BY TrackerAssumption
  <2>2. Loop(w)'
    BY <1>1, <1>2, <1>5, <2>1 DEF LoopInv, Loop, Recovering
  <2>3. QED
    BY <1>1, <1>2, <1>5, <2>2, OtherLoop DEF LoopInv
<1>7. Job(w)' /\ Holding(w)' /\ Covered(w)'
  BY <1>2, <1>3, <1>5, RouteAssumption DEF Job, Holding, Covered, Leaving, AtIt
<1>8. \A x \in WANs : x # w => (holder' = x <=> holder = x)
  BY <1>3, RouteAssumption
<1>9. RouteInv'
  <2>1. \A x \in WANs : x # w =>
          /\ state'[x] = state[x] /\ pc'[x] = pc[x] /\ started'[x] = started[x]
          /\ job'[x] = job[x] /\ plan'[x] = plan[x] /\ missed'[x] = missed[x]
          /\ holder' = x <=> holder = x
    BY <1>2, <1>3, <1>5, <1>8
  <2>2. RouteInv /\ route' = route /\ pc'[w] # "install" /\ Job(w)' /\ Holding(w)'
        /\ (Covered(w) => Covered(w)')
    BY <1>1, <1>3, <1>5, <1>7
  <2>3. QED
    BY <2>1, <2>2, QuietFrame
<1>10. QED
  BY <1>4, <1>6, <1>9 DEF IInv

-----------------------------------------------------------------------------
LEMMA InvNext == IInv /\ [Next]_vars => IInv'
<1> SUFFICES ASSUME IInv, [Next]_vars PROVE IInv'
  OBVIOUS
<1>1. CASE UNCHANGED vars
  BY <1>1 DEF vars, trackerVars, routeVars, IInv, TypeOK, TrackerTypeOK, LoopInv,
              Loop, Recovering, RouteInv, Job, Holding, Covered, Leaving, AtIt, InFlight
<1>2. ASSUME NEW w \in WANs,
             Track(w) \/ Mark(w) \/ Rebuild(w) \/ Take(w) \/ Die(w)
      PROVE  IInv'
  BY <1>2, TrackStep, MarkStep, LookStep, CheckStep, InstallStep, RejoinStep,
     TakeStep, DieStep DEF Rebuild
<1>3. QED
  BY <1>1, <1>2 DEF Next

THEOREM Invariance == Spec => []IInv
<1>1. QED
  BY InvInit, InvNext, PTL DEF Spec

(* Type correctness (TypeOK): the streak never passes TRIES_UP and every   *)
(* tracker is at a stage of the loop, for any number of WANs and restarts. *)
THEOREM TypeCorrect == Spec => []TypeOK
<1>1. IInv => TypeOK
  BY DEF IInv
<1>2. QED
  BY <1>1, Invariance, PTL

(* The failover never runs on a good probe: a start held by the streak is  *)
(* shown to the hooks as following an ERROR (HeldIsNoFailure).             *)
THEOREM HeldStartIsNoFailure == Spec => []HeldIsNoFailure
<1>1. IInv => HeldIsNoFailure
  BY DEF IInv, LoopInv, Loop, HeldIsNoFailure
<1>2. QED
  BY <1>1, Invariance, PTL

(* The endpoint of a WAN that is down is off unless its tracker is at it.  *)
Disabled(w) == state[w] = "down" /\ endpoint[w] => AtIt(w)
AllDisabled == \A x \in WANs : Disabled(x)

(* What becomes of it is up to the tracker of the WAN.                     *)
LEMMA DisabledElsewhere ==
    ASSUME NEW x \in WANs, Disabled(x),
           UNCHANGED <<state[x], pc[x], started[x], endpoint[x]>>
    PROVE  Disabled(x)'
BY DEF Disabled, AtIt

LEMMA TrackDisabled ==
    ASSUME IInv, NEW w \in WANs, Track(w), \A x \in WANs : Disabled(x)
    PROVE  \A x \in WANs : Disabled(x)'
<1>1. PICK probe \in Probes : Cycle(w, probe)
  BY DEF Track
<1>2. UNCHANGED <<state, endpoint>> /\ TypeOK /\ Loop(w) /\ pc[w] = "cycle"
  BY <1>1 DEF Track, Cycle, routeVars, IInv, LoopInv
<1>3. \A x \in WANs : x # w => pc'[x] = pc[x] /\ started'[x] = started[x]
  BY <1>1, <1>2 DEF Cycle, Hooks, TypeOK, TrackerTypeOK
<1>4. Disabled(w)'
  <2>1. ASSUME state[w] = "down", endpoint[w] PROVE started[w]
    BY <1>2, <2>1 DEF Disabled, AtIt
  <2>2. ASSUME state[w] = "down", endpoint[w] PROVE started'[w] \/ pc'[w] \in {"fail", "up"}
    BY <1>1, <1>2, <2>1, <2>2, CycleLeaves
  <2>3. QED
    BY <1>2, <2>2 DEF Disabled, AtIt
<1>5. QED
  BY <1>2, <1>3, <1>4, DisabledElsewhere

LEMMA MarkDisabled ==
    ASSUME IInv, NEW w \in WANs, Mark(w), \A x \in WANs : Disabled(x)
    PROVE  \A x \in WANs : Disabled(x)'
<1>1. TypeOK /\ UNCHANGED <<endpoint, started>>
  BY DEF Mark, MarkDown, MarkUp, IInv
<1>2. /\ \A x \in WANs : x # w => pc'[x] = pc[x] /\ state'[x] = state[x]
      /\ pc'[w] = "look" \/ state'[w] = "up"
  <2>1. state \in [WANs -> {"up", "down"}] /\ pc \in [WANs -> Stages]
    BY <1>1 DEF TypeOK, TrackerTypeOK
  <2>2. CASE MarkDown(w)
    BY <2>1, <2>2 DEF MarkDown
  <2>3. CASE MarkUp(w)
    BY <2>1, <2>3 DEF MarkUp
  <2>4. QED
    BY <2>2, <2>3 DEF Mark
<1>3. Disabled(w)'
  BY <1>2 DEF Disabled, AtIt
<1>4. QED
  BY <1>1, <1>2, <1>3, DisabledElsewhere

(* A rebuild switches the endpoint off first, and back on only in a WAN    *)
(* that is up.                                                             *)
LEMMA RebuildDisabled ==
    ASSUME IInv, NEW w \in WANs, Rebuild(w) \/ Take(w), \A x \in WANs : Disabled(x)
    PROVE  \A x \in WANs : Disabled(x)'
<1>1. TypeOK /\ Loop(w) /\ UNCHANGED <<state, started>>
  BY DEF Rebuild, Look, Check, Install, Rejoin, Take, At, IInv, LoopInv
<1>2. \A x \in WANs : x # w => pc'[x] = pc[x] /\ endpoint'[x] = endpoint[x]
  BY <1>1 DEF Rebuild, Look, Check, Install, Rejoin, Take, At, TypeOK
<1>3. Disabled(w)'
  <2>1. CASE Look(w)
    BY <1>1, <2>1 DEF Look, TypeOK, Disabled
  <2>2. CASE Check(w) \/ Rejoin(w)
    BY <1>1, <2>2 DEF Check, Rejoin, At, Loop, Disabled
  <2>3. CASE Install(w) \/ Take(w)
    <3>1. endpoint' = endpoint /\ pc[w] \in {"lock", "install"}
      BY <2>3 DEF Install, Take, At
    <3>2. QED
      BY <1>1, <3>1 DEF Disabled, AtIt
  <2>4. QED
    BY <2>1, <2>2, <2>3 DEF Rebuild
<1>4. QED
  BY <1>1, <1>2, <1>3, DisabledElsewhere

(* A tracker that starts while its WAN is down has it still to apply.      *)
LEMMA DieDisabled ==
    ASSUME IInv, NEW w \in WANs, Die(w), \A x \in WANs : Disabled(x)
    PROVE  \A x \in WANs : Disabled(x)'
<1>1. TypeOK /\ UNCHANGED <<state, endpoint>>
  BY DEF Die, Restart, IInv
<1>2. /\ \A x \in WANs : x # w => pc'[x] = pc[x] /\ started'[x] = started[x]
      /\ started'[w] <=> state[w] = "down"
  BY <1>1 DEF Die, Restart, TypeOK, TrackerTypeOK
<1>3. Disabled(w)'
  BY <1>1, <1>2 DEF Disabled, AtIt
<1>4. QED
  BY <1>1, <1>2, <1>3, DisabledElsewhere

(* Under the balancing lock, no dead nexthop is left in the route but by   *)
(* the failures named in missed, and no WAN that is down keeps its         *)
(* endpoint, unless its own tracker is at it (NoDeadPath).                 *)
THEOREM DeadPathsLeave == Spec => []NoDeadPath
<1>1. Init => AllDisabled
  BY DEF Init, TrackerInit, AllDisabled, Disabled
<1>2. IInv /\ AllDisabled /\ [Next]_vars => AllDisabled'
  <2>1. SUFFICES ASSUME IInv, \A x \in WANs : Disabled(x), [Next]_vars
                 PROVE  \A x \in WANs : Disabled(x)'
    BY DEF AllDisabled
  <2>2. CASE UNCHANGED vars
    BY <2>1, <2>2, DisabledElsewhere DEF vars, trackerVars, routeVars
  <2>3. CASE Next
    BY <2>1, <2>3, TrackDisabled, MarkDisabled, RebuildDisabled, DieDisabled DEF Next
  <2>4. QED
    BY <2>1, <2>2, <2>3
<1>3. IInv /\ AllDisabled => NoDeadPath
  BY DEF IInv, RouteInv, Covered, AllDisabled, Disabled, NoDeadPath
<1>4. QED
  BY <1>1, <1>2, <1>3, Invariance, PTL DEF Spec

(* No two trackers are between the computation of a route and its install. *)
RebuildsAlone == \A w, x \in WANs : pc[w] = "install" /\ pc[x] = "install" => w = x

(* The lock is exclusive, kills included (RebuildsAlone).                  *)
THEOREM OneRebuildAtATime == Spec => []RebuildsAlone
<1>1. IInv => RebuildsAlone
  BY DEF IInv, RouteInv, Holding, RebuildsAlone
<1>2. QED
  BY <1>1, Invariance, PTL

-----------------------------------------------------------------------------
LEMMA StatusInitially == Init => Status!StatusInit
BY DEF Init, TrackerInit, Status!StatusInit, Poor

(* Every step is a step of WanStatus or leaves its variables alone.        *)
LEMMA StatusStep == IInv /\ [Next]_vars => [Status!StatusNext]_(Status!statusVars)
<1> SUFFICES ASSUME IInv, [Next]_vars, ~ UNCHANGED <<state, seen>>
             PROVE  Status!StatusNext
  BY DEF Status!statusVars
<1>1. TypeOK /\ LoopInv
  BY DEF IInv
<1>2. PICK w \in WANs : Track(w) \/ Mark(w) \/ Rebuild(w) \/ Take(w) \/ Die(w)
  BY DEF Next, vars, trackerVars
<1>3. CASE Track(w)
  <2>1. PICK probe \in Probes : Cycle(w, probe)
    BY <1>3 DEF Track
  <2>2. UNCHANGED state /\ seen' = [seen EXCEPT ![w] = Observed(w, probe)]
    BY <2>1 DEF Cycle
  <2>3. Observed(w, probe) \in
            {-1, 0, IF seen[w] = -1 THEN 1 ELSE IF seen[w] < TriesUp THEN seen[w] + 1 ELSE TriesUp}
    BY TrackerAssumption DEF Observed, Failed, Poor
  <2>4. Status!Probe(w)
    BY <2>2, <2>3 DEF Status!Probe
  <2>5. QED
    BY <2>4 DEF Status!StatusNext
<1>4. CASE Mark(w)
  <2>1. CASE MarkDown(w)
    <3>1. /\ state' = [state EXCEPT ![w] = "down"] /\ UNCHANGED seen /\ pc[w] = "fail"
      BY <2>1 DEF MarkDown
    <3>2. state[w] = "up"
      BY <1>1, <3>1, Types DEF TypeOK, TrackerTypeOK
    <3>3. seen[w] = -1
      BY <1>1, <3>1, <3>2 DEF LoopInv, Loop, Failed
    <3>4. QED
      BY <3>1, <3>3 DEF Status!StatusNext, Status!TakeOut
  <2>2. CASE MarkUp(w)
    <3>1. /\ state' = [state EXCEPT ![w] = "up"] /\ UNCHANGED seen /\ pc[w] = "up"
      BY <2>2 DEF MarkUp
    <3>2. seen[w] = TriesUp
      BY <1>1, <3>1 DEF LoopInv, Loop
    <3>3. QED
      BY <3>1, <3>2 DEF Status!StatusNext, Status!PutBack
  <2>3. QED
    BY <1>4, <2>1, <2>2 DEF Mark
<1>5. CASE Rebuild(w) \/ Take(w) \/ Die(w)
  BY <1>5 DEF Rebuild, Look, Check, Install, Rejoin, Take, Die, At, Restart
<1>6. QED
  BY <1>2, <1>3, <1>4, <1>5

(* The trackers implement WanStatus (Debounced): a WAN is taken out only   *)
(* on a failed probe and put back only after TriesUp good ones in a row,   *)
(* for any TriesUp, wherever its tracker is killed.                        *)
THEOREM ImplementsWanStatus == Spec => Debounced
<1>1. QED
  BY StatusInitially, StatusStep, Invariance, PTL DEF Spec, Debounced, Status!StatusSpec
=============================================================================
