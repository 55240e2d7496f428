--------------------------- MODULE BalancedRoute ---------------------------
(***************************************************************************)
(* The balanced default route (metric 1, settings.master = "balancing")    *)
(* and the hooks that rebuild it: 002-error takes a WAN out of it, 003-up  *)
(* puts it back, each tracker for its own WAN, from the state of all of    *)
(* them, under one lock (_omr_balancing_lock).  Every WAN is one of the    *)
(* metric 1 route ("on" or "master", not "backup").                        *)
(***************************************************************************)
EXTENDS OmrTracker

CONSTANT Nobody         \* no tracker holds the lock

ASSUME RouteAssumption == Nobody \notin WANs /\ Steady # {}

VARIABLES
    route,      \* the WANs the metric 1 default route has a nexthop through
    endpoint,   \* the WAN has its MPTCP endpoint ("multipath" is not off)
    holder,     \* who holds the balancing lock
    job,        \* what a tracker rebuilds: "drop" its WAN, "join" it, "keep"
    plan,       \* the nexthops it has computed under the lock
    missed      \* history: the last failure of the WAN found nothing to
                \* rebuild, though it was in the route or about to be

routeVars == <<route, endpoint, holder, job, plan, missed>>
vars == <<trackerVars, routeVars>>

Stages == {"cycle", "up", "fail", "look", "check", "lock", "install", "rejoin"}

TypeOK ==
    /\ TrackerTypeOK
    /\ pc \in [WANs -> Stages]
    /\ route \subseteq WANs
    /\ endpoint \in [WANs -> BOOLEAN]
    /\ holder \in WANs \union {Nobody}
    /\ job \in [WANs -> {"none", "drop", "keep", "join"}]
    /\ plan \in [WANs -> SUBSET WANs]
    /\ missed \in [WANs -> BOOLEAN]

(* The trackers start over a route through every WAN. *)
Init ==
    /\ TrackerInit
    /\ route = WANs
    /\ endpoint = [w \in WANs |-> TRUE]
    /\ holder = Nobody
    /\ job = [w \in WANs |-> "none"]
    /\ plan = [w \in WANs |-> {}]
    /\ missed = [w \in WANs |-> FALSE]

-----------------------------------------------------------------------------
At(w, here, there) ==
    /\ pc[w] = here
    /\ pc' = [pc EXCEPT ![w] = there]
    /\ UNCHANGED <<state, prev, started, streak, seen>>

Up == {w \in WANs : state[w] = "up"}

(* Some tracker has computed nexthops with w and not installed them yet. *)
InFlight(w) == \E x \in WANs : pc[x] = "install" /\ w \in plan[x]

(* 002-error, a transition: nothing more to switch off without an          *)
(* endpoint; otherwise it goes, and the route is read, before the lock is  *)
(* asked for, to know whether it has to be rebuilt.                        *)
Look(w) ==
    /\ endpoint' = [endpoint EXCEPT ![w] = FALSE]
    /\ \/ /\ endpoint[w]
          /\ At(w, "look", "lock")
          /\ job' = [job EXCEPT ![w] = IF w \in route THEN "drop" ELSE "keep"]
          /\ missed' = [missed EXCEPT ![w] = w \notin route /\ InFlight(w)]
       \/ /\ ~endpoint[w]
          /\ At(w, "look", "cycle")
          /\ missed' = [missed EXCEPT ![w] = w \in route \/ InFlight(w)]
          /\ UNCHANGED job
    /\ UNCHANGED <<route, holder, plan>>

(* Mutant: the endpoint is only given back with the nexthop. *)
Check_RouteOnly(w) ==
    /\ \/ w \in route /\ At(w, "check", "cycle") /\ UNCHANGED job
       \/ w \notin route /\ At(w, "check", "lock") /\ job' = [job EXCEPT ![w] = "join"]
    /\ UNCHANGED <<route, endpoint, holder, plan, missed>>

(* Mutant: a WAN that has its endpoint is taken to be in the route. *)
Check_Endpoint(w) ==
    /\ \/ endpoint[w] /\ At(w, "check", "cycle") /\ UNCHANGED job
       \/ ~endpoint[w] /\ At(w, "check", "lock") /\ job' = [job EXCEPT ![w] = "join"]
    /\ UNCHANGED <<route, endpoint, holder, plan, missed>>

(* 003-up: nothing to rebuild while the WAN is in the route. *)
Check(w) ==
    /\ \/ /\ w \in route
          /\ At(w, "check", "cycle")
          /\ endpoint' = [endpoint EXCEPT ![w] = TRUE]
          /\ UNCHANGED job
       \/ /\ w \notin route
          /\ At(w, "check", "lock")
          /\ job' = [job EXCEPT ![w] = "join"]
          /\ UNCHANGED endpoint
    /\ UNCHANGED <<route, holder, plan, missed>>

(* Mutant: the lock is not waited for. *)
Take_Unlocked(w) ==
    /\ At(w, "lock", "install")
    /\ plan' = [plan EXCEPT ![w] = IF job[w] = "keep" THEN {} ELSE Up]
    /\ UNCHANGED <<route, endpoint, holder, job, missed>>

(* _omr_balancing_lock, then set_route_balancing of every interface, from  *)
(* the states as they are under the lock.                                  *)
Take(w) ==
    /\ holder = Nobody
    /\ holder' = w
    /\ At(w, "lock", "install")
    /\ plan' = [plan EXCEPT ![w] = IF job[w] = "keep" THEN {} ELSE Up]
    /\ UNCHANGED <<route, endpoint, job, missed>>

(* set_route, when the rebuild has no route to put: the first interface    *)
(* still up takes the default route, if the traffic left through the down  *)
(* one or had nowhere to go.                                               *)
FallBack(w) ==
    \/ UNCHANGED route
    \/ /\ w \in route \/ route = {}
       /\ \E x \in Up \ {w} : (\A y \in Up \ {w} : x <= y) /\ route' = {x}

Install(w) ==
    /\ At(w, "install", IF job[w] = "join" THEN "rejoin" ELSE "cycle")
    /\ IF plan[w] # {} THEN route' = plan[w] ELSE FallBack(w)
    /\ holder' = Nobody
    /\ job' = [job EXCEPT ![w] = "none"]
    /\ plan' = [plan EXCEPT ![w] = {}]
    /\ UNCHANGED <<endpoint, missed>>

(* 003-up ends by giving the WAN its MPTCP endpoint back. *)
Rejoin(w) ==
    /\ At(w, "rejoin", "cycle")
    /\ endpoint' = [endpoint EXCEPT ![w] = TRUE]
    /\ UNCHANGED <<route, holder, job, plan, missed>>

(* The lock is a file descriptor: it goes with its holder. *)
Die(w) ==
    /\ Restart(w)
    /\ holder' = IF holder = w THEN Nobody ELSE holder
    /\ job' = [job EXCEPT ![w] = "none"]
    /\ plan' = [plan EXCEPT ![w] = {}]
    /\ UNCHANGED <<route, endpoint, missed>>

Track(w) ==
    /\ \E probe \in Probes : Cycle(w, probe)
    /\ UNCHANGED routeVars

Mark(w) ==
    /\ MarkDown(w) \/ MarkUp(w)
    /\ missed' = [missed EXCEPT ![w] = FALSE]
    /\ UNCHANGED <<route, endpoint, holder, job, plan>>

Rebuild(w) == Look(w) \/ Check(w) \/ Install(w) \/ Rejoin(w)

Next == \E w \in WANs :
    \/ Track(w)
    \/ Mark(w)
    \/ Rebuild(w)
    \/ Take(w)
    \/ Die(w)

Spec == Init /\ [][Next]_vars

(* The loop and the hooks go on.  A cycle that changes nothing is a        *)
(* stuttering step, so fairness may not ask for "some cycle" of a WAN that *)
(* can fail: it would ask the probes of a dead WAN to be good in the end.  *)
(* It asks for the cycle that finds again what the last one found.         *)
Again(w) == Cycle(w, LastProbe(w)) /\ UNCHANGED routeVars

(* The lock is polled every second, and a tracker that found it taken 30   *)
(* times goes ahead without it.                                            *)
FairSpec ==
    /\ Spec
    /\ \A w \in Steady : WF_vars(Track(w))
    /\ \A w \in WANs \ Steady : WF_vars(Again(w))
    /\ \A w \in WANs :
        /\ WF_vars(Mark(w) \/ Rebuild(w))
        /\ SF_vars(Take(w))

-----------------------------------------------------------------------------
(* Whatever the trackers do and wherever they are killed, a WAN is taken   *)
(* out of use only on a failed probe and put back only after TriesUp good  *)
(* ones in a row: the streak survives the restart of the tracker (the      *)
(* _started_down flag of omr-tracker).                                     *)
Status == INSTANCE WanStatus

Debounced == Status!StatusSpec

(* The failover (down mail, VPN restart, modem restart: the transition of  *)
(* 002-error) never runs on a probe that was good, though a tracker held   *)
(* by the streak has the status ERROR and, once restarted, no previous     *)
(* status (omr-tracker, comment above _started_down's hooks).              *)
HeldIsNoFailure == \A w \in WANs : pc[w] \in {"fail", "look"} => seen[w] <= Poor

(* The tracker of w is at a step that takes w out of use or back into it,  *)
(* or was restarted and has yet to take its first failure as a transition. *)
AtIt(w) == pc[w] \in {"fail", "look", "up"} \/ started[w]

Leaving(w) == AtIt(w) \/ job[w] = "drop"

(* A WAN that is down and still has a nexthop or an MPTCP endpoint is      *)
(* about to lose it, or to be up again.  Two trackers that rebuild the     *)
(* route at once would put the nexthop back for good                       *)
(* (_omr_balancing_lock), and a tracker killed before it has taken the     *)
(* endpoint away would leave it to a WAN that fails.                       *)
NoDeadPath == \A w \in WANs : state[w] = "down" =>
    /\ w \in route => Leaving(w) \/ missed[w]
    /\ endpoint[w] => AtIt(w)

NoMoreKills == <>[][\A w \in WANs : ~Die(w)]_vars

(* Every WAN keeps finding what it found. *)
Settled == <>[][UNCHANGED seen]_vars

(* A WAN whose probes are good from some time on ends up in use, whatever  *)
(* was killed before: 003-up does again what it was killed in.  Its state  *)
(* and its endpoint stay; its nexthop may be lost again to the fallback of *)
(* another WAN that fails, and comes back every time, for good once no     *)
(* WAN changes any more.                                                   *)
Recovers == \A w \in WANs \ Steady :
    <>[](seen[w] = TriesUp) /\ NoMoreKills
        => /\ <>[](state[w] = "up" /\ endpoint[w])
           /\ []<>(w \in route)
           /\ Settled => <>[](w \in route)

(* WANs that never fail lose their nexthops through no fault of their own: *)
(* a WAN that read the route while the others' rebuild was in flight falls *)
(* back to the first WAN up and throws the rest out (set_route).  However  *)
(* often that happens, and whatever is killed, the balanced route has all  *)
(* of them again every time.                                               *)
SteadyReturn == []<>(Steady \subseteq route)

(* A WAN whose probes fail from some time on ends up out of use, without   *)
(* endpoint and (but for the failures NoDeadPath leaves out) nexthop:      *)
(* a restarted tracker applies the failure again.                          *)
FailsOver == \A w \in WANs \ Steady :
    <>[](seen[w] = Failed) /\ NoMoreKills
        => <>[](state[w] = "down" /\ ~endpoint[w] /\ (w \notin route \/ missed[w]))
=============================================================================
