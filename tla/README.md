# Verification of openmptcprouter-feeds

The feed builds OpenMPTCProuter: an OpenWrt router that bundles several WANs
into one MPTCP connection to a VPS. Most of its packages are third-party
programs with a Makefile. What the project itself adds, and what this directory
is about, is the code that decides *which WAN carries the data*: packet
schedulers loaded into the kernel as BPF programs, user-space managers that fill
their maps, and shell daemons (omr-tracker and its hooks) that watch the WANs
and change routes and states when one fails.

The modules here are TLA+ translations of that code. TLC checks them on small
instances (`tlc -config X.cfg M`), TLAPS checks the proofs (`tlapm M.tla`).
`PROJECT.json` maps each definition to the lines it stands for and lists every
run, theorem and hazard.

## 1. Inventory

| component | state it keeps | operations | status |
|---|---|---|---|
| `bpf_rr` | `turn`, a `__u32` in the connection's socket storage | init, release, get_send, get_retrans | `RoundRobin`, `Retrans` |
| `bpf_weight_rr` | current weights in an LRU map; weights in three maps it reads | get_send, get_retrans | `WeightRR`, `Retrans` |
| `bpf_bkup`, `bpf_first`, `bpf_red` | none between calls | get_send, get_retrans | `Bkup`, `First`, `Red`, `Retrans` |
| `bpf_burst`, `bpf_weight` | pacing averages in the kernel's subflow | get_send, get_retrans | get_retrans only |
| `bpf_ecf`, `bpf_overflow`, `bpf_blest` | a waiting flag or a lambda in socket storage | get_send, get_retrans | get_retrans only |
| `bpf_dscp` | maps of traffic classes | get_send, get_retrans | get_retrans only |
| weight manager, dscp manager | keys written per interface, map entries | set, del, refresh hooks | map writes of the weight manager in `WeightRR` |
| omr-tracker | status, up streak, started-while-down flag, gateway caches, state file | probe loop, start, restart | `OmrTracker`, without the gateway caches |
| post-tracking hooks | interface `state`, MPTCP endpoint, routes, balanced route, locks | 001-initialize ... 041 | 002-error and 003-up on the balanced route: `BalancedRoute` |
| tracker service | procd instances, lock clean-up | start, stop, restart, release | its kills and restarts: `Die` of `BalancedRoute` |
| omr-tracker-server | the server the configuration points at; marks, hold and request in `/var/state`; what it knows of each server | round, change of server, failback command | `ServerTracker` |
| proxy and tunnel trackers, quota | status, counters | loop | not modelled |
| MPTCP init, bypass, dscp-nft, schedule, VPS client, metrics, autorate | generated configuration | mostly I/O | not modelled |

How they interact:

- **kernel -> scheduler**: the kernel calls `get_send` whenever it has data to
  push and `get_retrans` when the MPTCP retransmission timer fires, both under
  the msk lock. A call answers by marking subflows scheduled, or with -1.
- **kernel under the scheduler**: a call walks the list of subflows up to four
  times. Sockets close, join, get their buffer acknowledged and change role
  (MP_PRIO) in softirq, so two walks of one call may not see the same thing.
- **managers -> scheduler**: BPF maps, written entry by entry at any time.
- **tracker -> hooks -> system**: each WAN has its tracker, which runs the hooks
  in order when its status changes and at an interval. Hooks of several WANs
  run concurrently and share the state file, the routing tables and, in
  balancing mode, one route built from the state of *all* WANs.
- **server tracker -> everything behind the tunnel**: which VPS the proxy and
  the VPNs connect to. Other services read its marks in `/var/state`
  (`<server>.current`, `omr.failback_hold`, `omr.server`) whenever they run.
- **service -> tracker**: starts, kills and restarts trackers whose hooks may
  still be running, and removes their locks.

What is hard here, with the properties that make it correct:

- *several walks, one decision* (all schedulers): whatever is scheduled could
  carry data, a backup WAN (metered, slow) carries data only when nothing else
  is active, and a call gives up only for that reason;
- *state paid for and not used* (rr, weight_rr): a call that returns -1 may not
  spend a turn or credit;
- *fairness over time* (rr, weight_rr): everybody who can send does, in the
  configured proportions, while sets, weights and buffers change; nothing drifts;
- *no stall* (ecf, overflow, blest, burst): a scheduler that waits is always
  called again; data stuck on a dead path leaves it (get_retrans);
- *races between trackers*: the balanced route ends up matching the states; two
  runs of one hook do not overlap; a restart neither repeats nor loses a
  transition; a flapping WAN is not believed before its streak;
- *one server in use* (server tracker): the marks others read agree with the
  configuration after every round, a backup in use is left only as the failback
  setting says, and the right server is in use in the end.

## 2. Modules

`MptcpSubflows` is the world the schedulers look at. `path` is "down" when
`mptcp_subflow_active()` is false, "stale" when only `mptcp_subflow_stale()` is
true, else "up"; `bkup` is `backup || request_bkup`; `free` is
`bpf_sk_stream_memory_free()`. Its actions are the kernel's and are external: they are
what the schedulers' code and comments assume. Pushing data and marking a
subflow stale need the msk lock, so `Fill` and `ToggleStale` wait for the call
to end; the others do not. The history variables `usableSeen`, `primarySeen`,
`idleSeen` hold what has been true *at some moment of the call*, which is
all a decision spread over several walks can be held to.

`SendContract` is the abstract specification of a scheduler that picks one
subflow: begin; the kernel acts; then either schedule a *permitted* subflow
(seen usable; and a backup one only if every subflow has been seen inactive or
backup), or refuse. A call nothing changed under may refuse only when
there is nothing to send on. The one other way out is a connection without the
storage its scheduler keeps between calls (`stored`): a call allocates it, or fails
whatever the subflows are (`Fail`), and once there it stays. `RoundRobin`,
`WeightRR`, `Bkup` and `First` each show `KeepsContract == Contract!ContractSpec`, under the
mapping `busy <- Busy`; `stored` is `HasStorage` in `RoundRobin` and TRUE in the others,
which keep nothing per connection, or (weight_rr) do without an entry.

| module | code | correspondence |
|---|---|---|
| `RoundRobin` | `mptcp_bpf_rr.c` 22-174 | `Create` is `bpf_sk_storage_get()` of a call that finds no storage, which may fail (117-120); `Count`, `Check`, `CountAny`, `Pick` are the four walks; one visit of one subflow per step; the locals `nr`, `target`, `idx`, `use_backup` are variables |
| `WeightRR` | `mptcp_bpf_weight_rr.c` 28-367, map writes of `mptcp-scheduler-weight.sh` | `Screen`, `Check`, `Round` are the walks, `Commit` the debit and the last look at the winner; `SetWeight` is the manager, `Evict` the LRU map |
| `Bkup` | `mptcp_bpf_bkup.c` 15-90 | `Visit` is one turn of the only walk |
| `First` | `mptcp_bpf_first.c` 18-144 | `TryFirst` is msk->first; `Primary`, `Check`, `AnyRole` are the walks |
| `Red` | `mptcp_bpf_red.c` 40-157 | `Primaries`, `Backups` are `red_schedule(sk, false/true)`; schedules a set, so it has its own statement of the contract |
| `Retrans` | `bpf_rr_get_retrans`, the same in all eleven schedulers | `Visit` with `chk_stale`; queues, stale counts and TCP timers are external |
| `WanStatus` | the promise of `omr-tracker` 1234-1262, 002-error 113-115 | abstract: `TakeOut` only on a failed probe, `PutBack` only after `TriesUp` good ones in a row |
| `OmrTracker` | `omr-tracker` 594-1328 | the loop of each tracker; `Cycle` is one turn of it, `MarkDown` and `MarkUp` what the hooks write of the state, `Restart` a kill and a start |
| `BalancedRoute` | 002-error 273-430, 003-up 461-651, `common-post-tracking.sh` 269-872 | adds the route, the endpoints and the lock; see below |
| `ServerTracker` | `omr-tracker-server` 142-804, the failback command of the service | one round after another; `CheckMaster`, `CheckBackup` are the checks of one server, `Switch` the change of server, `Held` is `_failback_hold`; see below |
| `WeightRRShare` | `mptcp_bpf_weight_rr.c` 216-367, undisturbed | `WeightRR` with a tally of the rounds won and no other step than get_send's |
| `WeightRRWait` | the same lines, disturbed | every step of `WeightRR`, with a count of the rounds each subflow was bumped in and did not win |
| `RoundRobin_proofs`, `WeightRR_proofs`, `Bkup_proofs`, `First_proofs`, `Red_proofs`, `Retrans_proofs` | | theorems about one scheduler each, or about get_retrans |
| `BalancedRoute_proofs` | | theorems about the trackers and the balanced route |
| `ServerTracker_proofs` | | theorems about the server tracker |

`OmrTracker` and `BalancedRoute` are one state machine in two modules: a
tracker and its hooks are the same process, so `pc[w]` says where the process of
WAN `w` is. "cycle" is the loop; `Cycle` chooses the outcome of the probe (bad,
poor: between the recovery and the failure thresholds, good), applies the
quality gate (`Passes`) and the streak, computes the previous status the hooks
are shown (`Shown`) and enters the hook that has something to do (`Hooks`).
002-error is "fail" (write the state), "look" (switch the endpoint off and read
whether the WAN is in the route, both *before* the lock), "lock" (`Take`: get
the lock, then read the states of all WANs and compute the nexthops), "install"
(`Install`: put the route and release). 003-up is "up" (write the state), "check"
(is the WAN in the route?), the same "lock" and "install", and "rejoin" (give the
endpoint back). `Die` may come between any two of these. What a tracker keeps
in shell variables (`prev`, `started`, `streak`, the plan of a rebuild) is lost with
it; `state`, which is in `/var/state`, the route and the endpoint, which are
the kernel's, are not. The lock is an flock on a descriptor of the process, so it goes
with its holder. `seen` and `missed` are history variables, which no action reads
(`missed` is about the failure a WAN is down for, and cleared when its state changes).

`ServerTracker` is one process that walks the servers in configuration order:
`pass` and `todo` say where `_check_servers` is, `oneUp`, `held` and `force` are
its globals of the round, `prevUp`, `since` and `holdSeen` the variables it keeps
between rounds. `inUse` stands for everything `set_ip` and `_apply_server_config`
point at a server: the proxies, OpenVPN's remote and the other VPNs. `redirs` is
the `disabled` option of the redirections into the proxy. Both are configuration and
outlive a reboot; `current`, `hold`, `now` and `status` are in `/var/state` and
outlive the tracker only. `reach` is what a check of a server would find at this
moment; an address given by a name may not resolve, which ends the check before
anything is concluded. Between two checks servers come and go (`Flip`), the
failback command reads and later writes (`Ask`), the delay ends (`Elapse`), and the
tracker is killed or the router rebooted (`Restart`, `Reboot`), each start with any
failback setting. `omr.server` is written on a change only; nobody else writes it,
so `EndRound` sets it.

Definitions named `X_Something` with a "Mutant" comment are plausible bugs of
`X`; replacing `X` by one must break the property `PROJECT.json` pairs it with.

Abstractions. The pacing rate weight_rr asks for is part of `Usable`: a subflow
without one is skipped like a full one. The burst size and the pacing average
the commit writes for the kernel are left out: nothing here reads them.
`bpf_mptcp_subflow_ctx(pick)` returning NULL (-1) is left out, the socket being
on the list under the msk lock. `free` only *grows* during a call, because a
push needs the lock. `localWeight` stands for `endpoint_weights` and, for IPv6,
`weight_local_id`, as one lookup per subflow. A cw entry of 0 and none are the
same. Writing one always works: `bpf_map_update_elem()` (321, 342), whose result the code
ignores, makes room in an LRU map by dropping another entry, which is `Evict`; that it finds none
to drop is left out. Weights are far below 2^31, so the cast to `__s32` is exact.
`turn` is reduced mod a small `TurnModulus` in place of 2^32. In `Bkup`, which never
asks for the stale mark, there is none. MAX_SUBFLOWS is as long as
the list in the runs, so the limit is met and never cuts anyone off.

In `BalancedRoute` every WAN takes part in the metric 1 route (multipath "on" or
"master"), has a gateway and is up for netifd, so that `Up`, the WANs whose state
is up, are those `set_route_balancing` puts in. `FallBack` is `set_route`, which
002-error runs when the rebuild has nothing to put; whether the traffic to
1.1.1.1 leaves through the down WAN is the kernel's hash, hence a choice. The
hooks run in every cycle that has a transition and *may* run in any other one
with the status OK: the post-tracking interval is any length. Boot is left out:
the trackers start over a route through every WAN.

## 3. Runs

| run | shows |
|---|---|
| `rr` | bpf_rr implements the contract, without its storage too, spends a turn exactly when it schedules (`TurnSpentOnlyOnSend`), and rotates over everybody once the subflows are stable (`StableRotation`), wrap of the counter included |
| `rr_starvation` | a **violation**: see findings |
| `wrr_contract` | with weights rewritten mid-round, zero and missing ones among them, and one subflow losing its LRU entry at any moment, bpf_weight_rr implements the contract, a refused call bumped nobody (`TurnSpentOnlyOnSend`), and nobody who is always a candidate and keeps its entry starves (`NoStarvation`) |
| `wrr_eviction` | with every subflow losing its LRU entry again and again, between its bump and its debit too: bumps and debits match at every other step (`CreditKept`), no drift (`CwBounded`), and nobody is a candidate of more than `2 Drift` rounds in a row without winning one or losing its own entry (`BypassBounded`) |
| `wrr_share` | for every assignment of weights 1 (an entry of zero, or none), 2 and 5, of the backup role and of the stale mark to four subflows: exact shares per period (`ExactShare`) and never a whole round of lag (`Interleaved`) |
| `bkup` | the contract from a single walk; when only backups are left and one of them has room again and again when a walk comes to it, data moves to them (`MovesToBackup`) |
| `first` | the contract; failover and return from the backup WAN whatever msk->first is (`FailsOver`) |
| `red` | nothing marked that may not be (`MarksArePermitted`); a quiet call copies everywhere it should (`CopiesEverywhere`) |
| `retrans` | the choice is entitled, refusals have a reason, and data stuck on dead paths gets out (`StuckDataMoves`) |
| `wan` | three WANs, two of them failing and losing their tracker anywhere: the states implement `WanStatus` (`Debounced`), no failure's hooks for a cycle only the streak holds (`HeldIsNoFailure`), no dead nexthop put back by a concurrent rebuild and no endpoint left to a WAN that is down (`NoDeadPath`), and a WAN that is good (bad) from some time on ends up in use (out of use), route and endpoint included (`Recovers`, `FailsOver`) |
| `wan_steady` | four WANs, two that never fail and two that race each other: however often a fallback throws the first two out of the route, it has both again every time (`SteadyReturn`) |
| `server` | a master and two backups under every failback setting: after a round that found a server up, the marks, the redirections and the configuration agree, and a backup is in use only with the masters held or silent; after one that found none, every server has been asked and nothing is redirected (`Served`); the hold is on only with a backup in use (`HoldMeansBackup`); a backup that answers is left only as the setting says (`BackupKept`); `omr.server` tells the truth in the end (`StatusFollows`), the right server is in use in the end (`EndsWhereItShould`), and the tracker comes to rest (`Settles`) |

Bounds. Three subflows: one to be picked, one to disturb, one to be wronged. Two in
`wrr_contract` and `wrr_eviction`, which let the buffers, the weights and the LRU map act at every
step of a call, and whose safety properties are proved for any number of subflows; four in
`wrr_share`, where a call is left alone. Every walk visits every position,
so the boundary cases (first, middle, last) all occur. `MaxChanges` bounds kernel
changes *during* one call, at 1 or 2: a change between two walks is what breaks
a several-walk decision; changes between calls are unbounded. `TurnModulus` 4 is
not a multiple of 3, as 2^32 is not, so the wrap disturbs the rotation in the model as
it does in the code. Weights 1 to 3 and a neutral weight of 1 keep the rounds short;
entries of zero and lookups that miss are among them. `Drift` is a formula of the
number of subflows and the largest weight, `(Span - 1) N MaxWeight` where `Span` is
`N`, or `2 N` if the map may drop entries, not a bound chosen to fit a run; the bound of
`BypassBounded` is twice that. `Interleaved` is stated for up to four subflows on purpose:
with five, TLC finds a subflow a whole round behind. `MaxStale` is 2, the threshold
`min_stale_count > 1` tells apart; stale_count saturates in the kernel too.
Three WANs in `wan`, two of them unsteady: two rebuilds that race each other for
the lock is the case the lock is there for, and `Steady`, one WAN that never
fails, keeps "the WANs still up" from being empty, where 002-error has no route
to put but the fallback. Three leave no pair to race *beside* a WAN that is good, and the
fallback (`set_route`) is such a race: a WAN that was out of the route when it looked, and is
in it when it falls back, replaces the whole route by the first WAN that is up. It takes four
WANs for one that does not fail itself to lose its nexthop to that again and again (one falls
back to, one is thrown out, two flap), which is `wan_steady`: there `[]<>(Steady \subseteq route)` holds and
`<>[](Steady \subseteq route)` does not. Its `TriesUp` is 1 and its probes fail or are
good, which is all the race needs. In `wan`, `TriesUp` 2 tells a held cycle from the
one that ends the streak. In both restarts and probe outcomes are unbounded. In `server`, one
master to be held ("Only one server can be master", `wizard.js` 643) and two backups to take over from each other; the name that may not
resolve is the master's (see the limits below). The servers change any number of times;
`MaxRestarts` 2 is a kill in the aftermath of another. The state is finite without it,
but the liveness properties need the kills to end: a round that is cut short for ever
reaches no backup.

Fairness. `WF(Call)`: the kernel asks for a subflow as long as there is data,
and the liveness properties are about connections that have some. `WF` of the
walks: a BPF program runs to its end. `Retrans` adds strong fairness of a TCP
timer on a subflow that gets no acknowledgement: only the model's bound on
changes under a call ever holds the timer up. No fairness is assumed of the
kernel's closes, joins, acknowledgements, of its allocating a storage, or of the managers. The hypotheses
of each liveness property say what the environment must do.

`FairSpec` of `BalancedRoute` asks that a loop goes on: `WF(Again)`, the cycle
that finds what the last one found. "Some cycle" would be the
wrong thing to ask for: one that changes nothing is a stuttering step, so weak
fairness of their disjunction would force the probes of a dead WAN to succeed
in the end. A steady WAN has only one outcome, so there it is `WF(Track)`. `WF(Mark \/ Rebuild)`: a hook is a script that runs on. `SF(Take)`:
the lock is polled every second and, unlike the model, given up on after 30.
Nothing is assumed of probes or kills: `Recovers` and `FailsOver` have as hypotheses
that the probes of the WAN settle and that the kills end. `FairSpec` of
`ServerTracker`: the loop goes on (`WF(Round)`, one enabled step at a time) and time
passes (`WF(Elapse)`). Nothing is assumed of the servers or of the command.

Deadlock is checked in every run.

### Findings

`rr_starvation`: the comment in `mptcp_bpf_rr.c` (lines 90-96) says the previous
pick is usually the one whose buffer just filled, and that a counter "has no
position to lose, so paths dropping in and out cannot derail it". The code takes
`turn % nr` with `nr` counted anew on each call. When the buffers of the previous
picks fill and drain in step with the calls, the residues can step over one
subflow forever, although it could always take data. Once buffers stop moving
(`StableRotation`) the rotation is right again.

### Limits of the code the properties leave out

Met while modelling, and the reason for a clause of a property:

- *a kill inside 002-error* (`missed`). 002-error (365-369) says that without the
  rebuild "a dead nexthop stays in the route". Both the endpoint and the rebuild
  are behind the test at 292, whether the WAN still has an endpoint, and the endpoint
  goes first (312). A tracker killed between the two leaves the nexthop; its
  successor applies the failure again as far as 292, finds no endpoint, and stops. The
  nexthop stays until another WAN's hook rebuilds the route. `missed` marks these
  failures, and those that saw the nexthop only in another tracker's unfinished
  rebuild; `NoDeadPath` and `FailsOver` hold of all others.
- *the fallback beside a rebuild* (`Recovers`, `SteadyReturn`). 002-error reads whether its WAN is in the
  balanced route before it has the lock (371). A WAN that was not, and that another
  tracker's rebuild has put in meanwhile, has nothing to drop and goes on to `set_route`, which
  replaces the route with every WAN in it by the first one that is up. The others come back
  one by one, with the next 003-up of each, and until then carry nothing though they
  are up. So the properties promise a nexthop again and again, and for good only once
  no WAN changes any more.
- *a name that fails to resolve* (`Named`). `_do_check_ip` returns before `set_ip`
  (335), so `_srv_prev_up` stays 1, but the mark is cleared (532, 650). When the
  name resolves again the check is in the steady state and does not set the mark.
  `Served` therefore promises the mark of a server configured by address. For a
  backup it matters more: without its mark `_failback_hold` sees no backup in use
  and goes back to the master at once, whatever the setting. `BackupKept` is
  checked with backups configured by address; with a name among them TLC finds it
  violated.
- *a kill inside a change of server*. Between `set_ip`'s first writes and
  `_apply_server_config` (455-469) the proxy points at the new server and the VPNs
  at the old one, with two marks for a moment; a tracker started then finds the
  configuration right and changes nothing. `Switch` is one step, kills fall
  between checks.
- *two masters*. The wizard of the web interface (`wizard.js` 643) allows one,
  `_check_servers` walks any number. With two, a round that finds the hold on for the
  first may go back to the second, whose delay is over: the round ends in the hold with
  a master in use, until the next one. `HoldMeansBackup` is for one master; `Served` and
  `BackupKept` are not. Two masters that answer also take over from each other in every
  round, which line 559 prevents for backups, so `Settles` needs one master too.
- *openmptcprouter-vps and the hold*. It reads `failback_hold` (330) to leave a
  master that is kept waiting alone; the hold is written at the end of the round
  that found the master, and a configuration fetched before that moves the
  tunnels to it. That service is not modelled.

## 4. Proofs

`WeightRR_proofs` is about `WeightRR` for every number of subflows, every set of weights,
every evictable set and every number of changes under a call, assuming only
`SubflowsAssumption` and `WeightRRAssumption`.

- `TypeCorrect`: `Spec => []TypeOK`. It is not free of content: every walk must
  stay on the list and the totals stay natural numbers, which needs
  `WeightPositive`, that no map content makes a weight zero.
- `Invariance`: `Spec => []IInv`. The properties are about the step in which a
  call returns, so the invariant has to carry what earlier walks established:
  `SeenIsCurrent` (history includes the present), `RoundIsFresh` (nothing is
  bumped before the second walk), `BackupsJustified` (the check walk has
  seen every earlier subflow idle), `WinnerPermitted` (the winner is entitled and
  still has memory, since nothing is pushed under the lock; without a winner nobody was
  bumped), and, while nothing has changed under the call, `QuietScreen` and
  `QuietRound` (what the walks concluded is still so). None of these alone is
  inductive.
- `TurnsNeverWasted`: `Spec => TurnSpentOnlyOnSend`. From `WinnerPermitted`: the
  last look at the winner's memory cannot fail, so the -1 after the debit is
  unreachable, and every earlier -1 comes before the first bump.
- `ContractKept`: `Spec => KeepsContract`. `Call` maps to `Begin`, returns to
  `Schedule` or `Refuse`, the kernel to `Disturb`, all else stutters.

Then come the current weights. A sum over a function is written
`Total(f, A)`, the number of units of a finite set (`Units`) less that of the negative
ones, so that the theorems of the library about the cardinality of finite sets give
its laws (`TotalAdd`, `TotalUpdate`...) without an induction of ours.

- `CreditNeverLost`: `Spec => CreditKept`. What the subflows hold beyond the bumps of
  the round under way (`Balance`) changes in two steps only: the map drops an entry, or a winner
  whose entry it has dropped in the round is debited, which writes back what the walk
  had read. The second needs `CreditInv` (below), that the entry of the best so far is as it was
  read, or gone. `CreditAddsUp`: `Spec => []CreditConserved` when `Evictable = {}`.
- `NoDrift`: `Spec => []CwBounded`, with or without evictions. Conservation alone
  bounds nothing: one subflow could owe what another is owed, more and more; and with
  evictions there is no conservation. The invariant `NoGroupAhead` says of *every
  set* of k subflows that together they hold, and that together they owe, at most
  `Ceiling(k) = k (Span - k) N MaxWeight`, a concave function of k. A round hands out at most
  `N MaxWeight` and takes it from the winner, who has the largest current weight of
  those bumped. A group with a bumped member but without the winner, were it over its
  ceiling, would have its members, hence the winner, above the slope of the ceiling,
  and the group with the winner added would have been over its own; a group with
  the winner that fell below its floor would, likewise, be so together with a bumped
  subflow it leaves out: `DebitKeepsCeilings`, from `CeilingArch`. If the map keeps its
  entries, `Span = N`: the ceiling of all subflows is zero, which is `CreditConserved`
  again. If it drops some, `Span = 2 N` and the ceiling grows with k, so that a
  group some of whose members are set to zero is a smaller group, within a lower
  ceiling (`DropKeepsCeilings`). While a round is under way `gain` is what it has bumped
  so far and the bound is on the rest; `kept` is the current weights without the
  drops of subflows it has bumped, because the round goes on with the values it has
  read and writes the winner's entry back from them. With k = 1 this gives `Drift`.
  Weights that change between two visits, candidates that come and go and
  buffers that fill cannot break it, as the proof asks nothing of them but weights
  of at most `MaxWeight`.
- `NobodyPassedOver`: `WaitSpec => []BypassBounded`, the safety half of the absence of
  starvation, evictions included. `WaitPays`: a subflow that has been passed over k
  times since it last won, or lost its own entry, has a credit of k less `Drift` at least, as each of those rounds
  has added a weight, which is positive, and winning leaves it at `-Drift` at
  worst; but between two calls nobody has more than `Drift`.
- `SharesAreExact`: `ShareSpec => []ExactShare`, and `NobodyRoundAhead`
  (`[]NeverAhead`), without hypothesis: any number of subflows in any state, any
  weights and roles. `CwIsLag` is why: undisturbed, the current weight of a member
  of the rotation *is* the share it is behind by, times the period, plus the bump
  of the round under way. These add up to a period at the end of a round, so the
  largest is positive and its owner is not ahead; that is `NeverAhead` after
  the debit. At the end of a period nobody is ahead, so each has won at most
  its weight, and as the rounds add up to the weights, exactly that.
- `NobodyFarBehind`, `BehindInSixths` and `ThreeInterleave`: how far behind its share a
  subflow falls on the way. A bound on one subflow's lag is not inductive; one on what
  the members of every group are owed together is (`GroupsBehind`, at most k times
  a slope `s_k` periods for k of them). A round raises what a group is owed by its weights
  alone, if the winner is outside; the winner had at least as much as each of the
  group, so the group and the winner were owed more than a k-th part on top,
  which their own bound forbids if the slopes fall by `1/(k+1)` from k to k + 1. From
  `s_N = 0`, as all are owed nothing together, that gives one subflow
  1/2 + 1/3 + ... + 1/N periods: `NobodyFarBehind`, with the fractions as multiples of
  a D-th (`Slopes`), so that it stays in the integers. `BehindInSixths` has slopes in closed
  form, `(2N - 1)/6` periods in all, and from it `Interleaved` for three subflows, whatever
  their weights: `ThreeInterleave`.

`Bkup_proofs`, `First_proofs` and `Red_proofs` follow the same argument. Each
scheduler's `IInv` has four parts: its types; `SeenIsCurrent`; `WalkJustified`
(`PassJustified` in `Red`), what the walk under way may rely on from the ones
before it, chiefly that every position passed by the check for an active
non-backup subflow is in `idleSeen`; and, as long as nothing has changed
under the call, `QuietWalk` (`QuietPass`), what those walks concluded and is still
true. The kernel's steps are dealt with in the lemma `KernelStep` of each module: during a call they only add to
what has been seen and free memory without taking any.

- `Bkup_proofs`: `TypeCorrect`, `ContractKept`. The code decides in a single
  walk; that it needs no second one is what `WalkJustified` shows.
- `First_proofs`: `TypeCorrect`, and `ContractKept` under `N <= MAX_SUBFLOWS`.
- `Red_proofs`: `TypeCorrect`, `MarksJustified`, which needs no hypothesis, and
  `Redundant` (`Spec => CopiesEverywhere`) under `N <= MAX_SUBFLOWS`.

The hypothesis says that the list is no longer than the limit of the scheduling
walks. It is necessary: of a longer list they leave the tail out while
`has_active_nonbackup()` does not, so a call may refuse with a usable subflow in
the tail. The limit in the code is 16.

`RoundRobin_proofs`: `TypeCorrect`, `TurnsNeverWasted`
(`Spec => TurnSpentOnlyOnSend`) and `ContractKept`, for every number of subflows,
more than MAX_SUBFLOWS included: bpf_rr asks whether any other subflow is active
only once its count came to nothing, and a call that cannot find its target gives
up without a turn. Until the storage exists a call maps to `Allocate` or `Fail`; nothing takes it
away again (`StorageKept`). `RotatesByRank` is the safety half of the rotation: a
scheduling walk the kernel left alone serves the subflow whose rank in the round is the
turn modulo the size of the round, and moves the turn on by one, so that undisturbed calls over
one set leave nobody out (`TargetIsTurn`: the walk was given the turn modulo a
count that is that size). Besides the types and `SeenIsCurrent`, the invariant bounds the
counters (`Counters`), says what `use_backup` rests on (`BackupsJustified`) and,
while nothing has changed under the call, that `nr` is the number of usable
subflows passed and the target one of them (`Quiet`).

`Retrans_proofs`: `TypeCorrect`, `ChoicesEntitled` (`ChoiceIsEntitled`),
`RefusalsJustified` (`RefusesOnlyWithReason`). The invariant says what the least
timeout count and the two candidates tell of the positions passed, as they were
when they were passed.

`BalancedRoute_proofs` is for any set of WANs, any steady ones among them and any
`TriesUp`. `IInv` is `TypeOK` and two parts. `LoopInv` relates the loop to the
hooks and the probes: a tracker whose previous status is ERROR has marked the
state down, and the streak it counts is no longer than that of the probes, with
what a restart may lose accounted for by `started`. `RouteInv` is about the rebuilds: the lock
is held exactly from computing to installing, so there is one plan at a time; and
`Covered`, which is the nexthop half of `NoDeadPath` for the nexthops of that plan as well as
those of the route, and without which it is not inductive. From these:

- `TypeCorrect`; `HeldStartIsNoFailure` (`HeldIsNoFailure`);
- `DeadPathsLeave` (`NoDeadPath`): the nexthop of a down WAN has its own
  tracker still to come, because it marks its state *before* it waits for the
  lock and everybody computes under it; and its endpoint is off but while the tracker
  is about to switch it off, or was killed before it could and will apply the failure
  again (`started`): the only step that switches one on is 003-up's;
- `OneRebuildAtATime`, mutual exclusion, which the last one rests on;
- `ImplementsWanStatus` (`Debounced`): `MarkDown` maps to `TakeOut`, `MarkUp` to
  `PutBack`, `Cycle` to `Probe`, everything else, the kills included, stutters.

`ServerTracker_proofs` is for any masters and backups, any names among them, any
number of kills and reboots, and servers that come and go between any two checks.
`IInv` is `TypeOK` and four parts: `NamesOnly`, only a name fails to resolve;
`MarksAgree`, nobody but the server in use is marked, and if its last check
found it up it has its redirections and its mark, which is what makes it right for
the steady state to set neither again; `UpIsServed`, the server that made `oneserverup`
true is behind the walk, so that the checks to come leave it alone; `StateIsWritten`,
the state files and `_failback_state` agree between two rounds. From these:

- `TypeCorrect` and `InUseIsServed` (`Spec => []Served`), without hypothesis. Three more
  invariants carry what a round has learnt to its end: `SilentIsCut`, the server in use
  has lost its redirections if its last check found it silent; `SilentSoFar`, as long
  as none is up, whoever the round has asked is unmarked and was silent, and the pass that
  forces the masters asks those that were held; `BackupsAreLast`, a backup is gone
  over to only when no master is up, and no master is asked after that.
- `BackupIsKept` (`Spec => BackupKept`), assuming `BackupsByAddress`: with a name
  among the backups it is false (see the limits). The property leaves out the pass
  that forces the masters although the code checks no setting there; that this pass
  finds no backup in use that is up is `ForcedFairly`: a pass over the backups that
  ends with none up has found each of them silent, and nothing but a check
  changes what the tracker found.
- `HoldIsForBackup` (`Spec => []HoldMeansBackup`), assuming `BackupsByAddress` and
  `OneMaster`. `HeldByBackup`: the master is held for a backup in use, and as it
  is the only one nobody takes over from that backup in the rest of the pass; if
  the backup is silent then, another one is up or the masters are forced and the
  hold is gone.

`IInv`, `SilentSoFar`, `BackupsAreLast`, `ForcedFairly` and `HeldByBackup` of
`ServerTracker`, `CreditInv`, `ShareInv`, `GroupsBehind` (with the slopes of four subflows)
and `WaitPays` of the `WeightRR` modules, and `TargetIsTurn` of `RoundRobin_proofs` were checked with TLC on instances of the
size of the runs, with two masters too, before they were proved.

Only model-checked:

- liveness (`NoStarvation`, `StableRotation`, `MovesToBackup`, `FailsOver`,
  `StuckDataMoves`, `Recovers`, `SteadyReturn`, `StatusFollows`, `EndsWhereItShould`, `Settles`):
  fairness and ENABLED are out of the prover's reach;
- the upper half of `Interleaved` with four subflows, that none falls a whole round behind.
  For up to three `ThreeInterleave` proves it; the bound of `NobodyFarBehind` is 13/12
  periods for four, a little more than a round, and of five TLC finds one a whole round
  behind.

## 5. Not modelled

- `get_send` of `bpf_ecf`, `bpf_overflow`, `bpf_blest` (waiting for a faster
  subflow) and of `bpf_burst`, `bpf_weight` (least time to drain): the decision
  is arithmetic over estimates of the kernel (srtt, cwnd, pacing rate), and that a
  wait ends is a promise of the kernel, not of this code. A model that picks the
  outcome of the comparison freely would say little about them. `bpf_dscp` and
  its manager depend on traffic classes the same way.
- Of the balanced route: the metric 999 route of backup WANs and the IPv6 ones,
  built by the same steps under the same lock (the IPv6 ones without it);
  weights of the nexthops; an empty route (all WANs down) beyond `FallBack`; the 30 s after which a
  rebuild goes ahead without the lock, a documented last resort under which
  `NoDeadPath` fails (`Take_Unlocked`); removal of the lock's file by
  `_cleanup_locks`, which has the same effect.
- Of the trackers: the gateway caches, custom hosts and address families, which
  are inside the outcome of a probe; disabled and monitor-only interfaces; the
  intervals; `restart_down` and the modem resets of 002-error, whose loop goes
  through netifd and hotplug.
- `_release_down` and `_restore_balancing` of the service: every WAN stays tracked.
- The lock directory of 003-up: it keeps runs of one WAN's hook apart, which
  `BalancedRoute` has by construction, one process per WAN.
- The bookkeeping of the weight manager's keys against the 64 entries of its
  maps; omr-quota and the trackers of proxies and tunnels.
- Of the server tracker: servers with several addresses (the second one of a
  backup is never added to OpenVPN's remotes, 578, so its check finds the
  configuration wrong every time); the `ip_down` list, mails and scripts, which
  only report; the background check of idle backups and `reachable`, which only the
  status page reads; how a check is made (ping, API, interfaces, quality).
- The configuration generators and clients of the inventory's last row, whose
  correctness is in text formats and remote systems rather than in states.
