--------------------------- MODULE ServerTracker ---------------------------
(***************************************************************************)
(* The server tracker (omr-tracker/files/bin/omr-tracker-server): one      *)
(* process that checks the VPS in rounds, the masters and then, while no   *)
(* master is in use, the backups, and points the proxy and the VPNs at     *)
(* the one to use.  The failback setting keeps it on a backup that is in   *)
(* use although the master answers again: until a delay is over, or until  *)
(* "/etc/init.d/omr-tracker failback" asks for the master.                 *)
(*                                                                         *)
(* Every server is configured with one address, its own.  A check of a     *)
(* server, with the change of server it may make, is one step; between two *)
(* of them servers come and go, failback is asked for, and the tracker is  *)
(* killed or the router rebooted.                                          *)
(***************************************************************************)
EXTENDS Integers

CONSTANTS
    Masters,        \* the servers with the option master,
    Backups,        \* and those with backup, numbered in configuration order
    Named,          \* servers configured by a name, which may not resolve
    MaxRestarts     \* bound on kills and reboots

ASSUME ServerAssumption ==
    /\ Masters \union Backups \subseteq Nat
    /\ Masters \intersect Backups = {}
    /\ Named \subseteq Masters \union Backups
    /\ MaxRestarts \in Nat

Server == Masters \union Backups

VARIABLES
    reach,      \* what a check of the server would find now
    inUse,      \* the server the proxy and VPN configuration points at
    redirs,     \* the redirections into the proxy are enabled
    current,    \* /var/state: the servers marked as the one in use
    hold,       \* /var/state: omr.failback_hold
    now,        \* /var/state: omr.failback_now
    status,     \* /var/state: omr.server
    asking,     \* "failback" was run, and has read hold but not written now
    failback,   \* omr-tracker.server.failback, as the tracker was started
    prevUp,     \* _srv_prev_up: "" unknown, else what the last check found
    since,      \* _failback_since: not set, set, or failback_delay ago
    holdSeen,   \* _failback_state: hold as this tracker last wrote it
    pass,       \* what the round is at
    todo,       \* the servers this pass has yet to check
    oneUp,      \* oneserverup
    held,       \* failback_held
    force,      \* failback_force
    restarts

configVars == <<inUse, redirs>>
stateVars == <<current, hold, now, status>>
shellVars == <<failback, prevUp, since, holdSeen>>
roundVars == <<pass, todo, oneUp, held, force>>
vars == <<reach, configVars, stateVars, asking, shellVars, roundVars, restarts>>

Modes == {"immediate", "delayed", "manual"}

Findings(s) == {"answers", "silent"} \union (IF s \in Named THEN {"unresolved"} ELSE {})

TypeOK ==
    /\ reach \in [Server -> {"answers", "silent", "unresolved"}]
    /\ inUse \in Server
    /\ redirs \in BOOLEAN
    /\ current \subseteq Server
    /\ hold \in BOOLEAN /\ now \in BOOLEAN /\ asking \in BOOLEAN
    /\ status \in {"", "up", "down"}
    /\ failback \in Modes
    /\ prevUp \in [Server -> {"", "0", "1"}]
    /\ since \in [Masters -> {"", "set", "over"}]
    /\ holdSeen \in {"", "0", "1"}
    /\ pass \in {"idle", "masters", "backups", "forced"}
    /\ todo \subseteq (IF pass = "backups" THEN Backups ELSE Masters)
    /\ oneUp \in BOOLEAN /\ held \in BOOLEAN /\ force \in BOOLEAN
    /\ restarts \in 0..MaxRestarts

(* What a process that starts has in its variables. *)
Fresh ==
    /\ failback' \in Modes
    /\ prevUp' = [s \in Server |-> ""]
    /\ since' = [m \in Masters |-> ""]
    /\ holdSeen' = ""
    /\ pass' = "idle"
    /\ todo' = {}
    /\ oneUp' = FALSE
    /\ held' = FALSE
    /\ force' = FALSE

(* A router that has just booted: the configuration is that of some        *)
(* earlier day, /var/state is empty.                                       *)
Init ==
    /\ reach \in {r \in [Server -> {"answers", "silent", "unresolved"}] :
                    \A s \in Server : r[s] \in Findings(s)}
    /\ inUse \in Server
    /\ redirs \in BOOLEAN
    /\ current = {}
    /\ hold = FALSE /\ now = FALSE /\ asking = FALSE
    /\ status = ""
    /\ failback \in Modes
    /\ prevUp = [s \in Server |-> ""]
    /\ since = [m \in Masters |-> ""]
    /\ holdSeen = ""
    /\ pass = "idle"
    /\ todo = {}
    /\ oneUp = FALSE /\ held = FALSE /\ force = FALSE
    /\ restarts = 0

-----------------------------------------------------------------------------
(* The round. *)

Walk(p, servers) == pass' = p /\ todo' = servers

StartRound ==
    /\ pass = "idle"
    /\ Walk("masters", Masters)
    /\ oneUp' = FALSE
    /\ held' = FALSE
    /\ force' = FALSE
    /\ UNCHANGED <<reach, configVars, stateVars, asking, shellVars, restarts>>

(* The servers of a pass are checked in configuration order. *)
Checks(s) ==
    /\ s \in todo
    /\ \A t \in todo : s <= t
    /\ todo' = todo \ {s}
    /\ UNCHANGED <<reach, hold, status, asking, failback, holdSeen, pass, restarts>>

(* At the end of its check, no server being up yet marks s as not in use. *)
UnmarkUnlessUp(s) == current' = IF oneUp THEN current ELSE current \ {s}

(* An address that does not resolve ends the check before set_ip: what was *)
(* known of s stays.                                                       *)
Unresolved(s) ==
    /\ reach[s] = "unresolved"
    /\ UnmarkUnlessUp(s)
    /\ UNCHANGED <<configVars, now, prevUp, since, oneUp, held, force>>

(* _disable_ss_redirs_by_ip, which runs when s stops answering, finds the  *)
(* redirections only if the proxy is pointed at s.                         *)
Silent(s) ==
    /\ reach[s] = "silent"
    /\ prevUp' = [prevUp EXCEPT ![s] = "0"]
    /\ redirs' = (redirs /\ ~(inUse = s /\ prevUp[s] # "0"))
    /\ UnmarkUnlessUp(s)
    /\ since' = [m \in Masters |-> IF m = s THEN "" ELSE since[m]]
    /\ UNCHANGED <<inUse, now, oneUp, held, force>>

(* Mutant: a server counts as up on a transition only. *)
Steady_Transition(s) ==
    /\ prevUp' = [prevUp EXCEPT ![s] = "1"]
    /\ IF prevUp[s] # "1"
       THEN redirs' = TRUE /\ current' = current \union {s} /\ oneUp' = TRUE
       ELSE UNCHANGED <<redirs, current, oneUp>>
    /\ UNCHANGED inUse

(* s answers and is in use: only a transition has more to do. *)
Steady(s) ==
    /\ prevUp' = [prevUp EXCEPT ![s] = "1"]
    /\ IF prevUp[s] # "1"
       THEN redirs' = TRUE /\ current' = current \union {s}
       ELSE UNCHANGED <<redirs, current>>
    /\ oneUp' = TRUE
    /\ UNCHANGED inUse

(* Mutant: the other servers stay marked. *)
Switch_NoDisable(s) ==
    /\ inUse' = s
    /\ current' = current \union {s}
    /\ redirs' = TRUE
    /\ prevUp' = [prevUp EXCEPT ![s] = "1"]
    /\ oneUp' = TRUE

(* s answers and the configuration points elsewhere: it is changed, with   *)
(* _disable_current and _apply_server_config.                              *)
Switch(s) ==
    /\ inUse' = s
    /\ current' = {s}
    /\ redirs' = TRUE
    /\ prevUp' = [prevUp EXCEPT ![s] = "1"]
    /\ oneUp' = TRUE

(* _failback_hold: only with a backup in use is a master held. *)
MayHold == ~force /\ failback # "immediate" /\ current \intersect Backups # {}

Held(m) == MayHold /\ ~now /\ ~(failback = "delayed" /\ since[m] = "over")

(* Mutant: the clock of the delay is never started. *)
Hold_NoClock(m) ==
    /\ held' = TRUE
    /\ UnmarkUnlessUp(m)
    /\ UNCHANGED <<configVars, now, prevUp, since, oneUp, force>>

Hold(m) ==
    /\ held' = TRUE
    /\ since' = [since EXCEPT ![m] = IF failback = "delayed" /\ @ = "" THEN "set" ELSE @]
    /\ UnmarkUnlessUp(m)
    /\ UNCHANGED <<configVars, now, prevUp, oneUp, force>>

(* A request is used up by the failback it asks for, of every master. *)
TakeRequest ==
    /\ now' = (now /\ ~MayHold)
    /\ force' = (force \/ (MayHold /\ now))

CheckMaster(m) ==
    /\ pass \in {"masters", "forced"}
    /\ Checks(m)
    /\ \/ Unresolved(m)
       \/ Silent(m)
       \/ /\ reach[m] = "answers"
          /\ inUse # m
          /\ Held(m)
          /\ Hold(m)
       \/ /\ reach[m] = "answers"
          /\ inUse # m
          /\ ~Held(m)
          /\ Switch(m)
          /\ TakeRequest
          /\ since' = [since EXCEPT ![m] = ""]
          /\ UNCHANGED held
       \/ /\ reach[m] = "answers"
          /\ inUse = m
          /\ Steady(m)
          /\ since' = [since EXCEPT ![m] = ""]
          /\ UNCHANGED <<now, held, force>>

(* Mutant: every backup is checked, whatever the ones before it answered.  *)
CheckBackup_All(b) ==
    /\ pass = "backups"
    /\ Checks(b)
    /\ \/ Unresolved(b)
       \/ Silent(b)
       \/ /\ reach[b] = "answers"
          /\ IF inUse = b THEN Steady(b) ELSE Switch(b)
          /\ UNCHANGED <<now, since, held, force>>

(* Once a backup has answered, the next ones are not checked. *)
CheckBackup(b) ==
    /\ pass = "backups"
    /\ Checks(b)
    /\ \/ oneUp /\ UNCHANGED <<configVars, current, now, prevUp, since, oneUp, held, force>>
       \/ ~oneUp /\ Unresolved(b)
       \/ ~oneUp /\ Silent(b)
       \/ /\ ~oneUp
          /\ reach[b] = "answers"
          /\ IF inUse = b THEN Steady(b) ELSE Switch(b)
          /\ UNCHANGED <<now, since, held, force>>

(* Mutant: the pass over the backups takes every server. *)
EndMasters_All ==
    /\ pass = "masters" /\ todo = {} /\ ~oneUp
    /\ Walk("backups", Server)
    /\ UNCHANGED <<reach, configVars, stateVars, asking, shellVars, oneUp, held, force,
                   restarts>>

EndMasters ==
    /\ pass = "masters" /\ todo = {} /\ ~oneUp
    /\ Walk("backups", Backups)
    /\ UNCHANGED <<reach, configVars, stateVars, asking, shellVars, oneUp, held, force,
                   restarts>>

(* Mutant: the hold is still on when the masters are forced. *)
ForceMasters_StillHeld ==
    /\ pass = "backups" /\ todo = {} /\ ~oneUp /\ held
    /\ force' = TRUE
    /\ Walk("forced", Masters)
    /\ UNCHANGED <<reach, configVars, stateVars, asking, shellVars, oneUp, held, restarts>>

(* Mutant: they are forced although a backup has answered. *)
ForceMasters_Eager ==
    /\ pass = "backups" /\ todo = {} /\ held
    /\ held' = FALSE
    /\ force' = TRUE
    /\ Walk("forced", Masters)
    /\ UNCHANGED <<reach, configVars, stateVars, asking, shellVars, oneUp, restarts>>

(* A master kept waiting is taken back as soon as no backup answers. *)
ForceMasters ==
    /\ pass = "backups" /\ todo = {} /\ ~oneUp /\ held
    /\ held' = FALSE
    /\ force' = TRUE
    /\ Walk("forced", Masters)
    /\ UNCHANGED <<reach, configVars, stateVars, asking, shellVars, oneUp, restarts>>

RoundDone ==
    /\ pass # "idle" /\ todo = {}
    /\ pass = "masters" => oneUp
    /\ pass = "backups" => oneUp \/ ~held

(* The state is written on a change only; a hold that ends takes with it a *)
(* request nothing has used.                                               *)
EndRound ==
    /\ RoundDone
    /\ holdSeen' = IF held THEN "1" ELSE "0"
    /\ IF holdSeen' # holdSeen
       THEN hold' = held /\ now' = (now /\ held)
       ELSE UNCHANGED <<hold, now>>
    /\ status' = IF oneUp THEN "up" ELSE "down"
    /\ Walk("idle", {})
    /\ UNCHANGED <<reach, configVars, current, asking, failback, prevUp, since, oneUp, held,
                   force, restarts>>

Round ==
    \/ StartRound \/ EndMasters \/ ForceMasters \/ EndRound
    \/ \E s \in Server : CheckMaster(s) \/ CheckBackup(s)

-----------------------------------------------------------------------------
(* Around it. *)

(* failback_delay has passed since the master was first held. *)
Elapse(m) ==
    /\ since[m] = "set"
    /\ since' = [since EXCEPT ![m] = "over"]
    /\ UNCHANGED <<reach, configVars, stateVars, asking, failback, prevUp, holdSeen, roundVars,
                   restarts>>

(* "/etc/init.d/omr-tracker failback" reads the hold and then writes. *)
Ask ==
    /\ \/ ~asking /\ hold /\ asking' = TRUE /\ UNCHANGED now
       \/ asking /\ asking' = FALSE /\ now' = TRUE
    /\ UNCHANGED <<reach, configVars, current, hold, status, shellVars, roundVars, restarts>>

(* A server, or the way to it, fails or comes back; a name stops or starts *)
(* to resolve.                                                             *)
Flip(s) ==
    /\ \E found \in Findings(s) \ {reach[s]} : reach' = [reach EXCEPT ![s] = found]
    /\ UNCHANGED <<configVars, stateVars, asking, shellVars, roundVars, restarts>>

(* The tracker is killed and started again, with another failback setting  *)
(* perhaps.                                                                *)
Restart ==
    /\ restarts < MaxRestarts
    /\ restarts' = restarts + 1
    /\ Fresh
    /\ UNCHANGED <<reach, configVars, stateVars, asking>>

(* /var/state does not outlive a reboot, the configuration does. *)
Reboot ==
    /\ restarts < MaxRestarts
    /\ restarts' = restarts + 1
    /\ Fresh
    /\ current' = {}
    /\ hold' = FALSE
    /\ now' = FALSE
    /\ status' = ""
    /\ asking' = FALSE
    /\ UNCHANGED <<reach, configVars>>

Next ==
    \/ Round
    \/ \E m \in Masters : Elapse(m)
    \/ Ask
    \/ \E s \in Server : Flip(s)
    \/ Restart
    \/ Reboot

Spec == Init /\ [][Next]_vars

(* The loop goes on and time passes. *)
FairSpec ==
    /\ Spec
    /\ WF_vars(Round)
    /\ \A m \in Masters : WF_vars(Elapse(m))

-----------------------------------------------------------------------------
(* At the end of a round in which a server was up, the one the proxy and   *)
(* the VPNs point at is marked as the one in use, no other is (what        *)
(* mptcpovervpn and openvpnbonding connect to), and the redirections are   *)
(* on, though a check in the steady state sets none of the three again.    *)
(* The mark is promised for a server configured by address only: one whose *)
(* name failed to resolve once loses it until its next transition.  A      *)
(* backup is in use only if a master is held for it or every master was    *)
(* silent (but for names, again).  A round in which none was up has asked  *)
(* every server, held ones too: all with an address were silent, none is   *)
(* marked, and nothing is redirected into a proxy that is gone.            *)
Served ==
    pass = "idle" /\ holdSeen # ""
        => IF status = "up"
           THEN /\ redirs
                /\ current \subseteq {inUse}
                /\ inUse \in Named \/ inUse \in current
                /\ inUse \in Backups /\ holdSeen = "0"
                    => \A m \in Masters \ Named : prevUp[m] = "0"
           ELSE /\ \A s \in Server \ Named : prevUp[s] = "0"
                /\ current = {}
                /\ inUse \in Named \/ ~redirs

(* omr.failback_hold keeps openmptcprouter-vps away from the masters: it   *)
(* is set between two rounds only with a backup in use, marked as such.    *)
(* "Only one server can be master" (wizard.js:643): with two, TLC finds a  *)
(* round that holds the one and goes back to the other.                    *)
HoldMeansBackup ==
    pass = "idle" /\ holdSeen = "1" => hold /\ inUse \in Backups /\ inUse \in current

(* A backup in use that answered its last check is not left for a master   *)
(* before the delay is over, or, with manual failback, before it is asked  *)
(* for: not by the pass that forces the masters either, nor in a round the *)
(* servers change under (comment above _failback_hold).                    *)
BackupKept ==
    [][prevUp[inUse] = "1" /\ inUse \in Backups /\ inUse' \in Masters
        => failback = "immediate" \/ now \/ since[inUse'] = "over"]_vars

(* omr.server, which the hooks and the pages read, tells in the end        *)
(* whether any server answers: a master held while the last backup goes    *)
(* does not count as none.                                                 *)
StatusFollows ==
    /\ \A s \in Server : <>[](reach[s] = "answers") => <>[](status = "up")
    /\ <>[](\A s \in Server : reach[s] # "answers") => <>[](status = "down")

(* With no master answering any more and a backup that does, the traffic   *)
(* goes to a backup for good, whatever was held, asked for or killed.  A   *)
(* master that answers for good is used in the end: with manual failback   *)
(* only if no backup answers (comments in _failback_hold and               *)
(* _check_servers).                                                        *)
FailsOver(b) ==
    <>[](reach[b] = "answers" /\ \A m \in Masters : reach[m] # "answers")
        => <>[](inUse \in Backups)

FailsBack(m) ==
    /\ <>[](reach[m] = "answers")
    /\ <>[](failback # "manual" \/ \A b \in Backups : reach[b] # "answers")
    => <>[](inUse \in Masters)

EndsWhereItShould ==
    /\ \A b \in Backups : FailsOver(b)
    /\ \A m \in Masters : FailsBack(m)

(* While the servers stay as they are, the tracker does not move between   *)
(* them for ever: two backups that answer do not take over in turn         *)
(* (comment in _check_backup).                                             *)
Settles == <>[][UNCHANGED reach]_vars => \E s \in Server : <>[](inUse = s)

-----------------------------------------------------------------------------
(* The inductive invariants.                                               *)

OneMaster == \A m, n \in Masters : m = n
BackupsByAddress == Named \intersect Backups = {}

(* Only an address given by a name fails to resolve. *)
NamesOnly == \A s \in Server : reach[s] \in Findings(s)

(* Nothing but the server in use is ever marked.  The steady state, which  *)
(* sets neither, is one in which the redirections are on and the mark is   *)
(* there.                                                                  *)
Marked == redirs /\ (inUse \in Named \/ inUse \in current)
MarksAgree ==
    /\ current \subseteq {inUse}
    /\ prevUp[inUse] = "1" => Marked

(* The server that made oneserverup true is in use and behind the walk:    *)
(* the checks still to come do not take its redirections away.             *)
UpIsServed == oneUp => Marked /\ inUse \notin todo

(* Between two rounds the state files say what the last round found; the   *)
(* hold, which is written on a change only, is on whenever this tracker    *)
(* wrote it last.                                                          *)
StateIsWritten ==
    /\ pass = "idle" /\ holdSeen # "" => /\ status = "up" <=> oneUp
                                         /\ holdSeen = "1" <=> held
    /\ holdSeen = "1" => hold

IInv == TypeOK /\ NamesOnly /\ MarksAgree /\ UpIsServed /\ StateIsWritten

(* The redirections of the server in use were taken away when it went      *)
(* silent.                                                                 *)
SilentIsCut == prevUp[inUse] = "0" => ~redirs

(* So long as none is up, whoever the round has asked is unmarked and was  *)
(* silent, unless its name does not resolve; the masters count as asked    *)
(* only if none was held, which the pass that forces them makes sure of.   *)
Gone(s) == s \notin current /\ (s \in Named \/ prevUp[s] = "0")

SilentSoFar ==
    /\ pass = "forced" => force /\ ~held
    /\ ~oneUp =>
        /\ pass \in {"backups", "forced"} => \A b \in Backups \ todo : Gone(b)
        /\ pass # "idle" /\ ~held => \A m \in Masters \ todo : Gone(m)
        /\ pass = "idle" /\ holdSeen # "" => \A s \in Server : Gone(s)

(* A round goes over to a backup once no master is up or held, and checks  *)
(* no master after that.                                                   *)
BackupsAreLast ==
    oneUp /\ inUse \in Backups =>
        /\ pass \in {"backups", "idle"}
        /\ held \/ \A m \in Masters \ Named : prevUp[m] = "0"

(* The masters are forced, or a request of this round was used, only with  *)
(* no backup in use that answered when last checked: a pass over the       *)
(* backups that none answered has seen them all silent.                    *)
ForcedFairly ==
    /\ force => pass # "backups" /\ (pass = "masters" => oneUp)
    /\ pass = "forced" => force
    /\ force /\ inUse \in Backups => prevUp[inUse] # "1"
    /\ pass = "backups" /\ ~oneUp => \A b \in Backups \ todo : prevUp[b] = "0"

(* A master is held with a backup in use, which no other master of the     *)
(* round can take over from, and a round that ends with it held has seen   *)
(* that backup, or the next one, up.                                       *)
HeldByBackup ==
    /\ held => /\ inUse \in Backups
               /\ pass # "forced"
               /\ pass = "masters" => todo = {}
               /\ pass = "idle" => oneUp
    /\ pass = "forced" => force
=============================================================================
