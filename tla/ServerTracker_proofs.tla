------------------------ MODULE ServerTracker_proofs ------------------------
(***************************************************************************)
(* Proofs about ServerTracker for any masters and backups, any number of   *)
(* kills and reboots, and servers that come and go in the middle of a      *)
(* round.                                                                  *)
(***************************************************************************)
EXTENDS ServerTracker, TLAPS

-----------------------------------------------------------------------------
(* What the outcomes of a check have in common.                            *)

(* A check takes one server off the walk and leaves the files of the hold  *)
(* and the status alone. *)
LEMMA CheckMovesOn ==
    ASSUME TypeOK, NEW s \in Server, Checks(s)
    PROVE  /\ s \in todo /\ todo' = todo \ {s}
           /\ todo' \subseteq (IF pass' = "backups" THEN Backups ELSE Masters)
           /\ UNCHANGED <<reach, hold, status, asking, failback, holdSeen, pass, restarts>>
BY DEF Checks, TypeOK

(* The types of the variables a check may write. *)
LEMMA CheckType ==
    ASSUME TypeOK, NEW s \in Server, Checks(s),
           inUse' \in Server, redirs' \in BOOLEAN, current' \subseteq Server,
           now' \in BOOLEAN, prevUp' \in [Server -> {"", "0", "1"}],
           since' \in [Masters -> {"", "set", "over"}],
           oneUp' \in BOOLEAN, held' \in BOOLEAN, force' \in BOOLEAN
    PROVE  TypeOK'
BY CheckMovesOn DEF TypeOK

(* Within a round the state files wait for its end. *)
LEMMA CheckInv ==
    ASSUME IInv, NEW s \in Server, Checks(s), pass # "idle",
           TypeOK', MarksAgree', UpIsServed'
    PROVE  IInv'
<1>1. UNCHANGED <<reach, hold, holdSeen, pass>>
  BY CheckMovesOn DEF IInv
<1>2. QED
  BY <1>1 DEF IInv, NamesOnly, Findings, StateIsWritten

(* A name that does not resolve may cost a mark, but no address fails so.  *)
LEMMA UnresolvedInv ==
    ASSUME IInv, NEW s \in Server, Checks(s), pass # "idle", Unresolved(s)
    PROVE  IInv'
<1>1. TypeOK /\ s \in todo /\ todo' = todo \ {s}
  BY CheckMovesOn DEF IInv
<1>2. /\ UNCHANGED <<inUse, redirs, now, prevUp, since, oneUp, held, force>>
      /\ current' = IF oneUp THEN current ELSE current \ {s}
  BY DEF Unresolved, UnmarkUnlessUp, configVars
<1>3. TypeOK'
  BY <1>1, <1>2, CheckType DEF TypeOK
<1>4. s \in Named
  BY DEF Unresolved, IInv, NamesOnly, Findings
<1>5. MarksAgree'
  BY <1>2, <1>4 DEF IInv, MarksAgree, Marked
<1>6. UpIsServed'
  BY <1>1, <1>2 DEF IInv, UpIsServed, Marked
<1>7. QED
  BY <1>3, <1>5, <1>6, CheckInv

(* A server that is silent loses its redirections and its mark; if another *)
(* one is up already, that is not the server in use.                       *)
LEMMA SilentInv ==
    ASSUME IInv, NEW s \in Server, Checks(s), pass # "idle", Silent(s)
    PROVE  IInv' /\ prevUp'[s] = "0" /\ UNCHANGED <<inUse, now, oneUp, held, force>>
<1>1. TypeOK /\ s \in todo /\ todo' = todo \ {s}
  BY CheckMovesOn DEF IInv
<1>2. /\ UNCHANGED <<inUse, now, oneUp, held, force>>
      /\ prevUp' = [prevUp EXCEPT ![s] = "0"]
      /\ redirs' = (redirs /\ ~(inUse = s /\ prevUp[s] # "0"))
      /\ current' = IF oneUp THEN current ELSE current \ {s}
      /\ since' = [m \in Masters |-> IF m = s THEN "" ELSE since[m]]
  BY DEF Silent, UnmarkUnlessUp
<1>3. TypeOK'
  <2>1. /\ since' \in [Masters -> {"", "set", "over"}]
        /\ prevUp' \in [Server -> {"", "0", "1"}] /\ current' \subseteq Server
    BY <1>1, <1>2 DEF TypeOK
  <2>2. redirs' \in BOOLEAN
    BY <1>1, <1>2 DEF TypeOK
  <2>3. inUse' \in Server /\ now' \in BOOLEAN /\ oneUp' \in BOOLEAN /\ held' \in BOOLEAN
        /\ force' \in BOOLEAN
    BY <1>1, <1>2 DEF TypeOK
  <2>4. QED
    BY <1>1, <2>1, <2>2, <2>3, CheckType
<1>4. prevUp'[s] = "0" /\ \A t \in Server : t # s => prevUp'[t] = prevUp[t]
  BY <1>1, <1>2 DEF TypeOK
<1>5. s # inUse => UNCHANGED redirs /\ (inUse \in current => inUse \in current')
  BY <1>1, <1>2 DEF TypeOK
<1>6. MarksAgree'
  <2>1. current' \subseteq {inUse'}
    BY <1>2 DEF IInv, MarksAgree
  <2>2. ASSUME prevUp'[inUse'] = "1" PROVE Marked'
    <3>1. s # inUse /\ prevUp[inUse] = "1"
      BY <1>1, <1>2, <1>4, <2>2 DEF TypeOK
    <3>2. QED
      BY <1>2, <1>5, <3>1 DEF IInv, MarksAgree, Marked
  <2>3. QED
    BY <2>1, <2>2 DEF MarksAgree
<1>7. UpIsServed'
  <2>1. ASSUME oneUp' PROVE Marked' /\ inUse' \notin todo'
    <3>1. oneUp /\ s # inUse
      BY <1>1, <1>2, <2>1 DEF IInv, UpIsServed
    <3>2. QED
      BY <1>1, <1>2, <1>5, <3>1 DEF IInv, UpIsServed, Marked
  <2>2. QED
    BY <2>1 DEF UpIsServed
<1>8. QED
  BY <1>2, <1>3, <1>4, <1>6, <1>7, CheckInv

(* A server that answers and is pointed at, now or already, ends up marked *)
(* and with its redirections.                                              *)
LEMMA UpInv ==
    ASSUME IInv, NEW s \in Server, Checks(s), pass # "idle",
           (inUse = s /\ Steady(s)) \/ Switch(s),
           now' \in BOOLEAN, held' \in BOOLEAN, force' \in BOOLEAN,
           since' \in [Masters -> {"", "set", "over"}]
    PROVE  IInv' /\ inUse' = s /\ oneUp'
<1>1. TypeOK /\ s \in todo /\ todo' = todo \ {s}
  BY CheckMovesOn DEF IInv
<1>2. inUse' = s /\ oneUp' = TRUE /\ prevUp' = [prevUp EXCEPT ![s] = "1"]
  BY DEF Steady, Switch
<1>3. Marked' /\ current' \subseteq {s}
  <2>1. CASE Switch(s)
    BY <2>1 DEF Switch, Marked
  <2>2. CASE inUse = s /\ Steady(s)
    <3>1. current \subseteq {s} /\ current' \subseteq {s}
      BY <2>2 DEF IInv, MarksAgree, Steady
    <3>2. CASE prevUp[s] = "1"
      BY <1>2, <2>2, <3>1, <3>2 DEF IInv, MarksAgree, Marked, Steady
    <3>3. CASE prevUp[s] # "1"
      BY <1>2, <2>2, <3>1, <3>3 DEF Marked, Steady
    <3>4. QED
      BY <3>1, <3>2, <3>3
  <2>3. QED
    BY <2>1, <2>2
<1>4. TypeOK'
  <2>1. prevUp' \in [Server -> {"", "0", "1"}] /\ current' \subseteq Server
    BY <1>1, <1>2, <1>3 DEF TypeOK
  <2>2. redirs' \in BOOLEAN
    BY <1>3 DEF Marked
  <2>3. QED
    BY <1>1, <1>2, <2>1, <2>2, CheckType
<1>5. MarksAgree' /\ UpIsServed'
  BY <1>1, <1>2, <1>3 DEF MarksAgree, UpIsServed
<1>6. QED
  BY <1>2, <1>4, <1>5, CheckInv

(* A master that is held takes nothing from the server in use. *)
LEMMA HoldInv ==
    ASSUME IInv, NEW m \in Masters, Checks(m), pass # "idle", inUse # m, Hold(m)
    PROVE  IInv' /\ held' /\ UNCHANGED <<inUse, now, prevUp, oneUp, force>>
<1>1. TypeOK /\ m \in Server /\ m \in todo /\ todo' = todo \ {m}
  BY CheckMovesOn DEF IInv, Server
<1>2. /\ UNCHANGED <<inUse, redirs, now, prevUp, oneUp, force>> /\ held' = TRUE
      /\ current' = IF oneUp THEN current ELSE current \ {m}
      /\ since' = [since EXCEPT ![m] = IF failback = "delayed" /\ @ = "" THEN "set" ELSE @]
  BY DEF Hold, UnmarkUnlessUp, configVars
<1>3. TypeOK'
  <2>1. since' \in [Masters -> {"", "set", "over"}]
    BY <1>1, <1>2 DEF TypeOK
  <2>2. QED
    BY <1>1, <1>2, <2>1, CheckType DEF TypeOK
<1>4. MarksAgree' /\ UpIsServed'
  BY <1>1, <1>2 DEF IInv, MarksAgree, UpIsServed, Marked
<1>5. QED
  BY <1>1, <1>2, <1>3, <1>4, CheckInv

-----------------------------------------------------------------------------
(* The inductive invariant of every configuration.                         *)

(* A router that has booted knows nothing and has marked nobody. *)
LEMMA InvInit == Init => IInv
<1> SUFFICES ASSUME Init PROVE IInv
  OBVIOUS
<1>1. TypeOK
  <2>1. /\ reach \in [Server -> {"answers", "silent", "unresolved"}] /\ inUse \in Server
        /\ redirs \in BOOLEAN /\ failback \in Modes
    BY DEF Init
  <2>2. restarts \in 0..MaxRestarts
    <3>1. restarts = 0 /\ MaxRestarts \in Nat
      BY ServerAssumption DEF Init
    <3>2. QED
      BY <3>1
  <2>3. /\ prevUp \in [Server -> {"", "0", "1"}] /\ since \in [Masters -> {"", "set", "over"}]
        /\ current \subseteq Server /\ todo \subseteq (IF pass = "backups" THEN Backups ELSE Masters)
        /\ status \in {"", "up", "down"} /\ holdSeen \in {"", "0", "1"}
        /\ pass \in {"idle", "masters", "backups", "forced"}
    BY DEF Init
  <2>4. /\ hold \in BOOLEAN /\ now \in BOOLEAN /\ asking \in BOOLEAN
        /\ oneUp \in BOOLEAN /\ held \in BOOLEAN /\ force \in BOOLEAN
    BY DEF Init
  <2>5. QED
    BY <2>1, <2>2, <2>3, <2>4 DEF TypeOK
<1>2. NamesOnly
  BY DEF Init, NamesOnly
<1>3. MarksAgree /\ UpIsServed /\ StateIsWritten
  BY DEF Init, MarksAgree, UpIsServed, StateIsWritten
<1>4. QED
  BY <1>1, <1>2, <1>3 DEF IInv

(* What the check of a master does, in the terms of the outcomes above. *)
LEMMA MasterOutcome ==
    ASSUME IInv, NEW m \in Masters, CheckMaster(m)
    PROVE  /\ m \in Server /\ pass \in {"masters", "forced"} /\ Checks(m) /\ IInv'
           /\ \/ UNCHANGED <<inUse, now, prevUp, oneUp, held, force>> /\ reach[m] = "unresolved"
              \/ Silent(m)
              \/ Held(m) /\ inUse # m /\ Hold(m)
              \/ inUse # m /\ ~Held(m) /\ Switch(m) /\ TakeRequest /\ UNCHANGED held
              \/ inUse = m /\ Steady(m) /\ UNCHANGED <<now, held, force>>
<1>1. m \in Server /\ pass \in {"masters", "forced"} /\ pass # "idle" /\ Checks(m) /\ TypeOK
  BY DEF CheckMaster, Server, IInv
<1>2. CASE Unresolved(m)
  BY <1>1, <1>2, UnresolvedInv DEF Unresolved, configVars
<1>3. CASE Silent(m)
  BY <1>1, <1>3, SilentInv
<1>4. CASE inUse # m /\ Held(m) /\ Hold(m)
  BY <1>1, <1>4, HoldInv
<1>5. CASE /\ \/ inUse # m /\ ~Held(m) /\ Switch(m) /\ TakeRequest /\ UNCHANGED held
              \/ inUse = m /\ Steady(m) /\ UNCHANGED <<now, held, force>>
           /\ since' = [since EXCEPT ![m] = ""]
  <2>1. now' \in BOOLEAN
    BY <1>1, <1>5 DEF TakeRequest, TypeOK
  <2>2. force' \in BOOLEAN
    BY <1>1, <1>5 DEF TakeRequest, TypeOK
  <2>3. held' \in BOOLEAN
    BY <1>1, <1>5 DEF TypeOK
  <2>4. since' \in [Masters -> {"", "set", "over"}]
    BY <1>1, <1>5 DEF TypeOK
  <2>5. IInv'
    BY <1>1, <1>5, <2>1, <2>2, <2>3, <2>4, UpInv
  <2>6. QED
    BY <1>1, <1>5, <2>5
<1>6. QED
  BY <1>1, <1>2, <1>3, <1>4, <1>5 DEF CheckMaster

(* And that of a backup. *)
LEMMA BackupOutcome ==
    ASSUME IInv, NEW b \in Backups, CheckBackup(b)
    PROVE  /\ b \in Server /\ pass = "backups" /\ Checks(b) /\ IInv'
           /\ UNCHANGED <<now, held, force>>
           /\ \/ oneUp /\ UNCHANGED <<inUse, prevUp, oneUp>>
              \/ ~oneUp /\ UNCHANGED <<inUse, prevUp, oneUp>> /\ reach[b] = "unresolved"
              \/ ~oneUp /\ Silent(b)
              \/ ~oneUp /\ inUse' = b /\ oneUp'
<1>1. b \in Server /\ pass = "backups" /\ pass # "idle" /\ Checks(b) /\ TypeOK
  BY DEF CheckBackup, Server, IInv
<1>2. CASE oneUp /\ UNCHANGED <<configVars, current, now, prevUp, since, oneUp, held, force>>
  <2>1. todo' = todo \ {b}
    BY <1>1, CheckMovesOn
  <2>2. UNCHANGED <<inUse, redirs, current, now, prevUp, since, oneUp, held, force>>
    BY <1>2 DEF configVars
  <2>3. TypeOK'
    BY <1>1, <2>2, CheckType DEF TypeOK
  <2>4. MarksAgree' /\ UpIsServed'
    BY <2>1, <2>2 DEF IInv, MarksAgree, UpIsServed, Marked
  <2>5. QED
    BY <1>1, <1>2, <2>2, <2>3, <2>4, CheckInv
<1>3. CASE ~oneUp /\ Unresolved(b)
  BY <1>1, <1>3, UnresolvedInv DEF Unresolved, configVars
<1>4. CASE ~oneUp /\ Silent(b)
  BY <1>1, <1>4, SilentInv
<1>5. CASE /\ ~oneUp
           /\ IF inUse = b THEN Steady(b) ELSE Switch(b)
           /\ UNCHANGED <<now, since, held, force>>
  <2>1. /\ now' \in BOOLEAN /\ held' \in BOOLEAN /\ force' \in BOOLEAN
        /\ since' \in [Masters -> {"", "set", "over"}]
    BY <1>1, <1>5 DEF TypeOK
  <2>2. QED
    BY <1>1, <1>5, <2>1, UpInv
<1>6. QED
  BY <1>1, <1>2, <1>3, <1>4, <1>5 DEF CheckBackup

(* A walk over the masters is checked by CheckMaster, one over the backups *)
(* by CheckBackup: nobody is checked in the other role.                    *)
LEMMA RightRole ==
    ASSUME TypeOK, NEW s \in Server
    PROVE  /\ CheckMaster(s) => s \in Masters
           /\ CheckBackup(s) => s \in Backups
BY DEF TypeOK, CheckMaster, CheckBackup, Checks

(* A new walk begins, or the round ends. *)
LEMMA PassInv ==
    ASSUME IInv, StartRound \/ EndMasters \/ ForceMasters \/ EndRound
    PROVE  IInv'
<1>1. TypeOK
  BY DEF IInv
<1>2. /\ UNCHANGED <<reach, inUse, redirs, current, asking, failback, prevUp, since, restarts>>
      /\ oneUp' = FALSE \/ (oneUp' = oneUp /\ todo' = {})  \/ (~oneUp /\ oneUp' = oneUp)
  BY DEF StartRound, EndMasters, ForceMasters, EndRound, Walk, configVars, stateVars, shellVars
<1>3. TypeOK'
  <2>1. /\ pass' \in {"idle", "masters", "backups", "forced"}
        /\ todo' \subseteq (IF pass' = "backups" THEN Backups ELSE Masters)
    BY DEF StartRound, EndMasters, ForceMasters, EndRound, Walk
  <2>2. /\ hold' \in BOOLEAN /\ now' \in BOOLEAN /\ status' \in {"", "up", "down"}
        /\ holdSeen' \in {"", "0", "1"}
        /\ oneUp' \in BOOLEAN /\ held' \in BOOLEAN /\ force' \in BOOLEAN
    <3>1. CASE StartRound \/ EndMasters \/ ForceMasters
      BY <1>1, <3>1 DEF StartRound, EndMasters, ForceMasters, stateVars, shellVars, TypeOK
    <3>2. CASE EndRound
      <4>1. now' \in BOOLEAN
        BY <1>1, <3>2 DEF EndRound, TypeOK
      <4>2. hold' \in BOOLEAN
        BY <1>1, <3>2 DEF EndRound, TypeOK
      <4>3. QED
        BY <1>1, <3>2, <4>1, <4>2 DEF EndRound, TypeOK
    <3>3. QED
      BY <3>1, <3>2
  <2>3. QED
    BY <1>1, <1>2, <2>1, <2>2 DEF TypeOK
<1>4. NamesOnly' /\ MarksAgree' /\ UpIsServed'
  BY <1>2 DEF IInv, NamesOnly, Findings, MarksAgree, Marked, UpIsServed
<1>5. StateIsWritten'
  <2>1. CASE StartRound \/ EndMasters \/ ForceMasters
    BY <2>1
       DEF StartRound, EndMasters, ForceMasters, Walk, stateVars, shellVars, IInv,
           StateIsWritten
  <2>2. CASE EndRound
    <3>1. /\ oneUp' = oneUp /\ held' = held
          /\ holdSeen' = IF held THEN "1" ELSE "0"
          /\ status' = IF oneUp THEN "up" ELSE "down"
          /\ IF holdSeen' # holdSeen THEN hold' = held ELSE hold' = hold
      BY <2>2 DEF EndRound
    <3>2. QED
      BY <1>1, <3>1 DEF IInv, StateIsWritten, TypeOK
  <2>3. QED
    BY <2>1, <2>2
<1>6. QED
  BY <1>3, <1>4, <1>5 DEF IInv

(* Time and the user change nothing the rounds have established. *)
LEMMA OutsideInv ==
    ASSUME IInv, (\E m \in Masters : Elapse(m)) \/ Ask \/ (\E s \in Server : Flip(s))
    PROVE  /\ IInv'
           /\ UNCHANGED <<inUse, prevUp, hold, holdSeen, pass, todo, oneUp, held, force>>
<1>1. TypeOK
  BY DEF IInv
<1>2. /\ UNCHANGED <<inUse, redirs, current, hold, status, failback, prevUp, holdSeen,
                     pass, todo, oneUp, held, force, restarts>>
  BY DEF Elapse, Ask, Flip, configVars, stateVars, shellVars, roundVars
<1>3. since' \in [Masters -> {"", "set", "over"}]
  BY <1>1 DEF Elapse, Ask, Flip, shellVars, TypeOK
<1>4. now' \in BOOLEAN /\ asking' \in BOOLEAN
  BY <1>1 DEF Elapse, Ask, Flip, stateVars, TypeOK
<1>5. reach' \in [Server -> {"answers", "silent", "unresolved"}] /\ NamesOnly'
  <2>1. CASE UNCHANGED reach
    BY <1>1, <2>1 DEF IInv, NamesOnly, Findings, TypeOK
  <2>2. ASSUME NEW s \in Server, Flip(s)
        PROVE  reach' \in [Server -> {"answers", "silent", "unresolved"}] /\ NamesOnly'
    <3>1. PICK found \in Findings(s) : reach' = [reach EXCEPT ![s] = found]
      BY <2>2 DEF Flip
    <3>2. found \in {"answers", "silent", "unresolved"}
      BY DEF Findings
    <3>3. QED
      BY <1>1, <3>1, <3>2 DEF IInv, NamesOnly, Findings, TypeOK
  <2>3. QED
    BY <2>1, <2>2 DEF Elapse, Ask
<1>6. TypeOK'
  <2>1. /\ inUse' \in Server /\ redirs' \in BOOLEAN /\ current' \subseteq Server
        /\ hold' \in BOOLEAN /\ status' \in {"", "up", "down"} /\ failback' \in Modes
        /\ prevUp' \in [Server -> {"", "0", "1"}] /\ holdSeen' \in {"", "0", "1"}
    BY <1>1, <1>2 DEF TypeOK
  <2>2. /\ pass' \in {"idle", "masters", "backups", "forced"}
        /\ todo' \subseteq (IF pass' = "backups" THEN Backups ELSE Masters)
        /\ oneUp' \in BOOLEAN /\ held' \in BOOLEAN /\ force' \in BOOLEAN
        /\ restarts' \in 0..MaxRestarts
    BY <1>1, <1>2 DEF TypeOK
  <2>3. QED
    BY <1>3, <1>4, <1>5, <2>1, <2>2 DEF TypeOK
<1>7. QED
  BY <1>2, <1>5, <1>6 DEF IInv, MarksAgree, Marked, UpIsServed, StateIsWritten

(* A tracker that starts has forgotten what it concluded, and concludes    *)
(* nothing from the marks and the hold it finds.                           *)
LEMMA StartInv ==
    ASSUME IInv, Restart \/ Reboot
    PROVE  IInv' /\ ~held' /\ ~force' /\ pass' = "idle" /\ holdSeen' = ""
<1>1. TypeOK
  BY DEF IInv
<1>2. /\ failback' \in Modes /\ holdSeen' = "" /\ pass' = "idle" /\ todo' = {}
      /\ prevUp' = [s \in Server |-> ""] /\ since' = [m \in Masters |-> ""]
      /\ oneUp' = FALSE /\ held' = FALSE /\ force' = FALSE
      /\ UNCHANGED <<reach, inUse, redirs>>
  BY DEF Restart, Reboot, Fresh, configVars
<1>3. /\ restarts' \in 0..MaxRestarts /\ current' \subseteq current
      /\ hold' \in BOOLEAN /\ now' \in BOOLEAN /\ asking' \in BOOLEAN
      /\ status' \in {"", "up", "down"}
  <2>1. restarts < MaxRestarts /\ restarts' = restarts + 1
    BY DEF Restart, Reboot
  <2>2. restarts' \in 0..MaxRestarts
    <3>1. restarts \in 0..MaxRestarts /\ MaxRestarts \in Nat
      BY <1>1, ServerAssumption DEF TypeOK
    <3>2. QED
      BY <2>1, <3>1
  <2>3. current' \subseteq current /\ status' \in {"", "up", "down"}
    BY <1>1 DEF Restart, Reboot, stateVars, TypeOK
  <2>4. CASE Restart
    BY <1>1, <2>2, <2>3, <2>4 DEF Restart, stateVars, TypeOK
  <2>5. CASE Reboot
    BY <2>2, <2>3, <2>5 DEF Reboot
  <2>6. QED
    BY <2>4, <2>5
<1>4. TypeOK'
  <2>1. prevUp' \in [Server -> {"", "0", "1"}] /\ since' \in [Masters -> {"", "set", "over"}]
    BY <1>2
  <2>2. QED
    BY <1>1, <1>2, <1>3, <2>1 DEF TypeOK
<1>5. prevUp'[inUse'] # "1"
  BY <1>1, <1>2 DEF TypeOK
<1>6. NamesOnly' /\ MarksAgree' /\ UpIsServed' /\ StateIsWritten'
  <2>1. NamesOnly'
    BY <1>2 DEF IInv, NamesOnly, Findings
  <2>2. MarksAgree'
    BY <1>2, <1>3, <1>5 DEF IInv, MarksAgree
  <2>3. UpIsServed' /\ StateIsWritten'
    BY <1>2 DEF UpIsServed, StateIsWritten
  <2>4. QED
    BY <2>1, <2>2, <2>3
<1>7. QED
  BY <1>2, <1>4, <1>6 DEF IInv

(* A stuttering step keeps the types. *)
LEMMA TypeStutters == TypeOK /\ UNCHANGED vars => TypeOK'
<1> SUFFICES ASSUME TypeOK, UNCHANGED vars PROVE TypeOK'
  OBVIOUS
<1>1. UNCHANGED <<reach, inUse, redirs, current, hold, now, status, asking, failback>>
  BY DEF vars, configVars, stateVars, shellVars, roundVars
<1>2. UNCHANGED <<prevUp, since, holdSeen, pass, todo, oneUp, held, force, restarts>>
  BY DEF vars, shellVars, roundVars
<1>3. /\ reach' \in [Server -> {"answers", "silent", "unresolved"}]
      /\ inUse' \in Server /\ redirs' \in BOOLEAN /\ current' \subseteq Server
      /\ hold' \in BOOLEAN /\ now' \in BOOLEAN /\ asking' \in BOOLEAN
      /\ status' \in {"", "up", "down"} /\ failback' \in Modes
  BY <1>1 DEF TypeOK
<1>4. /\ prevUp' \in [Server -> {"", "0", "1"}] /\ since' \in [Masters -> {"", "set", "over"}]
      /\ holdSeen' \in {"", "0", "1"} /\ pass' \in {"idle", "masters", "backups", "forced"}
      /\ todo' \subseteq (IF pass' = "backups" THEN Backups ELSE Masters)
      /\ oneUp' \in BOOLEAN /\ held' \in BOOLEAN /\ force' \in BOOLEAN
      /\ restarts' \in 0..MaxRestarts
  BY <1>2 DEF TypeOK
<1>5. QED
  BY <1>3, <1>4 DEF TypeOK

(* Every step keeps the invariant. *)
LEMMA InvStep == IInv /\ [Next]_vars => IInv'
<1> SUFFICES ASSUME IInv, [Next]_vars PROVE IInv'
  OBVIOUS
<1>1. ASSUME NEW s \in Server, CheckMaster(s) PROVE IInv'
  <2>1. s \in Masters
    BY <1>1, RightRole DEF IInv
  <2>2. QED
    BY <1>1, <2>1, MasterOutcome
<1>2. ASSUME NEW s \in Server, CheckBackup(s) PROVE IInv'
  <2>1. s \in Backups
    BY <1>2, RightRole DEF IInv
  <2>2. QED
    BY <1>2, <2>1, BackupOutcome
<1>3. CASE UNCHANGED vars
  <2>1. UNCHANGED <<reach, inUse, redirs, current, hold, now, status, asking, failback, prevUp,
                    since, holdSeen, pass, todo, oneUp, held, force, restarts>>
    BY <1>3 DEF vars, configVars, stateVars, shellVars, roundVars
  <2>2. TypeOK'
    BY <1>3, TypeStutters DEF IInv
  <2>3. NamesOnly' /\ MarksAgree' /\ UpIsServed' /\ StateIsWritten'
    BY <2>1
       DEF IInv, NamesOnly, Findings, MarksAgree, Marked, UpIsServed, StateIsWritten
  <2>4. QED
    BY <2>2, <2>3 DEF IInv
<1>4. CASE StartRound \/ EndMasters \/ ForceMasters \/ EndRound
  BY <1>4, PassInv
<1>5. CASE (\E m \in Masters : Elapse(m)) \/ Ask \/ (\E s \in Server : Flip(s))
  BY <1>5, OutsideInv
<1>6. CASE Restart \/ Reboot
  BY <1>6, StartInv
<1>7. QED
  BY <1>1, <1>2, <1>3, <1>4, <1>5, <1>6 DEF Next, Round

(* The invariant holds of every behaviour of the tracker. *)
THEOREM Invariance == Spec => []IInv
BY InvInit, InvStep, PTL DEF Spec

(* TypeOK is an invariant of the tracker. *)
THEOREM TypeCorrect == Spec => []TypeOK
<1>1. IInv => TypeOK
  BY DEF IInv
<1>2. QED
  BY <1>1, Invariance, PTL

-----------------------------------------------------------------------------
(* What a round leaves behind that found nobody.                           *)

(* A check cuts the redirections with the server in use, and gives them    *)
(* only to one that answers.                                               *)
LEMMA CutStep ==
    ASSUME IInv, SilentIsCut, [Next]_vars
    PROVE  SilentIsCut'
<1>1. TypeOK
  BY DEF IInv
<1>2. ASSUME NEW s \in Server, Silent(s) PROVE SilentIsCut'
  <2>1. /\ inUse' = inUse /\ prevUp' = [prevUp EXCEPT ![s] = "0"]
        /\ redirs' = (redirs /\ ~(inUse = s /\ prevUp[s] # "0"))
    BY <1>2 DEF Silent
  <2>2. CASE inUse = s
    BY <2>1, <2>2 DEF SilentIsCut
  <2>3. CASE inUse # s
    <3>1. prevUp'[inUse'] = prevUp[inUse] /\ redirs' = redirs
      BY <1>1, <2>1, <2>3 DEF TypeOK
    <3>2. QED
      BY <3>1 DEF SilentIsCut
  <2>4. QED
    BY <2>2, <2>3
<1>3. ASSUME NEW s \in Server, (inUse = s /\ Steady(s)) \/ Switch(s) PROVE SilentIsCut'
  <2>1. inUse' = s /\ prevUp'[s] = "1"
    BY <1>1, <1>3 DEF Steady, Switch, TypeOK
  <2>2. QED
    BY <2>1 DEF SilentIsCut
<1>4. CASE UNCHANGED <<inUse, redirs, prevUp>>
  BY <1>4 DEF SilentIsCut
<1>5. ASSUME NEW s \in Server, CheckMaster(s) \/ CheckBackup(s) PROVE SilentIsCut'
  BY <1>2, <1>3, <1>4, <1>5 DEF CheckMaster, CheckBackup, Unresolved, Hold, configVars
<1>6. CASE StartRound \/ EndMasters \/ ForceMasters \/ EndRound
  BY <1>4, <1>6 DEF StartRound, EndMasters, ForceMasters, EndRound, configVars, shellVars
<1>7. CASE (\E m \in Masters : Elapse(m)) \/ Ask \/ (\E s \in Server : Flip(s))
  BY <1>4, <1>7 DEF Elapse, Ask, Flip, configVars, shellVars
<1>8. CASE Restart \/ Reboot
  BY <1>1, <1>8 DEF Restart, Reboot, Fresh, configVars, SilentIsCut, TypeOK
<1>9. CASE UNCHANGED vars
  BY <1>4, <1>9 DEF vars, configVars, shellVars
<1>10. QED
  BY <1>5, <1>6, <1>7, <1>8, <1>9 DEF Next, Round

(* A check that finds nobody, with none up, leaves its server gone and     *)
(* brings no other one back.                                               *)
LEMMA GoneCheck ==
    ASSUME IInv, ~oneUp, NEW s \in Server, Unresolved(s) \/ Silent(s)
    PROVE  /\ Gone(s)' /\ \A t \in Server : Gone(t) => Gone(t)'
           /\ UNCHANGED <<oneUp, held, force>>
<1>1. TypeOK
  BY DEF IInv
<1>2. CASE Unresolved(s)
  <2>1. /\ UNCHANGED <<prevUp, oneUp, held, force>>
        /\ current' = current \ {s} /\ s \in Named
    BY <1>2 DEF Unresolved, UnmarkUnlessUp, IInv, NamesOnly, Findings
  <2>2. QED
    BY <2>1 DEF Gone
<1>3. CASE Silent(s)
  <2>1. /\ UNCHANGED <<oneUp, held, force>> /\ current' = current \ {s}
        /\ prevUp' = [prevUp EXCEPT ![s] = "0"]
    BY <1>3 DEF Silent, UnmarkUnlessUp
  <2>2. \A t \in Server : prevUp'[t] = IF t = s THEN "0" ELSE prevUp[t]
    BY <1>1, <2>1 DEF TypeOK
  <2>3. QED
    BY <2>1, <2>2 DEF Gone
<1>4. QED
  BY <1>2, <1>3

(* Nor does a hold, which the pass that forces the masters never makes.    *)
LEMMA GoneHold ==
    ASSUME ~oneUp, NEW m \in Masters, Held(m), Hold(m)
    PROVE  /\ held' /\ ~force /\ UNCHANGED <<oneUp, force>>
           /\ \A t \in Server : Gone(t) => Gone(t)'
BY DEF Hold, UnmarkUnlessUp, Held, MayHold, Gone

(* Every pass adds to the servers that are gone; the masters are forced    *)
(* once the backups all are.                                               *)
LEMMA SilentMaster ==
    ASSUME IInv, SilentSoFar, NEW m \in Masters, CheckMaster(m)
    PROVE  SilentSoFar'
<1>1. TypeOK /\ Masters \subseteq Server /\ Backups \subseteq Server
  BY DEF IInv, Server
<1>2. /\ m \notin Backups /\ m \in Server /\ pass \in {"masters", "forced"} /\ UNCHANGED pass
      /\ todo' = todo \ {m} /\ todo \subseteq Masters
  BY <1>1, MasterOutcome, CheckMovesOn, ServerAssumption DEF TypeOK
<1>3. ASSUME pass' = "forced" PROVE force' /\ ~held'
  <2>1. force /\ ~held /\ ~Held(m)
    BY <1>2, <1>3 DEF SilentSoFar, Held, MayHold
  <2>2. QED
    BY <2>1, MasterOutcome DEF Silent, TakeRequest
<1>4. ASSUME ~oneUp'
      PROVE  /\ pass' = "forced" => \A b \in Backups \ todo' : Gone(b)'
             /\ ~held' => \A n \in Masters \ todo' : Gone(n)'
  <2>1. ~Switch(m) /\ ~Steady(m)
    BY <1>4 DEF Switch, Steady
  <2>2. CASE Unresolved(m) \/ Silent(m)
    <3>1. ~oneUp
      BY <1>4, <2>2 DEF Unresolved, Silent
    <3>2. /\ Gone(m)' /\ \A t \in Server : Gone(t) => Gone(t)'
          /\ UNCHANGED <<oneUp, held>>
      BY <1>2, <2>2, <3>1, GoneCheck
    <3>3. QED
      BY <1>1, <1>2, <3>1, <3>2 DEF SilentSoFar
  <2>3. CASE Held(m) /\ Hold(m)
    <3>1. ~oneUp
      BY <1>4, <2>3 DEF Hold
    <3>2. held' /\ \A t \in Server : Gone(t) => Gone(t)'
      BY <2>3, <3>1, GoneHold
    <3>3. QED
      BY <1>1, <1>2, <3>1, <3>2 DEF SilentSoFar
  <2>4. QED
    BY <2>1, <2>2, <2>3 DEF CheckMaster
<1>5. QED
  BY <1>2, <1>3, <1>4 DEF SilentSoFar

LEMMA SilentBackup ==
    ASSUME IInv, SilentSoFar, NEW b \in Backups, CheckBackup(b)
    PROVE  SilentSoFar'
<1>1. TypeOK /\ Masters \subseteq Server /\ Backups \subseteq Server
  BY DEF IInv, Server
<1>2. /\ b \notin Masters /\ b \in Server /\ pass = "backups" /\ UNCHANGED <<pass, held>>
      /\ todo' = todo \ {b} /\ todo \subseteq Backups
  BY <1>1, BackupOutcome, CheckMovesOn, ServerAssumption DEF TypeOK
<1>3. ASSUME ~oneUp'
      PROVE  /\ \A c \in Backups \ todo' : Gone(c)'
             /\ ~held' => \A n \in Masters \ todo' : Gone(n)'
  <2>1. ~oneUp /\ (Unresolved(b) \/ Silent(b))
    BY <1>3 DEF CheckBackup, Steady, Switch
  <2>2. Gone(b)' /\ \A t \in Server : Gone(t) => Gone(t)'
    BY <1>2, <2>1, GoneCheck
  <2>3. QED
    BY <1>1, <1>2, <2>1, <2>2 DEF SilentSoFar
<1>4. QED
  BY <1>2, <1>3 DEF SilentSoFar

LEMMA SilentStep ==
    ASSUME IInv, SilentSoFar, [Next]_vars
    PROVE  SilentSoFar'
<1>1. TypeOK
  BY DEF IInv
<1>2. ASSUME NEW s \in Server, CheckMaster(s) \/ CheckBackup(s) PROVE SilentSoFar'
  BY <1>1, <1>2, RightRole, SilentMaster, SilentBackup
<1>3. CASE StartRound \/ EndMasters \/ ForceMasters
  <2>1. UNCHANGED <<current, prevUp>>
    BY <1>3 DEF StartRound, EndMasters, ForceMasters, stateVars, shellVars
  <2>2. CASE StartRound
    BY <2>2 DEF StartRound, Walk, SilentSoFar
  <2>3. CASE EndMasters
    BY <2>1, <2>3 DEF EndMasters, Walk, SilentSoFar, Gone
  <2>4. CASE ForceMasters
    BY <2>1, <2>4 DEF ForceMasters, Walk, SilentSoFar, Gone
  <2>5. QED
    BY <1>3, <2>2, <2>3, <2>4
<1>4. CASE EndRound
  <2>1. /\ RoundDone /\ pass' = "idle" /\ UNCHANGED <<current, prevUp, oneUp>>
    BY <1>4 DEF EndRound, Walk
  <2>2. ASSUME ~oneUp PROVE \A s \in Server : Gone(s)
    <3>1. todo = {} /\ pass \in {"backups", "forced"} /\ ~held
      BY <1>1, <2>1, <2>2 DEF RoundDone, SilentSoFar, TypeOK
    <3>2. QED
      BY <2>2, <3>1 DEF SilentSoFar, Server
  <2>3. QED
    BY <2>1, <2>2 DEF SilentSoFar, Gone
<1>5. CASE (\E m \in Masters : Elapse(m)) \/ Ask \/ (\E s \in Server : Flip(s))
  <2>1. UNCHANGED <<current, prevUp, holdSeen, pass, todo, oneUp, held, force>>
    BY <1>5 DEF Elapse, Ask, Flip, stateVars, shellVars, roundVars
  <2>2. QED
    BY <2>1 DEF SilentSoFar, Gone
<1>6. CASE Restart \/ Reboot
  BY <1>6, StartInv DEF SilentSoFar
<1>7. CASE UNCHANGED vars
  BY <1>7 DEF vars, stateVars, shellVars, roundVars, SilentSoFar, Gone
<1>8. QED
  BY <1>2, <1>3, <1>4, <1>5, <1>6, <1>7 DEF Next, Round

(* A backup comes into use in the pass over the backups only, which found  *)
(* the masters as they were, and leaves them so.                           *)
LEMMA LastMaster ==
    ASSUME IInv, BackupsAreLast, NEW m \in Masters, CheckMaster(m)
    PROVE  BackupsAreLast'
<1>1. TypeOK /\ m \notin Backups /\ pass \in {"masters", "forced"}
  BY ServerAssumption DEF IInv, CheckMaster
<1>2. ASSUME oneUp', inUse' \in Backups PROVE FALSE
  <2>1. ~Switch(m) /\ ~(inUse = m /\ Steady(m))
    BY <1>1, <1>2 DEF Switch, Steady
  <2>2. oneUp' = oneUp /\ inUse' = inUse
    BY <2>1 DEF CheckMaster, Unresolved, Silent, Hold, configVars
  <2>3. QED
    BY <1>1, <1>2, <2>2 DEF BackupsAreLast
<1>3. QED
  BY <1>2 DEF BackupsAreLast

LEMMA LastBackup ==
    ASSUME IInv, BackupsAreLast, SilentSoFar, NEW b \in Backups, CheckBackup(b)
    PROVE  BackupsAreLast'
<1>1. /\ TypeOK /\ b \notin Masters /\ pass = "backups" /\ UNCHANGED <<pass, held>>
      /\ Masters \subseteq Server /\ todo \subseteq Backups
  BY BackupOutcome, CheckMovesOn, ServerAssumption DEF IInv, Server, TypeOK
<1>2. \A m \in Masters : prevUp'[m] = prevUp[m]
  BY <1>1 DEF CheckBackup, Unresolved, Silent, Steady, Switch, TypeOK
<1>3. held \/ \A m \in Masters \ Named : prevUp[m] = "0"
      \/ (oneUp /\ inUse \notin Backups)
  <2>1. Masters \ todo = Masters
    BY <1>1, ServerAssumption
  <2>2. CASE ~oneUp
    BY <1>1, <2>1, <2>2 DEF SilentSoFar, Gone
  <2>3. CASE oneUp
    BY <2>3 DEF BackupsAreLast
  <2>4. QED
    BY <2>2, <2>3
<1>4. oneUp => inUse' = inUse
  BY DEF CheckBackup, configVars
<1>5. QED
  BY <1>1, <1>2, <1>3, <1>4 DEF BackupsAreLast

LEMMA LastStep ==
    ASSUME IInv, BackupsAreLast, SilentSoFar, [Next]_vars
    PROVE  BackupsAreLast'
<1>1. TypeOK
  BY DEF IInv
<1>2. ASSUME NEW s \in Server, CheckMaster(s) \/ CheckBackup(s) PROVE BackupsAreLast'
  BY <1>1, <1>2, RightRole, LastMaster, LastBackup
<1>3. CASE StartRound \/ EndMasters \/ ForceMasters
  BY <1>3 DEF StartRound, EndMasters, ForceMasters, BackupsAreLast
<1>4. CASE EndRound
  BY <1>4 DEF EndRound, Walk, configVars, BackupsAreLast
<1>5. CASE (\E m \in Masters : Elapse(m)) \/ Ask \/ (\E s \in Server : Flip(s))
  <2>1. UNCHANGED <<inUse, prevUp, pass, oneUp, held>>
    BY <1>5, OutsideInv
  <2>2. QED
    BY <2>1 DEF BackupsAreLast
<1>6. CASE Restart \/ Reboot
  BY <1>6 DEF Restart, Reboot, Fresh, BackupsAreLast
<1>7. CASE UNCHANGED vars
  BY <1>7 DEF vars, configVars, shellVars, roundVars, BackupsAreLast
<1>8. QED
  BY <1>2, <1>3, <1>4, <1>5, <1>6, <1>7 DEF Next, Round

(* Between two rounds, the last of which found a server up, the server the *)
(* configuration points at is served: its redirections are on, its mark    *)
(* set unless it is known by a name, and no other one's; and it is a       *)
(* backup only for want of a master that is not held.  If the last round   *)
(* found none, every server with an address was silent, none is marked and *)
(* the redirections into a dead proxy are cut.                             *)
THEOREM InUseIsServed == Spec => []Served
<1>1. Init => SilentIsCut /\ SilentSoFar /\ BackupsAreLast
  BY DEF Init, SilentIsCut, SilentSoFar, BackupsAreLast
<1>2. IInv /\ SilentIsCut /\ [Next]_vars => SilentIsCut'
  BY CutStep
<1>3. IInv /\ SilentSoFar /\ [Next]_vars => SilentSoFar'
  BY SilentStep
<1>4. IInv /\ SilentSoFar /\ BackupsAreLast /\ [Next]_vars => BackupsAreLast'
  BY LastStep
<1>5. IInv /\ SilentIsCut /\ SilentSoFar /\ BackupsAreLast => Served
  <2>1. SUFFICES ASSUME IInv, SilentIsCut, SilentSoFar, BackupsAreLast,
                        pass = "idle", holdSeen # ""
                 PROVE  Served
    BY DEF Served
  <2>2. CASE status = "up"
    <3>1. oneUp /\ (held <=> holdSeen = "1")
      BY <2>1, <2>2 DEF IInv, StateIsWritten
    <3>2. Marked /\ current \subseteq {inUse}
      BY <2>1, <3>1 DEF IInv, MarksAgree, UpIsServed
    <3>3. inUse \in Backups /\ holdSeen = "0" => \A m \in Masters \ Named : prevUp[m] = "0"
      BY <2>1, <3>1 DEF BackupsAreLast
    <3>4. QED
      BY <2>1, <2>2, <3>2, <3>3 DEF Marked, Served
  <2>3. CASE status # "up"
    <3>1. \A s \in Server : Gone(s)
      BY <2>1, <2>3 DEF IInv, StateIsWritten, SilentSoFar
    <3>2. current = {} /\ inUse \in Server
      BY <2>1, <3>1 DEF IInv, TypeOK, Gone
    <3>3. QED
      BY <2>1, <2>3, <3>1, <3>2 DEF Gone, SilentIsCut, Served
  <2>4. QED
    BY <2>2, <2>3
<1>6. QED
  BY <1>1, <1>2, <1>3, <1>4, <1>5, Invariance, PTL DEF Spec

-----------------------------------------------------------------------------
(* Backups known by their address.  A name that stops resolving in the     *)
(* middle of a round takes the mark of its server away while it is in use: *)
(* the hold, which is read off the marks, then no longer covers it.        *)

(* A pass over the backups that ends with none up has found each of them   *)
(* silent: this is all the masters are forced on.                          *)
LEMMA ForcedStep ==
    ASSUME BackupsByAddress, IInv, ForcedFairly, [Next]_vars
    PROVE  ForcedFairly'
<1>1. TypeOK
  BY DEF IInv
<1>2. ASSUME NEW m \in Masters, CheckMaster(m) PROVE ForcedFairly'
  <2>1. m \notin Backups
    BY ServerAssumption
  <2>2. pass \in {"masters", "forced"} /\ UNCHANGED pass
    BY <1>1, <1>2, MasterOutcome, CheckMovesOn
  <2>3. force => force'
    BY <1>2, MasterOutcome DEF Silent, Hold, TakeRequest
  <2>4. force' => force \/ oneUp'
    BY <1>2, MasterOutcome DEF Silent, Hold, Switch
  <2>5. oneUp => oneUp'
    BY <1>2, MasterOutcome DEF Silent, Hold, Switch, Steady
  <2>6. ASSUME force', inUse' \in Backups PROVE prevUp'[inUse'] # "1"
    <3>1. ~Switch(m) /\ ~(inUse = m /\ Steady(m))
      BY <2>1, <2>6 DEF Switch, Steady
    <3>2. /\ UNCHANGED <<inUse, force>>
          /\ UNCHANGED prevUp \/ prevUp' = [prevUp EXCEPT ![m] = "0"]
      BY <1>2, <3>1, MasterOutcome DEF Silent, Hold, configVars
    <3>3. QED
      BY <1>1, <2>1, <2>6, <3>2 DEF TypeOK, ForcedFairly
  <2>7. QED
    BY <2>2, <2>3, <2>4, <2>5, <2>6 DEF ForcedFairly
<1>3. ASSUME NEW b \in Backups, CheckBackup(b) PROVE ForcedFairly'
  <2>1. b \in Server /\ pass = "backups" /\ pass' = "backups" /\ ~force /\ ~force'
    BY <1>1, <1>3, BackupOutcome, CheckMovesOn DEF ForcedFairly
  <2>2. ASSUME ~oneUp', NEW c \in Backups \ todo' PROVE prevUp'[c] = "0"
    <3>1. reach[b] # "unresolved"
      BY <2>1 DEF BackupsByAddress, IInv, NamesOnly, Findings
    <3>2. ~oneUp /\ Silent(b) /\ todo' = todo \ {b}
      BY <1>1, <1>3, <2>1, <2>2, <3>1, BackupOutcome, CheckMovesOn
    <3>3. prevUp' = [prevUp EXCEPT ![b] = "0"] /\ c \in Server
      BY <3>2 DEF Silent, Server
    <3>4. CASE c = b
      BY <1>1, <3>3, <3>4 DEF TypeOK
    <3>5. CASE c # b
      BY <1>1, <2>1, <2>2, <3>2, <3>3, <3>5 DEF TypeOK, ForcedFairly
    <3>6. QED
      BY <3>4, <3>5
  <2>3. QED
    BY <2>1, <2>2 DEF ForcedFairly
<1>4. CASE StartRound \/ EndMasters
  BY <1>4 DEF StartRound, EndMasters, Walk, configVars, shellVars, ForcedFairly
<1>5. CASE ForceMasters
  <2>1. /\ pass = "backups" /\ todo = {} /\ ~oneUp
        /\ pass' = "forced" /\ force' = TRUE /\ UNCHANGED <<inUse, prevUp>>
    BY <1>5 DEF ForceMasters, Walk, configVars, shellVars
  <2>2. QED
    BY <2>1 DEF ForcedFairly
<1>6. CASE EndRound
  BY <1>6 DEF EndRound, Walk, configVars, ForcedFairly
<1>7. CASE (\E m \in Masters : Elapse(m)) \/ Ask \/ (\E s \in Server : Flip(s))
  <2>1. UNCHANGED <<inUse, prevUp, pass, todo, oneUp, force>>
    BY <1>7, OutsideInv
  <2>2. QED
    BY <2>1 DEF ForcedFairly
<1>8. CASE Restart \/ Reboot
  BY <1>8, StartInv DEF ForcedFairly
<1>9. CASE UNCHANGED vars
  BY <1>9 DEF vars, configVars, shellVars, roundVars, ForcedFairly
<1>10. QED
  BY <1>1, <1>2, <1>3, <1>4, <1>5, <1>6, <1>7, <1>8, <1>9, RightRole DEF Next, Round

(* One step leaves a backup in use only as BackupKept says. *)
LEMMA KeptStep ==
    ASSUME BackupsByAddress, IInv, ForcedFairly, [Next]_vars,
           prevUp[inUse] = "1", inUse \in Backups, inUse' \in Masters
    PROVE  failback = "immediate" \/ now \/ since[inUse'] = "over"
<1>1. TypeOK /\ inUse' # inUse /\ inUse' \notin Backups
  BY ServerAssumption DEF IInv
<1>2. PICK m \in Masters : CheckMaster(m)
  <2>1. ASSUME NEW b \in Backups, CheckBackup(b) PROVE FALSE
    BY <1>1, <2>1, BackupOutcome DEF Silent
  <2>2. ~(StartRound \/ EndMasters \/ ForceMasters \/ EndRound)
    BY <1>1 DEF StartRound, EndMasters, ForceMasters, EndRound, configVars
  <2>3. ~((\E m \in Masters : Elapse(m)) \/ Ask \/ \E s \in Server : Flip(s))
    BY <1>1, OutsideInv
  <2>4. ~(Restart \/ Reboot \/ UNCHANGED vars)
    BY <1>1 DEF Restart, Reboot, vars, configVars
  <2>5. QED
    BY <1>1, <2>1, <2>2, <2>3, <2>4, RightRole DEF Next, Round
<1>3. inUse' = m /\ ~Held(m)
  BY <1>1, <1>2, MasterOutcome DEF Silent, Hold, Switch, Steady, configVars
<1>4. inUse \in current
  BY DEF BackupsByAddress, IInv, MarksAgree, Marked
<1>5. QED
  BY <1>3, <1>4 DEF Held, MayHold, ForcedFairly

(* A backup in use that answered its last check is left for a master only  *)
(* when failback is immediate, was asked for, or its delay is over,        *)
(* whatever the servers do in the middle of a round.                       *)
THEOREM BackupIsKept ==
    ASSUME BackupsByAddress
    PROVE  Spec => BackupKept
<1>1. Init => ForcedFairly
  BY DEF Init, ForcedFairly
<1>2. IInv /\ ForcedFairly /\ [Next]_vars => ForcedFairly'
  BY ForcedStep
<1>3. IInv /\ ForcedFairly /\ [Next]_vars
      => [prevUp[inUse] = "1" /\ inUse \in Backups /\ inUse' \in Masters
            => failback = "immediate" \/ now \/ since[inUse'] = "over"]_vars
  BY KeptStep
<1>4. QED
  BY <1>1, <1>2, <1>3, Invariance, PTL DEF Spec, BackupKept

-----------------------------------------------------------------------------
(* One master.                                                             *)

(* With one master, the pass that holds it has nobody left to take over    *)
(* from the backup it is held for.                                         *)
LEMMA HeldStep ==
    ASSUME OneMaster, IInv, HeldByBackup, [Next]_vars
    PROVE  HeldByBackup'
<1>1. TypeOK
  BY DEF IInv
<1>2. ASSUME NEW m \in Masters, CheckMaster(m) PROVE HeldByBackup'
  <2>1. /\ pass \in {"masters", "forced"} /\ UNCHANGED pass
        /\ m \in todo /\ todo' = todo \ {m} /\ todo \subseteq Masters
    BY <1>1, <1>2, MasterOutcome, CheckMovesOn DEF TypeOK
  <2>2. todo' = {} /\ ~held
    BY <2>1 DEF OneMaster, HeldByBackup
  <2>3. force => force'
    BY <1>2, MasterOutcome DEF Silent, Hold, TakeRequest
  <2>4. ASSUME held' PROVE inUse' \in Backups /\ pass' # "forced"
    <3>1. Held(m) /\ UNCHANGED inUse
      BY <1>2, <2>2, <2>4, MasterOutcome DEF Silent, Hold, configVars
    <3>2. ~force /\ inUse \in Backups
      BY <3>1 DEF Held, MayHold, IInv, MarksAgree
    <3>3. QED
      BY <2>1, <3>1, <3>2 DEF HeldByBackup
  <2>5. QED
    BY <2>1, <2>2, <2>3, <2>4 DEF HeldByBackup
<1>3. ASSUME NEW b \in Backups, CheckBackup(b) PROVE HeldByBackup'
  <2>1. pass' = "backups" /\ held' = held /\ (inUse' = inUse \/ inUse' = b)
    BY <1>1, <1>3, BackupOutcome, CheckMovesOn DEF Silent
  <2>2. QED
    BY <2>1 DEF HeldByBackup
<1>4. CASE StartRound \/ EndMasters \/ ForceMasters
  BY <1>4 DEF StartRound, EndMasters, ForceMasters, Walk, configVars, HeldByBackup
<1>5. CASE EndRound
  <2>1. /\ RoundDone /\ pass' = "idle" /\ UNCHANGED <<inUse, oneUp, held>>
    BY <1>5 DEF EndRound, Walk, configVars
  <2>2. held => oneUp
    BY <1>1, <2>1 DEF RoundDone, HeldByBackup, TypeOK
  <2>3. QED
    BY <2>1, <2>2 DEF HeldByBackup
<1>6. CASE (\E m \in Masters : Elapse(m)) \/ Ask \/ (\E s \in Server : Flip(s))
  <2>1. UNCHANGED <<inUse, pass, todo, oneUp, held, force>>
    BY <1>6, OutsideInv
  <2>2. QED
    BY <2>1 DEF HeldByBackup
<1>7. CASE Restart \/ Reboot
  BY <1>7, StartInv DEF HeldByBackup
<1>8. CASE UNCHANGED vars
  BY <1>8 DEF vars, configVars, roundVars, HeldByBackup
<1>9. QED
  BY <1>1, <1>2, <1>3, <1>4, <1>5, <1>6, <1>7, <1>8, RightRole DEF Next, Round

(* Between two rounds, the hold is on only with a backup in use, marked as *)
(* such.                                                                   *)
THEOREM HoldIsForBackup ==
    ASSUME BackupsByAddress, OneMaster
    PROVE  Spec => []HoldMeansBackup
<1>1. Init => HeldByBackup
  BY DEF Init, HeldByBackup
<1>2. IInv /\ HeldByBackup /\ [Next]_vars => HeldByBackup'
  BY HeldStep
<1>3. IInv /\ HeldByBackup => HoldMeansBackup
  <2>1. SUFFICES ASSUME IInv, HeldByBackup, pass = "idle", holdSeen = "1"
                 PROVE  hold /\ inUse \in Backups /\ inUse \in current
    BY DEF HoldMeansBackup
  <2>2. held /\ hold
    BY <2>1 DEF IInv, StateIsWritten
  <2>3. inUse \in Backups /\ Marked
    BY <2>1, <2>2 DEF HeldByBackup, IInv, UpIsServed
  <2>4. QED
    BY <2>2, <2>3 DEF BackupsByAddress, Marked
<1>4. QED
  BY <1>1, <1>2, <1>3, Invariance, PTL DEF Spec
=============================================================================
