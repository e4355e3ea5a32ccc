---------------------------- MODULE Webhostd_proof ----------------------------
(***************************************************************************)
(* Proofs about two parts of webhostd.  ServiceSupervisor has its          *)
(* invariants for every respawn delay, kill interval and number of RESTART *)
(* commands.  An undisturbed WIFI command takes effect, and no program is  *)
(* killed that runs, for any SSIDs and any number of programs.             *)
(***************************************************************************)
EXTENDS ServiceSupervisor, WifiCommands, TLAPS

-----------------------------------------------------------------------------
(* The service.                                                            *)

(* Only a process that is starting or running has a child. *)
IdleHasNoChild == alive => service \in {"starting", "running"}

(* SingleService is not inductive alone: that a service that is finished   *)
(* or was never started has no child must come with it.                    *)
SInv == TypeOK /\ IdleHasNoChild /\ SingleService /\ TermIsFollowedUp

(* Time leaves an armed timer armed and within its bound. *)
LEMMA ElapseKeepsTimer ==
    ASSUME NEW max \in Nat, NEW t \in Timer(max)
    PROVE  Elapse(t) \in Timer(max) /\ (Elapse(t) = Off <=> t = Off)
BY DEF Elapse, Timer, Off

(* The constructor establishes the invariant. *)
LEMMA InitSInv == Init => SInv
<1> SUFFICES ASSUME Init PROVE SInv
  OBVIOUS
<1>1. TypeOK
  <2>1. main_garbage_timer \in Timer(RespawnDelay) /\ main_kill_timer \in Timer(KillInterval)
    BY DelayAssumption DEF Init, Timer
  <2>2. restarts \in 0..MaxRestarts
    BY MaxRestartsAssumption DEF Init
  <2>3. /\ configured \in BOOLEAN /\ alive \in BOOLEAN /\ termed \in BOOLEAN
        /\ killed \in BOOLEAN /\ blocked \in BOOLEAN
        /\ service \in {"null", "starting", "running", "failed", "finished"}
    BY Zenon DEF Init
  <2> QED BY <2>1, <2>2, <2>3 DEF TypeOK
<1>2. IdleHasNoChild /\ SingleService /\ TermIsFollowedUp
  BY DEF Init, IdleHasNoChild, SingleService, TermIsFollowedUp
<1> QED BY <1>1, <1>2 DEF SInv

(* Every slot, every end of a child and the passing of time keep it. *)
LEMMA StepSInv == SInv /\ [Next]_vars => SInv'
<1> SUFFICES ASSUME SInv, [Next]_vars PROVE SInv'
  OBVIOUS
<1> USE DelayAssumption, MaxRestartsAssumption
    DEF SInv, TypeOK, IdleHasNoChild, SingleService, TermIsFollowedUp, child, timers
<1>1. CASE garbageTimerData
  BY <1>1 DEF garbageTimerData, Timer, Off
<1>2. CASE killTimerData
  BY <1>2 DEF killTimerData, Timer, Off
<1>3. CASE started
  BY <1>3 DEF started
<1>4. CASE serviceErrorData
  BY <1>4 DEF serviceErrorData
<1>5. CASE serviceFinishedData
  BY <1>5 DEF serviceFinishedData, Timer, Off
<1>6. CASE Exit
  BY <1>6 DEF Exit
<1>7. CASE Restart
  <2>1. TypeOK'
    BY <1>7 DEF Restart, Timer
  <2>2. IdleHasNoChild' /\ SingleService'
    BY <1>7 DEF Restart
  <2>3. TermIsFollowedUp'
    BY <1>7 DEF Restart, Off
  <2> QED BY <2>1, <2>2, <2>3
<1>8. CASE Upgrade
  <2>1. TypeOK'
    <3>1. /\ main_garbage_timer' \in Timer(RespawnDelay)
          /\ main_kill_timer' \in Timer(KillInterval)
      BY <1>8 DEF Upgrade, Timer
    <3> QED BY <1>8, <3>1 DEF Upgrade
  <2>2. IdleHasNoChild' /\ SingleService' /\ TermIsFollowedUp'
    BY <1>8 DEF Upgrade
  <2> QED BY <2>1, <2>2
<1>9. CASE RunCommand \/ CommandFinished
  <2>1. blocked' \in BOOLEAN /\ UNCHANGED <<configured, service, child, timers, restarts>>
    BY <1>9 DEF RunCommand, CommandFinished
  <2> QED BY <2>1
<1>10. CASE Tick
  <2>1. /\ main_garbage_timer' \in Timer(RespawnDelay)
        /\ main_garbage_timer' = Off <=> main_garbage_timer = Off
    BY <1>10, ElapseKeepsTimer DEF Tick
  <2>2. /\ main_kill_timer' \in Timer(KillInterval)
        /\ main_kill_timer' = Off <=> main_kill_timer = Off
    BY <1>10, ElapseKeepsTimer DEF Tick
  <2> QED BY <1>10, <2>1, <2>2 DEF Tick
<1>11. CASE UNCHANGED vars
  BY <1>11 DEF vars
<1> QED BY <1>1, <1>2, <1>3, <1>4, <1>5, <1>6, <1>7, <1>8, <1>9, <1>10, <1>11 DEF Next

(* It holds of every behaviour. *)
LEMMA AlwaysSInv == Spec => []SInv
BY InitSInv, StepSInv, PTL DEF Spec

(* Whatever the delays, every variable of the supervisor keeps its type,   *)
(* no timer runs below zero or above the value it was started with.        *)
THEOREM TypeCorrect == Spec => []TypeOK
<1>1. SInv => TypeOK
  BY DEF SInv
<1> QED BY <1>1, AlwaysSInv, PTL

(* garbageTimerData() never deletes a QProcess whose child lives and never *)
(* starts a service beside a living one, however commands, deaths and      *)
(* timers interleave.                                                      *)
THEOREM OneServiceOnly == Spec => []SingleService
<1>1. SInv => SingleService
  BY DEF SInv
<1> QED BY <1>1, AlwaysSInv, PTL

(* A service that RESTART told to terminate and that lives on has a kill   *)
(* timer running or was killed: no other slot stops the timer too soon.    *)
THEOREM TermNeverForgotten == Spec => []TermIsFollowedUp
<1>1. SInv => TermIsFollowedUp
  BY DEF SInv
<1> QED BY <1>1, AlwaysSInv, PTL

-----------------------------------------------------------------------------
(* WiFi.                                                                   *)

(* What the programs of a command that none works against have done so     *)
(* far: no other connection is made, the wanted one is not deleted, and of *)
(* the connections that are to be deleted each has a program left that     *)
(* will.                                                                   *)
Pending ==
    clear =>
      /\ wanted # NoSsid =>
            /\ \A n \in Running : IF main_wifi_processes[n].op = "connect"
                                 THEN main_wifi_processes[n].ssid = wanted
                                 ELSE main_wifi_processes[n].ssid # wanted
            /\ Serving = {} => wlan = wanted
      /\ wanted = NoSsid =>
            /\ \A n \in Running : main_wifi_processes[n].op = "delete"
            /\ \A ssid \in saved : \E n \in Running : main_wifi_processes[n].ssid = ssid

IInv == WifiTypeOK /\ Pending

-----------------------------------------------------------------------------
(* Lists of programs.                                                      *)

LEMMA ListTypes ==
    ASSUME main_wifi_processes \in Lists
    PROVE  /\ Numbers \subseteq 1..MaxWifi
           /\ \A n \in Numbers : main_wifi_processes[n] \in Process
           /\ main_wifi_processes = [n \in Numbers |-> main_wifi_processes[n]]
BY DEF Lists, Numbers

LEMMA IsList ==
    ASSUME NEW list, list = [n \in DOMAIN list |-> list[n]],
           DOMAIN list \subseteq 1..MaxWifi,
           \A n \in DOMAIN list : list[n] \in Process
    PROVE  list \in Lists
<1>1. list \in [DOMAIN list -> Process]
  OBVIOUS
<1> QED
  BY <1>1 DEF Lists

LEMMA EmptyIsList == Empty \in Lists
BY DEF Lists, Empty

(* The new programs run on the list with those that were there. *)
LEMMA StartSteps ==
    ASSUME main_wifi_processes \in Lists, NEW op \in {"connect", "delete"},
           NEW ssids \in SUBSET Ssid, NEW new \in Programs(op, ssids), Start(new)
    PROVE  /\ main_wifi_processes' \in Lists
           /\ Running' = Running \cup DOMAIN new
           /\ Numbers' = Numbers \cup DOMAIN new
           /\ \A n \in Numbers : main_wifi_processes'[n] = main_wifi_processes[n]
           /\ \A n \in DOMAIN new : /\ main_wifi_processes'[n].op = op
                                    /\ main_wifi_processes'[n].ssid \in ssids
           /\ \A ssid \in ssids : \E n \in DOMAIN new : main_wifi_processes'[n].ssid = ssid
<1>1. /\ DOMAIN new \subseteq Free
      /\ \A n \in DOMAIN new : \E ssid \in ssids : new[n] = Started(op, ssid)
      /\ \A ssid \in ssids : \E n \in DOMAIN new : new[n].ssid = ssid
  BY DEF Programs
<1>2. \A n \in DOMAIN new : /\ new[n] \in Process /\ new[n].state = "running"
                            /\ new[n].op = op /\ new[n].ssid \in ssids
  <2> TAKE n \in DOMAIN new
  <2>1. PICK ssid \in ssids : new[n] = Started(op, ssid)
    BY <1>1
  <2> QED
    BY <2>1 DEF Started, Process
<1>3. Numbers \subseteq 1..MaxWifi /\ \A n \in Numbers : main_wifi_processes[n] \in Process
  BY ListTypes
<1>4. /\ DOMAIN main_wifi_processes' = Numbers \cup DOMAIN new
      /\ \A n \in DOMAIN new : main_wifi_processes'[n] = new[n]
      /\ \A n \in Numbers : main_wifi_processes'[n] = main_wifi_processes[n]
  BY <1>1 DEF Start, Free
<1>5. main_wifi_processes' \in Lists
  <2> DEFINE f(n) == IF n \in DOMAIN new THEN new[n] ELSE main_wifi_processes[n]
             N == Numbers \cup DOMAIN new
  <2>1. N \in SUBSET (1..MaxWifi) /\ \A n \in N : f(n) \in Process
    BY <1>1, <1>2, <1>3 DEF Free
  <2>2. main_wifi_processes' = [n \in N |-> f(n)]
    BY DEF Start
  <2> QED
    BY <2>1, <2>2, IsList
<1>6. Running' = Running \cup DOMAIN new
  BY <1>1, <1>2, <1>4 DEF Running, Numbers, Free
<1> QED
  BY <1>1, <1>2, <1>4, <1>5, <1>6 DEF Numbers

(* A program that ends stays on the list, and the others run on. *)
LEMMA EndsSteps ==
    ASSUME main_wifi_processes \in Lists, NEW n, Ends(n, "ended") \/ Ends(n, "failed to start")
    PROVE  /\ n \in Running
           /\ main_wifi_processes' \in Lists
           /\ Numbers' = Numbers
           /\ Running' = Running \ {n}
           /\ \A m \in Numbers : /\ main_wifi_processes'[m].op = main_wifi_processes[m].op
                                 /\ main_wifi_processes'[m].ssid = main_wifi_processes[m].ssid
<1>1. PICK state \in {"ended", "failed to start"} : Ends(n, state)
  OBVIOUS
<1>2. /\ n \in Running /\ n \in Numbers
      /\ main_wifi_processes' = [main_wifi_processes EXCEPT ![n].state = state]
  BY <1>1 DEF Ends, Running
<1>3. /\ Numbers \subseteq 1..MaxWifi
      /\ \A m \in Numbers : main_wifi_processes[m] \in Process
  BY ListTypes
<1>4. /\ DOMAIN main_wifi_processes' = Numbers
      /\ main_wifi_processes'[n] = [main_wifi_processes[n] EXCEPT !.state = state]
      /\ \A m \in Numbers \ {n} : main_wifi_processes'[m] = main_wifi_processes[m]
      /\ main_wifi_processes' = [m \in Numbers |-> main_wifi_processes'[m]]
  BY <1>2 DEF Numbers
<1>5. /\ main_wifi_processes'[n] \in Process
      /\ main_wifi_processes'[n].state = state
      /\ main_wifi_processes'[n].op = main_wifi_processes[n].op
      /\ main_wifi_processes'[n].ssid = main_wifi_processes[n].ssid
  BY <1>2, <1>3, <1>4 DEF Process
<1>6. \A m \in Numbers : main_wifi_processes'[m] \in Process
  BY <1>3, <1>4, <1>5
<1>7. main_wifi_processes' \in Lists
  BY <1>3, <1>4, <1>6, IsList
<1>8. Running' = Running \ {n}
  BY <1>4, <1>5 DEF Running, Numbers
<1> QED
  BY <1>2, <1>4, <1>5, <1>7, <1>8 DEF Numbers

(* The slot takes none off the list that runs. *)
LEMMA FinishedSteps ==
    ASSUME main_wifi_processes \in Lists, NEW n \in Numbers, wifiProcessFinishedData(n)
    PROVE  /\ main_wifi_processes' \in Lists
           /\ Running' = Running
           /\ \A m \in Running : main_wifi_processes'[m] = main_wifi_processes[m]
<1> DEFINE N == {m \in Numbers \ {n} : main_wifi_processes[m].state # "failed to start"}
<1>1. /\ main_wifi_processes[n].state = "ended"
      /\ main_wifi_processes' = [m \in N |-> main_wifi_processes[m]]
  BY DEF wifiProcessFinishedData, Kept
<1>2. N \in SUBSET (1..MaxWifi) /\ \A m \in N : main_wifi_processes[m] \in Process
  BY ListTypes
<1>3. main_wifi_processes' \in Lists
  BY <1>1, <1>2, IsList
<1>4. Running \subseteq N
  BY <1>1 DEF Running
<1> HIDE DEF N
<1>5. DOMAIN main_wifi_processes' = N /\ \A m \in N : main_wifi_processes'[m] = main_wifi_processes[m]
  BY <1>1
<1>6. N \subseteq Numbers
  BY DEF N
<1>7. Running' = Running
  BY <1>4, <1>5, <1>6 DEF Running, Numbers
<1> QED
  BY <1>3, <1>4, <1>5, <1>7

-----------------------------------------------------------------------------
(* No program works against a command that begins: by the other kinds.     *)
LEMMA ClearIs ==
    ASSUME main_wifi_processes \in Lists, NEW ssid \in Ssid \cup {NoSsid}, Clear(ssid)
    PROVE  \A n \in Running :
             /\ main_wifi_processes[n].op \in {"connect", "delete"}
             /\ main_wifi_processes[n].ssid \in Ssid
             /\ IF main_wifi_processes[n].op = "connect"
                THEN main_wifi_processes[n].ssid = ssid
                ELSE main_wifi_processes[n].ssid # ssid
  BY ListTypes DEF Clear, Against, Running, Process

LEMMA InitHolds == WifiInit => IInv
<1>1. WifiInit => WifiTypeOK
  <2>1. WifiInit => useNetworkManager \in BOOLEAN
    BY Zenon DEF WifiInit
  <2> QED  BY <2>1, EmptyIsList DEF WifiInit, WifiTypeOK
<1>2. WifiInit => Pending
  BY DEF WifiInit, Pending
<1> QED  BY <1>1, <1>2 DEF IInv

LEMMA DisconnectHolds == IInv /\ Disconnect => IInv'
<1> SUFFICES ASSUME IInv, Disconnect
             PROVE  IInv'
  OBVIOUS
<1>1. /\ WifiTypeOK /\ wanted' = NoSsid /\ UNCHANGED <<useNetworkManager, busy, saved, wlan>>
  BY DEF IInv, Disconnect
<1>2. ASSUME NEW new \in Programs("delete", saved), Start(new), clear' = Clear(NoSsid)
      PROVE  IInv'
  <2>1. clear' \in BOOLEAN /\ (clear' => Clear(NoSsid))
    BY <1>2, Zenon DEF Clear
  <2>2. /\ main_wifi_processes' \in Lists
        /\ Running' = Running \cup DOMAIN new
        /\ Running \subseteq Numbers
        /\ \A n \in Numbers : main_wifi_processes'[n] = main_wifi_processes[n]
        /\ \A n \in DOMAIN new : main_wifi_processes'[n].op = "delete"
        /\ \A ssid \in saved : \E n \in DOMAIN new : main_wifi_processes'[n].ssid = ssid
    BY <1>1, <1>2, StartSteps DEF WifiTypeOK, Running
  <2>3. WifiTypeOK'
    BY <1>1, <2>1, <2>2 DEF WifiTypeOK
  <2>4. clear' => \A n \in Running : main_wifi_processes[n].op = "delete"
    <3>1. main_wifi_processes \in Lists
      BY <1>1 DEF WifiTypeOK
    <3> QED  BY <2>1, <3>1, ClearIs, NoSsidAssumption
  <2>5. Pending'
    BY <1>1, <2>1, <2>2, <2>4 DEF Pending
  <2> QED
    BY <2>3, <2>5 DEF IInv
<1>3. CASE clear' = FALSE /\ UNCHANGED main_wifi_processes
  BY <1>1, <1>3 DEF IInv, WifiTypeOK, Pending
<1> QED
  BY <1>2, <1>3 DEF Disconnect

LEMMA ConnectHolds ==
    ASSUME IInv, NEW ssid \in Ssid, Connect(ssid)
    PROVE  IInv'
<1>1. /\ WifiTypeOK /\ wanted' = ssid /\ UNCHANGED <<useNetworkManager, busy, saved, wlan>>
      /\ clear' = Clear(ssid)
  BY DEF IInv, Connect
<1>2. PICK new \in Programs("connect", {ssid}) : Start(new)
  BY DEF Connect
<1>3. clear' \in BOOLEAN /\ (clear' => Clear(ssid))
  BY <1>1, Zenon DEF Clear
<1>4. /\ main_wifi_processes' \in Lists
      /\ Running' = Running \cup DOMAIN new
      /\ Running \subseteq Numbers
      /\ \A n \in Numbers : main_wifi_processes'[n] = main_wifi_processes[n]
      /\ \A n \in DOMAIN new : /\ main_wifi_processes'[n].op = "connect"
                               /\ main_wifi_processes'[n].ssid \in {ssid}
      /\ \E n \in DOMAIN new : main_wifi_processes'[n].ssid = ssid
  BY <1>1, <1>2, StartSteps DEF WifiTypeOK, Running
<1>5. WifiTypeOK'
  BY <1>1, <1>3, <1>4 DEF WifiTypeOK
<1>6. ssid # NoSsid
  BY NoSsidAssumption
<1>7. Serving' # {}
  BY <1>1, <1>4, <1>6 DEF Serving, Serves
<1>8. clear' => \A n \in Running : IF main_wifi_processes[n].op = "connect"
                                   THEN main_wifi_processes[n].ssid = ssid
                                   ELSE main_wifi_processes[n].ssid # ssid
  <2>1. main_wifi_processes \in Lists
    BY <1>1 DEF WifiTypeOK
  <2> QED  BY <1>3, <2>1, ClearIs
<1>9. Pending'
  BY <1>1, <1>4, <1>6, <1>7, <1>8 DEF Pending
<1> QED
  BY <1>5, <1>9 DEF IInv

(* The program that ends no longer serves the command; the others do as    *)
(* they did.                                                               *)
LEMMA ServingAfterEnd ==
    ASSUME NEW n, wanted' = wanted, Running' = Running \ {n}, Running \subseteq Numbers,
           \A m \in Numbers : /\ main_wifi_processes'[m].op = main_wifi_processes[m].op
                             /\ main_wifi_processes'[m].ssid = main_wifi_processes[m].ssid
    PROVE  Serving' = Serving \ {n}
  BY DEF Serving, Serves

LEMMA SucceedHolds ==
    ASSUME IInv, NEW n \in Numbers, Succeed(n)
    PROVE  IInv'
<1> DEFINE p == main_wifi_processes[n]
<1>1. /\ WifiTypeOK /\ Pending
      /\ Ends(n, "ended") /\ UNCHANGED <<useNetworkManager, clear, busy, wanted>>
  BY DEF IInv, Succeed, Ends
<1>2. /\ n \in Running
      /\ main_wifi_processes' \in Lists
      /\ Numbers' = Numbers
      /\ Running' = Running \ {n}
      /\ \A m \in Numbers : /\ main_wifi_processes'[m].op = main_wifi_processes[m].op
                            /\ main_wifi_processes'[m].ssid = main_wifi_processes[m].ssid
  BY <1>1, EndsSteps DEF WifiTypeOK
<1>3. Running \subseteq Numbers
  BY DEF Running
<1>4. p.ssid \in Ssid /\ p.op \in {"connect", "delete"}
  BY <1>1, ListTypes DEF WifiTypeOK, Process
<1>5. Serving' = Serving \ {n}
  BY <1>1, <1>2, <1>3, ServingAfterEnd
<1>6. CASE p.op = "delete"
  <2>1. /\ saved' = saved \ {p.ssid}
        /\ wlan' \in IF wlan = p.ssid THEN saved' \cup {NoSsid} ELSE {wlan}
    BY <1>6 DEF Succeed
  <2>2. WifiTypeOK'
    BY <1>1, <1>2, <2>1 DEF WifiTypeOK
  <2>3. ASSUME clear, wanted = NoSsid, NEW ssid \in saved'
        PROVE  \E m \in Running' : main_wifi_processes'[m].ssid = ssid
    <3>1. PICK m \in Running : main_wifi_processes[m].ssid = ssid
      BY <1>1, <2>1, <2>3 DEF Pending
    <3>2. m # n
      BY <2>1, <2>3, <3>1
    <3> QED
      BY <1>2, <1>3, <3>1, <3>2
  <2>4. ASSUME clear, wanted # NoSsid
        PROVE  p.ssid # wanted /\ (Serving' = {} => wlan' = wanted)
    <3>1. p.ssid # wanted /\ n \notin Serving
      BY <1>1, <1>2, <1>6, <2>4 DEF Pending, Serving, Serves
    <3>2. Serving' = {} => wlan = wanted
      BY <1>1, <1>5, <2>4, <3>1 DEF Pending
    <3> QED  BY <2>1, <3>1, <3>2
  <2>5. Pending'
    BY <1>1, <1>2, <1>3, <2>3, <2>4 DEF Pending
  <2> QED
    BY <2>2, <2>5 DEF IInv
<1>7. CASE p.op = "connect"
  <2>1. saved' = saved \cup {p.ssid} /\ wlan' = p.ssid
    BY <1>7 DEF Succeed
  <2>2. WifiTypeOK'
    BY <1>1, <1>2, <1>4, <2>1 DEF WifiTypeOK
  <2>3. clear => wanted # NoSsid /\ p.ssid = wanted
    BY <1>1, <1>2, <1>7 DEF Pending
  <2>4. Pending'
    BY <1>1, <1>2, <1>3, <2>1, <2>3 DEF Pending
  <2> QED
    BY <2>2, <2>4 DEF IInv
<1> QED
  BY <1>4, <1>6, <1>7

(* A program that fails leaves the connections as they were: the deletion  *)
(* of one that is no longer there is not needed.                           *)
LEMMA FailHolds ==
    ASSUME IInv, NEW n \in Numbers, Fail(n)
    PROVE  IInv'
<1> DEFINE p == main_wifi_processes[n]
<1>1. /\ WifiTypeOK /\ Pending /\ UNCHANGED <<useNetworkManager, saved, wlan, busy, wanted>>
      /\ Ends(n, "ended") \/ Ends(n, "failed to start")
  BY DEF IInv, Fail, Ends
<1>2. /\ n \in Running /\ Running \subseteq Numbers
      /\ main_wifi_processes' \in Lists
      /\ Running' = Running \ {n}
      /\ \A m \in Numbers : /\ main_wifi_processes'[m].op = main_wifi_processes[m].op
                            /\ main_wifi_processes'[m].ssid = main_wifi_processes[m].ssid
  BY <1>1, EndsSteps DEF WifiTypeOK, Running
<1>3. /\ clear' \in BOOLEAN
      /\ clear' => clear /\ ~(Serves(p) /\ (p.op = "delete" => p.ssid \in saved))
  BY <1>1, Zenon DEF Fail, WifiTypeOK
<1>4. WifiTypeOK'
  BY <1>1, <1>2, <1>3 DEF WifiTypeOK
<1>5. Serving' = Serving \ {n}
  BY <1>1, <1>2, ServingAfterEnd
<1>6. ASSUME clear', wanted # NoSsid
      PROVE  n \notin Serving
  BY <1>3, <1>6 DEF Serving, Serves
<1>7. ASSUME clear', wanted = NoSsid
      PROVE  p.ssid \notin saved
  <2>1. p.op = "delete"
    BY <1>1, <1>2, <1>3, <1>7 DEF Pending
  <2> QED  BY <1>3, <1>7, <2>1 DEF Serves
<1>8. Pending'
  <2>1. ASSUME clear', wanted = NoSsid, NEW ssid \in saved
        PROVE  \E m \in Running' : main_wifi_processes'[m].ssid = ssid
    <3>1. PICK m \in Running : main_wifi_processes[m].ssid = ssid
      BY <1>1, <1>3, <2>1 DEF Pending
    <3>2. m # n
      BY <1>7, <2>1, <3>1
    <3> QED  BY <1>2, <3>1, <3>2
  <2> QED
    BY <1>1, <1>2, <1>3, <1>5, <1>6, <2>1 DEF Pending
<1> QED
  BY <1>4, <1>8 DEF IInv

LEMMA FinishedHolds ==
    ASSUME IInv, NEW n \in Numbers, wifiProcessFinishedData(n)
    PROVE  IInv'
<1>1. /\ WifiTypeOK /\ Pending
      /\ UNCHANGED <<useNetworkManager, busy, saved, wlan, wanted, clear>>
  BY DEF IInv, wifiProcessFinishedData
<1>2. /\ main_wifi_processes' \in Lists
      /\ Running' = Running
      /\ \A m \in Running : main_wifi_processes'[m] = main_wifi_processes[m]
  BY <1>1, FinishedSteps DEF WifiTypeOK
<1>3. Serving' = Serving
  BY <1>1, <1>2 DEF Serving, Serves
<1> QED
  BY <1>1, <1>2, <1>3 DEF IInv, WifiTypeOK, Pending

(* webhostd or the machine stops, or another command begins or ends. *)
LEMMA OtherHolds == IInv /\ (Block \/ Crash \/ Reboot \/ UNCHANGED wifiVars) => IInv'
<1> SUFFICES ASSUME IInv, Block \/ Crash \/ Reboot \/ UNCHANGED wifiVars
             PROVE  IInv'
  OBVIOUS
<1>1. CASE Block
  <2>1. busy' \in BOOLEAN
    BY <1>1, Zenon DEF Block
  <2> QED
    BY <1>1, <2>1 DEF Block, IInv, WifiTypeOK, Pending, Running, Numbers, Serving, Serves
<1>2. CASE Crash
  <2>1. clear' \in BOOLEAN /\ (clear' => clear /\ Serving = {})
    BY <1>2, Zenon DEF Crash
  <2>2. Running' = {}
    BY <1>2 DEF Crash, Running, Numbers, Empty
  <2>3. WifiTypeOK'
    BY <1>2, <2>1, EmptyIsList DEF Crash, IInv, WifiTypeOK
  <2>4. ASSUME clear, Serving = {}, wanted = NoSsid
        PROVE  saved = {}
    BY <2>4 DEF IInv, Pending, Serving, Serves
  <2>5. Pending'
    BY <1>2, <2>1, <2>2, <2>4 DEF Crash, IInv, Pending
  <2> QED
    BY <2>3, <2>5 DEF IInv
<1>3. CASE Reboot
  BY <1>3, EmptyIsList DEF Reboot, IInv, WifiTypeOK, Pending
<1>4. CASE UNCHANGED wifiVars
  BY <1>4 DEF wifiVars, IInv, WifiTypeOK, Pending, Running, Numbers, Serving, Serves
<1> QED
  BY <1>1, <1>2, <1>3, <1>4

LEMMA StepHolds == IInv /\ [WifiNext]_wifiVars => IInv'
BY DisconnectHolds, ConnectHolds, SucceedHolds, FailHolds, FinishedHolds, OtherHolds DEF WifiNext

LEMMA Inductive == WifiSpec => []IInv
BY InitHolds, StepHolds, PTL DEF WifiSpec

-----------------------------------------------------------------------------
(* The variables keep their types; the active connection is a stored one.  *)
THEOREM WifiTypes == WifiSpec => []WifiTypeOK
<1>1. IInv => WifiTypeOK
  BY DEF IInv
<1> QED
  BY <1>1, Inductive, PTL

(* A WIFI command with NetworkManager is carried out when its own programs *)
(* have ended, whatever other programs run on, unless it met one that      *)
(* works against it: one that deletes the network that is wanted, or that  *)
(* connects to one that is not (MainObject::Wifi()).                       *)
THEOREM WifiIsEffective == WifiSpec => []WifiTakesEffect
<1>1. ASSUME IInv, clear, Serving = {}
      PROVE  wlan = wanted /\ (wanted = NoSsid => saved = {})
  <2>1. CASE wanted # NoSsid
    BY <1>1, <2>1 DEF IInv, Pending
  <2>2. CASE wanted = NoSsid
    <3>1. Running = {}
      BY <1>1, <2>2 DEF IInv, Pending, Serving, Serves
    <3>2. saved = {}
      BY <1>1, <2>2, <3>1 DEF IInv, Pending
    <3> QED  BY <1>1, <2>2, <3>2 DEF IInv, WifiTypeOK
  <2> QED  BY <2>1, <2>2
<1>2. IInv => WifiTakesEffect
  BY <1>1 DEF WifiTakesEffect
<1> QED
  BY <1>2, Inductive, PTL

(* wifiProcessFinishedData() never deletes the QProcess of a program that  *)
(* runs, nor do new commands.                                              *)
THEOREM RunningAreKept == WifiSpec => NoneIsKilled
<1> DEFINE Keeps == \A n \in Running :
                       /\ n \in DOMAIN main_wifi_processes'
                       /\ main_wifi_processes'[n].op = main_wifi_processes[n].op
                       /\ main_wifi_processes'[n].ssid = main_wifi_processes[n].ssid
<1>1. ASSUME IInv, [WifiNext]_wifiVars
      PROVE  [Crash \/ Reboot \/ Keeps]_wifiVars
  <2>1. main_wifi_processes \in Lists /\ Running \subseteq Numbers /\ saved \in SUBSET Ssid
    BY <1>1 DEF IInv, WifiTypeOK, Running
  <2>2. CASE Disconnect
    <3>1. CASE UNCHANGED main_wifi_processes
      BY <2>1, <3>1 DEF Numbers
    <3>2. ASSUME NEW new \in Programs("delete", saved), Start(new)
          PROVE  Keeps
      <4>1. /\ Numbers' = Numbers \cup DOMAIN new
            /\ \A n \in Numbers : main_wifi_processes'[n] = main_wifi_processes[n]
        BY <2>1, <3>2, StartSteps
      <4> QED
        BY <2>1, <4>1 DEF Numbers
    <3> QED
      BY <2>2, <3>1, <3>2 DEF Disconnect
  <2>3. ASSUME NEW ssid \in Ssid, Connect(ssid)
        PROVE  Keeps
    <3>1. PICK new \in Programs("connect", {ssid}) : Start(new)
      BY <2>3 DEF Connect
    <3>2. /\ Numbers' = Numbers \cup DOMAIN new
          /\ \A n \in Numbers : main_wifi_processes'[n] = main_wifi_processes[n]
      BY <2>1, <2>3, <3>1, StartSteps
    <3> QED
      BY <2>1, <3>2 DEF Numbers
  <2>4. ASSUME NEW n \in Numbers, Succeed(n) \/ Fail(n)
        PROVE  Keeps
    BY <2>1, <2>4, EndsSteps DEF Succeed, Fail, Numbers
  <2>5. ASSUME NEW n \in Numbers, wifiProcessFinishedData(n)
        PROVE  Keeps
    BY <2>1, <2>5, FinishedSteps DEF Running, Numbers
  <2>6. CASE Block
    BY <2>1, <2>6 DEF Block, Numbers
  <2> QED
    BY <1>1, <2>2, <2>3, <2>4, <2>5, <2>6 DEF WifiNext
<1> QED
  BY <1>1, Inductive, PTL DEF WifiSpec, NoneIsKilled
=============================================================================
