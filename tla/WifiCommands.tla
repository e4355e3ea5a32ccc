---------------------------- MODULE WifiCommands ----------------------------
(***************************************************************************)
(* The WIFI command of webhostd: each command starts nmcli(1) programs and *)
(* does not wait for them; they end in any order, whatever webhostd does   *)
(* meanwhile, and are taken off a list when it learns that they ended.     *)
(* Nothing depends on the order of the list: its programs are known by     *)
(* numbers, which are used again.                                          *)
(***************************************************************************)
EXTENDS Integers

CONSTANTS
    Ssid,
    NoSsid,
    MaxWifi     \* bound on the programs that are on the list

ASSUME NoSsidAssumption == NoSsid \notin Ssid
ASSUME MaxWifiAssumption == MaxWifi \in Nat \ {0}

Process == [op : {"connect", "delete"}, ssid : Ssid,
            state : {"running", "ended", "failed to start"}]
Lists   == UNION {[N -> Process] : N \in SUBSET (1..MaxWifi)}
Empty   == [n \in {} |-> "none"]

VARIABLES
    useNetworkManager,  \* main_config->useNetworkManager()
    main_wifi_processes,
    busy,       \* another command waits for a program: no slot runs
    saved,      \* the WiFi connections that NetworkManager has stored
    wlan,       \* the active one
    wanted,     \* the SSID of the last command, or NoSsid
    clear       \* history: no program that it met works against it, and
                \* none that it needs has failed

wifiVars == <<useNetworkManager, main_wifi_processes, busy, saved, wlan, wanted, clear>>

Numbers == DOMAIN main_wifi_processes
Free    == (1..MaxWifi) \ Numbers
Running == {n \in Numbers : main_wifi_processes[n].state = "running"}

WifiInit ==
    /\ useNetworkManager \in BOOLEAN
    /\ main_wifi_processes = Empty
    /\ busy = FALSE
    /\ saved \in SUBSET Ssid
    /\ wlan \in saved \cup {NoSsid}
    /\ wanted = NoSsid /\ clear = FALSE

-----------------------------------------------------------------------------
(* The programs in new are put on the list. *)
Start(new) ==
    main_wifi_processes' =
        [n \in Numbers \cup DOMAIN new |-> IF n \in DOMAIN new THEN new[n]
                                           ELSE main_wifi_processes[n]]

(* QProcess::start() *)
Started(op, ssid) == [op |-> op, ssid |-> ssid, state |-> "running"]

(* Programs, one for each of some SSIDs. *)
Programs(op, ssids) ==
    {new \in UNION {[N -> {Started(op, ssid) : ssid \in ssids}] : N \in SUBSET Free} :
        /\ \A ssid \in ssids : \E n \in DOMAIN new : new[n].ssid = ssid
        /\ \A m, n \in DOMAIN new : new[m].ssid = new[n].ssid => m = n}

(* A program that works against the next command: a connection is made     *)
(* that is not wanted, or the one that is wanted is deleted.               *)
Against(p, ssid) == IF p.op = "connect" THEN p.ssid # ssid ELSE p.ssid = ssid

Clear(ssid) == \A n \in Running : ~Against(main_wifi_processes[n], ssid)

(* Mutant: only the first connection of the list is deleted. *)
LazyDisconnect ==
    /\ ~busy /\ useNetworkManager
    /\ \E some \in SUBSET saved :
         /\ \A s, t \in some : s = t
         /\ \E new \in Programs("delete", some) : Start(new)
    /\ wanted' = NoSsid
    /\ clear' = Clear(NoSsid)
    /\ UNCHANGED <<useNetworkManager, busy, saved, wlan>>

(* WIFI without arguments: every connection that "conn show" lists is      *)
(* deleted, by a program of its own; none if "conn show" fails.            *)
Disconnect ==
    /\ ~busy /\ useNetworkManager
    /\ wanted' = NoSsid
    /\ \/ \E new \in Programs("delete", saved) : Start(new) /\ clear' = Clear(NoSsid)
       \/ clear' = FALSE /\ UNCHANGED main_wifi_processes
    /\ UNCHANGED <<useNetworkManager, busy, saved, wlan>>

(* Mutant: the SSID is not among the arguments. *)
MuteConnect(ssid) ==
    /\ ~busy /\ useNetworkManager
    /\ \E new \in Programs("connect", {NoSsid}) : Start(new)
    /\ wanted' = ssid
    /\ clear' = Clear(ssid)
    /\ UNCHANGED <<useNetworkManager, busy, saved, wlan>>

(* Without NetworkManager neither command does anything. *)
Connect(ssid) ==
    /\ ~busy /\ useNetworkManager
    /\ \E new \in Programs("connect", {ssid}) : Start(new)
    /\ wanted' = ssid
    /\ clear' = Clear(ssid)
    /\ UNCHANGED <<useNetworkManager, busy, saved, wlan>>

-----------------------------------------------------------------------------
(* nmcli(1).  A program may fail, and may not even be started. *)

(* What the last command waits for. *)
Serves(p) == IF wanted = NoSsid THEN p.op = "delete" ELSE p.op = "connect" /\ p.ssid = wanted

Serving == {n \in Running : Serves(main_wifi_processes[n])}

Ends(n, state) ==
    /\ n \in Running
    /\ main_wifi_processes' = [main_wifi_processes EXCEPT ![n].state = state]
    /\ UNCHANGED <<useNetworkManager, busy, wanted>>

(* Of a connection that is no longer there the deletion fails.  In place   *)
(* of the active one NetworkManager may activate another that it has.      *)
Succeed(n) ==
    /\ Ends(n, "ended")
    /\ LET p == main_wifi_processes[n]
       IN IF p.op = "delete"
          THEN /\ p.ssid \in saved
               /\ saved' = saved \ {p.ssid}
               /\ wlan' \in IF wlan = p.ssid THEN saved' \cup {NoSsid} ELSE {wlan}
          ELSE saved' = saved \cup {p.ssid} /\ wlan' = p.ssid
    /\ UNCHANGED clear

Fail(n) ==
    /\ Ends(n, "ended") \/ Ends(n, "failed to start")
    /\ LET p == main_wifi_processes[n]
       IN clear' = (clear /\ ~(Serves(p) /\ (p.op = "delete" => p.ssid \in saved)))
    /\ UNCHANGED <<saved, wlan>>

-----------------------------------------------------------------------------
Kept(N) == main_wifi_processes' = [n \in N |-> main_wifi_processes[n]]

(* Mutant: of the processes that have ended the wrong one is removed. *)
OtherFinishedData(n) ==
    /\ ~busy
    /\ main_wifi_processes[n].state = "ended"
    /\ \E m \in Numbers : Kept(Numbers \ {m})
    /\ UNCHANGED <<useNetworkManager, busy, saved, wlan, wanted, clear>>

(* The event loop learns that process n has ended; a process that failed   *)
(* to start, for which the slot is not called, is removed on the occasion. *)
wifiProcessFinishedData(n) ==
    /\ ~busy
    /\ main_wifi_processes[n].state = "ended"
    /\ Kept({m \in Numbers \ {n} : main_wifi_processes[m].state # "failed to start"})
    /\ UNCHANGED <<useNetworkManager, busy, saved, wlan, wanted, clear>>

(* Another command waits for its programs. *)
Block ==
    /\ busy' = ~busy
    /\ UNCHANGED <<useNetworkManager, main_wifi_processes, saved, wlan, wanted, clear>>

(* webhostd dies, and systemd ends its programs with it. *)
Crash ==
    /\ busy' = FALSE
    /\ main_wifi_processes' = Empty
    /\ clear' = (clear /\ Serving = {})
    /\ UNCHANGED <<useNetworkManager, saved, wlan, wanted>>

(* The machine starts again, and NetworkManager picks a connection.        *)
Reboot ==
    /\ busy' = FALSE
    /\ main_wifi_processes' = Empty
    /\ clear' = FALSE
    /\ wlan' \in saved \cup {NoSsid}
    /\ UNCHANGED <<useNetworkManager, saved, wanted>>

WifiNext ==
    \/ Disconnect
    \/ \E ssid \in Ssid : Connect(ssid)
    \/ \E n \in Numbers : Succeed(n) \/ Fail(n) \/ wifiProcessFinishedData(n)
    \/ Block \/ Crash \/ Reboot

WifiSpec == WifiInit /\ [][WifiNext]_wifiVars

-----------------------------------------------------------------------------
(* Every variable holds values of its kind. *)
WifiTypeOK ==
    /\ main_wifi_processes \in Lists
    /\ useNetworkManager \in BOOLEAN /\ busy \in BOOLEAN
    /\ saved \subseteq Ssid
    /\ wlan \in saved \cup {NoSsid}
    /\ wanted \in Ssid \cup {NoSsid}
    /\ clear \in BOOLEAN

(* A WIFI command is carried out once its own programs have ended, if      *)
(* NetworkManager is used: the SSID is the active one, or no connection is *)
(* left.  The programs of earlier commands may still run, in the order of  *)
(* their own: a connection is made while the deletions of others go on.    *)
(* Only one that works against the command is excepted (Against): webhostd *)
(* waits for none, so the connection that was made may be deleted again,   *)
(* or another one replace it.                                              *)
WifiTakesEffect ==
    clear /\ Serving = {} => wlan = wanted /\ (wanted = NoSsid => saved = {})

(* While webhostd lives, a program that runs is never taken off the list,  *)
(* which would delete its QProcess and kill it in the middle of its work,  *)
(* in whichever order the programs on the list end; nor is a new one taken *)
(* for it.                                                                 *)
NoneIsKilled ==
    [][\/ Crash \/ Reboot
       \/ \A n \in Running :
            /\ n \in DOMAIN main_wifi_processes'
            /\ main_wifi_processes'[n].op = main_wifi_processes[n].op
            /\ main_wifi_processes'[n].ssid = main_wifi_processes[n].ssid]_wifiVars
=============================================================================
