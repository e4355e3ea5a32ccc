------------------------------ MODULE IpCommand ------------------------------
(***************************************************************************)
(* The IP command of webhostd.  With NetworkManager Ip() runs a list of    *)
(* nmcli(1) programs one after the other, waits for each, and goes on      *)
(* whatever became of it.  Without, it rewrites the file that describes    *)
(* the interface and restarts the network.                                 *)
(*                                                                         *)
(* With NetworkManager the command is applied to the first configured      *)
(* interface, whichever number it gives; that interface is modelled.       *)
(***************************************************************************)
EXTENDS Integers, Sequences

CONSTANTS
    Address,    \* addresses, of interfaces, gateways and name servers
    None,       \* no address, an empty word of the command
    Orders      \* the commands that are sent, of those below

(* Two words turn the interface off; eight give its settings, static or    *)
(* not, and seven ("short") static ones.                                   *)
Order == [kind : {"off", "static", "short", "dhcp"}, address : Address, gateway : Address,
          dns : [1..2 -> Address \cup {None}]]

ASSUME NoneAssumption == None \notin Address
ASSUME OrdersAssumption == Orders \subseteq Order

(* A connection of NetworkManager and what an active one was started with. *)
Settings == [method : {"auto", "manual"}, address : Address \cup {None},
             gateway : Address \cup {None}, dns : SUBSET Address]
Down     == [method |-> "down", address |-> None, gateway |-> None, dns |-> {}]

VARIABLES
    order,      \* the last command
    todo,       \* the nmcli programs that Ip() has still to run for it
    clean,      \* all of its programs were run and none of them failed
    settings, autoconnect,   \* the connection as it is stored
    live,       \* the active connection, or Down
    useNetworkManager,  \* main_config->useNetworkManager()
    ifcfg, back         \* the file of the interface and the one with the suffix .back

nmVars   == <<settings, autoconnect>>
fileVars == <<ifcfg, back>>
vars     == <<order, todo, clean, nmVars, live, useNetworkManager, fileVars>>

(* A file of the interface: the lines that are "parameter=value".  An      *)
(* address stands for IPADDR and NETMASK; Zero is what stands for a        *)
(* parameter that has no value yet, while the file is put together.        *)
(* DEVICE stands for the lines that Ip() does not look at.                 *)
Zero     == "0.0.0.0"
ASSUME ZeroAssumption == Zero \notin Address

Settable == {"IPADDR", "GATEWAY", "DNS1", "DNS2"}
Value    == Address \cup {None, "dhcp", "none", "eth0"}
Fits(value, param) ==
    CASE param = "DEVICE"    -> value = "eth0"
      [] param = "BOOTPROTO" -> value \in {"dhcp", "none"}
      [] OTHER               -> value \in Address \cup {None}
Files    == {f \in UNION {[D -> Value] : D \in SUBSET (Settable \cup {"DEVICE", "BOOTPROTO"})} :
               \A x \in DOMAIN f : Fits(f[x], x)}

Valid(s) == /\ s.method = "manual" => s.address # None
            /\ s.gateway # None => s.address # None

Init ==
    /\ order \in Orders
    /\ todo = <<>>
    /\ clean = FALSE
    /\ useNetworkManager \in BOOLEAN
    /\ ifcfg \in {[x \in {"DEVICE"} |-> "eth0"],
                  [x \in {"DEVICE", "BOOTPROTO"} |-> IF x = "DEVICE" THEN "eth0" ELSE "dhcp"]}
    /\ back = [x \in {} |-> None]
    /\ settings \in {s \in Settings : Valid(s) /\ s.dns = {}}
    /\ autoconnect \in BOOLEAN
    /\ live = Down

-----------------------------------------------------------------------------
(* nmcli(1).  "con mod" with values that make no connection fails.         *)

Mod(field, value) == [op |-> "mod", field |-> field, value |-> value]
Run(op)           == [op |-> op, field |-> "none", value |-> None]
AutoConnect(on)   == [op |-> "autoconnect", field |-> "none", value |-> on]

Modified(p, s) ==
    CASE p.field = "ipv4.method"    -> [s EXCEPT !.method = p.value]
      [] p.field = "ipv4.addresses" -> [s EXCEPT !.address = p.value]
      [] p.field = "ipv4.gateway"   -> [s EXCEPT !.gateway = p.value]
      [] p.field = "ipv4.dns"       -> [s EXCEPT !.dns = {p.value}]
      [] p.field = "+ipv4.dns"      -> [s EXCEPT !.dns = @ \cup {p.value}]
      [] p.field = "static"         -> [s EXCEPT !.address = None, !.gateway = None, !.dns = {}]

Accepted(p) == p.op = "mod" => Valid(Modified(p, settings))

Nmcli(p) ==
    /\ settings' = IF p.op = "mod" /\ Accepted(p) THEN Modified(p, settings) ELSE settings
    /\ autoconnect' = IF p.op = "autoconnect" THEN p.value = "yes" ELSE autoconnect
    /\ live' = CASE p.op = "up" -> settings
                 [] p.op = "down" -> Down
                 [] OTHER -> live
    /\ UNCHANGED fileVars

-----------------------------------------------------------------------------
(* The programs that Ip() runs for a command. *)

(* Mutant: a name server is set whether or not the word is empty. *)
EmptyNameServers(dns) == <<Mod("ipv4.dns", dns[1]), Mod("+ipv4.dns", dns[2])>>

NameServers(dns) ==
    CASE dns[1] # None /\ dns[2] # None ->
            <<Mod("ipv4.dns", dns[1]), Mod("+ipv4.dns", dns[2])>>
      [] dns[1] # None /\ dns[2] = None -> <<Mod("ipv4.dns", dns[1])>>
      [] dns[1] = None /\ dns[2] # None -> <<Mod("ipv4.dns", dns[2])>>
      [] dns[1] = None /\ dns[2] = None -> <<>>

Manual(o) == <<Mod("ipv4.addresses", o.address), Mod("ipv4.gateway", o.gateway)>>
             \o NameServers(o.dns) \o <<Mod("ipv4.method", "manual")>>

(* Mutant: the addresses are cleared before DHCP is enabled. *)
SwappedDhcp == <<Mod("static", None), Mod("ipv4.method", "auto")>>

Dhcp == <<Mod("ipv4.method", "auto"), Mod("static", None)>>

Rewriting == <<Run("open"), Run("write"), Run("rename"), Run("network")>>

(* Mutant: the interface is enabled until the next boot only. *)
ForgetfulProgram(o) ==
    IF ~useNetworkManager THEN IF o.kind = "off" THEN <<>> ELSE Rewriting
    ELSE IF o.kind = "off" THEN <<Run("down"), AutoConnect("no")>>
    ELSE (IF o.kind = "dhcp" THEN Dhcp ELSE Manual(o))
         \o <<Run("down"), Run("up")>>

(* Without NetworkManager the command that turns the interface off does    *)
(* nothing.                                                                *)
Program(o) ==
    IF ~useNetworkManager THEN IF o.kind = "off" THEN <<>> ELSE Rewriting
    ELSE IF o.kind = "off" THEN <<Run("down"), AutoConnect("no")>>
    ELSE (IF o.kind = "dhcp" THEN Dhcp ELSE Manual(o))
         \o <<Run("down"), Run("up"), AutoConnect("yes")>>

Ip(o) ==
    /\ todo = <<>>
    /\ order' = o
    /\ todo' = Program(o)
    /\ clean' = TRUE
    /\ UNCHANGED <<nmVars, live, useNetworkManager, fileVars>>

(* A program that fails, or does not end in 30 seconds and is killed,      *)
(* changes nothing; the next one is run.                                   *)
RunCommand ==
    /\ todo # <<>> /\ useNetworkManager
    /\ todo' = Tail(todo)
    /\ \/ Nmcli(Head(todo)) /\ UNCHANGED clean
       \/ clean' = FALSE /\ UNCHANGED <<nmVars, live, fileVars>>
    /\ UNCHANGED <<order, useNetworkManager>>

-----------------------------------------------------------------------------
(* Without NetworkManager: the file is read, changed and put in place.     *)

Has(f, param) == param \in DOMAIN f

(* IpSeedEntry() of the parameters that Ip() sets.                         *)
Seeded(f) == [x \in DOMAIN f \cup Settable |-> IF Has(f, x) THEN f[x] ELSE Zero]

(* IpPruneEntry() of the name servers. *)
Pruned(f) == [x \in {y \in DOMAIN f : y \in {"DNS1", "DNS2"} => f[y] # Zero} |-> f[x]]

(* What is written for a command.  DHCP is enabled only in a file that     *)
(* says how the interface is configured; the seventh word missing, that    *)
(* remains as it was.                                                      *)
Configured(f, o) ==
    LET use_dhcp == Has(f, "BOOTPROTO") /\ o.kind = "dhcp"
        name_server(old, word) == IF use_dhcp THEN None ELSE IF word = None THEN old ELSE word
        value(x) ==
          CASE x = "IPADDR"  -> IF use_dhcp THEN None ELSE o.address
            [] x = "GATEWAY" -> IF use_dhcp THEN None ELSE o.gateway
            [] x = "DNS1"    -> name_server(Seeded(f)[x], o.dns[1])
            [] x = "DNS2"    -> name_server(Seeded(f)[x], o.dns[2])
            [] x = "BOOTPROTO" /\ o.kind # "short" -> IF o.kind = "dhcp" THEN "dhcp" ELSE "none"
            [] OTHER -> f[x]
    IN Pruned([x \in DOMAIN Seeded(f) |-> value(x)])

(* What the network service makes of a file. *)
Applied(f) ==
    IF ~Has(f, "DEVICE") THEN Down
    ELSE IF Has(f, "BOOTPROTO") /\ f["BOOTPROTO"] = "dhcp"
    THEN [method |-> "auto", address |-> None, gateway |-> None, dns |-> {}]
    ELSE [method |-> "manual", address |-> IF Has(f, "IPADDR") THEN f["IPADDR"] ELSE None,
          gateway |-> IF Has(f, "GATEWAY") THEN f["GATEWAY"] ELSE None,
          dns |-> {f[x] : x \in DOMAIN f \cap {"DNS1", "DNS2"}} \ {None}]

(* The steps of Rewriting.  If the new file cannot be opened the command   *)
(* is given up; if the old one cannot be read an empty one replaces it; if *)
(* the restart of the network fails nobody is told.                        *)
Rewrite ==
    /\ todo # <<>> /\ ~useNetworkManager
    /\ \/ /\ Head(todo).op = "open"
          /\ \/ back' = [x \in {} |-> None] /\ todo' = Tail(todo) /\ UNCHANGED clean
             \/ todo' = <<>> /\ clean' = FALSE /\ UNCHANGED back
          /\ UNCHANGED <<ifcfg, live>>
       \/ /\ Head(todo).op = "write"
          /\ \/ back' = Configured(ifcfg, order) /\ UNCHANGED clean
             \/ back' = [x \in {} |-> None] /\ clean' = FALSE
          /\ todo' = Tail(todo)
          /\ UNCHANGED <<ifcfg, live>>
       \/ /\ Head(todo).op = "rename"
          /\ ifcfg' = back
          /\ back' = [x \in {} |-> None]
          /\ todo' = Tail(todo)
          /\ UNCHANGED <<live, clean>>
       \/ /\ Head(todo).op = "network"
          /\ \/ live' = Applied(ifcfg) /\ UNCHANGED clean
             \/ clean' = FALSE /\ UNCHANGED live
          /\ todo' = Tail(todo)
          /\ UNCHANGED fileVars
    /\ UNCHANGED <<order, nmVars, useNetworkManager>>

-----------------------------------------------------------------------------
(* webhostd dies, by UPGRADE between two commands or at any step. *)
Stop ==
    /\ todo' = <<>>
    /\ clean' = (clean /\ todo = <<>>)

Crash == Stop /\ UNCHANGED <<order, nmVars, live, useNetworkManager, fileVars>>

(* The machine is started again. *)
Reboot ==
    /\ Stop
    /\ live' = IF ~useNetworkManager THEN Applied(ifcfg)
               ELSE IF autoconnect THEN settings ELSE Down
    /\ UNCHANGED <<order, nmVars, useNetworkManager, fileVars>>

Next ==
    \/ \E o \in Orders : Ip(o)
    \/ RunCommand \/ Rewrite
    \/ Crash \/ Reboot

Spec == Init /\ [][Next]_vars

-----------------------------------------------------------------------------
(* Mutant: the mode is read without asking whether the connection is up.   *)
CarelessReadIpConfig ==
    [mode |-> IF settings.method = "auto" THEN "Dhcp" ELSE "Static",
     address |-> settings.address, gateway |-> live.gateway]

(* What the programs and the file say of the interface.                    *)
NmcliView ==
    IF live = Down THEN [mode |-> "Disabled", address |-> None, gateway |-> None]
    ELSE [mode |-> IF settings.method = "auto" THEN "Dhcp" ELSE "Static",
          address |-> settings.address, gateway |-> live.gateway]

FileView ==
    [mode |-> IF Has(ifcfg, "BOOTPROTO") /\ ifcfg["BOOTPROTO"] = "dhcp" THEN "Dhcp" ELSE "Static",
     address |-> IF Has(ifcfg, "IPADDR") THEN ifcfg["IPADDR"] ELSE None,
     gateway |-> IF Has(ifcfg, "GATEWAY") THEN ifcfg["GATEWAY"] ELSE None]

(* What a CGI script that starts now takes the interface for: with         *)
(* NetworkManager the stored method and address and the active gateway, if *)
(* there is an active one; without, what the file says.                    *)
ReadIpConfig == IF useNetworkManager THEN NmcliView ELSE FileView

-----------------------------------------------------------------------------
(* Every variable holds values of its kind.  A file that is put in place   *)
(* says of each parameter what it can be, and nothing is left in it of     *)
(* what stood for a missing value.                                         *)
TypeOK ==
    /\ order \in Orders
    /\ todo \in Seq([op : {"mod", "up", "down", "autoconnect", "open", "write", "rename", "network"},
                     field : {"none", "ipv4.method", "ipv4.addresses", "ipv4.gateway",
                              "ipv4.dns", "+ipv4.dns", "static"},
                     value : Address \cup {None, "auto", "manual", "yes", "no"}])
    /\ clean \in BOOLEAN /\ autoconnect \in BOOLEAN /\ useNetworkManager \in BOOLEAN
    /\ settings \in Settings
    /\ live \in Settings \cup {Down}
    /\ ifcfg \in Files /\ back \in Files

(* The commands that Ip() does not carry out without NetworkManager: to    *)
(* turn the interface off, to enable DHCP where the file does not say how  *)
(* the interface is configured, static settings in seven words where it    *)
(* says DHCP, and any of them once the file could not be read.             *)
CarriedOut ==
    \/ useNetworkManager
    \/ /\ Has(ifcfg, "DEVICE")
       /\ CASE order.kind = "off"    -> FALSE
            [] order.kind = "dhcp"   -> Has(ifcfg, "BOOTPROTO")
            [] order.kind = "short"  -> Has(ifcfg, "BOOTPROTO") => ifcfg["BOOTPROTO"] # "dhcp"
            [] order.kind = "static" -> TRUE

GivenServers(o) == {o.dns[1], o.dns[2]} \ {None}

(* After an IP command that Ip() carries out and of which nothing failed,  *)
(* the interface is as the command says and stays so over reboots,         *)
(* whatever commands, cut off or failed in part, came before.  Name        *)
(* servers that the command does not replace may remain: all of them if it *)
(* gives none, and without NetworkManager each for itself.                 *)
IpTakesEffect ==
    todo = <<>> /\ clean /\ CarriedOut =>
        /\ useNetworkManager => (autoconnect <=> order.kind # "off")
        /\ order.kind = "off" => live = Down
        /\ order.kind \in {"static", "short"} =>
              /\ live.method = "manual"
              /\ live.address = order.address /\ live.gateway = order.gateway
              /\ GivenServers(order) \subseteq live.dns
              /\ useNetworkManager /\ GivenServers(order) # {} => live.dns = GivenServers(order)
        /\ order.kind = "dhcp" =>
              live = [method |-> "auto", address |-> None, gateway |-> None, dns |-> {}]

(* What such a command set up is what the web pages show afterwards, which *)
(* they put together from several programs of their own, or from the file. *)
ShownAsCommanded ==
    todo = <<>> /\ clean /\ CarriedOut =>
        ReadIpConfig = CASE order.kind = "off"  -> [mode |-> "Disabled", address |-> None,
                                                    gateway |-> None]
                         [] order.kind = "dhcp" -> [mode |-> "Dhcp", address |-> None,
                                                    gateway |-> None]
                         [] OTHER -> [mode |-> "Static", address |-> order.address,
                                      gateway |-> order.gateway]

(* nmcli never has to refuse a program that Ip() runs: its comment says    *)
(* that the addresses must not be cleared before DHCP has been enabled,    *)
(* "otherwise nmcli(1) will throw an error!".                              *)
NothingRefused == clean /\ todo # <<>> => Accepted(Head(todo))
=============================================================================
