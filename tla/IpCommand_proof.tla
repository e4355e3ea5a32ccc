--------------------------- MODULE IpCommand_proof ---------------------------
(* An IP command that is carried out takes effect, for any addresses and   *)
(* commands, whatever commands, failures, deaths and reboots came before.  *)
EXTENDS IpCommand, SequenceTheorems, TLAPS

-----------------------------------------------------------------------------
(* The programs that are run, with the values that each of them is given.  *)
NmcliProgram ==
    [op : {"mod"}, field : {"ipv4.method"}, value : {"auto", "manual"}]
    \cup [op : {"mod"}, value : Address,
          field : {"ipv4.addresses", "ipv4.gateway", "ipv4.dns", "+ipv4.dns"}]
    \cup [op : {"mod"}, field : {"static"}, value : {None}]
    \cup [op : {"up", "down"}, field : {"none"}, value : {None}]
    \cup [op : {"autoconnect"}, field : {"none"}, value : {"yes", "no"}]

FileStep == [op : {"open", "write", "rename", "network"}, field : {"none"}, value : {None}]

(* A file that Ip() has written, or that was there at the start: Zero is   *)
(* not in it.                                                              *)
Parameters == Settable \cup {"DEVICE", "BOOTPROTO"}
Written(f) ==
    /\ f = [x \in DOMAIN f |-> f[x]] /\ DOMAIN f \subseteq Parameters
    /\ \A x \in DOMAIN f :
         /\ x \in Settable => f[x] \in Address \cup {None}
         /\ x = "DEVICE" => f[x] = "eth0"
         /\ x = "BOOTPROTO" => f[x] \in {"dhcp", "none"}

Typed ==
    /\ order \in Orders
    /\ todo \in Seq(IF useNetworkManager THEN NmcliProgram ELSE FileStep)
    /\ clean \in BOOLEAN /\ autoconnect \in BOOLEAN /\ useNetworkManager \in BOOLEAN
    /\ settings \in Settings /\ Valid(settings)
    /\ live \in Settings \cup {Down}
    /\ Written(ifcfg) /\ Written(back)

-----------------------------------------------------------------------------
(* How far a command is of which nothing has failed, with NetworkManager.  *)
IsStatic == order.kind \in {"static", "short"}

ServersSet   == GivenServers(order) # {} => settings.dns = GivenServers(order)
AddressesSet == settings.address = order.address /\ settings.gateway = order.gateway

AsOrdered ==
    /\ IsStatic => settings.method = "manual" /\ AddressesSet /\ ServersSet
    /\ order.kind = "dhcp" =>
          settings = [method |-> "auto", address |-> None, gateway |-> None, dns |-> {}]

Enabling == <<Mod("ipv4.method", "manual"), Run("down"), Run("up"), AutoConnect("yes")>>
Serving  == NameServers(order.dns) \o Enabling
Routing  == <<Mod("ipv4.gateway", order.gateway)>> \o Serving

TurningOff ==
    \/ todo = <<Run("down"), AutoConnect("no")>>
    \/ todo = <<AutoConnect("no")>> /\ live = Down
    \/ todo = <<>> /\ live = Down /\ autoconnect = FALSE

Starting ==
    \/ todo = <<Run("down"), Run("up"), AutoConnect("yes")>>
    \/ todo = <<Run("up"), AutoConnect("yes")>>
    \/ todo = <<AutoConnect("yes")>> /\ live = settings
    \/ todo = <<>> /\ live = settings /\ autoconnect = TRUE

Asking ==
    \/ todo = <<Mod("ipv4.method", "auto"), Mod("static", None), Run("down"), Run("up"),
                AutoConnect("yes")>>
    \/ /\ todo = <<Mod("static", None), Run("down"), Run("up"), AutoConnect("yes")>>
       /\ settings.method = "auto"

Filling ==
    \/ todo = <<Mod("ipv4.addresses", order.address)>> \o Routing
    \/ todo = Routing /\ settings.address = order.address
    \/ todo = Serving /\ AddressesSet
    \/ /\ order.dns[1] # None /\ order.dns[2] # None
       /\ todo = <<Mod("+ipv4.dns", order.dns[2])>> \o Enabling
       /\ AddressesSet /\ settings.dns = {order.dns[1]}
    \/ todo = Enabling /\ AddressesSet /\ ServersSet

NmcliProgress ==
    \/ order.kind = "off" /\ TurningOff
    \/ order.kind # "off" /\ Starting /\ AsOrdered
    \/ order.kind = "dhcp" /\ Asking
    \/ IsStatic /\ Filling

-----------------------------------------------------------------------------
(* And without.  What a file says that was written for the command:        *)
Says(f) ==
    /\ IsStatic =>
         /\ Has(f, "IPADDR") /\ f["IPADDR"] = order.address
         /\ Has(f, "GATEWAY") /\ f["GATEWAY"] = order.gateway
         /\ order.dns[1] # None => Has(f, "DNS1") /\ f["DNS1"] = order.dns[1]
         /\ order.dns[2] # None => Has(f, "DNS2") /\ f["DNS2"] = order.dns[2]
         /\ order.kind = "static" /\ Has(f, "BOOTPROTO") => f["BOOTPROTO"] = "none"
    /\ order.kind = "dhcp" /\ Has(f, "BOOTPROTO") =>
         /\ f["BOOTPROTO"] = "dhcp"
         /\ Has(f, "IPADDR") => f["IPADDR"] = None
         /\ Has(f, "GATEWAY") => f["GATEWAY"] = None

FileProgress ==
    \/ order.kind = "off" /\ todo = <<>>
    \/ /\ order.kind # "off"
       /\ \/ todo = Rewriting
          \/ todo = <<Run("write"), Run("rename"), Run("network")>>
          \/ todo = <<Run("rename"), Run("network")>> /\ Says(back)
          \/ todo = <<Run("network")>> /\ Says(ifcfg)
          \/ todo = <<>> /\ Says(ifcfg) /\ live = Applied(ifcfg)

IInv ==
    /\ Typed
    /\ clean /\ useNetworkManager => NmcliProgress
    /\ clean /\ ~useNetworkManager => FileProgress

-----------------------------------------------------------------------------
(* Sequences.                                                              *)

LEMMA ConsStep ==
    ASSUME NEW S, NEW x, NEW r \in Seq(S)
    PROVE  <<x>> \o r # <<>> /\ Head(<<x>> \o r) = x /\ Tail(<<x>> \o r) = r
<1> DEFINE T == S \cup {x}
<1>1. <<x>> \in Seq(T) /\ r \in Seq(T) /\ Len(<<x>>) = 1
  BY SeqMonotonic
<1> DEFINE s == <<x>> \o r
<1>2. /\ s \in Seq(T) /\ Len(s) = 1 + Len(r)
      /\ \A i \in 1..(1 + Len(r)) : s[i] = IF i <= 1 THEN <<x>>[i] ELSE r[i - 1]
  BY <1>1, ConcatProperties
<1>3. Len(r) \in Nat /\ s # <<>>
  BY <1>1, <1>2, LenProperties
<1>4. Head(s) = x
  BY <1>2, <1>3
<1>5. Tail(s) \in Seq(T) /\ Len(Tail(s)) = Len(s) - 1
  BY <1>2, <1>3
<1>6. \A i \in 1..Len(r) : Tail(s)[i] = r[i]
  BY <1>2, <1>3
<1>7. Tail(s) = r
  BY <1>1, <1>2, <1>3, <1>5, <1>6, SeqEqual
<1> QED
  BY <1>3, <1>4, <1>7

LEMMA ConcatOfFour ==
    ASSUME NEW S, NEW x \in S, NEW y1 \in S, NEW y2 \in S, NEW y3 \in S
    PROVE  <<x>> \o <<y1, y2, y3>> = <<x, y1, y2, y3>>
<1> DEFINE s == <<x>> \o <<y1, y2, y3>>
<1>1. <<x>> \in Seq(S) /\ <<y1, y2, y3>> \in Seq(S) /\ <<x, y1, y2, y3>> \in Seq(S)
  OBVIOUS
<1>2. /\ s \in Seq(S) /\ Len(s) = 4
      /\ s[1] = x /\ s[2] = y1 /\ s[3] = y2 /\ s[4] = y3
  BY <1>1, ConcatProperties
<1> HIDE DEF s
<1>3. \A i \in 1..4 : s[i] = <<x, y1, y2, y3>>[i]
  <2> TAKE i \in 1..4
  <2> i = 1 \/ i = 2 \/ i = 3 \/ i = 4
    OBVIOUS
  <2> QED
    BY <1>2
<1>4. s = <<x, y1, y2, y3>>
  BY <1>1, <1>2, <1>3, SeqEqual
<1> QED
  BY <1>4 DEF s

LEMMA ConcatOfFive ==
    ASSUME NEW S, NEW x1 \in S, NEW x2 \in S, NEW y1 \in S, NEW y2 \in S, NEW y3 \in S
    PROVE  <<x1, x2>> \o <<y1, y2, y3>> = <<x1, x2, y1, y2, y3>>
<1> DEFINE s == <<x1, x2>> \o <<y1, y2, y3>>
<1>1. <<x1, x2>> \in Seq(S) /\ <<y1, y2, y3>> \in Seq(S) /\ <<x1, x2, y1, y2, y3>> \in Seq(S)
  OBVIOUS
<1>2. /\ s \in Seq(S) /\ Len(s) = 5
      /\ s[1] = x1 /\ s[2] = x2 /\ s[3] = y1 /\ s[4] = y2 /\ s[5] = y3
  BY <1>1, ConcatProperties
<1> HIDE DEF s
<1>3. \A i \in 1..5 : s[i] = <<x1, x2, y1, y2, y3>>[i]
  <2> TAKE i \in 1..5
  <2> i = 1 \/ i = 2 \/ i = 3 \/ i = 4 \/ i = 5
    OBVIOUS
  <2> QED
    BY <1>2
<1>4. s = <<x1, x2, y1, y2, y3>>
  BY <1>1, <1>2, <1>3, SeqEqual
<1> QED
  BY <1>4 DEF s

-----------------------------------------------------------------------------
(* Types.                                                                  *)

LEMMA OrderTypes ==
    ASSUME NEW o \in Orders
    PROVE  /\ o.kind \in {"off", "static", "short", "dhcp"}
           /\ o.address \in Address /\ o.gateway \in Address
           /\ o.dns[1] \in Address \cup {None} /\ o.dns[2] \in Address \cup {None}
BY OrdersAssumption DEF Order

LEMMA ServersTypes ==
    ASSUME NEW o \in Orders
    PROVE  NameServers(o.dns) \in Seq(NmcliProgram)
<1>1. \A a \in Address : /\ Mod("ipv4.dns", a) \in NmcliProgram
                         /\ Mod("+ipv4.dns", a) \in NmcliProgram
  BY DEF Mod, NmcliProgram
<1>2. /\ o.dns[1] \in Address \cup {None} /\ o.dns[2] \in Address \cup {None}
  BY OrderTypes
<1>3. CASE o.dns[1] # None /\ o.dns[2] # None
  BY <1>1, <1>2, <1>3 DEF NameServers
<1>4. CASE o.dns[1] # None /\ o.dns[2] = None
  BY <1>1, <1>2, <1>4 DEF NameServers
<1>5. CASE o.dns[1] = None /\ o.dns[2] # None
  BY <1>1, <1>2, <1>5 DEF NameServers
<1>6. CASE o.dns[1] = None /\ o.dns[2] = None
  BY <1>6 DEF NameServers
<1> QED
  BY <1>3, <1>4, <1>5, <1>6

LEMMA EnablingTypes ==
    /\ Enabling \in Seq(NmcliProgram)
    /\ <<Run("down"), Run("up"), AutoConnect("yes")>> \in Seq(NmcliProgram)
    /\ <<Mod("ipv4.method", "manual")>> \in Seq(NmcliProgram)
    /\ <<Run("down"), AutoConnect("no")>> \in Seq(NmcliProgram)
    /\ Dhcp \in Seq(NmcliProgram)
<1>1. /\ Mod("ipv4.method", "manual") \in NmcliProgram
      /\ Mod("ipv4.method", "auto") \in NmcliProgram
      /\ Mod("static", None) \in NmcliProgram
  BY DEF Mod, NmcliProgram
<1>2. Run("down") \in NmcliProgram /\ Run("up") \in NmcliProgram
  BY DEF Run, NmcliProgram
<1>3. AutoConnect("yes") \in NmcliProgram /\ AutoConnect("no") \in NmcliProgram
  BY DEF AutoConnect, NmcliProgram
<1> QED
  BY <1>1, <1>2, <1>3 DEF Enabling, Dhcp

(* The programs for a command with static settings, one behind the other.  *)
LEMMA ManualIsChain ==
    ASSUME NEW o \in Orders
    PROVE  /\ Manual(o) \o <<Run("down"), Run("up"), AutoConnect("yes")>>
              = <<Mod("ipv4.addresses", o.address)>>
                \o (<<Mod("ipv4.gateway", o.gateway)>> \o (NameServers(o.dns) \o Enabling))
           /\ NameServers(o.dns) \o Enabling \in Seq(NmcliProgram)
           /\ <<Mod("ipv4.gateway", o.gateway)>> \o (NameServers(o.dns) \o Enabling)
              \in Seq(NmcliProgram)
           /\ Manual(o) \o <<Run("down"), Run("up"), AutoConnect("yes")>> \in Seq(NmcliProgram)
<1> DEFINE a == <<Mod("ipv4.addresses", o.address)>>
           g == <<Mod("ipv4.gateway", o.gateway)>>
           ag == <<Mod("ipv4.addresses", o.address), Mod("ipv4.gateway", o.gateway)>>
           n == NameServers(o.dns)
           m == <<Mod("ipv4.method", "manual")>>
           f == <<Run("down"), Run("up"), AutoConnect("yes")>>
           S == Seq(NmcliProgram)
<1>1. Mod("ipv4.addresses", o.address) \in NmcliProgram /\ Mod("ipv4.gateway", o.gateway) \in NmcliProgram
  BY OrderTypes DEF Mod, NmcliProgram
<1>2. a \in S /\ g \in S /\ ag \in S
  BY <1>1
<1>3. n \in S /\ m \in S /\ f \in S /\ Enabling \in S
  BY ServersTypes, EnablingTypes
<1>4. ag = a \o g
  OBVIOUS
<1>5. m \o f = Enabling
  <2>1. /\ Mod("ipv4.method", "manual") \in NmcliProgram /\ Run("down") \in NmcliProgram
        /\ Run("up") \in NmcliProgram /\ AutoConnect("yes") \in NmcliProgram
    BY DEF Mod, Run, AutoConnect, NmcliProgram
  <2> QED
    BY <2>1, ConcatOfFour DEF Enabling
<1>0. \A s, t, u \in S : (s \o t) \o u = s \o (t \o u)
  BY ConcatAssociative
<1> HIDE DEF a, g, ag, n, m, f
<1>6. Manual(o) = (ag \o n) \o m
  BY DEF Manual, a, g, ag, n, m
<1>7. ag \o n \in S /\ n \o Enabling \in S /\ g \o (n \o Enabling) \in S
  BY <1>2, <1>3, ConcatProperties
<1> HIDE DEF S
<1>8. ((ag \o n) \o m) \o f = (ag \o n) \o Enabling
  <2> DEFINE an == ag \o n
  <2>0. an \in S
    BY <1>7
  <2> HIDE DEF an
  <2>1. (an \o m) \o f = an \o (m \o f)
    BY <1>0, <1>3, <2>0
  <2> QED
    BY <2>1, <1>5 DEF an
<1>9. (ag \o n) \o Enabling = ag \o (n \o Enabling)
  BY <1>0, <1>2, <1>3
<1>10. ag \o (n \o Enabling) = a \o (g \o (n \o Enabling))
  <2>1. (a \o g) \o (n \o Enabling) = a \o (g \o (n \o Enabling))
    BY <1>0, <1>2, <1>7
  <2> QED
    BY <2>1, <1>4
<1> USE DEF S
<1>11. a \o (g \o (n \o Enabling)) \in S
  BY <1>2, <1>7, ConcatProperties
<1>12. Manual(o) \o f = a \o (g \o (n \o Enabling))
  BY <1>6, <1>8, <1>9, <1>10
<1> QED
  BY <1>7, <1>11, <1>12 DEF a, g, n, f

LEMMA ProgramTypes ==
    ASSUME NEW o \in Orders, useNetworkManager \in BOOLEAN
    PROVE  Program(o) \in Seq(IF useNetworkManager THEN NmcliProgram ELSE FileStep)
<1>1. CASE ~useNetworkManager
  <2>1. \A op \in {"open", "write", "rename", "network"} : Run(op) \in FileStep
    BY DEF Run, FileStep
  <2>2. Rewriting \in Seq(FileStep)
    BY <2>1 DEF Rewriting
  <2>3. <<>> \in Seq(FileStep)
    OBVIOUS
  <2> QED
    BY <1>1, <2>2, <2>3 DEF Program
<1>2. CASE useNetworkManager
  <2>1. CASE o.kind = "off"
    BY <1>2, <2>1, EnablingTypes DEF Program
  <2>2. CASE o.kind = "dhcp"
    <3>1. Program(o) = Dhcp \o <<Run("down"), Run("up"), AutoConnect("yes")>>
      BY <1>2, <2>2 DEF Program
    <3>2. Program(o) \in Seq(NmcliProgram)
      BY <3>1, EnablingTypes, ConcatProperties
    <3> QED
      BY <1>2, <3>2
  <2>3. CASE o.kind \notin {"off", "dhcp"}
    <3>1. Program(o) = Manual(o) \o <<Run("down"), Run("up"), AutoConnect("yes")>>
      BY <1>2, <2>3 DEF Program
    <3> QED
      BY <1>2, <3>1, ManualIsChain
  <2> QED
    BY <2>1, <2>2, <2>3
<1> QED
  BY <1>1, <1>2

(* What nmcli accepts leaves a connection of its kind. *)
LEMMA ModifiedTypes ==
    ASSUME NEW p \in NmcliProgram, p.op = "mod", NEW s \in Settings
    PROVE  Modified(p, s) \in Settings
<1>1. /\ s.method \in {"auto", "manual"} /\ s.address \in Address \cup {None}
      /\ s.gateway \in Address \cup {None} /\ s.dns \in SUBSET Address
      /\ s = [method |-> s.method, address |-> s.address, gateway |-> s.gateway, dns |-> s.dns]
  BY DEF Settings
<1>2. CASE p.field = "ipv4.method" /\ p.value \in {"auto", "manual"}
  BY <1>1, <1>2 DEF Modified, Settings
<1>3. CASE p.field = "ipv4.addresses" /\ p.value \in Address
  BY <1>1, <1>3 DEF Modified, Settings
<1>4. CASE p.field = "ipv4.gateway" /\ p.value \in Address
  BY <1>1, <1>4 DEF Modified, Settings
<1>5. CASE p.field = "ipv4.dns" /\ p.value \in Address
  BY <1>1, <1>5 DEF Modified, Settings
<1>6. CASE p.field = "+ipv4.dns" /\ p.value \in Address
  BY <1>1, <1>6 DEF Modified, Settings
<1>7. CASE p.field = "static"
  BY <1>1, <1>7 DEF Modified, Settings
<1> QED
  BY <1>2, <1>3, <1>4, <1>5, <1>6, <1>7 DEF NmcliProgram

LEMMA NmcliTypes ==
    ASSUME NEW p \in NmcliProgram, Nmcli(p),
           settings \in Settings, Valid(settings), autoconnect \in BOOLEAN,
           live \in Settings \cup {Down}
    PROVE  /\ settings' \in Settings /\ Valid(settings') /\ autoconnect' \in BOOLEAN
           /\ live' \in Settings \cup {Down}
<1>1. settings' \in Settings /\ Valid(settings')
  <2>1. CASE p.op = "mod" /\ Accepted(p)
    BY <2>1, ModifiedTypes DEF Nmcli, Accepted
  <2>2. CASE ~(p.op = "mod" /\ Accepted(p))
    BY <2>2 DEF Nmcli
  <2> QED
    BY <2>1, <2>2
<1>2. autoconnect' \in BOOLEAN
  <2>1. CASE p.op = "autoconnect"
    BY <2>1, Zenon DEF Nmcli
  <2>2. CASE p.op # "autoconnect"
    BY <2>2 DEF Nmcli
  <2> QED
    BY <2>1, <2>2
<1>3. live' \in Settings \cup {Down}
  BY DEF Nmcli
<1> QED
  BY <1>1, <1>2, <1>3

-----------------------------------------------------------------------------
(* The file.                                                               *)

LEMMA ConfiguredSays ==
    ASSUME NEW f, Written(f), order \in Orders
    PROVE  Written(Configured(f, order)) /\ Says(Configured(f, order))
<1> DEFINE g == Configured(f, order)
<1>1. /\ order.kind \in {"off", "static", "short", "dhcp"}
      /\ order.address \in Address /\ order.gateway \in Address
      /\ order.dns[1] \in Address \cup {None} /\ order.dns[2] \in Address \cup {None}
  BY OrderTypes
<1> DEFINE use_dhcp == Has(f, "BOOTPROTO") /\ order.kind = "dhcp"
           name_server(old, word) == IF use_dhcp THEN None ELSE IF word = None THEN old ELSE word
           value(x) ==
             CASE x = "IPADDR"  -> IF use_dhcp THEN None ELSE order.address
               [] x = "GATEWAY" -> IF use_dhcp THEN None ELSE order.gateway
               [] x = "DNS1"    -> name_server(Seeded(f)[x], order.dns[1])
               [] x = "DNS2"    -> name_server(Seeded(f)[x], order.dns[2])
               [] x = "BOOTPROTO" /\ order.kind # "short" ->
                    IF order.kind = "dhcp" THEN "dhcp" ELSE "none"
               [] OTHER -> f[x]
           D == DOMAIN f \cup Settable
           E == {y \in D : y \in {"DNS1", "DNS2"} => value(y) # Zero}
<1>2. DOMAIN Seeded(f) = D /\ \A x \in D : Seeded(f)[x] = IF x \in DOMAIN f THEN f[x] ELSE Zero
  BY DEF Seeded, Has
<1>3. g = Pruned([x \in D |-> value(x)])
  BY <1>2 DEF Configured
<1>4. DOMAIN g = E /\ \A x \in E : g[x] = value(x)
  BY <1>3 DEF Pruned
<1>5. g = [x \in DOMAIN g |-> g[x]]
  BY <1>3 DEF Pruned
<1>6. Zero \notin Address
  BY ZeroAssumption
<1> HIDE DEF use_dhcp, name_server, value, D, E, g
<1>7. /\ D = DOMAIN f \cup Settable
      /\ E = {y \in D : y \in {"DNS1", "DNS2"} => value(y) # Zero}
      /\ use_dhcp <=> "BOOTPROTO" \in DOMAIN f /\ order.kind = "dhcp"
  BY DEF D, E, use_dhcp, Has
<1>8. /\ value("IPADDR") = IF use_dhcp THEN None ELSE order.address
      /\ value("GATEWAY") = IF use_dhcp THEN None ELSE order.gateway
      /\ value("DNS1") = name_server(Seeded(f)["DNS1"], order.dns[1])
      /\ value("DNS2") = name_server(Seeded(f)["DNS2"], order.dns[2])
      /\ value("DEVICE") = f["DEVICE"]
      /\ order.kind # "short" => value("BOOTPROTO") = IF order.kind = "dhcp" THEN "dhcp" ELSE "none"
      /\ order.kind = "short" => value("BOOTPROTO") = f["BOOTPROTO"]
  BY DEF value
<1>9. \A x \in {"DNS1", "DNS2"} : Seeded(f)[x] \in Address \cup {None, Zero}
  BY <1>2, <1>7 DEF Written, Settable
<1>10. \A old \in Address \cup {None, Zero}, word \in Address \cup {None} :
         /\ name_server(old, word) \in Address \cup {None, Zero}
         /\ ~use_dhcp /\ word # None => name_server(old, word) = word
  BY DEF name_server
<1>11. DOMAIN g \subseteq Parameters
  BY <1>4, <1>7 DEF Written, Parameters
<1>12. \A x \in DOMAIN g :
         /\ x \in Settable => g[x] \in Address \cup {None}
         /\ x = "DEVICE" => g[x] = "eth0"
         /\ x = "BOOTPROTO" => g[x] \in {"dhcp", "none"}
  <2>1. \A x \in {"IPADDR", "GATEWAY"} : x \in DOMAIN g => g[x] \in Address \cup {None}
    BY <1>1, <1>4, <1>8
  <2>2. \A x \in {"DNS1", "DNS2"} : x \in DOMAIN g => g[x] \in Address \cup {None}
    BY <1>1, <1>4, <1>7, <1>8, <1>9, <1>10
  <2>3. "DEVICE" \in DOMAIN g => g["DEVICE"] = "eth0"
    BY <1>4, <1>7, <1>8 DEF Written, Settable
  <2>4. "BOOTPROTO" \in DOMAIN g => g["BOOTPROTO"] \in {"dhcp", "none"}
    BY <1>4, <1>7, <1>8 DEF Written, Settable
  <2> QED
    BY <2>1, <2>2, <2>3, <2>4 DEF Settable
<1>13. Written(g)
  BY <1>5, <1>11, <1>12 DEF Written
<1>14. {"IPADDR", "GATEWAY"} \subseteq DOMAIN g
  BY <1>4, <1>7 DEF Settable
<1>15. "BOOTPROTO" \in DOMAIN g <=> "BOOTPROTO" \in DOMAIN f
  BY <1>4, <1>7 DEF Settable
<1>16. ASSUME IsStatic
       PROVE  /\ order.dns[1] # None => Has(g, "DNS1") /\ g["DNS1"] = order.dns[1]
              /\ order.dns[2] # None => Has(g, "DNS2") /\ g["DNS2"] = order.dns[2]
  <2>1. ~use_dhcp
    BY <1>7, <1>16 DEF IsStatic
  <2>2. {"DNS1", "DNS2"} \subseteq D
    BY <1>7 DEF Settable
  <2>3. order.dns[1] # None => value("DNS1") = order.dns[1] /\ order.dns[1] # Zero
    BY <2>1, <1>1, <1>6, <1>8, <1>9, <1>10
  <2>4. order.dns[2] # None => value("DNS2") = order.dns[2] /\ order.dns[2] # Zero
    BY <2>1, <1>1, <1>6, <1>8, <1>9, <1>10
  <2> QED
    BY <2>2, <2>3, <2>4, <1>4, <1>7 DEF Has
<1>17. IsStatic =>
         /\ Has(g, "IPADDR") /\ g["IPADDR"] = order.address
         /\ Has(g, "GATEWAY") /\ g["GATEWAY"] = order.gateway
         /\ order.kind = "static" /\ Has(g, "BOOTPROTO") => g["BOOTPROTO"] = "none"
  BY <1>4, <1>7, <1>8, <1>14 DEF Has, IsStatic
<1>18. order.kind = "dhcp" /\ Has(g, "BOOTPROTO") =>
         /\ g["BOOTPROTO"] = "dhcp"
         /\ Has(g, "IPADDR") => g["IPADDR"] = None
         /\ Has(g, "GATEWAY") => g["GATEWAY"] = None
  BY <1>4, <1>7, <1>8, <1>15 DEF Has
<1>19. Says(g)
  BY <1>16, <1>17, <1>18 DEF Says
<1> QED
  BY <1>13, <1>19 DEF g

LEMMA AppliedTypes ==
    ASSUME NEW f, Written(f)
    PROVE  Applied(f) \in Settings \cup {Down}
<1>1. \A x \in DOMAIN f : x \in Settable => f[x] \in Address \cup {None}
  BY DEF Written
<1>2. {f[x] : x \in DOMAIN f \cap {"DNS1", "DNS2"}} \ {None} \in SUBSET Address
  BY <1>1 DEF Settable
<1>3. /\ (IF Has(f, "IPADDR") THEN f["IPADDR"] ELSE None) \in Address \cup {None}
      /\ (IF Has(f, "GATEWAY") THEN f["GATEWAY"] ELSE None) \in Address \cup {None}
  BY <1>1 DEF Settable, Has
<1>4. \A a \in Address \cup {None}, g \in Address \cup {None}, d \in SUBSET Address :
        [method |-> "manual", address |-> a, gateway |-> g, dns |-> d] \in Settings
  BY DEF Settings
<1>5. [method |-> "auto", address |-> None, gateway |-> None, dns |-> {}] \in Settings
  BY DEF Settings
<1> QED
  BY <1>2, <1>3, <1>4, <1>5 DEF Applied

LEMMA WrittenIsFile ==
    ASSUME NEW f, Written(f)
    PROVE  f \in Files
<1>1. DOMAIN f \in SUBSET (Settable \cup {"DEVICE", "BOOTPROTO"})
  BY DEF Written, Parameters
<1>2. \A x \in DOMAIN f : f[x] \in Value
  BY DEF Written, Parameters, Value
<1>3. f \in [DOMAIN f -> Value]
  BY <1>2 DEF Written
<1>4. \A x \in DOMAIN f : Fits(f[x], x)
  BY DEF Written, Parameters, Settable, Fits
<1> QED
  BY <1>1, <1>3, <1>4 DEF Files

LEMMA EmptyFile == Written([x \in {} |-> None])
BY DEF Written

-----------------------------------------------------------------------------
(* The steps.                                                              *)

LEMMA InitHolds == Init => IInv
<1> SUFFICES ASSUME Init
             PROVE  IInv
  OBVIOUS
<1>1. Written(ifcfg)
  <2>1. CASE ifcfg = [x \in {"DEVICE"} |-> "eth0"]
    BY <2>1 DEF Written, Parameters, Settable
  <2>2. CASE ifcfg = [x \in {"DEVICE", "BOOTPROTO"} |-> IF x = "DEVICE" THEN "eth0" ELSE "dhcp"]
    BY <2>2 DEF Written, Parameters, Settable
  <2> QED
    BY <2>1, <2>2 DEF Init
<1>2. Written(back)
  BY EmptyFile DEF Init
<1>3. todo \in Seq(IF useNetworkManager THEN NmcliProgram ELSE FileStep)
  BY DEF Init
<1>4. Typed
  BY <1>1, <1>2, <1>3 DEF Init, Typed
<1> QED
  BY <1>4 DEF Init, IInv

(* A command is taken up: all of its programs are to be run. *)
LEMMA IpHolds ==
    ASSUME IInv, NEW o \in Orders, Ip(o)
    PROVE  IInv'
<1>1. /\ order' = o /\ todo' = Program(o) /\ clean' = TRUE
      /\ UNCHANGED <<settings, autoconnect, live, useNetworkManager, ifcfg, back>>
  BY DEF Ip, nmVars, fileVars
<1>2. todo' \in Seq(IF useNetworkManager' THEN NmcliProgram ELSE FileStep)
  BY <1>1, ProgramTypes DEF IInv, Typed
<1>3. Typed'
  BY <1>1, <1>2 DEF IInv, Typed, Written
<1>4. o.kind \in {"off", "static", "short", "dhcp"}
  BY OrderTypes
<1>5. ASSUME useNetworkManager
      PROVE  NmcliProgress'
  <2>1. CASE o.kind = "off"
    BY <1>1, <1>5, <2>1 DEF Program, NmcliProgress, TurningOff
  <2>2. CASE o.kind = "dhcp"
    <3>1. /\ Mod("ipv4.method", "auto") \in NmcliProgram /\ Mod("static", None) \in NmcliProgram
          /\ Run("down") \in NmcliProgram /\ Run("up") \in NmcliProgram
          /\ AutoConnect("yes") \in NmcliProgram
      BY DEF Mod, Run, AutoConnect, NmcliProgram
    <3>2. Dhcp \o <<Run("down"), Run("up"), AutoConnect("yes")>>
            = <<Mod("ipv4.method", "auto"), Mod("static", None), Run("down"), Run("up"),
                AutoConnect("yes")>>
      BY <3>1, ConcatOfFive DEF Dhcp
    <3>3. todo' = Dhcp \o <<Run("down"), Run("up"), AutoConnect("yes")>>
      BY <1>1, <1>5, <2>2 DEF Program
    <3> QED
      BY <1>1, <2>2, <3>2, <3>3 DEF NmcliProgress, Asking
  <2>3. CASE o.kind \in {"static", "short"}
    <3>1. todo' = Manual(o) \o <<Run("down"), Run("up"), AutoConnect("yes")>>
      BY <1>1, <1>5, <2>3 DEF Program
    <3>2. todo' = (<<Mod("ipv4.addresses", order.address)>> \o Routing)'
      BY <1>1, <3>1, ManualIsChain DEF Routing, Serving
    <3> QED
      BY <1>1, <2>3, <3>2 DEF NmcliProgress, IsStatic, Filling
  <2> QED
    BY <1>4, <2>1, <2>2, <2>3
<1>6. ASSUME ~useNetworkManager
      PROVE  FileProgress'
  BY <1>1, <1>6 DEF Program, FileProgress
<1> QED
  BY <1>1, <1>3, <1>5, <1>6 DEF IInv

-----------------------------------------------------------------------------
(* nmcli.                                                                  *)

(* The name servers are set one after the other, and what remains is done. *)
LEMMA ServingIsChain ==
    ASSUME order \in Orders
    PROVE  /\ order.dns[1] # None /\ order.dns[2] # None =>
                /\ Serving = <<Mod("ipv4.dns", order.dns[1])>>
                             \o (<<Mod("+ipv4.dns", order.dns[2])>> \o Enabling)
                /\ <<Mod("+ipv4.dns", order.dns[2])>> \o Enabling \in Seq(NmcliProgram)
           /\ order.dns[1] # None /\ order.dns[2] = None =>
                Serving = <<Mod("ipv4.dns", order.dns[1])>> \o Enabling
           /\ order.dns[1] = None /\ order.dns[2] # None =>
                Serving = <<Mod("ipv4.dns", order.dns[2])>> \o Enabling
           /\ order.dns[1] = None /\ order.dns[2] = None =>
                Serving = Enabling
<1>1. Enabling \in Seq(NmcliProgram)
  BY EnablingTypes
<1>2. order.dns[1] \in Address \cup {None} /\ order.dns[2] \in Address \cup {None}
  BY OrderTypes
<1>3. CASE order.dns[1] # None /\ order.dns[2] # None
  <2> DEFINE a == <<Mod("ipv4.dns", order.dns[1])>>
             b == <<Mod("+ipv4.dns", order.dns[2])>>
             ab == <<Mod("ipv4.dns", order.dns[1]), Mod("+ipv4.dns", order.dns[2])>>
  <2>1. a \in Seq(NmcliProgram) /\ b \in Seq(NmcliProgram)
    BY <1>2, <1>3 DEF Mod, NmcliProgram
  <2>2. ab = a \o b
    OBVIOUS
  <2>3. Serving = ab \o Enabling
    BY <1>3 DEF Serving, NameServers
  <2> HIDE DEF a, b, ab
  <2>4. (a \o b) \o Enabling = a \o (b \o Enabling)
    BY <1>1, <2>1, ConcatAssociative
  <2>5. b \o Enabling \in Seq(NmcliProgram)
    BY <1>1, <2>1, ConcatProperties
  <2> QED
    BY <1>3, <2>2, <2>3, <2>4, <2>5 DEF a, b
<1>4. CASE order.dns[1] # None /\ order.dns[2] = None
  BY <1>4 DEF Serving, NameServers
<1>5. CASE order.dns[1] = None /\ order.dns[2] # None
  BY <1>5 DEF Serving, NameServers
<1>6. CASE order.dns[1] = None /\ order.dns[2] = None
  <2>1. Serving = <<>> \o Enabling
    BY <1>6 DEF Serving, NameServers
  <2> QED
    BY <1>1, <1>6, <2>1, ConcatEmptySeq
<1> QED
  BY <1>3, <1>4, <1>5, <1>6

(* What is next, and what remains then, while settings are filled in.      *)
LEMMA FillingSteps ==
    ASSUME Typed, Filling, useNetworkManager
    PROVE  \/ /\ todo # <<>> /\ Head(todo) = Mod("ipv4.addresses", order.address)
              /\ Tail(todo) = Routing
           \/ /\ todo # <<>> /\ Head(todo) = Mod("ipv4.gateway", order.gateway)
              /\ Tail(todo) = Serving /\ settings.address = order.address
           \/ /\ todo # <<>> /\ Head(todo) = Mod("ipv4.dns", order.dns[1])
              /\ order.dns[1] # None /\ order.dns[2] # None /\ AddressesSet
              /\ Tail(todo) = <<Mod("+ipv4.dns", order.dns[2])>> \o Enabling
           \/ /\ todo # <<>> /\ Head(todo) = Mod("+ipv4.dns", order.dns[2])
              /\ order.dns[1] # None /\ order.dns[2] # None /\ AddressesSet
              /\ settings.dns = {order.dns[1]}
              /\ Tail(todo) = Enabling
           \/ /\ todo # <<>> /\ AddressesSet
              /\ \E d \in Address : Head(todo) = Mod("ipv4.dns", d) /\ GivenServers(order) = {d}
              /\ Tail(todo) = Enabling
           \/ todo = Enabling /\ AddressesSet /\ ServersSet
<1>1. /\ order \in Orders
      /\ order.dns[1] \in Address \cup {None} /\ order.dns[2] \in Address \cup {None}
  BY OrderTypes DEF Typed
<1>2. Serving \in Seq(NmcliProgram) /\ Routing \in Seq(NmcliProgram)
  BY <1>1, ManualIsChain DEF Serving, Routing
<1>3. Enabling \in Seq(NmcliProgram)
  BY EnablingTypes
<1>4. CASE todo = <<Mod("ipv4.addresses", order.address)>> \o Routing
  BY <1>2, <1>4, ConsStep
<1>5. CASE todo = Routing /\ settings.address = order.address
  BY <1>2, <1>5, ConsStep DEF Routing
<1>6. CASE todo = Serving /\ AddressesSet
  <2>1. CASE order.dns[1] # None /\ order.dns[2] # None
    BY <1>1, <1>6, <2>1, ServingIsChain, ConsStep
  <2>2. CASE order.dns[1] # None /\ order.dns[2] = None
    <3>1. todo = <<Mod("ipv4.dns", order.dns[1])>> \o Enabling
      BY <1>1, <1>6, <2>2, ServingIsChain
    <3>2. todo # <<>> /\ Head(todo) = Mod("ipv4.dns", order.dns[1]) /\ Tail(todo) = Enabling
      BY <1>3, <3>1, ConsStep
    <3>3. order.dns[1] \in Address /\ GivenServers(order) = {order.dns[1]}
      BY <1>1, <2>2 DEF GivenServers
    <3> QED
      BY <1>6, <3>2, <3>3
  <2>3. CASE order.dns[1] = None /\ order.dns[2] # None
    <3>1. todo = <<Mod("ipv4.dns", order.dns[2])>> \o Enabling
      BY <1>1, <1>6, <2>3, ServingIsChain
    <3>2. todo # <<>> /\ Head(todo) = Mod("ipv4.dns", order.dns[2]) /\ Tail(todo) = Enabling
      BY <1>3, <3>1, ConsStep
    <3>3. order.dns[2] \in Address /\ GivenServers(order) = {order.dns[2]}
      BY <1>1, <2>3 DEF GivenServers
    <3> QED
      BY <1>6, <3>2, <3>3
  <2>4. CASE order.dns[1] = None /\ order.dns[2] = None
    BY <1>1, <1>6, <2>4, ServingIsChain DEF GivenServers, ServersSet
  <2> QED
    BY <2>1, <2>2, <2>3, <2>4
<1>7. CASE /\ order.dns[1] # None /\ order.dns[2] # None
           /\ todo = <<Mod("+ipv4.dns", order.dns[2])>> \o Enabling
           /\ AddressesSet /\ settings.dns = {order.dns[1]}
  BY <1>3, <1>7, ConsStep
<1> QED
  BY <1>4, <1>5, <1>6, <1>7 DEF Filling

(* Of what is next when nothing has failed, nothing is refused. *)
LEMMA NextAccepted ==
    ASSUME IInv, clean, todo # <<>>
    PROVE  Accepted(Head(todo))
<1>1. Valid(settings) /\ settings \in Settings /\ order \in Orders /\ useNetworkManager \in BOOLEAN
  BY DEF IInv, Typed
<1>2. order.address \in Address /\ order.gateway \in Address /\ None \notin Address
  BY <1>1, OrderTypes, NoneAssumption
<1>3. CASE ~useNetworkManager
  <2>1. todo \in Seq(FileStep)
    BY <1>3 DEF IInv, Typed
  <2>2. Head(todo) \in FileStep
    BY <2>1, HeadTailProperties
  <2>3. Head(todo).op # "mod"
    BY <2>2 DEF FileStep
  <2> QED
    BY <2>3 DEF Accepted
<1>4. CASE useNetworkManager
  <2> SUFFICES ASSUME Head(todo).op = "mod"
               PROVE  Valid(Modified(Head(todo), settings))
    BY DEF Accepted
  <2>1. NmcliProgress
    BY <1>4 DEF IInv
  <2>2. CASE TurningOff \/ Starting
    BY <2>2 DEF TurningOff, Starting, Run, AutoConnect
  <2>3. CASE order.kind = "dhcp" /\ Asking
    BY <1>1, <2>3 DEF Asking, Mod, Modified, Valid, Settings
  <2>4. CASE IsStatic /\ Filling
    <3>1. CASE Head(todo) = Mod("ipv4.addresses", order.address)
      BY <1>1, <1>2, <3>1 DEF Mod, Modified, Valid, Settings
    <3>2. CASE Head(todo) = Mod("ipv4.gateway", order.gateway) /\ settings.address = order.address
      BY <1>1, <1>2, <3>2 DEF Mod, Modified, Valid, Settings
    <3>3. ASSUME NEW d, Head(todo) = Mod("ipv4.dns", d)
          PROVE  Valid(Modified(Head(todo), settings))
      BY <1>1, <3>3 DEF Mod, Modified, Valid, Settings
    <3>4. ASSUME NEW d, Head(todo) = Mod("+ipv4.dns", d)
          PROVE  Valid(Modified(Head(todo), settings))
      BY <1>1, <3>4 DEF Mod, Modified, Valid, Settings
    <3>5. CASE todo = Enabling /\ AddressesSet
      BY <1>1, <1>2, <3>5 DEF Enabling, AddressesSet, Mod, Modified, Valid, Settings
    <3> QED
      BY <1>4, <2>4, <3>1, <3>2, <3>3, <3>4, <3>5, FillingSteps DEF IInv
  <2> QED
    BY <2>1, <2>2, <2>3, <2>4 DEF NmcliProgress
<1> QED
  BY <1>1, <1>3, <1>4

(* A program that changes the stored connection and is accepted. *)
LEMMA ModSteps ==
    ASSUME NEW field, NEW value, Nmcli(Mod(field, value)), Accepted(Mod(field, value))
    PROVE  /\ settings' = Modified(Mod(field, value), settings)
           /\ autoconnect' = autoconnect /\ live' = live
BY DEF Nmcli, Mod

(* One that sets whether it is started with the machine. *)
LEMMA AutoConnectSteps ==
    /\ Nmcli(AutoConnect("yes")) => autoconnect' = TRUE
    /\ Nmcli(AutoConnect("no")) => autoconnect' = FALSE
<1>1. \A on : /\ AutoConnect(on).op = "autoconnect"
              /\ AutoConnect(on).value = on
  BY DEF AutoConnect
<1>2. \A on : Nmcli(AutoConnect(on)) => autoconnect' = (on = "yes")
  BY <1>1, Zenon DEF Nmcli
<1>3. "no" # "yes"
  OBVIOUS
<1>4. Nmcli(AutoConnect("yes")) => autoconnect' = TRUE
  BY <1>2, Zenon
<1>5. Nmcli(AutoConnect("no")) => autoconnect' = FALSE
  BY <1>2, <1>3, Zenon
<1> QED
  BY <1>4, <1>5

LEMMA NmcliKeepsProgress ==
    ASSUME IInv, clean, useNetworkManager, todo # <<>>,
           Nmcli(Head(todo)), todo' = Tail(todo), order' = order
    PROVE  NmcliProgress'
<1>1. /\ Valid(settings) /\ settings \in Settings /\ Accepted(Head(todo))
      /\ order \in Orders
  BY NextAccepted DEF IInv, Typed
<1>2. NmcliProgress
  BY DEF IInv
<1>3. CASE order.kind = "off" /\ TurningOff
  <2>1. CASE todo = <<Run("down"), AutoConnect("no")>>
    BY <1>3, <2>1 DEF Nmcli, Run, NmcliProgress, TurningOff
  <2>2. CASE todo = <<AutoConnect("no")>> /\ live = Down
    <3>1. Head(todo) = AutoConnect("no") /\ todo' = <<>>
      BY <2>2
    <3>2. live' = live
      BY <3>1 DEF Nmcli, AutoConnect
    <3>3. autoconnect' = FALSE
      BY <3>1, AutoConnectSteps
    <3> QED
      BY <1>3, <2>2, <3>1, <3>2, <3>3 DEF NmcliProgress, TurningOff
  <2> QED
    BY <1>3, <2>1, <2>2 DEF TurningOff
<1>4. CASE order.kind # "off" /\ Starting /\ AsOrdered
  <2>1. CASE todo = <<Run("down"), Run("up"), AutoConnect("yes")>>
    <3>1. Head(todo) = Run("down") /\ todo' = <<Run("up"), AutoConnect("yes")>>
      BY <2>1
    <3>2. settings' = settings
      BY <3>1 DEF Nmcli, Run
    <3> QED
      BY <1>4, <3>1, <3>2 DEF NmcliProgress, Starting, AsOrdered, IsStatic, AddressesSet, ServersSet
  <2>2. CASE todo = <<Run("up"), AutoConnect("yes")>>
    <3>1. Head(todo) = Run("up") /\ todo' = <<AutoConnect("yes")>>
      BY <2>2
    <3>2. settings' = settings /\ live' = settings
      BY <3>1 DEF Nmcli, Run
    <3> QED
      BY <1>4, <3>1, <3>2 DEF NmcliProgress, Starting, AsOrdered, IsStatic, AddressesSet, ServersSet
  <2>3. CASE todo = <<AutoConnect("yes")>> /\ live = settings
    <3>1. Head(todo) = AutoConnect("yes") /\ todo' = <<>>
      BY <2>3
    <3>2. settings' = settings /\ live' = live
      BY <3>1 DEF Nmcli, AutoConnect
    <3>3. autoconnect' = TRUE
      BY <3>1, AutoConnectSteps
    <3> QED
      BY <1>4, <2>3, <3>1, <3>2, <3>3 DEF NmcliProgress, Starting, AsOrdered, IsStatic, AddressesSet, ServersSet
  <2> QED
    BY <1>4, <2>1, <2>2, <2>3 DEF Starting
<1>5. CASE order.kind = "dhcp" /\ Asking
  <2>1. CASE todo = <<Mod("ipv4.method", "auto"), Mod("static", None), Run("down"), Run("up"),
                      AutoConnect("yes")>>
    <3>1. /\ Head(todo) = Mod("ipv4.method", "auto")
          /\ todo' = <<Mod("static", None), Run("down"), Run("up"), AutoConnect("yes")>>
      BY <2>1
    <3>2. settings' = Modified(Mod("ipv4.method", "auto"), settings)
      BY <1>1, <3>1, ModSteps
    <3>3. settings'.method = "auto"
      BY <1>1, <3>2 DEF Modified, Mod, Settings
    <3> QED
      BY <1>5, <3>1, <3>3 DEF NmcliProgress, Asking
  <2>2. CASE /\ todo = <<Mod("static", None), Run("down"), Run("up"), AutoConnect("yes")>>
             /\ settings.method = "auto"
    <3>1. /\ Head(todo) = Mod("static", None)
          /\ todo' = <<Run("down"), Run("up"), AutoConnect("yes")>>
      BY <2>2
    <3>2. settings' = Modified(Mod("static", None), settings)
      BY <1>1, <3>1, ModSteps
    <3>3. settings' = [method |-> "auto", address |-> None, gateway |-> None, dns |-> {}]
      BY <1>1, <2>2, <3>2 DEF Modified, Mod, Settings
    <3> QED
      BY <1>5, <3>1, <3>3 DEF NmcliProgress, Starting, AsOrdered, IsStatic
  <2> QED
    BY <1>5, <2>1, <2>2 DEF Asking
<1>6. CASE IsStatic /\ Filling
  <2> USE DEF AddressesSet, ServersSet, GivenServers
  <2>1. CASE /\ Head(todo) = Mod("ipv4.addresses", order.address)
             /\ Tail(todo) = Routing
    <3>1. settings' = Modified(Mod("ipv4.addresses", order.address), settings)
      BY <1>1, <2>1, ModSteps
    <3>2. settings'.address = order.address
      BY <1>1, <3>1 DEF Modified, Mod, Settings
    <3> QED
      BY <1>6, <2>1, <3>2 DEF NmcliProgress, Filling, IsStatic, Routing, Serving
  <2>2. CASE /\ Head(todo) = Mod("ipv4.gateway", order.gateway)
             /\ Tail(todo) = Serving /\ settings.address = order.address
    <3>1. settings' = Modified(Mod("ipv4.gateway", order.gateway), settings)
      BY <1>1, <2>2, ModSteps
    <3>2. AddressesSet'
      BY <1>1, <2>2, <3>1 DEF Modified, Mod, Settings
    <3> QED
      BY <1>6, <2>2, <3>2 DEF NmcliProgress, Filling, IsStatic, Serving
  <2>3. CASE /\ Head(todo) = Mod("ipv4.dns", order.dns[1])
             /\ order.dns[1] # None /\ order.dns[2] # None /\ AddressesSet
             /\ Tail(todo) = <<Mod("+ipv4.dns", order.dns[2])>> \o Enabling
    <3>1. settings' = Modified(Mod("ipv4.dns", order.dns[1]), settings)
      BY <1>1, <2>3, ModSteps
    <3>2. AddressesSet' /\ settings'.dns = {order.dns[1]}
      BY <1>1, <2>3, <3>1 DEF Modified, Mod, Settings
    <3> QED
      BY <1>6, <2>3, <3>2 DEF NmcliProgress, Filling, IsStatic
  <2>4. CASE /\ Head(todo) = Mod("+ipv4.dns", order.dns[2])
             /\ order.dns[1] # None /\ order.dns[2] # None /\ AddressesSet
             /\ settings.dns = {order.dns[1]}
             /\ Tail(todo) = Enabling
    <3>1. settings' = Modified(Mod("+ipv4.dns", order.dns[2]), settings)
      BY <1>1, <2>4, ModSteps
    <3>2. AddressesSet' /\ settings'.dns = {order.dns[1], order.dns[2]}
      BY <1>1, <2>4, <3>1 DEF Modified, Mod, Settings
    <3>3. ServersSet'
      BY <2>4, <3>2
    <3> QED
      BY <1>6, <2>4, <3>2, <3>3 DEF NmcliProgress, Filling, IsStatic
  <2>5. ASSUME NEW d \in Address, Head(todo) = Mod("ipv4.dns", d), GivenServers(order) = {d},
               AddressesSet, Tail(todo) = Enabling
        PROVE  NmcliProgress'
    <3>1. settings' = Modified(Mod("ipv4.dns", d), settings)
      BY <1>1, <2>5, ModSteps
    <3>2. AddressesSet' /\ settings'.dns = {d}
      BY <1>1, <2>5, <3>1 DEF Modified, Mod, Settings
    <3>3. ServersSet'
      BY <2>5, <3>2
    <3> QED
      BY <1>6, <2>5, <3>2, <3>3 DEF NmcliProgress, Filling, IsStatic
  <2>6. CASE todo = Enabling /\ AddressesSet /\ ServersSet
    <3>1. /\ Head(todo) = Mod("ipv4.method", "manual")
          /\ todo' = <<Run("down"), Run("up"), AutoConnect("yes")>>
      BY <2>6 DEF Enabling
    <3>2. settings' = Modified(Mod("ipv4.method", "manual"), settings)
      BY <1>1, <3>1, ModSteps
    <3>3. settings'.method = "manual" /\ AddressesSet' /\ ServersSet'
      BY <1>1, <2>6, <3>2 DEF Modified, Mod, Settings
    <3> QED
      BY <1>6, <3>1, <3>3 DEF NmcliProgress, Starting, AsOrdered, IsStatic
  <2> HIDE DEF AddressesSet, ServersSet, GivenServers
  <2> QED
    BY <1>6, <2>1, <2>2, <2>3, <2>4, <2>5, <2>6, FillingSteps DEF IInv
<1> QED
  BY <1>2, <1>3, <1>4, <1>5, <1>6 DEF NmcliProgress

LEMMA RunCommandHolds == IInv /\ RunCommand => IInv'
<1> SUFFICES ASSUME IInv, RunCommand
             PROVE  IInv'
  OBVIOUS
<1>1. /\ Typed /\ todo # <<>> /\ useNetworkManager /\ todo' = Tail(todo)
      /\ UNCHANGED <<order, useNetworkManager>>
  BY DEF IInv, RunCommand
<1>2. todo \in Seq(NmcliProgram)
  BY <1>1 DEF Typed
<1>3. Head(todo) \in NmcliProgram /\ todo' \in Seq(NmcliProgram)
  BY <1>1, <1>2, HeadTailProperties
<1>4. CASE Nmcli(Head(todo)) /\ UNCHANGED clean
  <2>1. /\ settings' \in Settings /\ Valid(settings') /\ autoconnect' \in BOOLEAN
        /\ live' \in Settings \cup {Down}
    BY <1>1, <1>3, <1>4, NmcliTypes DEF Typed
  <2>2. UNCHANGED <<ifcfg, back>>
    BY <1>4 DEF Nmcli, fileVars
  <2>3. Typed'
    BY <1>1, <1>3, <1>4, <2>1, <2>2 DEF Typed, Written
  <2>4. clean' => NmcliProgress'
    BY <1>1, <1>4, NmcliKeepsProgress
  <2> QED
    BY <1>1, <2>3, <2>4 DEF IInv
<1>5. CASE clean' = FALSE /\ UNCHANGED <<nmVars, live, fileVars>>
  BY <1>1, <1>3, <1>5 DEF IInv, Typed, Valid, Written, nmVars, fileVars
<1> QED
  BY <1>4, <1>5 DEF RunCommand

-----------------------------------------------------------------------------
(* Without NetworkManager.                                                 *)

LEMMA FileSteps ==
    ASSUME FileProgress, todo # <<>>
    PROVE  /\ order.kind # "off"
           /\ \/ /\ Head(todo).op = "open"
                 /\ Tail(todo) = <<Run("write"), Run("rename"), Run("network")>>
              \/ /\ Head(todo).op = "write"
                 /\ Tail(todo) = <<Run("rename"), Run("network")>>
              \/ Head(todo).op = "rename" /\ Tail(todo) = <<Run("network")>> /\ Says(back)
              \/ Head(todo).op = "network" /\ Tail(todo) = <<>> /\ Says(ifcfg)
<1>1. \A op : Run(op).op = op
  BY DEF Run
<1>2. CASE todo = Rewriting /\ order.kind # "off"
  BY <1>1, <1>2 DEF Rewriting
<1>3. CASE todo = <<Run("write"), Run("rename"), Run("network")>> /\ order.kind # "off"
  BY <1>1, <1>3
<1>4. CASE todo = <<Run("rename"), Run("network")>> /\ Says(back) /\ order.kind # "off"
  BY <1>1, <1>4
<1>5. CASE todo = <<Run("network")>> /\ Says(ifcfg) /\ order.kind # "off"
  BY <1>1, <1>5
<1> QED
  BY <1>2, <1>3, <1>4, <1>5 DEF FileProgress

LEMMA RewriteHolds == IInv /\ Rewrite => IInv'
<1> SUFFICES ASSUME IInv, Rewrite
             PROVE  IInv'
  OBVIOUS
<1> USE DEF nmVars, fileVars
<1>1. /\ Typed /\ todo # <<>> /\ ~useNetworkManager
      /\ UNCHANGED <<order, settings, autoconnect, useNetworkManager>>
  BY DEF IInv, Rewrite
<1>2. todo \in Seq(FileStep)
  BY <1>1 DEF Typed
<1>3. Tail(todo) \in Seq(FileStep) /\ <<>> \in Seq(FileStep)
  BY <1>1, <1>2, HeadTailProperties
<1>4. clean => FileProgress
  BY <1>1 DEF IInv
<1>5. Written([x \in {} |-> None])
  BY EmptyFile
<1>6. order \in Orders /\ order.kind \in {"off", "static", "short", "dhcp"}
  BY <1>1, OrderTypes DEF Typed
<1>7. Written(ifcfg) /\ Written(back) /\ clean \in BOOLEAN /\ live \in Settings \cup {Down}
  BY <1>1 DEF Typed
<1>8. ASSUME todo' \in Seq(FileStep), clean' \in BOOLEAN, live' \in Settings \cup {Down},
             Written(ifcfg'), Written(back')
      PROVE  Typed'
  BY <1>1, <1>8 DEF Typed, Valid, Written
<1>9. CASE Head(todo).op = "open"
  <2>1. CASE back' = [x \in {} |-> None] /\ todo' = Tail(todo) /\ UNCHANGED <<clean, ifcfg, live>>
    <3>1. Typed'
      BY <1>3, <1>5, <1>7, <1>8, <2>1
    <3>2. clean' => FileProgress'
      <4>1. ASSUME clean
            PROVE  /\ todo' = <<Run("write"), Run("rename"), Run("network")>>
                   /\ order.kind # "off"
        BY <1>1, <1>4, <1>9, <2>1, <4>1, FileSteps
      <4> QED
        BY <1>1, <2>1, <4>1 DEF FileProgress
    <3> QED
      BY <1>1, <3>1, <3>2 DEF IInv
  <2>2. CASE todo' = <<>> /\ clean' = FALSE /\ UNCHANGED <<back, ifcfg, live>>
    BY <1>1, <1>3, <1>7, <1>8, <2>2 DEF IInv
  <2> QED
    BY <1>9, <2>1, <2>2 DEF Rewrite
<1>10. CASE Head(todo).op = "write"
  <2>1. CASE back' = Configured(ifcfg, order) /\ todo' = Tail(todo) /\ UNCHANGED <<clean, ifcfg, live>>
    <3>1. CASE clean
      <4>1. /\ todo' = <<Run("rename"), Run("network")>> /\ order.kind # "off"
        BY <1>1, <1>4, <1>10, <2>1, <3>1, FileSteps
      <4>2. Written(back') /\ Says(back')
        BY <1>6, <1>7, <2>1, <4>1, ConfiguredSays
      <4>3. Says(back)'
        BY <1>1, <4>2 DEF Says, IsStatic
      <4>4. Typed'
        BY <1>3, <1>7, <1>8, <2>1, <4>2
      <4> QED
        BY <1>1, <4>1, <4>3, <4>4 DEF IInv, FileProgress
    <3>2. CASE ~clean
      <4>1. Written(back')
        BY <1>6, <1>7, <2>1, ConfiguredSays
      <4> QED
        BY <1>1, <1>3, <1>7, <1>8, <2>1, <3>2, <4>1 DEF IInv
    <3> QED
      BY <3>1, <3>2
  <2>2. CASE /\ back' = [x \in {} |-> None] /\ clean' = FALSE
             /\ todo' = Tail(todo) /\ UNCHANGED <<ifcfg, live>>
    BY <1>1, <1>3, <1>5, <1>7, <1>8, <2>2 DEF IInv
  <2> QED
    BY <1>10, <2>1, <2>2 DEF Rewrite
<1>11. CASE Head(todo).op = "rename"
  <2>1. /\ ifcfg' = back /\ back' = [x \in {} |-> None] /\ todo' = Tail(todo)
        /\ UNCHANGED <<live, clean>>
    BY <1>11 DEF Rewrite
  <2>2. Typed'
    BY <1>3, <1>5, <1>7, <1>8, <2>1
  <2>3. ASSUME clean
        PROVE  FileProgress'
    <3>1. todo' = <<Run("network")>> /\ Says(back) /\ order.kind # "off"
      BY <1>1, <1>4, <1>11, <2>1, <2>3, FileSteps
    <3>2. Says(ifcfg)'
      BY <1>1, <2>1, <3>1 DEF Says, IsStatic
    <3> QED
      BY <1>1, <3>1, <3>2 DEF FileProgress
  <2> QED
    BY <1>1, <2>1, <2>2, <2>3 DEF IInv
<1>12. CASE Head(todo).op = "network"
  <2>1. /\ todo' = Tail(todo) /\ UNCHANGED <<ifcfg, back>>
        /\ \/ live' = Applied(ifcfg) /\ UNCHANGED clean
           \/ clean' = FALSE /\ UNCHANGED live
    BY <1>12 DEF Rewrite
  <2>2. Applied(ifcfg) \in Settings \cup {Down}
    BY <1>7, AppliedTypes
  <2>3. Typed'
    BY <1>3, <1>7, <1>8, <2>1, <2>2
  <2>4. ASSUME clean, live' = Applied(ifcfg)
        PROVE  FileProgress'
    <3>1. todo' = <<>> /\ Says(ifcfg) /\ order.kind # "off"
      BY <1>1, <1>4, <1>12, <2>1, <2>4, FileSteps
    <3>2. Says(ifcfg)'
      BY <1>1, <2>1, <3>1 DEF Says, IsStatic
    <3>3. live' = Applied(ifcfg')
      BY <2>1, <2>4
    <3> QED
      BY <1>1, <3>1, <3>2, <3>3 DEF FileProgress
  <2> QED
    BY <1>1, <2>1, <2>3, <2>4 DEF IInv
<1> QED
  BY <1>9, <1>10, <1>11, <1>12 DEF Rewrite

-----------------------------------------------------------------------------
(* Deaths and reboots.  Nothing of a command that is cut off is promised;  *)
(* what one that was carried out has set up, a reboot sets up again.       *)
LEMMA StopHolds == IInv /\ (Crash \/ Reboot) => IInv'
<1> SUFFICES ASSUME IInv, Crash \/ Reboot
             PROVE  IInv'
  OBVIOUS
<1>1. /\ Typed /\ todo' = <<>> /\ clean' = (clean /\ todo = <<>>)
      /\ UNCHANGED <<order, settings, autoconnect, useNetworkManager, ifcfg, back>>
  BY DEF IInv, Crash, Reboot, Stop, nmVars, fileVars
<1>2. clean' \in BOOLEAN /\ (clean' => clean /\ todo = <<>>)
  BY <1>1, Zenon DEF Typed
<1>3. \/ live' = live
      \/ live' = IF ~useNetworkManager THEN Applied(ifcfg)
                 ELSE IF autoconnect THEN settings ELSE Down
  BY DEF Crash, Reboot
<1>4. Applied(ifcfg) \in Settings \cup {Down}
  BY <1>1, AppliedTypes DEF Typed
<1>5. live' \in Settings \cup {Down}
  BY <1>1, <1>3, <1>4 DEF Typed
<1>6. todo' \in Seq(IF useNetworkManager' THEN NmcliProgram ELSE FileStep)
  BY <1>1
<1>7. Typed'
  BY <1>1, <1>2, <1>5, <1>6 DEF Typed, Valid, Written
<1>8. ASSUME clean', useNetworkManager'
      PROVE  NmcliProgress'
  <2>1. NmcliProgress /\ todo = <<>>
    BY <1>1, <1>2, <1>8 DEF IInv
  <2>2. CASE order.kind = "off" /\ TurningOff
    BY <1>1, <1>3, <1>8, <2>1, <2>2 DEF NmcliProgress, TurningOff
  <2>3. CASE order.kind # "off" /\ Starting /\ AsOrdered
    <3>1. live' = settings /\ autoconnect = TRUE
      BY <1>1, <1>3, <1>8, <2>1, <2>3 DEF Starting
    <3> QED
      BY <1>1, <2>3, <3>1 DEF NmcliProgress, Starting, AsOrdered, IsStatic, AddressesSet, ServersSet
  <2>4. ~(order.kind = "dhcp" /\ Asking)
    BY <2>1 DEF Asking
  <2>5. ~(IsStatic /\ Filling)
    <3>1. <<>> # Enabling
      BY DEF Enabling
    <3> QED
      BY <1>1, <1>8, <2>1, <3>1, FillingSteps
  <2> QED
    BY <2>1, <2>2, <2>3, <2>4, <2>5 DEF NmcliProgress
<1>9. ASSUME clean', ~useNetworkManager'
      PROVE  FileProgress'
  <2>1. FileProgress /\ todo = <<>>
    BY <1>1, <1>2, <1>9 DEF IInv
  <2>2. CASE order.kind = "off"
    BY <1>1, <2>2 DEF FileProgress
  <2>3. CASE order.kind # "off"
    <3>1. Says(ifcfg) /\ live = Applied(ifcfg)
      BY <2>1, <2>3 DEF FileProgress, Rewriting
    <3>2. live' = Applied(ifcfg')
      BY <1>1, <1>3, <1>9, <3>1
    <3>3. Says(ifcfg)'
      BY <1>1, <3>1 DEF Says, IsStatic
    <3> QED
      BY <1>1, <2>3, <3>2, <3>3 DEF FileProgress
  <2> QED
    BY <2>2, <2>3
<1> QED
  BY <1>7, <1>8, <1>9 DEF IInv

LEMMA StutterHolds == IInv /\ UNCHANGED vars => IInv'
BY DEF vars, nmVars, fileVars, IInv, Typed, Valid, Written, NmcliProgress, TurningOff, Starting,
       Asking, Filling, Routing, Serving, AsOrdered, IsStatic, AddressesSet, ServersSet,
       FileProgress, Says

LEMMA StepHolds == IInv /\ [Next]_vars => IInv'
BY IpHolds, RunCommandHolds, RewriteHolds, StopHolds, StutterHolds DEF Next

LEMMA Inductive == Spec => []IInv
BY InitHolds, StepHolds, PTL DEF Spec

-----------------------------------------------------------------------------
(* What follows.                                                           *)

(* The variables keep their types: in particular, what is stored of the    *)
(* interface and what its file says of IPADDR, GATEWAY, DNS1 and DNS2 are  *)
(* addresses or nothing, and no placeholder of IpSeedEntry() is left in    *)
(* it, whatever the commands and the file before them.                     *)
THEOREM IpTypes == Spec => []TypeOK
<1>1. IInv => TypeOK
  <2> SUFFICES ASSUME Typed
               PROVE  TypeOK
    BY DEF IInv
  <2> DEFINE P == [op : {"mod", "up", "down", "autoconnect", "open", "write", "rename", "network"},
                   field : {"none", "ipv4.method", "ipv4.addresses", "ipv4.gateway",
                            "ipv4.dns", "+ipv4.dns", "static"},
                   value : Address \cup {None, "auto", "manual", "yes", "no"}]
  <2>1. NmcliProgram \subseteq P
    BY DEF NmcliProgram
  <2>2. FileStep \subseteq P
    BY DEF FileStep
  <2> HIDE DEF P
  <2>3. todo \in Seq(P)
    BY <2>1, <2>2, SeqMonotonic DEF Typed
  <2>4. ifcfg \in Files /\ back \in Files
    BY WrittenIsFile DEF Typed
  <2> USE DEF P
  <2> QED
    BY <2>3, <2>4 DEF Typed, TypeOK
<1> QED
  BY <1>1, Inductive, PTL

(* nmcli(1) has not to refuse a program that Ip() runs, as long as none    *)
(* has failed otherwise: the order of the programs is right for whatever   *)
(* was stored before.                                                      *)
THEOREM NoneIsRefused == Spec => []NothingRefused
<1>1. IInv => NothingRefused
  BY NextAccepted DEF NothingRefused
<1> QED
  BY <1>1, Inductive, PTL

(* What holds when a command is done that was carried out with             *)
(* NetworkManager.                                                         *)
LEMMA DoneByNmcli ==
    ASSUME IInv, clean, useNetworkManager, todo = <<>>
    PROVE  \/ order.kind = "off" /\ live = Down /\ autoconnect = FALSE
           \/ order.kind # "off" /\ live = settings /\ autoconnect = TRUE /\ AsOrdered
<1>1. NmcliProgress /\ Typed
  BY DEF IInv
<1>2. ~Asking
  BY DEF Asking
<1>3. ~Filling
  <2>1. <<>> # Enabling
    BY DEF Enabling
  <2> QED
    BY <1>1, <2>1, FillingSteps
<1> QED
  BY <1>1, <1>2, <1>3 DEF NmcliProgress, TurningOff, Starting

(* And without. *)
LEMMA DoneByFile ==
    ASSUME IInv, clean, ~useNetworkManager, todo = <<>>, CarriedOut
    PROVE  /\ order.kind \in {"static", "short", "dhcp"}
           /\ Written(ifcfg) /\ Says(ifcfg) /\ live = Applied(ifcfg) /\ Has(ifcfg, "DEVICE")
           /\ IsStatic /\ Has(ifcfg, "BOOTPROTO") => ifcfg["BOOTPROTO"] # "dhcp"
           /\ order.kind = "dhcp" => Has(ifcfg, "BOOTPROTO") /\ ifcfg["BOOTPROTO"] = "dhcp"
<1>1. FileProgress /\ order \in Orders /\ Written(ifcfg)
  BY DEF IInv, Typed
<1>2. order.kind \in {"off", "static", "short", "dhcp"}
  BY <1>1, OrderTypes
<1>3. Has(ifcfg, "DEVICE") /\ order.kind # "off"
  BY <1>2 DEF CarriedOut
<1>4. Says(ifcfg) /\ live = Applied(ifcfg)
  BY <1>1, <1>3 DEF FileProgress, Rewriting
<1>5. order.kind = "dhcp" => Has(ifcfg, "BOOTPROTO")
  BY DEF CarriedOut
<1>6. order.kind = "short" /\ Has(ifcfg, "BOOTPROTO") => ifcfg["BOOTPROTO"] # "dhcp"
  BY DEF CarriedOut
<1>7. order.kind = "static" /\ Has(ifcfg, "BOOTPROTO") => ifcfg["BOOTPROTO"] # "dhcp"
  BY <1>4 DEF Says, IsStatic
<1> QED
  BY <1>1, <1>2, <1>3, <1>4, <1>5, <1>6, <1>7 DEF Says, IsStatic

(* An IP command that Ip() carries out without a failure takes effect and  *)
(* keeps it over reboots, whatever came before.                            *)
THEOREM IpIsEffective == Spec => []IpTakesEffect
<1>1. IInv => IpTakesEffect
  <2> SUFFICES ASSUME IInv, todo = <<>>, clean, CarriedOut
               PROVE  /\ useNetworkManager => (autoconnect <=> order.kind # "off")
                      /\ order.kind = "off" => live = Down
                      /\ order.kind \in {"static", "short"} =>
                            /\ live.method = "manual"
                            /\ live.address = order.address /\ live.gateway = order.gateway
                            /\ GivenServers(order) \subseteq live.dns
                            /\ useNetworkManager /\ GivenServers(order) # {} =>
                                  live.dns = GivenServers(order)
                      /\ order.kind = "dhcp" =>
                            live = [method |-> "auto", address |-> None, gateway |-> None,
                                    dns |-> {}]
    BY DEF IpTakesEffect
  <2>1. CASE useNetworkManager
    BY <2>1, DoneByNmcli DEF AsOrdered, IsStatic, AddressesSet, ServersSet
  <2>2. CASE ~useNetworkManager
    <3>1. /\ order.kind \in {"static", "short", "dhcp"}
          /\ Written(ifcfg) /\ Says(ifcfg) /\ live = Applied(ifcfg) /\ Has(ifcfg, "DEVICE")
          /\ IsStatic /\ Has(ifcfg, "BOOTPROTO") => ifcfg["BOOTPROTO"] # "dhcp"
          /\ order.kind = "dhcp" => Has(ifcfg, "BOOTPROTO") /\ ifcfg["BOOTPROTO"] = "dhcp"
      BY <2>2, DoneByFile
    <3>2. CASE order.kind = "dhcp"
      BY <2>2, <3>1, <3>2 DEF Applied
    <3>3. CASE IsStatic
      <4>1. live = [method |-> "manual",
                    address |-> IF Has(ifcfg, "IPADDR") THEN ifcfg["IPADDR"] ELSE None,
                    gateway |-> IF Has(ifcfg, "GATEWAY") THEN ifcfg["GATEWAY"] ELSE None,
                    dns |-> {ifcfg[x] : x \in DOMAIN ifcfg \cap {"DNS1", "DNS2"}} \ {None}]
        BY <3>1, <3>3 DEF Applied
      <4>2. GivenServers(order) \subseteq live.dns
        BY <3>1, <3>3, <4>1 DEF Says, Has, GivenServers
      <4> QED
        BY <2>2, <3>1, <3>3, <4>1, <4>2 DEF Says, IsStatic
    <3> QED
      BY <3>1, <3>2, <3>3 DEF IsStatic
  <2> QED
    BY <2>1, <2>2
<1> QED
  BY <1>1, Inductive, PTL

(* And it is what the web pages show.                                      *)
THEOREM CommandIsShown == Spec => []ShownAsCommanded
<1>1. IInv => ShownAsCommanded
  <2> SUFFICES ASSUME IInv, todo = <<>>, clean, CarriedOut
               PROVE  ReadIpConfig
                        = CASE order.kind = "off"  -> [mode |-> "Disabled", address |-> None,
                                                       gateway |-> None]
                            [] order.kind = "dhcp" -> [mode |-> "Dhcp", address |-> None,
                                                       gateway |-> None]
                            [] OTHER -> [mode |-> "Static", address |-> order.address,
                                         gateway |-> order.gateway]
    BY DEF ShownAsCommanded
  <2>0. order.kind \in {"off", "static", "short", "dhcp"} /\ settings \in Settings
    BY OrderTypes DEF IInv, Typed
  <2>1. CASE useNetworkManager
    <3>1. CASE order.kind = "off" /\ live = Down
      BY <2>1, <3>1 DEF ReadIpConfig, NmcliView
    <3>2. CASE order.kind # "off" /\ live = settings /\ AsOrdered
      <4>1. live # Down
        BY <2>0, <3>2 DEF Settings, Down
      <4>2. ReadIpConfig = [mode |-> IF settings.method = "auto" THEN "Dhcp" ELSE "Static",
                            address |-> settings.address, gateway |-> settings.gateway]
        BY <2>1, <3>2, <4>1 DEF ReadIpConfig, NmcliView
      <4> QED
        BY <2>0, <3>2, <4>2 DEF AsOrdered, IsStatic, AddressesSet
    <3> QED
      BY <2>1, <3>1, <3>2, DoneByNmcli
  <2>2. CASE ~useNetworkManager
    <3>1. /\ order.kind \in {"static", "short", "dhcp"}
          /\ Written(ifcfg) /\ Says(ifcfg) /\ live = Applied(ifcfg) /\ Has(ifcfg, "DEVICE")
          /\ IsStatic /\ Has(ifcfg, "BOOTPROTO") => ifcfg["BOOTPROTO"] # "dhcp"
          /\ order.kind = "dhcp" => Has(ifcfg, "BOOTPROTO") /\ ifcfg["BOOTPROTO"] = "dhcp"
      BY <2>2, DoneByFile
    <3>2. ReadIpConfig = FileView
      BY <2>2 DEF ReadIpConfig
    <3>3. CASE order.kind = "dhcp"
      BY <3>1, <3>2, <3>3 DEF FileView, Says
    <3>4. CASE IsStatic
      BY <3>1, <3>2, <3>4 DEF FileView, Says, IsStatic
    <3> QED
      BY <3>1, <3>3, <3>4 DEF IsStatic
  <2> QED
    BY <2>1, <2>2
<1> QED
  BY <1>1, Inductive, PTL
=============================================================================
