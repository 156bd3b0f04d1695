---------------------------- MODULE OriginNetwork ----------------------------
(***************************************************************************)
(* The networks of a TPT Origin environment: NetworkManager of             *)
(* origin/core/src/network.rs with the devices it creates on the host      *)
(* (a bridge and, for an overlay, a VXLAN device per network, one veth per *)
(* service), and the name table of DnsResolver (origin/core/src/dns.rs).   *)
(*                                                                         *)
(* An address is a subnet and a host octet.  Each `ip` command may fail;   *)
(* where it fails decides which devices stay behind.                       *)
(***************************************************************************)
EXTENDS OriginHost

CONSTANTS
    SubnetCount,   \* 256 in the code: the subnets 10.88.0 .. 10.88.255
    HostLimit      \* 255 in the code: no host octet from here on is given out

ASSUME NetworkAssumption ==
    /\ SubnetCount \in Nat \ {0}
    /\ HostLimit \in Nat

\* The subnets of a manifest differ: those it gives from each other and from
\* the automatic ones, of which there are enough.
SubnetsApart ==
    /\ Cardinality({n \in Networks : Subnet[n] = AutoSubnet}) <= SubnetCount
    /\ \A n, k \in Networks : n # k /\ Subnet[n] # AutoSubnet =>
          /\ Subnet[k] # Subnet[n]
          /\ Subnet[k] = AutoSubnet => Subnet[n] >= SubnetCount

VARIABLES
    nets,          \* NetworkManager.networks: the networks that exist
    subnetOf,      \* NetworkState.subnet_prefix
    hasBridge,     \* NetworkState.bridge_name is Some
    nextHost,      \* NetworkState.next_host_octet
    conn,          \* NetworkState.connected: the host octet, 0 if not connected
    vethOn,        \* ConnectedService.veth_host is Some
    nextSubnet,    \* NetworkManager.next_subnet_octet
    bridgeDev,     \* bridge devices on the host
    vxlan,         \* the VXLAN device of each network: see VxlanStates
    veth,          \* veth[s]: the veth of s on the host, or NoVeth
    dns            \* DnsResolver.entries: the address of each name, or NoAddr

netVars == <<nets, subnetOf, hasBridge, nextHost, conn, vethOn, nextSubnet>>
devVars == <<bridgeDev, vxlan, veth>>
networkVars == <<netVars, devVars, dns>>

FirstHost == 2
HostNs == 0                      \* the network namespace of the host
NoNs == -1                       \* that of a process that is gone
NoNet == "no network"
\* There is none; it has never joined its bridge; it is a port of it; it was one
\* until the bridge was deleted.
VxlanStates == {"none", "loose", "port", "detached"}
NoVeth == [exists |-> FALSE, master |-> NoNet, peerNs |-> HostNs]
Link(master, peerNs) == [exists |-> TRUE, master |-> master, peerNs |-> peerNs]
PlaceholderNet == -1             \* the 10.0.0 of the entries `up` starts with
NoAddr == [net |-> -2, host |-> 0]

\* NetworkManager::assigned_ip
Assigned(n, s) == IF n \in nets /\ conn[n][s] # 0
                  THEN [net |-> subnetOf[n], host |-> conn[n][s]]
                  ELSE NoAddr

NetworkTypeOK ==
    /\ nets \subseteq Networks
    /\ subnetOf \in [Networks -> Nat]
    /\ hasBridge \in [Networks -> BOOLEAN]
    /\ nextHost \in [Networks -> Nat]
    /\ conn \in [Networks -> [Services -> Nat]]
    /\ vethOn \in [Networks -> [Services -> BOOLEAN]]
    /\ nextSubnet \in 0 .. SubnetCount - 1
    /\ bridgeDev \subseteq Networks
    /\ vxlan \in [Networks -> VxlanStates]
    /\ veth \in [Services -> [exists : BOOLEAN, master : Networks \cup {NoNet},
                              peerNs : HostNs .. MaxPid]]
    /\ dns \in [Services -> [net : Int, host : Nat]]

NetworkInit ==
    /\ nets = {} /\ bridgeDev = {}
    /\ vxlan = [n \in Networks |-> "none"]
    /\ subnetOf = [n \in Networks |-> 0]
    /\ hasBridge = [n \in Networks |-> FALSE]
    /\ nextHost = [n \in Networks |-> FirstHost]
    /\ conn = [n \in Networks |-> [s \in Services |-> 0]]
    /\ vethOn = [n \in Networks |-> [s \in Services |-> FALSE]]
    /\ nextSubnet = 0
    /\ veth = [s \in Services |-> NoVeth]
    /\ dns = [s \in Services |-> NoAddr]
-----------------------------------------------------------------------------
(* What creating the device of one network can leave: does a device exist  *)
(* afterwards, and does the function return its name.                      *)

\* create_platform_bridge on Linux: `ip link add` fails, `ip link set up`
\* fails with the device left behind, or the bridge is up.  An existing device
\* of that name is taken over.
LinuxBridge(n) ==
    {[dev |-> n \in bridgeDev, name |-> FALSE]} \cup
    (IF host.privileged THEN {[dev |-> TRUE, name |-> FALSE], [dev |-> TRUE, name |-> TRUE]} ELSE {})

\* create_rootless_network: slirp4netns is missing, or a name is made up for a
\* TAP device nobody creates.
RootlessNetwork(n) ==
    {[dev |-> n \in bridgeDev, name |-> FALSE],
     [dev |-> n \in bridgeDev, name |-> TRUE]}

\* attach_overlay_uplink: the VXLAN device is not created; it is created, or was
\* there already, and cannot join the bridge; or it joins it, whether or not the
\* steps after that work.  All three leave the network itself as it is.
OverlayUplink(n, made) ==
    {vxlan[n]} \cup
    (IF n \in Overlay /\ made.name
     THEN {IF vxlan[n] = "none" THEN "loose" ELSE vxlan[n]} \cup (IF made.dev THEN {"port"} ELSE {})
     ELSE {})

\* create_network for every network of the manifest, in the order of a hash
\* map: an automatic subnet takes the next octet, which wraps.
CreateNetworks ==
    LET autos == {n \in Networks : Subnet[n] = AutoSubnet}
    IN  \E made \in [Networks -> [dev : BOOLEAN, name : BOOLEAN]],
           vx \in [Networks -> VxlanStates], rank \in [autos -> 0 .. Cardinality(autos) - 1] :
          /\ \A n, k \in autos : rank[n] = rank[k] => n = k
          /\ \A n \in Networks :
               /\ made[n] \in IF host.rootless THEN RootlessNetwork(n) ELSE LinuxBridge(n)
               /\ vx[n] \in OverlayUplink(n, made[n])
          /\ nets' = Networks
          /\ subnetOf' = [n \in Networks |->
               IF n \in autos THEN (nextSubnet + rank[n]) % SubnetCount ELSE Subnet[n]]
          /\ nextSubnet' = (nextSubnet + Cardinality(autos)) % SubnetCount
          /\ hasBridge' = [n \in Networks |-> made[n].name]
          /\ nextHost' = [n \in Networks |-> FirstHost]
          /\ conn' = [n \in Networks |-> [s \in Services |-> 0]]
          /\ vethOn' = [n \in Networks |-> [s \in Services |-> FALSE]]
          /\ bridgeDev' = {n \in Networks : made[n].dev}
          /\ vxlan' = vx
          /\ UNCHANGED veth
-----------------------------------------------------------------------------
(* Attaching a service.  The host end of its veth is named after the       *)
(* service alone, so a second network meets the device of the first.       *)

\* attach_service_netns: the results of the chain of commands, cut at the one
\* that fails.  `ns` is the network namespace of the process, HostNs for a
\* process that has none of its own, NoNs for one that is gone.
NetnsAttachments(s, n, ns) ==
    LET added == Link(veth[s].master, veth[s].peerNs)
        onBridge == Link(n, veth[s].peerNs)
        moved == Link(n, ns)
        bridged == n \in bridgeDev
        movable == veth[s].peerNs = HostNs /\ ns # NoNs
    IN  {[link |-> veth[s], ok |-> FALSE], [link |-> added, ok |-> FALSE]}
          \cup (IF bridged THEN {[link |-> onBridge, ok |-> FALSE]} ELSE {})
          \cup (IF bridged /\ movable
                THEN {[link |-> moved, ok |-> FALSE], [link |-> moved, ok |-> TRUE]} ELSE {})

\* The next address is the one after those in use now.
ConnectServiceCounts(s, n, hasPid, ns) ==
    /\ UNCHANGED <<nets, subnetOf, hasBridge, nextSubnet, bridgeDev, vxlan, nextHost, veth, vethOn>>
    /\ conn' = IF conn[n][s] # 0 THEN conn
               ELSE [conn EXCEPT ![n][s] = FirstHost + Cardinality({t \in Services : conn[n][t] # 0})]
    /\ dns' = [dns EXCEPT ![s] = IF conn'[n][s] # 0
                                 THEN [net |-> subnetOf[n], host |-> conn'[n][s]] ELSE @]

\* connect_service_inner for a network that exists: the address already held,
\* the next octet, or none left.  Its caller, the loop body of
\* connect_service_networks, puts the address in the DNS table.
ConnectService(s, n, hasPid, ns) ==
    /\ UNCHANGED <<nets, subnetOf, hasBridge, nextSubnet, bridgeDev, vxlan>>
    /\ IF conn[n][s] # 0 \/ nextHost[n] >= HostLimit
       THEN UNCHANGED <<conn, vethOn, nextHost, veth>>
       ELSE /\ nextHost' = [nextHost EXCEPT ![n] = @ + 1]
            /\ conn' = [conn EXCEPT ![n][s] = nextHost[n]]
            /\ IF hasPid /\ hasBridge[n]
               THEN \E a \in NetnsAttachments(s, n, ns) :
                      /\ veth' = [veth EXCEPT ![s] = a.link]
                      /\ vethOn' = [vethOn EXCEPT ![n][s] = a.ok]
               ELSE UNCHANGED <<veth, vethOn>>
    /\ dns' = [dns EXCEPT ![s] = IF conn'[n][s] # 0
                                 THEN [net |-> subnetOf[n], host |-> conn'[n][s]] ELSE @]

\* What a series of `ip link delete` removes: one that fails is only warned of.
Deletions(S) == IF host.stubborn THEN SUBSET S ELSE {S}

\* teardown_veth
TornDown(S) == [s \in Services |-> IF s \in S THEN NoVeth ELSE veth[s]]

\* disconnect_service of the services S, from every network: the octet is not
\* given back, the DNS entry stays.
DisconnectServices(S) ==
    /\ conn' = [n \in Networks |-> [s \in Services |-> IF s \in S THEN 0 ELSE conn[n][s]]]
    /\ vethOn' = [n \in Networks |-> [s \in Services |-> s \notin S /\ vethOn[n][s]]]
    /\ \E gone \in Deletions({s \in S : \E n \in nets : vethOn[n][s]}) : veth' = TornDown(gone)
    /\ UNCHANGED <<nets, subnetOf, hasBridge, nextHost, nextSubnet, bridgeDev, vxlan, dns>>

\* The networks teardown_bridge finds a bridge for.
Bridged == {n \in bridgeDev : n \in nets /\ hasBridge[n]}

\* Mutant: the bridge is deleted before its ports are listed.
DeleteBridgesFirst ==
    \E bridges \in Deletions(Bridged) :
       /\ bridgeDev' = bridgeDev \ bridges
       /\ \E ports \in Deletions({n \in Bridged \ bridges : vxlan[n] = "port"}) :
            vxlan' = [n \in Networks |-> IF n \in ports THEN "none"
                                        ELSE IF n \in bridges /\ vxlan[n] = "port" THEN "detached"
                                        ELSE vxlan[n]]

\* teardown_bridge of every network: the VXLAN devices that are ports of the
\* bridge, then the bridge, which leaves a port that could not be deleted alone.
DeleteBridges ==
    \E ports \in Deletions({n \in Bridged : vxlan[n] = "port"}), bridges \in Deletions(Bridged) :
       /\ bridgeDev' = bridgeDev \ bridges
       /\ vxlan' = [n \in Networks |-> IF n \in ports THEN "none"
                                       ELSE IF n \in bridges /\ vxlan[n] = "port" THEN "detached"
                                       ELSE vxlan[n]]

\* delete_network of every network.
DeleteNetworks ==
    /\ nets' = {}
    /\ conn' = [n \in Networks |-> [s \in Services |-> 0]]
    /\ vethOn' = [n \in Networks |-> [s \in Services |-> FALSE]]
    /\ \E gone \in Deletions({s \in Services : \E n \in nets : vethOn[n][s]}) : veth' = TornDown(gone)
    /\ DeleteBridges
    /\ hasBridge' = [n \in Networks |-> FALSE]
    /\ UNCHANGED <<subnetOf, nextHost, nextSubnet, dns>>

\* The kernel destroys a network namespace with the process it belongs to, the
\* veth end in it, and the other end with that.
NamespacesGone(dead) ==
    [s \in Services |-> IF veth[s].exists /\ veth[s].peerNs \in dead THEN NoVeth ELSE veth[s]]
-----------------------------------------------------------------------------
(* Services never share an address.                                        *)

\* No two services hold the same address, on one network or on two.
UniqueAddresses ==
    \A n, k \in nets, s, t \in Services :
       Assigned(n, s) # NoAddr /\ Assigned(n, s) = Assigned(k, t) => n = k /\ s = t

\* A name never resolves to an address another service holds, whatever was
\* disconnected, restarted or left without an address since the entry was
\* made: host octets are never given out twice.
NoMisroute ==
    \A n \in nets, s, t \in Services :
       s # t /\ Assigned(n, t) # NoAddr => dns[s] # Assigned(n, t)
=============================================================================
