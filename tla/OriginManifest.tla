--------------------------- MODULE OriginManifest ----------------------------
(***************************************************************************)
(* What a manifest (boxcar.yaml, origin/core/src/manifest.rs) says of an   *)
(* environment, as far as bringing it up depends on it, and the bounds of  *)
(* the host it is brought up on.                                           *)
(***************************************************************************)
EXTENDS Integers, FiniteSets

CONSTANTS
    Services,      \* the names of the services
    Kind,          \* Kind[s] is "oci", "wasm" or "process"
    Policy,        \* Policy[s] is "never", "always" or "on-failure"
    DependsOn,     \* DependsOn[s]: the services s depends on
    HostPorts,     \* HostPorts[s]: the host ports s publishes
    Probed,        \* the services with a healthcheck
    Retries,       \* HealthCheck.retries
    Networks,      \* the names of the networks
    Overlay,       \* the networks with driver "overlay" and a vni
    Subnet,        \* Subnet[n]: the subnet given to n, or AutoSubnet
    AutoSubnet,    \* no subnet is given
    MaxPid         \* bound: process ids 1 .. MaxPid

ASSUME ManifestAssumption ==
    /\ IsFiniteSet(Services) /\ IsFiniteSet(Networks)
    /\ Kind \in [Services -> {"oci", "wasm", "process"}]
    /\ Policy \in [Services -> {"never", "always", "on-failure"}]
    /\ DependsOn \in [Services -> SUBSET Services]
    /\ \A s \in Services : HostPorts[s] \subseteq Nat
    /\ Probed \subseteq Services
    /\ Retries \in Nat \ {0}
    /\ Overlay \subseteq Networks
    /\ AutoSubnet \notin Nat
    /\ Subnet \in [Networks -> Nat \cup {AutoSubnet}]
    /\ MaxPid \in Nat
=============================================================================
