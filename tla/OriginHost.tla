----------------------------- MODULE OriginHost ------------------------------
(***************************************************************************)
(* The host an environment is brought up on, as far as the code of         *)
(* origin/core depends on it.  It does not change.                         *)
(***************************************************************************)
EXTENDS OriginManifest

CONSTANTS
    Hosts          \* the hosts considered: a set of HostRecord

HostRecord ==
    [privileged : BOOLEAN,  \* the process may create devices; else every `ip` fails
     rootless : BOOLEAN,    \* the manager runs in rootless mode
     flaky : BOOLEAN,       \* starting, stopping and binding may fail
     stubborn : BOOLEAN,    \* listing or deleting a device may fail
     v6only : BOOLEAN,      \* [::] is bound without taking the IPv4 port as well
     quiet : BOOLEAN]       \* bound: no healthcheck comes due

ASSUME HostAssumption == Hosts \subseteq HostRecord

VARIABLES
    host           \* the host
=============================================================================
