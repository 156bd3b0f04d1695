------------------------------ MODULE MCOrigin -------------------------------
(* Model checking of OriginLifecycle: a process service that depends on a   *)
(* container, on a host of each kind.                                       *)
EXTENDS OriginLifecycle

MCKind == [s \in Services |-> IF s = "db" THEN "oci" ELSE IF s = "fn" THEN "wasm" ELSE "process"]
MCPolicy == [s \in Services |-> IF s = "db" THEN "always" ELSE "on-failure"]
MCDepends == [s \in Services |-> IF s = "web" THEN Services \ {"web"} ELSE {}]
MCPorts == [s \in Services |-> IF s = "db" THEN {54} ELSE {}]
MCSubnet == [n \in Networks |-> AutoSubnet]

Sound == [privileged |-> TRUE, rootless |-> FALSE, flaky |-> FALSE, stubborn |-> FALSE,
          v6only |-> FALSE, quiet |-> TRUE]
Stubborn == [Sound EXCEPT !.stubborn = TRUE]
Rootless == [Sound EXCEPT !.rootless = TRUE]
Unprivileged == [Sound EXCEPT !.privileged = FALSE]
Flaky == [Unprivileged EXCEPT !.flaky = TRUE]
ProbedV6 == [Unprivileged EXCEPT !.quiet = FALSE, !.v6only = TRUE]
MCHosts == {Sound, Stubborn, Rootless, Flaky, ProbedV6}
=============================================================================
