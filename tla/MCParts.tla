------------------------------ MODULE MCParts -------------------------------
(***************************************************************************)
(* Model checking of the components that share no state with another       *)
(* module: each behaviour is one of a single component, `part`, and the    *)
(* others stay in an initial state of theirs.                              *)
(***************************************************************************)
EXTENDS Parts

VARIABLE part      \* the component that runs
-----------------------------------------------------------------------------
(* Frontier and Tether *)

Rule(prefix, header, priority, cluster) ==
    [prefix |-> prefix, header |-> header, priority |-> priority, cluster |-> cluster]
MCRules ==
    {Rule(TRUE, FALSE, 1, "a"), Rule(FALSE, FALSE, 0, "b"), Rule(FALSE, TRUE, 1, "c"), Rule(FALSE, FALSE, 0, "d"),
     Rule(TRUE, TRUE, 2, "e")}
MCTasks == [postgres |-> {"guest"}, mysql |-> {"guest", "other"}, redis |-> {"guest", "other"}]
-----------------------------------------------------------------------------
(* Chisel *)

MCCrates == <<"app", "tool">>
MCOthers == {"gomod", "cdir", "cfile"}
MCSource ==
    [gomod |-> [file |-> FALSE, contents |-> {"go.mod", "module"}],
     cdir  |-> [file |-> FALSE, contents |-> {"c"}],
     cfile |-> [file |-> TRUE,  contents |-> {"c"}]]

Image(layers, entry, traces, deps) == [layers |-> layers, entry |-> entry, traces |-> traces, deps |-> deps]
Layer(size, command) == [size |-> size, command |-> command]
FirstImage == Image(<<>>, "", {}, <<>>)
MCImages ==
    {FirstImage,
     Image(<<Layer(7, "install"), Layer(2, "run")>>, "rs", {"libc", "fork"}, <<"crates.io">>),
     Image(<<Layer(1, "install")>>, "rs", {"libstd"}, <<>>),
     Image(<<Layer(3, "other"), Layer(1, "none")>>, "go", {"goEntry"}, <<"pre">>),
     Image(<<Layer(9, "other")>>, "", {"libstd"}, <<"golang", "crates.io">>),
     Image(<<Layer(4, "other")>>, "c", {"libc"}, <<>>),
     Image(<<Layer(4, "run")>>, "cpp", {"libssl"}, <<>>),
     Image(<<Layer(5, "other")>>, "py", {}, <<"golang", "pre">>),
     Image(<<Layer(5, "other")>>, "py", {"libc"}, <<>>)}
-----------------------------------------------------------------------------
(* Origin *)

Line(kw, arg, val) == [kw |-> kw, arg |-> arg, val |-> val]
MCDockerfiles ==
    {<<>>,
     <<Line("RUN", "", "")>>,
     <<Line("ARG", "V", "1"), Line("FROM", "base", "build"), Line("ENV", "P", "x"), Line("WORKDIR", "src", ""),
       Line("RUN", "", ""), Line("ARG", "P", "y"), Line("FROM", "base", ""), Line("COPY", "bin", "build"),
       Line("ENV", "V", "2"), Line("ARG", "V", "3"), Line("WORKDIR", "app", "/"), Line("WORKDIR", "sub", ""),
       Line("ENV", "V", "4"), Line("USER", "app", ""), Line("RUN", "", ""), Line("CMD", "a", ""), Line("CMD", "b", "")>>,
     <<Line("FROM", "base", "a"), Line("COPY", "f", ""), Line("FROM", "base", "a"), Line("COPY", "f", "a"),
       Line("FROM", "base", ""), Line("ARG", "P", "z"), Line("ARG", "V", "q"), Line("COPY", "f", "a"),
       Line("ADD", "g", ""), Line("LABEL", "k", "v"), Line("COPY", "h", "none")>>,
     <<Line("FROM", "base", ""), Line("USER", "app", ""), Line("ENV", UserVar, "app"), Line("ENV", "V", "2"),
       Line("WORKDIR", "sub", ""), Line("WORKDIR", "app", "/"), Line("ARG", "V", "3"), Line("ARG", "P", "4"), Line("RUN", "", ""), Line("CMD", "a", "")>>}
MCArgs == [k \in BuildKeys |-> IF k = "V" THEN "9" ELSE ""]

Service(n, base, set, deps) ==
    [type |-> IF n = "c" THEN "process" ELSE "wasm", base |-> base, file |-> base = "x",
     main |-> IF n \in set THEN n ELSE Unset,
     restart |-> IF n = "b" THEN "always" ELSE "never",
     env |-> [k \in EnvKeys |-> IF k = "own" \/ n = "b" THEN n ELSE Unset],
     deps |-> deps, profiles |-> IF n = "c" THEN {"dev"} ELSE {}]
Manifest(bases, set, deps, fileBase, active) ==
    [services |-> [n \in {"a", "b", "c"} |-> Service(n, bases[n], set, deps[n])],
     files |-> [n \in {"x"} |-> Service("x", fileBase, {"x"}, <<>>)],
     active |-> active]
NoBases == [n \in {"a", "b", "c"} |-> Unset]
FewDeps == [n \in {"a", "b", "c"} |-> IF n = "c" THEN <<"a">> ELSE <<>>]
FirstManifest == Manifest(NoBases, {"a"}, FewDeps, Unset, {})

\* Every way to extend, with few dependencies, and every way to depend.
MCManifests ==
    {Manifest(b, set, FewDeps, f, active) :
        b \in [{"a", "b", "c"} -> {"a", "b", "c", "x", Unset}], set \in {{"a"}, {"a", "c"}},
        f \in {Unset, "a"}, active \in {{}, {"prod"}}}
    \cup {Manifest(NoBases, {"a"}, d, Unset, {}) :
            d \in [{"a", "b", "c"} -> {<<>>, <<"a">>, <<"b", "c">>, <<"b", "b">>, <<"x">>}]}

MCKind == [s \in Services |-> "process"]
MCPolicy == [s \in Services |-> "always"]
MCNothing == [s \in Services |-> {}]
MCSubnet == [n \in Networks |-> AutoSubnet]
-----------------------------------------------------------------------------
Init ==
    /\ part \in {"router", "balancers", "upstream", "plugins", "ratelimit", "wire", "pubsub", "health",
                "compile", "orchestrator", "analysis", "agent", "build", "manifest", "cli"}
    /\ (part = "balancers" \/ (part # "balancers" /\ lKind = "least")) /\ LInit
    /\ (part = "ratelimit" \/ (part # "ratelimit" /\ rStrategy = "TokenBucket")) /\ RlInit
    /\ (part = "wire" \/ (part # "wire" /\ wKind = "redis" /\ wIn = From(0, <<"hello">>))) /\ WInit
    /\ (part = "compile" \/ (part # "compile" /\ kTools = {})) /\ KInit
    /\ (part = "orchestrator" \/ (part # "orchestrator" /\ aProviders = 0)) /\ AInit
    /\ (part = "analysis" \/ (part # "analysis" /\ zImage = FirstImage /\ zScanner = {})) /\ ZInit
    /\ (part = "build" \/ (part # "build" /\ bLines = <<>> /\ bImage = NoImage)) /\ BInit
    /\ (part = "manifest" \/ (part # "manifest" /\ mIn = FirstManifest)) /\ MInit
    /\ TInit /\ UInit /\ GInit /\ SInit /\ HInit /\ EInit /\ CliInit

\* All but the component that runs stay as they are.
StayBut(p) ==
    /\ IF p = "router" THEN TRUE ELSE UNCHANGED tVars
    /\ IF p = "balancers" THEN TRUE ELSE UNCHANGED lVars
    /\ IF p = "upstream" THEN TRUE ELSE UNCHANGED uVars
    /\ IF p = "plugins" THEN TRUE ELSE UNCHANGED gVars
    /\ IF p = "ratelimit" THEN TRUE ELSE UNCHANGED rlVars
    /\ IF p = "wire" THEN TRUE ELSE UNCHANGED wVars
    /\ IF p = "pubsub" THEN TRUE ELSE UNCHANGED sVars
    /\ IF p = "health" THEN TRUE ELSE UNCHANGED hVars
    /\ IF p = "compile" THEN TRUE ELSE UNCHANGED kVars
    /\ IF p = "orchestrator" THEN TRUE ELSE UNCHANGED aVars
    /\ IF p = "analysis" THEN TRUE ELSE UNCHANGED zVars
    /\ IF p = "agent" THEN TRUE ELSE UNCHANGED eVars
    /\ IF p = "build" THEN TRUE ELSE UNCHANGED bVars
    /\ IF p = "manifest" THEN TRUE ELSE UNCHANGED mVars
    /\ IF p = "cli" THEN TRUE ELSE UNCHANGED cliVars
    /\ part = p /\ UNCHANGED part

Next ==
    \/ part = "router" /\ TNext /\ StayBut("router")
    \/ part = "balancers" /\ LNext /\ StayBut("balancers")
    \/ part = "upstream" /\ UNext /\ StayBut("upstream")
    \/ part = "plugins" /\ GNext /\ StayBut("plugins")
    \/ part = "ratelimit" /\ RlNext /\ StayBut("ratelimit")
    \/ part = "wire" /\ WNext /\ StayBut("wire")
    \/ part = "pubsub" /\ SNext /\ StayBut("pubsub")
    \/ part = "health" /\ HNext /\ StayBut("health")
    \/ part = "compile" /\ KNext /\ StayBut("compile")
    \/ part = "orchestrator" /\ ANext /\ StayBut("orchestrator")
    \/ part = "analysis" /\ ZNext /\ StayBut("analysis")
    \/ part = "agent" /\ ENext /\ StayBut("agent")
    \/ part = "build" /\ BNext /\ StayBut("build")
    \/ part = "manifest" /\ MNext /\ StayBut("manifest")
    \/ part = "cli" /\ CliNext /\ StayBut("cli")

Spec == Init /\ [][Next]_<<part, tVars, lVars, uVars, gVars, rlVars, wVars, sVars, hVars, kVars, aVars, zVars, eVars, bVars, mVars, cliVars>>
=============================================================================
