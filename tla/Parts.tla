-------------------------------- MODULE Parts --------------------------------
(***************************************************************************)
(* The components that share no state with another one, side by side.      *)
(***************************************************************************)
EXTENDS ProxyRouter, LoadBalancers, UpstreamPool, ProxyPlugins, RateLimiter,
        WireDrivers, Subscriptions, HealthMonitor,
        ChiselPipeline, ChiselOrchestrator, ChiselAnalysis, ScopeAgent,
        OriginBuild, OriginExtends, OriginCli

PartsSpec ==
    /\ TSpec /\ LSpec /\ USpec /\ GSpec /\ RlSpec /\ WSpec /\ SSpec /\ HSpec
    /\ KSpec /\ ASpec /\ ZSpec /\ ESpec /\ BSpec /\ MSpec /\ CliSpec

\* The type invariants of all of them.
PartsTypeOK ==
    /\ TTypeOK /\ LTypeOK /\ UTypeOK /\ GTypeOK /\ RlTypeOK /\ WTypeOK /\ STypeOK /\ HTypeOK
    /\ KTypeOK /\ ATypeOK /\ ZTypeOK /\ ETypeOK /\ BTypeOK /\ MTypeOK /\ CliTypeOK

\* What is configured is what happens: a request goes by the first of the
\* highest rules that fit it (router.rs), and a manifest is extended, one level
\* deep, and sorted into waves (manifest.rs, lifecycle.rs), whatever the order in
\* which a hash map gives the rules and the services.
ConfigsSound == RouteSound /\ ManifestSound
=============================================================================
