---------------------------- MODULE ProxyPlugins ----------------------------
(***************************************************************************)
(* The plugins of the Frontier proxy: PluginLoader                         *)
(* (frontier/proxy/src/plugin.rs), which compiles modules, keeps their     *)
(* configurations and reloads changed files, and PluginManager             *)
(* (frontier/plugin-sdk/src/host.rs), the list a request passes through.   *)
(*                                                                         *)
(* A file is its modification time and whether it compiles; a              *)
(* configuration is its limits.                                            *)
(***************************************************************************)
EXTENDS Integers, Sequences, FiniteSets

CONSTANTS
    Plugins,       \* names; a plugin's file has its name
    Limits,        \* what max_memory_bytes may be set to
    Default,       \* the default limit
    Loaders,       \* tasks that load and unload, one of them the hot reload
    Reloader,      \* that one
    MaxWrites,     \* bound: writes of the plugins' files
    MaxLoads       \* bound: loads

NoConfig == "none"

ASSUME PluginAssumption ==
    /\ Default \notin Limits /\ NoConfig \notin Limits \cup {Default} /\ Reloader \in Loaders /\ MaxWrites \in Nat /\ MaxLoads \in Nat

VARIABLES
    gFile,         \* gFile[p]: [mtime, ok]
    gSeen,         \* watcher_state, 0 if there is none
    gModule,       \* modules: the mtime of the file compiled, 0 if there is none
    gConfig,       \* configs: the limit, NoConfig if there is none
    gTask,         \* what each loader does
    gCrossed,      \* history: plugins loaded or unloaded by another task since
                   \* the hot reload read their limits
    gCount,        \* [writes, loads]
    gList          \* PluginManager.plugins: [name, enabled]

gVars == <<gFile, gSeen, gModule, gConfig, gTask, gCrossed, gCount, gList>>

PluginConf == Limits \cup {Default, NoConfig}
NotLoading == [at |-> "idle", p |-> CHOOSE p \in Plugins : TRUE, limit |-> Default, bytes |-> 0]

GTypeOK ==
    /\ gModule \in [Plugins -> 0 .. MaxWrites] /\ gSeen \in [Plugins -> 0 .. MaxWrites]
    /\ gConfig \in [Plugins -> PluginConf]
    /\ \A t \in Loaders : gTask[t].at \in {"idle", "read", "register", "config"} /\ gTask[t].limit \in PluginConf \ {NoConfig}
    /\ gCrossed \subseteq Plugins
    /\ \A i \in DOMAIN gList : gList[i].name \in Plugins /\ gList[i].enabled \in BOOLEAN

GInit ==
    /\ gFile = [p \in Plugins |-> [mtime |-> 0, ok |-> FALSE]] /\ gSeen = [p \in Plugins |-> 0]
    /\ gModule = [p \in Plugins |-> 0] /\ gConfig = [p \in Plugins |-> NoConfig]
    /\ gTask = [t \in Loaders |-> NotLoading] /\ gCrossed = {} /\ gCount = [writes |-> 0, loads |-> 0] /\ gList = <<>>

WriteFile ==
    /\ gCount.writes < MaxWrites
    /\ \E p \in Plugins, ok \in BOOLEAN : gFile' = [gFile EXCEPT ![p] = [mtime |-> gCount.writes + 1, ok |-> ok]]
    /\ gCount' = [gCount EXCEPT !.writes = @ + 1]
    /\ UNCHANGED <<gSeen, gModule, gConfig, gTask, gCrossed, gList>>
-----------------------------------------------------------------------------
(* load_plugin                                                             *)

\* A call for a plugin that is not enabled returns at once and is no step.
StartLoad(t) ==
    /\ t # Reloader /\ gTask[t].at = "idle" /\ gCount.loads < MaxLoads
    /\ \E p \in Plugins, l \in Limits : gTask' = [gTask EXCEPT ![t] = [@ EXCEPT !.at = "read", !.p = p, !.limit = l]]
    /\ gCount' = [gCount EXCEPT !.loads = @ + 1]
    /\ UNCHANGED <<gFile, gSeen, gModule, gConfig, gCrossed, gList>>

\* load_plugin_from_oci: the bytes come from a registry, the limit is the
\* default one.
PullFromOci(t) ==
    /\ t # Reloader /\ gTask[t].at = "idle" /\ gCount.loads < MaxLoads
    /\ \E p \in Plugins :
         /\ gFile[p].mtime > 0
         /\ gTask' = [gTask EXCEPT ![t] = [at |-> "register", p |-> p, limit |-> Default, bytes |-> gFile[p].mtime]]
    /\ gCount' = [gCount EXCEPT !.loads = @ + 1]
    /\ UNCHANGED <<gFile, gSeen, gModule, gConfig, gCrossed, gList>>

\* The file is read and compiled, or it is not there or does not compile.
ReadFile(t) ==
    /\ gTask[t].at = "read"
    /\ LET f == gFile[gTask[t].p]
       IN gTask' = [gTask EXCEPT ![t] = IF f.mtime > 0 /\ f.ok THEN [@ EXCEPT !.at = "register", !.bytes = f.mtime]
                                        ELSE NotLoading]
    /\ UNCHANGED <<gFile, gSeen, gModule, gConfig, gCrossed, gCount, gList>>

RegisterModule(t) ==
    /\ gTask[t].at = "register"
    /\ gModule' = [gModule EXCEPT ![gTask[t].p] = gTask[t].bytes]
    /\ gTask' = [gTask EXCEPT ![t].at = "config"]
    /\ UNCHANGED <<gFile, gSeen, gConfig, gCrossed, gCount, gList>>

InsertConfig(t) ==
    /\ gTask[t].at = "config"
    /\ gConfig' = [gConfig EXCEPT ![gTask[t].p] = gTask[t].limit]
    /\ gTask' = [gTask EXCEPT ![t] = NotLoading]
    /\ gCrossed' = gCrossed \cup {gTask[t].p}
    /\ UNCHANGED <<gFile, gSeen, gModule, gCount, gList>>

\* unload_plugin holds the lock of the modules over both removals.
Unload ==
    /\ \E p \in Plugins :
         /\ gModule[p] # 0
         /\ gModule' = [gModule EXCEPT ![p] = 0] /\ gConfig' = [gConfig EXCEPT ![p] = NoConfig]
         /\ gCrossed' = gCrossed \cup {p}
    /\ UNCHANGED <<gFile, gSeen, gTask, gCount, gList>>
-----------------------------------------------------------------------------
\* hot_reload, for one file of the directory: its modification time is
\* remembered, and the limit that is configured now is what it is loaded with.
HotReloadDefaults ==
    /\ gTask[Reloader].at = "idle"
    /\ \E p \in Plugins :
         /\ gFile[p].mtime > gSeen[p]
         /\ gSeen' = [gSeen EXCEPT ![p] = gFile[p].mtime]
         /\ gCrossed' = gCrossed \ {p}
         /\ gTask' = [gTask EXCEPT ![Reloader] = [@ EXCEPT !.at = "read", !.p = p, !.limit = Default]]
    /\ UNCHANGED <<gFile, gModule, gConfig, gCount, gList>>
HotReload ==
    /\ gTask[Reloader].at = "idle"
    /\ \E p \in Plugins :
         /\ gFile[p].mtime > gSeen[p]
         /\ gSeen' = [gSeen EXCEPT ![p] = gFile[p].mtime]
         /\ gCrossed' = gCrossed \ {p}
         /\ gTask' = [gTask EXCEPT ![Reloader] =
                        [@ EXCEPT !.at = "read", !.p = p, !.limit = IF gConfig[p] = NoConfig THEN Default ELSE gConfig[p]]]
    /\ UNCHANGED <<gFile, gModule, gConfig, gCount, gList>>

\* instantiate_plugin: the limit an instance made now would have.
InstanceLimit(p) == IF gConfig[p] = NoConfig THEN Default ELSE gConfig[p]
-----------------------------------------------------------------------------
(* PluginManager: a name may be registered twice; the first is enabled and *)
(* disabled, all are unregistered.                                         *)

RegisterPlugin(p) == Len(gList) < 2 /\ gList' = Append(gList, [name |-> p, enabled |-> TRUE])
\* retain keeps the others, in their order.
PlacesBut(p) == {i \in DOMAIN gList : gList[i].name # p}
NthPlaceBut(p, k) == CHOOSE i \in PlacesBut(p) : Cardinality({j \in PlacesBut(p) : j <= i}) = k
UnregisterPlugin(p) ==
    /\ PlacesBut(p) # DOMAIN gList
    /\ gList' = [k \in 1 .. Cardinality(PlacesBut(p)) |-> gList[NthPlaceBut(p, k)]]
SetEnabled(p, on) ==
    \E i \in DOMAIN gList :
       /\ gList[i].name = p /\ \A j \in DOMAIN gList : gList[j].name = p => i <= j
       /\ gList' = [gList EXCEPT ![i].enabled = on]
Manage ==
    /\ \E p \in Plugins : RegisterPlugin(p) \/ UnregisterPlugin(p) \/ \E on \in BOOLEAN : SetEnabled(p, on)
    /\ UNCHANGED <<gFile, gSeen, gModule, gConfig, gTask, gCrossed, gCount>>

GNext ==
    \/ WriteFile \/ Unload \/ HotReload \/ Manage
    \/ \E t \in Loaders : StartLoad(t) \/ PullFromOci(t) \/ ReadFile(t) \/ RegisterModule(t) \/ InsertConfig(t)

GSpec == GInit /\ [][GNext]_gVars
-----------------------------------------------------------------------------
\* A plugin that is loaded has the limits of a load once no load of it is under
\* way: no instance runs with the defaults because its limits were forgotten.
LimitsOrLoading ==
    \A p \in Plugins :
       gModule[p] # 0 /\ gConfig[p] = NoConfig => \E t \in Loaders : gTask[t].at = "config" /\ gTask[t].p = p

\* What a hot reload is about to write as the limits of a plugin is what an
\* instance has now, unless somebody else loaded or unloaded the plugin between
\* the reload's reading of the limits and its writing of them.
ReloadKeepsLimits ==
    LET r == gTask[Reloader]
    IN r.at # "idle" /\ r.p \notin gCrossed => r.limit = InstanceLimit(r.p)

\* The limits a module runs with are those it was given (plugin.rs, load_plugin
\* and hot_reload).
PluginsSound == LimitsOrLoading /\ ReloadKeepsLimits
=============================================================================
