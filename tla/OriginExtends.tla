---------------------------- MODULE OriginExtends ----------------------------
(***************************************************************************)
(* What becomes of a manifest before anything is started                   *)
(* (origin/core/src/manifest.rs and topological_waves of lifecycle.rs):    *)
(* `extends` is resolved, profiles are filtered, and the services are      *)
(* sorted into waves by depends_on.                                        *)
(*                                                                         *)
(* A service is its type, the name it extends, and its settings: of a      *)
(* setting it matters only where its value comes from, so a value is the   *)
(* name of the service that gave it, Unset if none did.                    *)
(***************************************************************************)
EXTENDS Integers, Sequences, FiniteSets, SequencesExt

CONSTANTS
    MNames,        \* the names a manifest may use
    Manifests      \* the inputs: [services, files, active]: the services by
                   \* name, those of other files, the profiles given

VARIABLES
    mIn,           \* the manifest read
    mAt,           \* the step of cmd_up
    mServices,     \* the services, as they are now; target of resolve_extends
    mTodo,         \* the services resolve_extends has not come to
    mStack,        \* the calls of resolve_extends_recursive: [name, service]
    mVisited,      \* visited
    mResolved,     \* topological_waves: resolved
    mDegree,       \* remaining
    mWaves         \* waves

mVars == <<mIn, mAt, mServices, mTodo, mStack, mVisited, mResolved, mDegree, mWaves>>
extendsVars == <<mTodo, mStack, mVisited>>
wavesVars == <<mResolved, mDegree, mWaves>>

Unset == "unset"
EnvKeys == {"shared", "own"}
MService == [type : {"oci", "wasm", "process"}, base : MNames \cup {Unset},
             file : BOOLEAN,                       \* base is in another file
             main : MNames \cup {Unset},           \* image, path, command, ports, ...
             restart : {"never", "always"},
             env : [EnvKeys -> MNames \cup {Unset}],
             deps : Seq(MNames), profiles : SUBSET {"dev", "prod"}]

IsServiceMap(services) ==
    /\ services = [n \in DOMAIN services |-> services[n]]
    /\ DOMAIN services \subseteq MNames /\ \A n \in DOMAIN services : services[n] \in MService

ASSUME ExtendsAssumption ==
    /\ IsFiniteSet(MNames) /\ Unset \notin MNames
    /\ \A m \in Manifests : IsServiceMap(m.services) /\ IsServiceMap(m.files)

MTypeOK ==
    /\ mAt \in {"read", "filter", "graph", "waves", "ready", "failed"}
    /\ IsServiceMap(mServices) /\ mTodo \subseteq DOMAIN mIn.services /\ mVisited \subseteq MNames
    /\ mStack \in Seq([name : MNames, service : MService])
    /\ mResolved \subseteq MNames /\ mWaves \in Seq(SUBSET MNames)
-----------------------------------------------------------------------------
(* resolve_extends                                                         *)

\* The three merges: a setting of the child wins where it is there, variables
\* one by one.  A process may extend a Wasm module and becomes one.
Over(child, base) == IF child = Unset THEN base ELSE child
Merge(child, base, type) ==
    [base EXCEPT !.type = type,
                 !.main = Over(child.main, @),
                 !.restart = IF child.restart = "never" THEN @ ELSE child.restart,
                 !.env = [k \in EnvKeys |-> Over(child.env[k], @[k])],
                 !.deps = IF child.deps = <<>> THEN @ ELSE child.deps,
                 !.profiles = IF child.profiles = {} THEN @ ELSE child.profiles]
MergeOci(child, base) == Merge(child, base, "oci")
MergeWasm(child, base) == Merge(child, base, "wasm")
MergeProcessOverWasm(child, base) == Merge(child, base, "wasm")
Mergeable(child, base) ==
    <<child.type, base.type>> \in {<<"oci", "oci">>, <<"wasm", "wasm">>, <<"process", "wasm">>}
Merged(child, base) ==
    IF child.type = "oci" THEN MergeOci(child, base)
    ELSE IF child.type = "wasm" THEN MergeWasm(child, base)
    ELSE MergeProcessOverWasm(child, base)

SourceOf(service) == IF service.file THEN mIn.files ELSE mIn.services
BaseOf(service) == SourceOf(service)[service.base]
Resolving == {mStack[i].name : i \in DOMAIN mStack}
Top == mStack[Len(mStack)]

\* Without a look at the calls under way.
ReturnsIfVisited(name, service) == service.base = Unset \/ name \in mVisited \cup Resolving
\* A call that returns at once: nothing is extended, or it was resolved before.
ReturnsAtOnce(name, service) == service.base = Unset \/ (name \notin Resolving /\ name \in mVisited)

MInit ==
    /\ mIn \in Manifests
    /\ mAt = "read" /\ mServices = mIn.services /\ mTodo = DOMAIN mIn.services /\ mStack = <<>> /\ mVisited = {}
    /\ mResolved = {} /\ mDegree = <<>> /\ mWaves = <<>>

\* resolve_extends calls for the services in the order the hash map gives them.
ResolveService(n) ==
    /\ mAt = "read" /\ mStack = <<>> /\ n \in mTodo
    /\ mTodo' = mTodo \ {n}
    /\ mStack' = IF ReturnsAtOnce(n, mIn.services[n]) THEN <<>> ELSE <<[name |-> n, service |-> mIn.services[n]]>>
    /\ UNCHANGED <<mIn, mAt, mServices, mVisited, wavesVars>>

\* The call for the base.
ResolveBase ==
    /\ mAt = "read" /\ mStack # <<>> /\ Top.service.base \in DOMAIN SourceOf(Top.service)
    /\ LET base == Top.service.base
           service == BaseOf(Top.service)
       IN  /\ ~ReturnsAtOnce(base, service) /\ base \notin Resolving
           /\ mStack' = Append(mStack, [name |-> base, service |-> service])
    /\ UNCHANGED <<mIn, mAt, mServices, mTodo, mVisited, wavesVars>>

\* Back from it, the base is merged as the source has it, not as it was
\* just resolved.
MergeBase ==
    /\ mAt = "read" /\ mStack # <<>> /\ Top.service.base \in DOMAIN SourceOf(Top.service)
    /\ ReturnsAtOnce(Top.service.base, BaseOf(Top.service)) /\ Mergeable(Top.service, BaseOf(Top.service))
    /\ mServices' = [n \in DOMAIN mServices \cup {Top.name} |->
                        IF n = Top.name THEN Merged(Top.service, BaseOf(Top.service)) ELSE mServices[n]]
    /\ mVisited' = mVisited \cup {Top.name} /\ mStack' = SubSeq(mStack, 1, Len(mStack) - 1)
    /\ UNCHANGED <<mIn, mAt, mTodo, wavesVars>>

\* No such base, a circle, or a base of another type; the calls all return.
ResolveFails ==
    /\ mAt = "read" /\ mStack # <<>>
    /\ \/ Top.service.base \notin DOMAIN SourceOf(Top.service)
       \/ IF ReturnsAtOnce(Top.service.base, BaseOf(Top.service)) THEN ~Mergeable(Top.service, BaseOf(Top.service))
                                                                 ELSE Top.service.base \in Resolving
    /\ mAt' = "failed"
    /\ UNCHANGED <<mIn, mServices, extendsVars, wavesVars>>

Extended ==
    /\ mAt = "read" /\ mStack = <<>> /\ mTodo = {} /\ mAt' = "filter"
    /\ UNCHANGED <<mIn, mServices, extendsVars, wavesVars>>
-----------------------------------------------------------------------------
\* filter_by_profiles, if a profile is given.
FilterByProfiles ==
    /\ mAt = "filter"
    /\ mAt' = "graph"
    /\ LET kept == {n \in DOMAIN mServices :
                      mServices[n].profiles = {} \/ mServices[n].profiles \cap mIn.active # {}}
       IN  mServices' = IF mIn.active = {} THEN mServices ELSE [n \in kept |-> mServices[n]]
    /\ UNCHANGED <<mIn, extendsVars, wavesVars>>

\* topological_waves: the degrees, a name counting as often as it is listed.
Graph ==
    /\ mAt = "graph"
    /\ IF \E n \in DOMAIN mServices : \E i \in DOMAIN mServices[n].deps :
             mServices[n].deps[i] \notin DOMAIN mServices
       THEN mAt' = "failed" /\ UNCHANGED mDegree
       ELSE /\ mAt' = "waves"
            /\ mDegree' = [n \in DOMAIN mServices |-> Len(mServices[n].deps)]
    /\ UNCHANGED <<mIn, mServices, extendsVars, mResolved, mWaves>>

\* A dependency that is listed twice is counted once.
TimesInOnce(wave, n) == Cardinality(Range(mServices[n].deps) \cap wave)
TimesIn(wave, n) == Cardinality({i \in DOMAIN mServices[n].deps : mServices[n].deps[i] \in wave})

\* One round of its loop.
NextWave ==
    /\ mAt = "waves"
    /\ LET wave == {n \in DOMAIN mServices : mDegree[n] = 0 /\ n \notin mResolved}
       IN  IF mResolved = DOMAIN mServices THEN mAt' = "ready" /\ UNCHANGED <<mResolved, mDegree, mWaves>>
           ELSE IF wave = {} THEN mAt' = "failed" /\ UNCHANGED <<mResolved, mDegree, mWaves>>
           ELSE /\ mResolved' = mResolved \cup wave
                /\ mDegree' = [n \in DOMAIN mDegree |->
                                 IF TimesIn(wave, n) > mDegree[n] THEN 0 ELSE mDegree[n] - TimesIn(wave, n)]
                /\ mWaves' = Append(mWaves, wave)
                /\ UNCHANGED mAt
    /\ UNCHANGED <<mIn, mServices, extendsVars>>

MNext ==
    \/ (\E n \in mTodo : ResolveService(n)) \/ ResolveBase \/ MergeBase \/ ResolveFails \/ Extended
    \/ FilterByProfiles \/ Graph \/ NextWave

MSpec == MInit /\ [][MNext]_mVars
-----------------------------------------------------------------------------
\* What one level of `extends` gives, with the manifest alone: the settings of the
\* base are those the manifest writes for it, not those it takes from a base of
\* its own.
AsExtended(n) ==
    LET s == mIn.services[n] IN IF s.base = Unset THEN s ELSE Merged(s, BaseOf(s))
Extends(n) ==
    LET s == mIn.services[n]
    IN  s.base # Unset => s.base \in DOMAIN SourceOf(s) /\ Mergeable(s, BaseOf(s))
Circular(names) ==
    names # {} /\ \A n \in names : ~mIn.services[n].file /\ mIn.services[n].base \in names
CanExtend ==
    /\ \A n \in DOMAIN mIn.services : Extends(n)
    /\ \A names \in SUBSET DOMAIN mIn.services : ~Circular(names)

\* What `extends` gives is decided by the manifest, whatever the order of a hash
\* map: every service with the settings its own lines and those of its base give,
\* one level deep, and an error exactly when a base is missing or of another type,
\* or a chain of them is closed.  It is said of manifests whose other files extend
\* nothing: a base of such a file is resolved under its own name, and may stand for
\* a service of the manifest with that name (manifest.rs, resolve_extends).
ExtendsSound ==
    (\A n \in DOMAIN mIn.files : mIn.files[n].base = Unset) =>
       /\ mAt = "filter" => CanExtend /\ mServices = [n \in DOMAIN mIn.services |-> AsExtended(n)]
       /\ mAt = "failed" /\ mStack # <<>> => ~CanExtend

\* The waves are the layers of the dependency graph: every service is in one,
\* one after the last of what it depends on, and there is an error exactly when
\* a name is unknown or a chain of dependencies is closed.
WavesAreLayers ==
    /\ mAt = "ready" =>
         /\ \A n \in DOMAIN mServices : \E i \in DOMAIN mWaves : n \in mWaves[i]
         /\ \A i, j \in DOMAIN mWaves : \A n \in mWaves[i] :
              /\ n \in mWaves[j] => i = j
              /\ \A d \in Range(mServices[n].deps) : \A k \in DOMAIN mWaves : d \in mWaves[k] => k < i
              /\ i > 1 => \E d \in Range(mServices[n].deps) : d \in mWaves[i - 1]
    /\ mAt = "failed" /\ mDegree # <<>> =>
         \E cycle \in SUBSET DOMAIN mServices :
            cycle # {} /\ \A n \in cycle : Range(mServices[n].deps) \cap cycle # {}

\* What a manifest says is what is brought up.
ManifestSound == ExtendsSound /\ WavesAreLayers
=============================================================================
