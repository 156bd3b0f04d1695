--------------------------- MODULE ChiselPipeline ---------------------------
(***************************************************************************)
(* Chisel's way from a source directory to a signed module                 *)
(* (chisel/core/src/wasm_pipeline.rs): which compiler takes a source, what *)
(* it reports, the description made of the report and its signature.  Each *)
(* of these reads the binary from the disk again, where another build may  *)
(* have replaced it.                                                       *)
(*                                                                         *)
(* A binary is the version of the source it was built from, 0 if there is  *)
(* none.  The crates of a Cargo workspace share a target directory.        *)
(***************************************************************************)
EXTENDS Integers, Sequences, FiniteSets

CONSTANTS
    Crates,        \* the packages of a Cargo workspace, in cargo metadata's order
    Others,        \* sources that are not crates
    Source,        \* those: [file, contents], a file or a directory, with contents
                   \* among "go.mod", "module", "c", "makefile", "text"
    MaxEdits       \* bound: edits of sources, over all of them

ASSUME PipelineAssumption ==
    /\ DOMAIN Crates = 1 .. Len(Crates) /\ Len(Crates) \in Nat \ {0} /\ MaxEdits \in Nat
    /\ \A i \in DOMAIN Crates : Crates[i] \notin Others

VARIABLES
    kVersion,      \* the version of each source
    kBinary,       \* the binary at the path each source's binary has
    kTools,        \* which of "tinygo" and "emcc" are on the PATH
    kPipe,         \* what the pipeline does: [at, src, out, sha, signed, moved]
    kEdits

kVars == <<kVersion, kBinary, kTools, kPipe, kEdits>>

CrateSet == {Crates[i] : i \in DOMAIN Crates}
Sources == CrateSet \cup Others
NoSource == "none"
PipeResting ==
    [at |-> "idle", src |-> NoSource, out |-> NoSource, built |-> 0, sha |-> 0, signed |-> 0, moved |-> FALSE]

KTypeOK ==
    /\ kVersion \in [Sources -> 1 .. MaxEdits + 1] /\ kBinary \in [Sources -> 0 .. MaxEdits + 1]
    /\ kTools \subseteq {"tinygo", "emcc"} /\ kEdits \in 0 .. MaxEdits
    /\ kPipe.at \in {"idle", "built", "located", "compiled", "module", "signed", "failed"}

KInit ==
    /\ kVersion = [s \in Sources |-> 1] /\ kBinary = [s \in Sources |-> 0]
    /\ kTools \in SUBSET {"tinygo", "emcc"}
    /\ kPipe = PipeResting /\ kEdits = 0
-----------------------------------------------------------------------------
(* detect_language: the first compiler whose validate_source accepts.      *)

RustAccepts(s) == s \in CrateSet
GoAccepts(s) == s \in Others /\ ~Source[s].file /\ {"go.mod", "module"} \subseteq Source[s].contents
\* Any directory with an entry in it; a file cannot be listed, which counts as
\* a refusal.
CAccepts(s) == s \in Others /\ ~Source[s].file /\ Source[s].contents # {}
EmscriptenAccepts(s) == s \in Others /\ IF Source[s].file THEN "c" \in Source[s].contents ELSE Source[s].contents # {}

DetectSwapped(s) ==
    IF RustAccepts(s) THEN "rust" ELSE IF GoAccepts(s) THEN "go"
    ELSE IF EmscriptenAccepts(s) THEN "emscripten" ELSE IF CAccepts(s) THEN "c" ELSE "none"
DetectLanguage(s) ==
    IF RustAccepts(s) THEN "rust" ELSE IF GoAccepts(s) THEN "go"
    ELSE IF CAccepts(s) THEN "c" ELSE IF EmscriptenAccepts(s) THEN "emscripten" ELSE "none"

\* Whether the compiler that was detected can write a binary.  The C compiler
\* never does.  Emscripten needs a directory to write to: the output path is
\* that of the source with a name appended.
CanBuild(s) ==
    \/ DetectLanguage(s) = "rust"
    \/ DetectLanguage(s) = "go" /\ "tinygo" \in kTools
    \/ DetectLanguage(s) = "emscripten" /\ "emcc" \in kTools /\ ~Source[s].file /\ "c" \in Source[s].contents

\* A compiler runs and writes its binary, or the compilation is reported as a
\* failure.
StartCompile ==
    /\ kPipe.at = "idle"
    /\ \E s \in Sources, ok \in BOOLEAN :
         /\ ok => CanBuild(s)
         /\ IF ok THEN /\ kBinary' = [kBinary EXCEPT ![s] = kVersion[s]]
                       /\ kPipe' = [kPipe EXCEPT !.at = "built", !.src = s]
                  ELSE kBinary' = kBinary /\ kPipe' = [kPipe EXCEPT !.at = "failed", !.src = s]
    /\ UNCHANGED <<kVersion, kTools, kEdits>>

\* Where the binary is: TinyGo was told; Cargo's is looked up, as that of the
\* first package cargo metadata lists for the directory, which in a workspace
\* is the workspace's first.
LocateBinary ==
    /\ kPipe.at = "built"
    /\ LET out == IF kPipe.src \in CrateSet THEN Crates[1] ELSE kPipe.src
       IN kPipe' = IF kBinary[out] # 0 THEN [kPipe EXCEPT !.at = "located", !.out = out] ELSE [kPipe EXCEPT !.at = "failed"]
    /\ UNCHANGED <<kVersion, kBinary, kTools, kEdits>>

\* The size and the exports of what is there now.
ReadBinary ==
    /\ kPipe.at = "located"
    /\ kPipe' = [kPipe EXCEPT !.at = "compiled", !.built = kBinary[kPipe.out]]
    /\ UNCHANGED <<kVersion, kBinary, kTools, kEdits>>

\* create_module_from_result: the hash of what is there now.
CreateModule ==
    /\ kPipe.at = "compiled"
    /\ kPipe' = [kPipe EXCEPT !.at = "module", !.sha = kBinary[kPipe.out]]
    /\ UNCHANGED <<kVersion, kBinary, kTools, kEdits>>

\* sign_module: a signature and a hash of what is there now.
SignModule ==
    /\ kPipe.at = "module"
    /\ kPipe' = [kPipe EXCEPT !.at = "signed", !.signed = kBinary[kPipe.out]]
    /\ UNCHANGED <<kVersion, kBinary, kTools, kEdits>>

PipelineDone ==
    /\ kPipe.at \in {"signed", "failed"} /\ kPipe' = PipeResting
    /\ UNCHANGED <<kVersion, kBinary, kTools, kEdits>>
-----------------------------------------------------------------------------
\* Somebody edits a source, or builds it.
Edit ==
    /\ kEdits < MaxEdits /\ kEdits' = kEdits + 1
    /\ \E s \in Sources : kVersion' = [kVersion EXCEPT ![s] = @ + 1]
    /\ UNCHANGED <<kBinary, kTools, kPipe>>

BuildElsewhere ==
    /\ \E s \in Sources :
         /\ CanBuild(s) /\ kBinary[s] # kVersion[s]
         /\ kBinary' = [kBinary EXCEPT ![s] = kVersion[s]]
         /\ kPipe' = IF kPipe.at = "idle" THEN kPipe ELSE [kPipe EXCEPT !.moved = TRUE]
    /\ UNCHANGED <<kVersion, kTools, kEdits>>

KNext ==
    StartCompile \/ LocateBinary \/ ReadBinary \/ CreateModule \/ SignModule \/ PipelineDone \/ Edit \/ BuildElsewhere

KSpec == KInit /\ [][KNext]_kVars
-----------------------------------------------------------------------------
\* Unless somebody else builds meanwhile, what is described and what is signed
\* is one binary, the one whose size and exports were reported; and it is the
\* one that was just built, where the source is not in a workspace behind
\* another package.
SignsWhatItBuilt ==
    kPipe.at = "signed" /\ ~kPipe.moved =>
       /\ kPipe.signed = kPipe.sha /\ kPipe.sha = kPipe.built /\ kPipe.built # 0
       /\ kPipe.src \in Others \cup {Crates[1]} => kPipe.out = kPipe.src

\* C and C++ never become a module, whatever is installed: the compiler that
\* cannot compile accepts every directory before the one that can.
NoModuleOfC ==
    kPipe.at \in {"compiled", "module", "signed"} => DetectLanguage(kPipe.src) \in {"rust", "go"}

\* A module is of the source it was asked for (wasm_pipeline.rs).
ModulesSound == SignsWhatItBuilt /\ NoModuleOfC
=============================================================================
