--------------------------- MODULE ChiselAnalysis ---------------------------
(***************************************************************************)
(* Chisel's analysis of an image directory and the distilled image made of *)
(* it (chisel/core/src/analyzer.rs, distiller.rs).  The files of the       *)
(* directory are read one after the other, config.json twice and           *)
(* manifest.json twice, and the scanners read the directory again, while   *)
(* the directory may be replaced.                                          *)
(*                                                                         *)
(* An image is a record: layers, a sequence of [size, command]; entry, the *)
(* extension of the entrypoint; traces, what its trace shows (libraries,   *)
(* system calls, endpoints); deps, what its dependencies are.              *)
(***************************************************************************)
EXTENDS Integers, Sequences, FiniteSets, SequencesExt

CONSTANTS
    Images,        \* the images the directory may hold
    MaxReplaced    \* bound: replacements of the directory

ASSUME AnalysisAssumption ==
    /\ MaxReplaced \in Nat
    /\ \A i \in Images : i.layers \in Seq([size : Nat, command : {"install", "none", "run", "other"}])

VARIABLES
    zImage,        \* what the directory holds
    zScanner,      \* the scanners, syft and grype, that are there and report what can be read
    zStep,         \* the next step of the command
    zFound,        \* what the steps found so far
    zReplaced      \* [count, seen]: replacements, and whether one fell into the command

zVars == <<zImage, zScanner, zStep, zFound, zReplaced>>

Stages ==
    <<"metadata", "trace", "dependencies", "language", "hash", "sbom", "cves", "assemble", "done">>
Nothing ==
    [image |-> {}, trace |-> {}, deps |-> {}, hashed |-> {}, language |-> "unknown", compat |-> "none",
     sbom |-> {}, sbomBy |-> "none", cves |-> {}, cvesBy |-> "none", size |-> 0, base |-> "none",
     migrates |-> FALSE, adapts |-> FALSE]

ZTypeOK ==
    /\ zImage \in Images /\ zStep \in DOMAIN Stages /\ zReplaced.count \in 0 .. MaxReplaced
    /\ zFound.language \in {"rust", "go", "c", "cpp", "unknown"}
    /\ zFound.compat \in {"none", "full", "partial", "incompatible"}

ZInit ==
    /\ zImage \in Images
    /\ zScanner \in SUBSET {"syft", "grype"}
    /\ zStep = 1 /\ zFound = Nothing /\ zReplaced = [count |-> 0, seen |-> FALSE]

\* Another program unpacks another image into the directory.
ReplaceImage ==
    /\ zReplaced.count < MaxReplaced /\ zStep < Len(Stages)
    /\ zImage' \in Images \ {zImage}
    /\ zReplaced' = [count |-> zReplaced.count + 1, seen |-> zReplaced.seen \/ zStep > 1]
    /\ UNCHANGED <<zScanner, zStep, zFound>>

Do(step, found) ==
    /\ Stages[zStep] = step /\ zStep' = zStep + 1 /\ zFound' = found
    /\ UNCHANGED <<zImage, zScanner, zReplaced>>
-----------------------------------------------------------------------------
(* Analyzer::analyze *)

LoadImageMetadata == Do("metadata", [zFound EXCEPT !.image = {zImage}])
CollectRuntimeTrace == Do("trace", [zFound EXCEPT !.trace = {zImage}])
ScanDependencies == Do("dependencies", [zFound EXCEPT !.deps = {zImage}])

HasRust(traces, deps) == traces \cap {"libstd", "librust"} # {} \/ "crates.io" \in deps
HasGo(traces, deps) == "goEntry" \in traces \/ "golang" \in deps

\* By the entrypoint's extension, then by the first dependency that tells
\* (deps are in the order in which they are listed), then by the C library.
ByDependency(deps) ==
    LET telling == SelectSeq(deps, LAMBDA d : d \in {"crates.io", "golang"})
    IN IF telling = <<>> THEN "none" ELSE IF telling[1] = "crates.io" THEN "rust" ELSE "go"

DetectSource(entry, traces, deps) ==
    LET bySuffix == CASE entry = "rs" -> "rust" [] entry = "c" -> "c" [] entry = "cpp" -> "cpp"
                      [] entry \in {"go", ""} -> IF HasRust(traces, ToSet(deps)) THEN "rust"
                                                 ELSE IF HasGo(traces, ToSet(deps)) THEN "go" ELSE "none"
                      [] OTHER -> "none"
    IN IF bySuffix # "none" THEN bySuffix
       ELSE IF ByDependency(deps) # "none" THEN ByDependency(deps)
       ELSE IF "libc" \in traces THEN "c" ELSE "unknown"

\* check_wasm_compatibility: what stands in the way.
MissingFeatures(language, traces) ==
    CASE language = "rust" -> traces \cap {"fork", "tcp"}
      [] language = "go" -> {"cgo"} \cup (traces \cap {"libpthread"})
      [] language \in {"c", "cpp"} -> traces \cap {"libssl", "libcurl"}
      [] OTHER -> {}

Compatibility(language, traces) ==
    IF language = "unknown" THEN "incompatible" ELSE IF MissingFeatures(language, traces) = {} THEN "full" ELSE "partial"

\* Phase 2 reads the entrypoint from the directory again; the rest is what
\* phase 1 read.
DetectSourceLanguage ==
    LET traces == (CHOOSE i \in zFound.trace : TRUE).traces
        language == DetectSource(zImage.entry, traces, (CHOOSE i \in zFound.deps : TRUE).deps)
    IN Do("language", [zFound EXCEPT !.language = language, !.compat = Compatibility(language, traces)])

ComputeImageHash == Do("hash", [zFound EXCEPT !.hashed = {zImage}])
-----------------------------------------------------------------------------
(* Distiller::distill *)

\* What a scanner reports of the directory is the scanner's affair.
Components == UNION {ToSet(i.deps) : i \in Images}
Reports == SUBSET Components

\* A scanner that fails leaves an empty list.
GenerateSbomNoFallback ==
    \/ /\ "syft" \in zScanner
       /\ \E listed \in Reports : Do("sbom", [zFound EXCEPT !.sbom = listed, !.sbomBy = "syft"])
    \/ /\ "syft" \notin zScanner
       /\ Do("sbom", [zFound EXCEPT !.sbomBy = "heuristic"])
\* generate_sbom: what syft lists, or the dependencies that were read before.
GenerateSbom ==
    \/ /\ "syft" \in zScanner
       /\ \E listed \in Reports : Do("sbom", [zFound EXCEPT !.sbom = listed, !.sbomBy = "syft"])
    \/ /\ "syft" \notin zScanner
       /\ Do("sbom", [zFound EXCEPT !.sbom = ToSet((CHOOSE i \in zFound.deps : TRUE).deps), !.sbomBy = "heuristic"])

\* scan_cves: what grype reports, or one finding for each pre-release among the
\* components.
ScanCves ==
    \/ /\ "grype" \in zScanner
       /\ \E found \in Reports : Do("cves", [zFound EXCEPT !.cves = found, !.cvesBy = "grype"])
    \/ /\ "grype" \notin zScanner
       /\ Do("cves", [zFound EXCEPT !.cves = zFound.sbom \cap {"pre"}, !.cvesBy = "heuristic"])

\* distill_layers: an installation shrinks to three fifths, a layer without a
\* command and a RUN of a single command are left out.
DistilledSize(layer) ==
    CASE layer.command = "install" -> (layer.size * 6) \div 10
      [] layer.command \in {"none", "run"} -> 0
      [] OTHER -> layer.size
SizeOfAll(sizes) ==
    LET sum[n \in 0 .. Len(sizes)] == IF n = 0 THEN 0 ELSE sum[n - 1] + sizes[n]
    IN  sum[Len(sizes)]

\* The rest is computed from what was found.
Assemble ==
    LET layers == (CHOOSE i \in zFound.image : TRUE).layers
    IN Do("assemble",
          [zFound EXCEPT !.size = SizeOfAll([i \in DOMAIN layers |-> DistilledSize(layers[i])]),
                         !.migrates = zFound.compat \in {"full", "partial"},
                         !.adapts = zFound.compat = "partial",
                         !.base = CASE zFound.compat = "full" -> "static" [] zFound.compat = "partial" -> "base"
                                    [] OTHER -> "original"])

ZNext ==
    \/ ReplaceImage \/ LoadImageMetadata \/ CollectRuntimeTrace \/ ScanDependencies \/ DetectSourceLanguage
    \/ ComputeImageHash \/ GenerateSbom \/ ScanCves \/ Assemble

ZSpec == ZInit /\ [][ZNext]_zVars
-----------------------------------------------------------------------------
Done == Stages[zStep] = "done"

\* While nobody replaces the image, the result is of one image: its hash is
\* that of the manifest that was read, and so are its trace and its dependencies.
OfOneImage ==
    Done /\ ~zReplaced.seen =>
       zFound.hashed = zFound.image /\ zFound.trace = zFound.image /\ zFound.deps = zFound.image

\* "degrades honestly rather than faking a scan" (distiller.rs): a list that is
\* not a scanner's is marked so, and it is that of the dependencies that were
\* read, with a finding for each pre-release of the list that is reported,
\* whoever made that.
ScansHonest ==
    Done =>
       /\ \/ zFound.sbomBy = "syft" /\ "syft" \in zScanner
          \/ zFound.sbomBy = "heuristic" /\ zFound.sbom = ToSet((CHOOSE i \in zFound.deps : TRUE).deps)
       /\ \/ zFound.cvesBy = "grype" /\ "grype" \in zScanner
          \/ zFound.cvesBy = "heuristic" /\ zFound.cves = zFound.sbom \cap {"pre"}

\* Whatever was read when: distilling never makes an image larger, the image
\* keeps its base exactly when there is no way to migrate it, and one that
\* needs no adaptation misses nothing the trace shows.
DistilledSound ==
    Done =>
       /\ LET layers == (CHOOSE i \in zFound.image : TRUE).layers
          IN zFound.size <= SizeOfAll([i \in DOMAIN layers |-> layers[i].size])
       /\ zFound.migrates <=> zFound.base # "original"
       /\ zFound.language = "unknown" <=> ~zFound.migrates
       /\ zFound.migrates /\ ~zFound.adapts =>
            MissingFeatures(zFound.language, (CHOOSE i \in zFound.trace : TRUE).traces) = {}

\* What analyzer.rs and distiller.rs say of an image is true of it.
AnalysisSound == OfOneImage /\ ScansHonest /\ DistilledSound
=============================================================================
