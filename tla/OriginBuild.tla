----------------------------- MODULE OriginBuild -----------------------------
(***************************************************************************)
(* `tpt origin build`: the build engine of origin/core/src/build.rs and    *)
(* the Dockerfile parser of origin/core/src/dockerfile.rs, which split a   *)
(* Dockerfile into stages, run the instructions of each in a container of  *)
(* its own through the `ctr` command, capture the files as layers, and     *)
(* compose an image of the last stage.                                     *)
(*                                                                         *)
(* A line is a keyword with its arguments; the files of a container are    *)
(* the set of what its instructions added.  Every `ctr` may fail.          *)
(***************************************************************************)
EXTENDS Integers, Sequences, FiniteSets, TLC

CONSTANTS
    Dockerfiles,   \* the inputs: sequences of lines [kw, arg, val]
    BuildKeys,     \* the names of variables
    BuildArgs      \* BuildConfig.build_args: a value for each key, "" if not given

\* The variable that holds the user of RUN.
UserVar == "TPT_BUILD_USER"

ASSUME BuildAssumption ==
    /\ UserVar \in BuildKeys
    /\ Dockerfiles \subseteq Seq([kw : STRING, arg : STRING, val : STRING])
    /\ BuildArgs \in [BuildKeys -> STRING]

VARIABLES
    bLines,        \* the Dockerfile
    bAt,           \* the step of the build
    bStage,        \* stage_idx + 1
    bPos,          \* the next instruction of the stage
    bFiles,        \* the files of the stage's container
    bLayers,       \* layers
    bEnv,          \* env of execute_stage
    bDir,          \* workdir of execute_stage, a path from the root
    bPrev,         \* previous_stages: (name, stage, files)
    bConts,        \* the containers of the build, by stage
    bImage         \* what the tag names

bVars == <<bLines, bAt, bStage, bPos, bFiles, bLayers, bEnv, bDir, bPrev, bConts, bImage>>

OldImage == [env |-> BuildArgs, dir |-> <<>>, cmd |-> "", layers |-> <<{"old"}>>]
NoImage == [env |-> BuildArgs, dir |-> <<>>, cmd |-> "", layers |-> <<>>]
-----------------------------------------------------------------------------
(* dockerfile::parse: a stage begins at each FROM; what comes before the    *)
(* first FROM belongs to the first stage, or is one of its own.            *)

Froms == {i \in 1 .. Len(bLines) : bLines[i].kw = "FROM"}
StageCount == IF Froms = {} THEN IF bLines = <<>> THEN 0 ELSE 1 ELSE Cardinality(Froms)
FromAt(k) == CHOOSE i \in Froms : Cardinality({j \in Froms : j <= i}) = k
Body(k) ==
    IF Froms = {} THEN bLines
    ELSE LET next == IF k = StageCount THEN Len(bLines) ELSE FromAt(k + 1) - 1
         IN  (IF k = 1 THEN SubSeq(bLines, 1, FromAt(1) - 1) ELSE <<>>)
                 \o SubSeq(bLines, FromAt(k) + 1, next)

\* parse_from: the alias after AS.
StageName(k) == IF Froms # {} /\ bLines[FromAt(k)].val # "" THEN bLines[FromAt(k)].val
                ELSE "stage-" \o ToString(k - 1)

BuildSteps == Body(bStage)
Cur == BuildSteps[bPos]
-----------------------------------------------------------------------------
BInit ==
    /\ bLines \in Dockerfiles
    /\ bAt = "stage" /\ bStage = 1 /\ bPos = 1
    /\ bFiles = {} /\ bLayers = <<>> /\ bEnv = BuildArgs /\ bDir = <<>>
    /\ bPrev = {} /\ bConts = {} /\ bImage \in {OldImage, NoImage}

BTypeOK ==
    /\ bLines \in Dockerfiles
    /\ bAt \in {"stage", "body", "compose", "done", "failed"}
    /\ bStage \in 1 .. Len(bLines) + 1 /\ bPos \in 1 .. Len(bLines) + 1
    /\ DOMAIN bEnv = BuildKeys
    /\ bConts \subseteq 1 .. Len(bLines) + 1

\* Any `ctr` fails, or a COPY names nothing: `?` all the way up.  The
\* container of the stage stays.
Fail ==
    /\ bAt \in {"stage", "body", "compose"}
    /\ bAt' = "failed"
    /\ UNCHANGED <<bLines, bStage, bPos, bFiles, bLayers, bEnv, bDir, bPrev, bConts, bImage>>

\* The head of execute_stage: pull the base image, remove the container a
\* build of this process left, create it anew.
EnterStage ==
    /\ bAt = "stage" /\ bStage <= StageCount
    /\ bAt' = "body" /\ bPos' = 1
    /\ bFiles' = {} /\ bLayers' = <<>> /\ bEnv' = BuildArgs /\ bDir' = <<>>
    /\ bConts' = bConts \cup {bStage}
    /\ UNCHANGED <<bLines, bStage, bPrev, bImage>>

\* An instruction that changes files: capture_layer_via_ctr takes the whole
\* upper directory, never only what changed since the layer before.
Captured(item) ==
    /\ bFiles' = bFiles \cup {item}
    /\ bLayers' = Append(bLayers, bFiles \cup {item})
    /\ bPos' = bPos + 1
    /\ UNCHANGED <<bLines, bAt, bStage, bEnv, bDir, bPrev, bConts, bImage>>

InBody(kws) == bAt = "body" /\ bPos <= Len(BuildSteps) /\ Cur.kw \in kws

\* RUN sees the variables and the directory at this point.
Run == InBody({"RUN"}) /\ Captured(<<"run", bEnv, bDir>>)

\* inject_file_into_container: COPY and ADD of the build context.
Copy == InBody({"COPY", "ADD"}) /\ Cur.val = "" /\ Captured(<<"copy", Cur.arg>>)

\* COPY --from: the files of the stage of that name are written as one file;
\* the path to copy from is dropped.
CopyFrom ==
    /\ InBody({"COPY"}) /\ Cur.val # ""
    /\ \E p \in bPrev : p[1] = Cur.val /\ Captured(<<"from", p[2], p[3]>>)

SetEnv ==
    /\ InBody({"ENV"})
    /\ bEnv' = [bEnv EXCEPT ![Cur.arg] = Cur.val]
    /\ bPos' = bPos + 1
    /\ UNCHANGED <<bLines, bAt, bStage, bFiles, bLayers, bDir, bPrev, bConts, bImage>>

\* ARG: a default, for a name that has no value.
Arg ==
    /\ InBody({"ARG"})
    /\ bEnv' = [bEnv EXCEPT ![Cur.arg] = IF @ = "" THEN Cur.val ELSE @]
    /\ bPos' = bPos + 1
    /\ UNCHANGED <<bLines, bAt, bStage, bFiles, bLayers, bDir, bPrev, bConts, bImage>>

\* USER: the name, as a variable that every RUN after it sees.
User ==
    /\ InBody({"USER"})
    /\ bEnv' = [bEnv EXCEPT ![UserVar] = Cur.arg]
    /\ bPos' = bPos + 1
    /\ UNCHANGED <<bLines, bAt, bStage, bFiles, bLayers, bDir, bPrev, bConts, bImage>>

\* WORKDIR: from the root if `val` is "/", else below the directory so far; its
\* mkdir may fail.
Below(dir, line) == IF line.val = "/" THEN <<line.arg>> ELSE Append(dir, line.arg)
Workdir ==
    /\ InBody({"WORKDIR"})
    /\ bDir' = Below(bDir, Cur)
    /\ bPos' = bPos + 1
    /\ UNCHANGED <<bLines, bAt, bStage, bFiles, bLayers, bEnv, bPrev, bConts, bImage>>

\* CMD, ENTRYPOINT, EXPOSE, LABEL and the others change nothing here.
Metadata ==
    /\ InBody({"CMD", "LABEL"})
    /\ bPos' = bPos + 1
    /\ UNCHANGED <<bLines, bAt, bStage, bFiles, bLayers, bEnv, bDir, bPrev, bConts, bImage>>

\* The tail of execute_stage and of build's loop: the files are kept under the
\* name of the stage, the container is removed (a failure is ignored).
LeaveStage ==
    /\ bAt = "body" /\ bPos > Len(BuildSteps)
    /\ bPrev' = {p \in bPrev : p[1] # StageName(bStage)} \cup {<<StageName(bStage), bStage, bFiles>>}
    /\ \/ bConts' = bConts \ {bStage}
       \/ UNCHANGED bConts
    /\ IF bStage = StageCount
       THEN bAt' = "compose" /\ UNCHANGED bStage
       ELSE bAt' = "stage" /\ bStage' = bStage + 1
    /\ UNCHANGED <<bLines, bPos, bFiles, bLayers, bEnv, bDir, bImage>>
-----------------------------------------------------------------------------
(* build's second walk over the last stage, for the image's config.         *)

LastOf(kw, k) == {i \in 1 .. Len(BuildSteps) : /\ BuildSteps[i].kw = kw /\ BuildSteps[i].arg = k
                                          /\ \A j \in i + 1 .. Len(BuildSteps) : ~(BuildSteps[j].kw = kw /\ BuildSteps[j].arg = k)}
ConfigEnv == [k \in BuildKeys |->
    IF LastOf("ENV", k) = {} THEN BuildArgs[k] ELSE BuildSteps[CHOOSE i \in LastOf("ENV", k) : TRUE].val]
\* Every WORKDIR is taken to be below the one before.
ConfigDirBelow ==
    LET dir[i \in 0 .. Len(BuildSteps)] ==
          IF i = 0 THEN <<>>
          ELSE IF BuildSteps[i].kw = "WORKDIR" THEN Append(dir[i - 1], BuildSteps[i].arg) ELSE dir[i - 1]
    IN  dir[Len(BuildSteps)]
\* A relative one begins with two slashes here if it is the first, the same path.
ConfigDir ==
    LET dir[i \in 0 .. Len(BuildSteps)] ==
          IF i = 0 THEN <<>>
          ELSE IF BuildSteps[i].kw = "WORKDIR" THEN Below(dir[i - 1], BuildSteps[i]) ELSE dir[i - 1]
    IN  dir[Len(BuildSteps)]
Cmds == {i \in 1 .. Len(BuildSteps) : BuildSteps[i].kw = "CMD"}
ConfigCmd == IF Cmds = {} THEN "" ELSE BuildSteps[CHOOSE i \in Cmds : \A j \in Cmds : j <= i].arg

\* compose_oci_image: blobs that are not ingested are only warned about; the
\* image of that name is removed, then created from the new manifest.
RemoveOld ==
    /\ bAt = "compose" /\ bImage # NoImage
    /\ bImage' = NoImage
    /\ UNCHANGED <<bLines, bAt, bStage, bPos, bFiles, bLayers, bEnv, bDir, bPrev, bConts>>
CreateImage ==
    /\ bAt = "compose" /\ bImage = NoImage
    /\ bImage' = [env |-> ConfigEnv, dir |-> ConfigDir, cmd |-> ConfigCmd, layers |-> bLayers]
    /\ bAt' = "done"
    /\ UNCHANGED <<bLines, bStage, bPos, bFiles, bLayers, bEnv, bDir, bPrev, bConts>>

BNext == \/ Fail \/ EnterStage \/ Run \/ Copy \/ CopyFrom \/ SetEnv \/ Arg \/ User \/ Workdir \/ Metadata
         \/ LeaveStage \/ RemoveOld \/ CreateImage

BSpec == BInit /\ [][BNext]_bVars
-----------------------------------------------------------------------------
\* The image has the directory and the layers of the run of its last stage, and
\* its variables but for two kinds: the default of an ARG, which the config never
\* gets, and the name a USER leaves in a variable of the build.  The build walks
\* the stage twice, once to run it and once for the config (build.rs, execute_stage
\* and build), and each walk follows ENV, WORKDIR and the arguments on its own.
ImageMatchesBuild ==
    bAt = "done" =>
       /\ bImage.dir = bDir
       /\ \A k \in BuildKeys : bImage.env[k] # bEnv[k] =>
             \/ bImage.env[k] = "" /\ \E i \in 1 .. Len(BuildSteps) : BuildSteps[i].kw = "ARG" /\ BuildSteps[i].arg = k
             \/ k = UserVar /\ \E i \in 1 .. Len(BuildSteps) : BuildSteps[i].kw = "USER"
       /\ bImage.layers = bLayers
=============================================================================
