------------------------------- MODULE GateJob -------------------------------
(***************************************************************************)
(* slint-gate as a step of a CI job: the command (cmd/slint-gate/main.go,  *)
(* runGate) by itself, or inside the composite action of                   *)
(* .github/actions/slint-gate, which runs it with --exit-on NEVER,         *)
(* captures the result from the output file, uploads that file and decides *)
(* last.  The workspace is kept, so an output file may be an earlier       *)
(* job's.                                                                  *)
(*                                                                         *)
(* The sessions that the job tests with are Evidence, the abstract         *)
(* specification that SummaryPublication implements: which run's summary   *)
(* is at the default path, and what the newest run's caller was told.      *)
(***************************************************************************)
EXTENDS GateRules

CONSTANTS
  PolicyFiles, MeasurementFiles, BaselineFiles,  \* what may be on disk
  NoSummary,   \* a summary file that is not there
  Spellings,   \* exit-on values as people write them
  Requests,    \* the steps that people write into a workflow
  MaxRuns      \* bound: sessions in a behaviour

Grades == {"PASS", "WARN", "FAIL", "NO_GRADE"}
Modes == {"NEVER", "empty", "FAIL", "FAIL_OR_WARN", "FAIL_OR_NOGRADE", "FAIL_WARN_OR_NOGRADE"}

\* An exit-on value: exact if it is written as the code does, in upper case
\* without blanks around it; "empty" is the empty string, which the command
\* takes for NEVER, and "other" stands for every unknown word.
Word(mode) == [mode |-> mode, exact |-> TRUE]
Unset == [mode |-> "unset", exact |-> FALSE]

\* The command or the action, its flags or inputs, and whether
\* `slint-gate ci github-actions` wrote the step.
IsRequest(r) ==
  /\ r.form \in {"cli", "action"}
  /\ {r.exitOn, r.failOn} \subseteq Spellings \cup {Unset}
  /\ {r.summary, r.legacy} \subseteq {"alias", "other", "empty", "unset"}
  /\ {r.upload, r.generated} \subseteq BOOLEAN

ASSUME GateJobAssumption ==
  /\ \A p \in PolicyFiles : IsPolicy(p)
  /\ \A s \in MeasurementFiles \cup BaselineFiles : IsMeasurement(s)
  /\ \A s \in MeasurementFiles : s.state # "missing"
  /\ IsMeasurement(NoSummary) /\ NoSummary.state = "missing"
  /\ Spellings \subseteq [mode : Modes \cup {"other"}, exact : BOOLEAN]
  /\ \A m \in Modes : Word(m) \in Spellings
  /\ Requests # {}
  /\ \A r \in Requests : IsRequest(r) /\ ~r.generated
  /\ MaxRuns \in Nat

VARIABLES
  slot, newest, told,  \* Evidence
  content,   \* what each run measured
  pc,        \* the step of the job that comes next; "done" between jobs
  request,   \* the job's
  read,      \* the three files as Evaluate loaded them, and whose summary
  output,    \* the file at --output
  exit,      \* the command's exit code
  captured,  \* the action's gate_result output
  artifact,  \* the uploaded file
  broken,    \* a step before the last one failed
  outcome,   \* of the job
  fault      \* history: something other than a grade went wrong in this job

evidenceVars == <<slot, newest, told, content>>
jobVars == <<request, read, output, exit, captured, artifact, broken, outcome, fault>>
vars == <<evidenceVars, pc, jobVars>>

Evidence == INSTANCE CurrentEvidence

NoFile == [grade |-> "absent", whole |-> FALSE, current |-> FALSE]
NothingRead == [run |-> 0, measurement |-> NoSummary]

\* The grade of what this job has read; newSummary's before it has.
Graded ==
  IF read = NothingRead THEN "NO_GRADE"
  ELSE Grade(read.policy, read.measurement, read.baseline)

-----------------------------------------------------------------------------
(* Which mode and which file: flags of the command, inputs of the action *)

\* resolveExitOn, ToUpper and TrimSpace; NEVER by default.  The action passes
\* NEVER, whatever its own mode is.
\* (Mutated: the action passes its mode on.)
CliMode_PassedOn(r) ==
  IF r.exitOn # Unset THEN r.exitOn.mode
  ELSE IF r.failOn # Unset THEN r.failOn.mode ELSE "NEVER"
CliMode(r) ==
  IF r.form = "action" THEN "NEVER"
  ELSE IF r.exitOn # Unset THEN r.exitOn.mode
  ELSE IF r.failOn # Unset THEN r.failOn.mode ELSE "NEVER"

\* ${INPUT_EXIT_ON:-$INPUT_FAIL_ON}: an empty exit-on counts as unset, and the
\* default is fail-on's.
ActionWord(r) ==
  IF r.exitOn \notin {Unset, Word("empty")} THEN r.exitOn
  ELSE IF r.failOn # Unset THEN r.failOn ELSE Word("FAIL_OR_NOGRADE")

\* The case statement knows the exact words, the empty one not among them.
ActionMode(r) ==
  LET w == ActionWord(r)
  IN  IF w.exact /\ w.mode # "empty" THEN w.mode ELSE "other"

JobMode(r) == IF r.form = "cli" THEN CliMode(r) ELSE ActionMode(r)

\* shouldExitOn
ShouldExitOn(grade, mode) ==
  \/ mode = "FAIL" /\ grade = "FAIL"
  \/ mode = "FAIL_OR_WARN" /\ grade \in {"FAIL", "WARN"}
  \/ mode = "FAIL_OR_NOGRADE" /\ grade \in {"FAIL", "NO_GRADE"}
  \/ mode = "FAIL_WARN_OR_NOGRADE" /\ grade \in {"FAIL", "WARN", "NO_GRADE"}

\* The same table in the action's shell.
\* (Mutated: the strictest mode forgets warnings.)
CheckRefuses_NotWarn(grade, mode) ==
  \/ grade = "FAIL" /\ mode \notin {"NEVER", "other"}
  \/ grade = "WARN" /\ mode = "FAIL_OR_WARN"
  \/ grade = "NO_GRADE" /\ mode \in {"FAIL_OR_NOGRADE", "FAIL_WARN_OR_NOGRADE"}
\* (Mutated: a missing measurement fails no job.)
CheckRefuses_NotMissing(grade, mode) ==
  \/ grade = "FAIL" /\ mode \notin {"NEVER", "other"}
  \/ grade = "WARN" /\ mode \in {"FAIL_OR_WARN", "FAIL_WARN_OR_NOGRADE"}
CheckRefuses(grade, mode) ==
  \/ grade = "FAIL" /\ mode \notin {"NEVER", "other"}
  \/ grade = "WARN" /\ mode \in {"FAIL_OR_WARN", "FAIL_WARN_OR_NOGRADE"}
  \/ grade = "NO_GRADE" /\ mode \in {"FAIL_OR_NOGRADE", "FAIL_WARN_OR_NOGRADE"}

\* resolveSummaryPath, behind ${INPUT_SUMMARY:-$INPUT_MEASUREMENT} in the action.
SummaryPath(r) ==
  LET legacy == IF r.legacy = "unset" THEN "alias" ELSE r.legacy
  IN  IF r.summary = "unset" \/ (r.form = "action" /\ r.summary = "empty")
      THEN legacy ELSE r.summary

\* runCIGithubActions: the step written for a mode, which has to be valid.
\* (Mutated: the mode is printed as it was typed.)
GeneratedStep_AsTyped(w) ==
  [form |-> "action", exitOn |-> w, failOn |-> Unset, summary |-> "alias",
   legacy |-> "unset", upload |-> TRUE, generated |-> TRUE]
GeneratedStep(w) ==
  [form |-> "action", exitOn |-> Word(w.mode), failOn |-> Unset, summary |-> "alias",
   legacy |-> "unset", upload |-> TRUE, generated |-> TRUE]
Generated == {GeneratedStep(w) : w \in {v \in Spellings : v.mode \in Modes}}

-----------------------------------------------------------------------------
(* The sessions *)

\* What a job knows at its beginning.
Cleared ==
  /\ read' = NothingRead
  /\ exit' = "none" /\ captured' = "none" /\ artifact' = NoFile
  /\ broken' = FALSE /\ fault' = FALSE

BeginRun ==
  /\ newest < MaxRuns
  /\ pc = "done"
  /\ Evidence!Begin
  /\ \E s \in MeasurementFiles : content' = [content EXCEPT ![newest + 1] = s]
  /\ Cleared
  /\ outcome' = "none"
  /\ UNCHANGED <<pc, request, output>>

PublishRun == Evidence!Publish /\ UNCHANGED <<content, pc, jobVars>>
ReportRun == Evidence!Report /\ UNCHANGED <<content, pc, jobVars>>

-----------------------------------------------------------------------------
(* The command *)

\* A job that gates the newest run, in a workspace that may be a fresh one.
Start ==
  /\ pc = "done" /\ told # "nothing"
  /\ request' \in Requests \cup Generated
  /\ output' \in {NoFile, [grade |-> output.grade, whole |-> output.whole, current |-> FALSE]}
  /\ Cleared
  /\ outcome' = "running"
  /\ pc' = "validate"
  /\ UNCHANGED evidenceVars

\* os.Exit, and what becomes of the job: a command that fails skips the rest of
\* the action's step, but not the steps that run always.
Exit(code) ==
  /\ exit' = code
  /\ \/ /\ request.form = "cli"
        /\ pc' = "done"
        /\ outcome' = IF code = "0" THEN "green" ELSE "red"
        /\ UNCHANGED broken
     \/ /\ request.form = "action"
        /\ pc' = IF code = "0" THEN "capture" ELSE "upload"
        /\ broken' = (code # "0")
        /\ UNCHANGED outcome
  /\ UNCHANGED <<evidenceVars, request, read, captured, artifact>>

\* (Mutated: an unknown mode is asked for again.)
Validate_Asks ==
  /\ pc = "validate"
  /\ CliMode(request) \in Modes
  /\ pc' = "evaluate"
  /\ UNCHANGED <<evidenceVars, jobVars>>
Validate ==
  /\ pc = "validate"
  /\ \/ CliMode(request) \notin Modes /\ Exit("2") /\ UNCHANGED <<output, fault>>
     \/ CliMode(request) \in Modes /\ pc' = "evaluate" /\ UNCHANGED <<evidenceVars, jobVars>>

\* gate.Evaluate on the three files.
Evaluate ==
  /\ pc = "evaluate"
  /\ \E p \in PolicyFiles, b \in BaselineFiles, s \in MeasurementFiles \cup {NoSummary} :
       LET path == SummaryPath(request)
           run == IF path = "alias" THEN slot ELSE 0
       IN  /\ path = "alias" => s = (IF slot = 0 THEN NoSummary ELSE content[slot])
           /\ path = "empty" => s = NoSummary
           /\ read' = [run |-> run, policy |-> p, measurement |-> s, baseline |-> b]
  /\ pc' = "create"
  /\ UNCHANGED <<evidenceVars, request, output, exit, captured, artifact, broken, outcome, fault>>

\* writeJSON: os.Create truncates what was there.
Create ==
  /\ pc = "create"
  /\ output' = [grade |-> "none", whole |-> FALSE, current |-> TRUE]
  /\ pc' = "encode"
  /\ UNCHANGED <<evidenceVars, request, read, exit, captured, artifact, broken, outcome, fault>>

\* An earlier job's file stays.
\* (Mutated: the error is only reported.)
CreateFails_Ignored ==
  /\ pc = "create"
  /\ fault' = TRUE
  /\ pc' = "decide"
  /\ UNCHANGED <<evidenceVars, request, read, output, exit, captured, artifact, broken, outcome>>
CreateFails ==
  /\ pc = "create"
  /\ fault' = TRUE
  /\ Exit("2")
  /\ UNCHANGED output

\* json.Encoder.Encode and Close.
Encode ==
  /\ pc = "encode"
  /\ output' = [grade |-> Graded, whole |-> TRUE, current |-> TRUE]
  /\ pc' = "decide"
  /\ UNCHANGED <<evidenceVars, request, read, exit, captured, artifact, broken, outcome, fault>>

\* A failed Encode removes the file, if os.Remove can; a failed Close leaves
\* whatever reached the disk.
EncodeFails ==
  /\ pc = "encode"
  /\ \/ output' = NoFile
     \/ UNCHANGED output
     \/ output' = [grade |-> Graded, whole |-> TRUE, current |-> TRUE]
  /\ fault' = TRUE
  /\ Exit("2")

\* The step summary is appended first; an error of that is only a warning.
Decide ==
  /\ pc = "decide"
  /\ Exit(IF ShouldExitOn(Graded, CliMode(request)) THEN "1" ELSE "0")
  /\ UNCHANGED <<output, fault>>

-----------------------------------------------------------------------------
(* The action after the command *)

\* jq reads the result out of the file.
Capture ==
  /\ pc = "capture"
  /\ output.whole
  /\ captured' = output.grade
  /\ pc' = "upload"
  /\ UNCHANGED <<evidenceVars, request, read, output, exit, artifact, broken, outcome, fault>>

\* jq or realpath fails, under set -e.
CaptureFails ==
  /\ pc = "capture"
  /\ broken' = TRUE /\ fault' = TRUE
  /\ pc' = "upload"
  /\ UNCHANGED <<evidenceVars, request, read, output, exit, captured, artifact, outcome>>

\* if: always(), so the file may be anybody's; upload-artifact only warns when
\* there is none.
Upload ==
  /\ pc = "upload"
  /\ artifact' = IF request.upload THEN output ELSE artifact
  /\ pc' = "check"
  /\ UNCHANGED <<evidenceVars, request, read, output, exit, captured, broken, outcome, fault>>

UploadFails ==
  /\ pc = "upload"
  /\ request.upload
  /\ broken' = TRUE /\ fault' = TRUE
  /\ pc' = "check"
  /\ UNCHANGED <<evidenceVars, request, read, output, exit, captured, artifact, outcome>>

\* if: always(); the job fails with any of its steps.
CheckResult ==
  /\ pc = "check"
  /\ outcome' = IF broken \/ ActionMode(request) = "other"
                   \/ CheckRefuses(captured, ActionMode(request)) THEN "red" ELSE "green"
  /\ pc' = "done"
  /\ UNCHANGED <<evidenceVars, request, read, output, exit, captured, artifact, broken, fault>>

\* The job is cancelled or out of time while the command runs; the action's
\* last steps run even then.
Cancel ==
  /\ pc \in {"validate", "evaluate", "create", "encode", "decide"}
  /\ fault' = TRUE
  /\ Exit("killed")
  /\ UNCHANGED output

-----------------------------------------------------------------------------
Init ==
  /\ Evidence!Init
  /\ content = [n \in 1..MaxRuns |-> NoSummary]
  /\ pc = "done"
  /\ request = CHOOSE r \in Requests : TRUE  \* no job yet
  /\ read = NothingRead
  /\ output = NoFile
  /\ exit = "none" /\ captured = "none" /\ artifact = NoFile
  /\ broken = FALSE /\ outcome = "none" /\ fault = FALSE

\* The steps of a job that is under way.
Step ==
  \/ Validate \/ Evaluate \/ Create \/ CreateFails \/ Encode \/ EncodeFails \/ Decide
  \/ Capture \/ CaptureFails \/ Upload \/ UploadFails \/ CheckResult

Next == BeginRun \/ PublishRun \/ ReportRun \/ Start \/ Step \/ Cancel

Spec == Init /\ [][Next]_vars /\ WF_vars(Step)

-----------------------------------------------------------------------------
(***************************************************************************)
(* Properties                                                              *)
(***************************************************************************)

Readings ==
  {NothingRead} \cup
  [run : 0..MaxRuns, policy : PolicyFiles, measurement : MeasurementFiles \cup {NoSummary},
   baseline : BaselineFiles]

Outputs == [grade : Grades \cup {"none", "absent"}, whole : BOOLEAN, current : BOOLEAN]

TypeOK ==
  /\ slot \in 0..newest /\ newest \in 0..MaxRuns
  /\ told \in {"nothing", "published", "withdrawn", "noPromise"}
  /\ pc \in {"validate", "evaluate", "create", "encode", "decide",
             "capture", "upload", "check", "done"}
  /\ content \in [1..MaxRuns -> MeasurementFiles \cup {NoSummary}]
  /\ request \in Requests \cup Generated
  /\ read \in Readings
  /\ output \in Outputs /\ artifact \in Outputs
  /\ exit \in {"none", "0", "1", "2", "killed"}
  /\ captured \in Grades \cup {"none"}
  /\ outcome \in {"none", "running", "green", "red"}
  /\ outcome = "running" <=> pc # "done"
  /\ broken \in BOOLEAN /\ fault \in BOOLEAN

\* docs/gate-contract.md, "exit-on Modes": the grades each mode fails a job on.
RefusedGrades(mode) ==
  {g \in Grades :
     \/ g = "FAIL" /\ mode \in {"FAIL", "FAIL_OR_WARN", "FAIL_OR_NOGRADE", "FAIL_WARN_OR_NOGRADE"}
     \/ g = "WARN" /\ mode \in {"FAIL_OR_WARN", "FAIL_WARN_OR_NOGRADE"}
     \/ g = "NO_GRADE" /\ mode \in {"FAIL_OR_NOGRADE", "FAIL_WARN_OR_NOGRADE"}}

\* main.go (runGate) and action.yml: a job is green only if its mode is a valid
\* one and the grade of the files that it read itself is acceptable under it,
\* whatever was in the workspace before and whichever step failed.
GreenIsEarned ==
  pc = "done" /\ outcome = "green" =>
    /\ JobMode(request) \in Modes
    /\ exit = "0"
    /\ Graded \notin RefusedGrades(JobMode(request))

\* The two halves of the pipeline together: a green job that reads the default
\* summary and refuses NO_GRADE graded the newest run's summary, if that run's
\* End returned and kept its promise.  An older summary is never gated in its
\* place, and a missing one fails the job.
GreenIsOfNewestRun ==
  /\ pc = "done" /\ outcome = "green"
  /\ SummaryPath(request) = "alias"
  /\ "NO_GRADE" \in RefusedGrades(JobMode(request))
  /\ told \in {"published", "withdrawn"}
  => read.run = newest /\ read.measurement = content[newest]

\* main.go, writeJSON and the exit codes: once the command has exited with 0
\* or 1, the output file is this job's, whole, and has the grade that the code
\* stands for; what the action captured is that grade.  (Exit 2 promises
\* nothing: an earlier job's file, or half of one, may be there.)
OutputIsOfThisJob ==
  exit \in {"0", "1"} =>
    /\ output = [grade |-> Graded, whole |-> TRUE, current |-> TRUE]
    /\ captured \in {"none", Graded}

\* A red job has a reason that its user can find: a step failed, the mode is
\* unknown, or the grade is refused by it.  A step that `ci github-actions`
\* wrote is never red for its mode.
RedIsExplained ==
  pc = "done" /\ outcome = "red" =>
    \/ fault
    \/ JobMode(request) \notin Modes /\ ~request.generated
    \/ Graded \in RefusedGrades(JobMode(request))

\* action.yml: "this guarantees diagnostics survive a policy failure".  If
\* nothing but the grade or the mode failed the job, its outputs and its
\* artifact are there, and are this job's.
DiagnosticsSurvive ==
  pc = "done" /\ outcome # "none" /\ request.form = "action" /\ ~fault =>
    /\ captured = Graded
    /\ request.upload => artifact = output /\ output.current

\* Every job ends, whatever fails in it.
JobEnds == pc = "validate" ~> pc = "done"

=============================================================================
