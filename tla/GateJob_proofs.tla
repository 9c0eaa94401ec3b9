---------------------------- MODULE GateJob_proofs ----------------------------
(* Theorems about GateJob, for all files, requests and numbers of runs. *)
EXTENDS GateJob, TLAPS

LEMMA GradeType ==
  ASSUME NEW p, NEW s, NEW b
  PROVE  /\ Grade(p, s, b) \in Grades
         /\ s.state # "ok" => Grade(p, s, b) = "NO_GRADE"
  BY DEF Grade, ComputeGateResult, Grades

\* What the job has read always has a grade; a missing summary is NO_GRADE.
LEMMA GradedType ==
  /\ Graded \in Grades
  /\ read.measurement.state # "ok" => Graded = "NO_GRADE"
  BY GradeType DEF Graded, Grades

LEMMA GradedKept ==
  /\ UNCHANGED read => Graded' = Graded
  /\ read' = NothingRead => Graded' = "NO_GRADE"
  BY DEF Graded, NothingRead

\* The three tables of refused grades agree.
LEMMA TablesAgree ==
  ASSUME NEW grade \in Grades, NEW mode \in Modes
  PROVE  /\ ShouldExitOn(grade, mode) <=> grade \in RefusedGrades(mode)
         /\ mode # "empty" => (CheckRefuses(grade, mode) <=> grade \in RefusedGrades(mode))
  BY DEF ShouldExitOn, CheckRefuses, RefusedGrades, Grades, Modes

\* A request is one that somebody wrote, or a generated one.
LEMMA RequestType ==
  ASSUME NEW r \in Requests \cup Generated
  PROVE  /\ IsRequest(r)
         /\ r.generated => ActionMode(r) \in Modes /\ r.form = "action"
         /\ ActionMode(r) \in Modes \cup {"other"}
         /\ r.form = "action" => CliMode(r) = "NEVER" /\ JobMode(r) = ActionMode(r)
         /\ r.form = "cli" => JobMode(r) = CliMode(r)
<1>1. CASE r \in Generated
  <2>1. PICK w \in Spellings : w.mode \in Modes /\ r = GeneratedStep(w)
    BY <1>1 DEF Generated
  <2>2. Word(w.mode) \in Spellings
    BY <2>1, GateJobAssumption DEF GateJobAssumption
  <2>3. IsRequest(r)
    BY <2>1, <2>2 DEF GeneratedStep, IsRequest
  <2>4. /\ r.form = "action" /\ r.exitOn = Word(w.mode) /\ r.failOn = Unset
    BY <2>1 DEF GeneratedStep
  <2>5. ActionMode(r) = IF w.mode = "empty" THEN "FAIL_OR_NOGRADE" ELSE w.mode
    <3>1. CASE w.mode = "empty"
      <4>1. r.exitOn = Word("empty") /\ r.failOn = Unset
        BY <2>4, <3>1
      <4>2. ActionWord(r) = Word("FAIL_OR_NOGRADE")
        BY <4>1 DEF ActionWord
      <4>3. ActionWord(r).mode = "FAIL_OR_NOGRADE" /\ ActionWord(r).exact = TRUE
        BY <4>2 DEF Word
      <4> QED BY <4>3, <3>1 DEF ActionMode
    <3>2. CASE w.mode # "empty"
      <4>1. Word(w.mode) \notin {Unset, Word("empty")}
        <5>1. Word(w.mode).mode # Word("empty").mode /\ Word(w.mode).exact # Unset.exact
          BY <3>2 DEF Word, Unset
        <5> QED BY <5>1
      <4>2. ActionWord(r) = Word(w.mode)
        BY <2>4, <4>1 DEF ActionWord
      <4>3. ActionWord(r).mode = w.mode /\ ActionWord(r).exact = TRUE
        BY <4>2 DEF Word
      <4> QED BY <4>3, <3>2 DEF ActionMode
    <3> QED BY <3>1, <3>2
  <2> QED
    BY <2>1, <2>3, <2>4, <2>5 DEF CliMode, JobMode, Modes
<1>2. CASE r \in Requests
  <2>1. IsRequest(r) /\ ~r.generated
    BY <1>2, GateJobAssumption DEF GateJobAssumption
  <2>2. ActionWord(r).exact => ActionWord(r).mode \in Modes \cup {"other"}
    <3>1. ActionWord(r) \in Spellings \cup {Unset, Word("FAIL_OR_NOGRADE")}
      BY <2>1 DEF ActionWord, IsRequest
    <3>3. Word("FAIL_OR_NOGRADE").mode \in Modes /\ ~Unset.exact
      BY DEF Word, Unset, Modes
    <3>2. \A w \in Spellings : w.mode \in Modes \cup {"other"}
      BY GateJobAssumption DEF GateJobAssumption
    <3> QED BY <3>1, <3>2, <3>3
  <2> QED
    BY <2>1, <2>2 DEF ActionMode, CliMode, JobMode, IsRequest
<1> QED BY <1>1, <1>2

-----------------------------------------------------------------------------
(* The inductive invariant *)

InCommand == {"validate", "evaluate", "create", "encode", "decide"}

\* While the command runs nothing is decided, and it got past its flags only
\* with a mode that it knows.
CommandRuns ==
  /\ pc \in InCommand => exit = "none" /\ captured = "none" /\ ~broken
  /\ pc \in InCommand \ {"validate"} => CliMode(request) \in Modes
  /\ pc \in {"capture", "upload", "check"} => request.form = "action" /\ exit # "none"

\* The output file after the command wrote it.
Written ==
  pc = "decide" \/ exit \in {"0", "1"}
    => output = [grade |-> Graded, whole |-> TRUE, current |-> TRUE]

\* What the code of the command stands for.
ExitCode ==
  /\ exit = "0" => CliMode(request) \in Modes /\ ~ShouldExitOn(Graded, CliMode(request))
  /\ exit = "1" => CliMode(request) \in Modes /\ ShouldExitOn(Graded, CliMode(request))
  /\ exit = "2" => fault \/ CliMode(request) \notin Modes
  /\ exit = "killed" => fault
  /\ exit = "none" => outcome \in {"none", "running"}
  /\ outcome = "none" => exit = "none"

CommandEnded ==
  request.form = "cli" /\ pc = "done" /\ outcome # "none" => (outcome = "green" <=> exit = "0")

\* How far the action has got, unless a step of it failed.
ActionGoesOn ==
  request.form = "action" /\ outcome # "none" =>
    /\ broken => fault
    /\ ~broken /\ pc \in {"capture", "upload", "check", "done"} => exit = "0"
    /\ ~broken /\ pc \in {"upload", "check", "done"} => captured = Graded
    /\ captured \in {"none", Graded}
    /\ pc = "capture" => ~broken /\ captured = "none"
    /\ pc \in {"check", "done"} /\ ~fault /\ request.upload => artifact = output

ActionEnded ==
  request.form = "action" /\ pc = "done" /\ outcome # "none" =>
    (outcome = "red" <=> \/ broken
                         \/ ActionMode(request) = "other"
                         \/ CheckRefuses(captured, ActionMode(request)))

\* The summary that the job read is the one its runs left at the default path.
ReadKnown ==
  /\ outcome # "none" => told # "nothing"
  /\ told = "published" => slot = newest
  /\ told = "withdrawn" => slot = 0
  /\ exit \in {"0", "1"} \/ pc \in {"create", "encode", "decide"} =>
       \/ SummaryPath(request) # "alias"
       \/ /\ read.run = slot
          /\ read.measurement = IF slot = 0 THEN NoSummary ELSE content[slot]

\* The command captures nothing by itself.
NothingCaptured == request.form = "cli" \/ outcome = "none" => captured = "none"

Inv ==
  /\ TypeOK /\ CommandRuns /\ Written /\ ExitCode /\ CommandEnded
  /\ ActionGoesOn /\ ActionEnded /\ ReadKnown /\ NothingCaptured

-----------------------------------------------------------------------------

LEMMA Bounded == MaxRuns \in Nat
  BY GateJobAssumption DEF GateJobAssumption

LEMMA InitInv == Init => Inv
<1> SUFFICES ASSUME Init PROVE Inv
  OBVIOUS
<1>1. request \in Requests
  BY GateJobAssumption DEF GateJobAssumption, Init
<1>2. /\ slot = 0 /\ newest = 0 /\ told = "nothing" /\ pc = "done" /\ outcome = "none"
      /\ content = [n \in 1..MaxRuns |-> NoSummary]
      /\ read = NothingRead /\ exit = "none" /\ captured = "none"
      /\ output = NoFile /\ artifact = NoFile /\ broken = FALSE /\ fault = FALSE
  BY DEF Init, Evidence!Init
<1>3. NoFile \in Outputs /\ NothingRead \in Readings
  BY DEF NoFile, Outputs, Readings
<1>4. TypeOK
  <2>1. slot \in 0..newest /\ newest \in 0..MaxRuns
    BY <1>2, Bounded
  <2>2. content \in [1..MaxRuns -> MeasurementFiles \cup {NoSummary}]
    BY <1>2
  <2> QED BY <1>1, <1>2, <1>3, <2>1, <2>2 DEF TypeOK
<1> QED
  BY <1>2, <1>4 DEF Inv, CommandRuns, Written, ExitCode, CommandEnded, ActionGoesOn,
                    ActionEnded, ReadKnown, NothingCaptured, InCommand

\* The sessions act between jobs.
LEMMA SessionInv ==
  ASSUME Inv, BeginRun \/ PublishRun \/ ReportRun
  PROVE  Inv'
<1>1. CASE BeginRun
  <2>1. /\ outcome' = "none" /\ pc' = "done" /\ exit' = "none" /\ captured' = "none"
        /\ told' = "nothing" /\ request' = request /\ output' = output
        /\ artifact' = NoFile /\ broken' = FALSE /\ fault' = FALSE /\ read' = NothingRead
        /\ slot' = slot /\ newest' = newest + 1 /\ newest < MaxRuns
    BY <1>1 DEF BeginRun, Cleared, Evidence!Begin
  <2>2. content' \in [1..MaxRuns -> MeasurementFiles \cup {NoSummary}]
    BY <1>1 DEF BeginRun, Inv, TypeOK
  <2>3. NoFile \in Outputs /\ NothingRead \in Readings'
    BY DEF NoFile, Outputs, Readings
  <2>4. request \in Requests \cup Generated /\ output \in Outputs
        /\ newest \in 0..MaxRuns /\ slot \in 0..newest
    BY DEF Inv, TypeOK
  <2>6. slot' \in 0..newest' /\ newest' \in 0..MaxRuns
    BY <2>1, <2>4, Bounded
  <2>5. TypeOK'
    BY <2>1, <2>2, <2>3, <2>4, <2>6 DEF TypeOK, Outputs, Generated
  <2> QED
    BY <2>1, <2>5 DEF Inv, CommandRuns, Written, ExitCode, CommandEnded, ActionGoesOn,
                      ActionEnded, ReadKnown, NothingCaptured, InCommand
<1>2. CASE PublishRun \/ ReportRun
  <2>1. /\ UNCHANGED <<content, pc, jobVars>> /\ told = "nothing"
        /\ slot' \in 0..newest /\ newest' = newest
        /\ told' \in {"nothing", "published", "withdrawn", "noPromise"}
        /\ told' = "published" => slot' = newest
        /\ told' = "withdrawn" => slot' = 0
    BY <1>2 DEF PublishRun, ReportRun, Evidence!Publish, Evidence!Report, Inv, TypeOK
  <2>2. outcome = "none" /\ pc = "done" /\ exit = "none"
    BY <2>1 DEF Inv, ReadKnown, TypeOK, ExitCode
  <2>3. Graded' = Graded
    BY <2>1, GradedKept DEF jobVars
  <2>4. TypeOK'
    BY <2>1 DEF Inv, TypeOK, jobVars, Generated
  <2> QED
    BY <2>1, <2>2, <2>3, <2>4
    DEF Inv, CommandRuns, Written, ExitCode, CommandEnded, ActionGoesOn,
        ActionEnded, ReadKnown, NothingCaptured, InCommand, jobVars
<1> QED BY <1>1, <1>2

LEMMA StartInv == ASSUME Inv, Start PROVE Inv'
<1>1. /\ outcome' = "running" /\ pc' = "validate" /\ exit' = "none" /\ captured' = "none"
      /\ told # "nothing" /\ request' \in Requests \cup Generated
      /\ output' \in {NoFile, [grade |-> output.grade, whole |-> output.whole, current |-> FALSE]}
      /\ artifact' = NoFile /\ broken' = FALSE /\ fault' = FALSE /\ read' = NothingRead
      /\ UNCHANGED evidenceVars
  BY DEF Start, Cleared
<1>2. output' \in Outputs
  <2>1. output \in Outputs
    BY DEF Inv, TypeOK
  <2>2. [grade |-> output.grade, whole |-> output.whole, current |-> FALSE] \in Outputs
    BY <2>1 DEF Outputs
  <2>3. NoFile \in Outputs
    BY DEF Outputs, NoFile
  <2> QED BY <1>1, <2>2, <2>3
<1>3. NoFile \in Outputs /\ NothingRead \in Readings
  BY DEF NoFile, Outputs, Readings
<1>4. TypeOK'
  <2>1. output' \in Outputs /\ artifact' \in Outputs' /\ read' \in Readings'
    BY <1>1, <1>2, <1>3 DEF Outputs, Readings
  <2>2. /\ slot' \in 0..newest' /\ newest' \in 0..MaxRuns
        /\ told' \in {"nothing", "published", "withdrawn", "noPromise"}
        /\ content' \in [1..MaxRuns -> MeasurementFiles \cup {NoSummary}]
    BY <1>1 DEF Inv, TypeOK, evidenceVars
  <2> QED BY <1>1, <2>1, <2>2 DEF TypeOK, Outputs, Generated
<1> QED
  BY <1>1, <1>4 DEF Inv, CommandRuns, Written, ExitCode, CommandEnded, ActionGoesOn,
                    ActionEnded, ReadKnown, NothingCaptured, InCommand, evidenceVars

\* The command exits, having written its file if the code promises one.
LEMMA ExitInv ==
  ASSUME Inv, NEW code \in {"0", "1", "2", "killed"}, Exit(code), pc \in InCommand,
         output' \in Outputs, fault' \in BOOLEAN, fault => fault',
         code \in {"0", "1"} =>
           /\ pc = "decide"
           /\ output' = [grade |-> Graded, whole |-> TRUE, current |-> TRUE]
           /\ code = "1" <=> ShouldExitOn(Graded, CliMode(request)),
         code = "2" => fault' \/ CliMode(request) \notin Modes,
         code = "killed" => fault'
  PROVE  Inv'
<1>1. /\ exit' = code /\ UNCHANGED <<evidenceVars, request, read, captured, artifact>>
  BY DEF Exit
<1>2. Graded' = Graded
  BY <1>1, GradedKept
<1>3. /\ exit = "none" /\ captured = "none" /\ ~broken /\ outcome = "running"
      /\ pc # "validate" => CliMode(request) \in Modes
  BY DEF Inv, CommandRuns, InCommand, TypeOK
<1>4. request.form \in {"cli", "action"} /\ request \in Requests \cup Generated
  BY RequestType DEF Inv, TypeOK, IsRequest
<1>5. /\ slot \in 0..newest /\ newest \in 0..MaxRuns
      /\ told \in {"nothing", "published", "withdrawn", "noPromise"}
      /\ content \in [1..MaxRuns -> MeasurementFiles \cup {NoSummary}]
      /\ read \in Readings /\ artifact \in Outputs
  BY DEF Inv, TypeOK
<1>6. CASE request.form = "cli"
  <2>1. pc' = "done" /\ outcome' = (IF code = "0" THEN "green" ELSE "red") /\ broken' = broken
    BY <1>6 DEF Exit
  <2>3. broken' \in BOOLEAN
    BY <2>1 DEF Inv, TypeOK
  <2>4. outcome' \in {"green", "red"}
    BY <2>1
  <2>2. TypeOK'
    BY <1>1, <1>3, <1>4, <1>5, <2>1, <2>3, <2>4
    DEF TypeOK, evidenceVars, Generated, Outputs, Readings
  <2> QED
    BY <1>1, <1>2, <1>3, <1>4, <1>6, <2>1, <2>2
    DEF Inv, CommandRuns, Written, ExitCode, CommandEnded, ActionGoesOn,
        ActionEnded, ReadKnown, NothingCaptured, InCommand, evidenceVars
<1>7. CASE request.form = "action"
  <2>1. /\ pc' = (IF code = "0" THEN "capture" ELSE "upload") /\ broken' = (code # "0")
        /\ outcome' = outcome
    BY <1>7 DEF Exit
  <2>2. CliMode(request) = "NEVER"
    BY <1>4, <1>7, RequestType
  <2>3. code # "1"
    BY <2>2 DEF ShouldExitOn
  <2>4. code # "0" => fault'
    BY <2>2, <2>3 DEF Modes
  <2>5. broken' \in BOOLEAN /\ (broken' <=> code # "0")
    BY <2>1
  <2>6. TypeOK'
    BY <1>1, <1>3, <1>4, <1>5, <2>1, <2>5 DEF TypeOK, evidenceVars, Generated, Outputs, Readings
  <2>7. ExitCode'
    BY <1>1, <1>2, <1>3, <2>1 DEF ExitCode
  <2>8. Written' /\ ReadKnown'
    BY <1>1, <1>2, <1>3, <2>1, <2>3
    DEF Inv, Written, ReadKnown, evidenceVars
  <2>9. CommandRuns' /\ CommandEnded' /\ ActionEnded' /\ NothingCaptured'
    BY <1>1, <1>3, <1>7, <2>1
    DEF CommandRuns, CommandEnded, ActionEnded, NothingCaptured, InCommand
  <2>10. ActionGoesOn'
    BY <1>1, <1>3, <2>1, <2>4, <2>5 DEF ActionGoesOn
  <2> QED
    BY <2>6, <2>7, <2>8, <2>9, <2>10 DEF Inv
<1> QED BY <1>4, <1>6, <1>7

\* What a step that reads no file leaves as it is.
LEMMA Frame ==
  ASSUME Inv, UNCHANGED <<evidenceVars, request>>
  PROVE  /\ request' = request /\ request' \in Requests \cup Generated'
         /\ request.form \in {"cli", "action"}
         /\ slot' \in 0..newest' /\ newest' \in 0..MaxRuns
         /\ told' \in {"nothing", "published", "withdrawn", "noPromise"}
         /\ content' \in [1..MaxRuns -> MeasurementFiles \cup {NoSummary}]
  BY RequestType DEF Inv, TypeOK, evidenceVars, Generated, IsRequest

\* A step of the command that does not end it.
LEMMA CommandStepInv ==
  ASSUME Inv, UNCHANGED <<evidenceVars, request, exit, captured, artifact, broken, outcome, fault>>,
         pc \in InCommand, pc' \in InCommand \ {"validate"},
         output' \in Outputs, read' \in Readings,
         CliMode(request) \in Modes,
         pc' = "decide" => output' = [grade |-> Graded', whole |-> TRUE, current |-> TRUE],
         pc' # "evaluate" =>
           \/ SummaryPath(request) # "alias"
           \/ /\ read'.run = slot
              /\ read'.measurement = IF slot = 0 THEN NoSummary ELSE content[slot]
  PROVE  Inv'
<1>1. /\ exit = "none" /\ captured = "none" /\ broken = FALSE /\ outcome = "running"
      /\ artifact \in Outputs /\ fault \in BOOLEAN /\ told # "nothing"
  BY DEF Inv, CommandRuns, InCommand, TypeOK, ReadKnown
<1>2. TypeOK'
  BY <1>1, Frame DEF TypeOK, InCommand, Outputs, Readings
<1>3. CommandRuns' /\ CommandEnded' /\ ActionEnded' /\ NothingCaptured'
  BY <1>1 DEF CommandRuns, CommandEnded, ActionEnded, NothingCaptured, InCommand
<1>4. Written' /\ ReadKnown'
  BY <1>1 DEF Inv, Written, ReadKnown, InCommand, evidenceVars
<1>5. ExitCode' /\ ActionGoesOn'
  BY <1>1 DEF ExitCode, ActionGoesOn, InCommand
<1> QED BY <1>2, <1>3, <1>4, <1>5 DEF Inv

\* A step of the action after the command.
LEMMA ActionStepInv ==
  ASSUME Inv, UNCHANGED <<evidenceVars, request, read, output, exit>>,
         pc \in {"capture", "upload", "check"}, pc' \in {"upload", "check", "done"},
         artifact' \in Outputs, captured' \in Grades \cup {"none"},
         broken' \in BOOLEAN, fault' \in BOOLEAN, fault => fault',
         broken' => fault',
         captured' \in {"none", Graded},
         ~broken' => ~broken /\ captured' = Graded,
         pc' \in {"check", "done"} /\ ~fault' /\ request.upload => artifact' = output,
         IF pc' = "done"
         THEN /\ outcome' \in {"green", "red"}
              /\ outcome' = "red" <=> \/ broken'
                                     \/ ActionMode(request) = "other"
                                     \/ CheckRefuses(captured', ActionMode(request))
         ELSE outcome' = outcome
  PROVE  Inv'
<1>1. /\ request.form = "action" /\ outcome = "running" /\ exit \in {"none", "0", "1", "2", "killed"}
      /\ ~broken => exit = "0"
      /\ exit # "none" /\ read \in Readings /\ output \in Outputs
  BY DEF Inv, CommandRuns, TypeOK, ActionGoesOn, ExitCode
<1>2. Graded' = Graded
  BY GradedKept
<1>3. TypeOK'
  BY <1>1, Frame DEF TypeOK, Outputs, Readings, Grades
<1>4. CommandRuns' /\ CommandEnded' /\ ActionEnded' /\ NothingCaptured'
  BY <1>1 DEF CommandRuns, CommandEnded, ActionEnded, NothingCaptured, InCommand
<1>5. Written' /\ ReadKnown'
  BY <1>1, <1>2 DEF Inv, Written, ReadKnown, evidenceVars, TypeOK
<1>6. ExitCode'
  BY <1>1, <1>2 DEF Inv, ExitCode
<1>7. ActionGoesOn'
  BY <1>1, <1>2 DEF Inv, ActionGoesOn
<1> QED BY <1>3, <1>4, <1>5, <1>6, <1>7 DEF Inv

LEMMA CommandInv ==
  ASSUME Inv, Validate \/ Evaluate \/ Create \/ CreateFails \/ Encode \/ EncodeFails
              \/ Decide \/ Cancel
  PROVE  Inv'
<1>1. /\ output \in Outputs /\ fault \in BOOLEAN /\ read \in Readings /\ Graded \in Grades
      /\ pc # "validate" /\ pc \in InCommand => CliMode(request) \in Modes
      /\ pc = "decide" => output = [grade |-> Graded, whole |-> TRUE, current |-> TRUE]
  BY GradedType DEF Inv, TypeOK, CommandRuns, Written
<1>2. /\ [grade |-> Graded, whole |-> TRUE, current |-> TRUE] \in Outputs
      /\ [grade |-> "none", whole |-> FALSE, current |-> TRUE] \in Outputs
      /\ NoFile \in Outputs
  BY <1>1 DEF Outputs, NoFile
<1>3. pc \in {"create", "encode", "decide"} =>
        \/ SummaryPath(request) # "alias"
        \/ /\ read.run = slot
           /\ read.measurement = IF slot = 0 THEN NoSummary ELSE content[slot]
  BY DEF Inv, ReadKnown
<1>4. CASE Validate
  <2>1. CASE CliMode(request) \notin Modes /\ Exit("2") /\ UNCHANGED <<output, fault>>
    <3>1. pc \in InCommand
      BY <1>4 DEF Validate, InCommand
    <3> QED BY <1>1, <2>1, <3>1, ExitInv
  <2>2. CASE CliMode(request) \in Modes /\ pc' = "evaluate" /\ UNCHANGED <<evidenceVars, jobVars>>
    BY <1>1, <1>4, <2>2, CommandStepInv DEF Validate, InCommand, jobVars
  <2> QED BY <1>4, <2>1, <2>2 DEF Validate
<1>5. CASE Evaluate
  <2>1. PICK p \in PolicyFiles, b \in BaselineFiles, s \in MeasurementFiles \cup {NoSummary} :
          /\ SummaryPath(request) = "alias" => s = (IF slot = 0 THEN NoSummary ELSE content[slot])
          /\ read' = [run |-> IF SummaryPath(request) = "alias" THEN slot ELSE 0,
                      policy |-> p, measurement |-> s, baseline |-> b]
    BY <1>5 DEF Evaluate
  <2>2. slot \in 0..MaxRuns
    BY Bounded DEF Inv, TypeOK
  <2>3. read' \in Readings
    BY <2>1, <2>2, Bounded DEF Readings
  <2>4. \/ SummaryPath(request) # "alias"
        \/ /\ read'.run = slot
           /\ read'.measurement = IF slot = 0 THEN NoSummary ELSE content[slot]
    BY <2>1
  <2> QED
    BY <1>1, <1>5, <2>3, <2>4, CommandStepInv DEF Evaluate, InCommand
<1>6. CASE Create
  BY <1>1, <1>2, <1>3, <1>6, CommandStepInv DEF Create, InCommand
<1>7. CASE Encode
  <2>1. Graded' = Graded
    BY <1>7, GradedKept DEF Encode
  <2> QED
    BY <1>1, <1>2, <1>3, <1>7, <2>1, CommandStepInv DEF Encode, InCommand
<1>8. CASE CreateFails
  <2>1. pc \in InCommand
    BY <1>8 DEF CreateFails, InCommand
  <2> QED BY <1>1, <1>8, <2>1, ExitInv DEF CreateFails
<1>9. CASE EncodeFails
  <2>1. pc \in InCommand /\ output' \in Outputs
    BY <1>1, <1>2, <1>9 DEF EncodeFails, InCommand
  <2> QED BY <1>1, <1>9, <2>1, ExitInv DEF EncodeFails
<1>10. CASE Decide
  <2>1. pc = "decide" /\ pc \in InCommand /\ output' = output /\ fault' = fault
    BY <1>10 DEF Decide, InCommand
  <2>2. CASE ShouldExitOn(Graded, CliMode(request))
    <3>1. Exit("1")
      BY <1>10, <2>2 DEF Decide
    <3> QED BY <1>1, <2>1, <2>2, <3>1, ExitInv
  <2>3. CASE ~ShouldExitOn(Graded, CliMode(request))
    <3>1. Exit("0")
      BY <1>10, <2>3 DEF Decide
    <3> QED BY <1>1, <2>1, <2>3, <3>1, ExitInv
  <2> QED BY <2>2, <2>3
<1>11. CASE Cancel
  <2>1. pc \in InCommand
    BY <1>11 DEF Cancel, InCommand
  <2> QED BY <1>1, <1>11, <2>1, ExitInv DEF Cancel
<1> QED
  BY <1>4, <1>5, <1>6, <1>7, <1>8, <1>9, <1>10, <1>11

LEMMA ActionInv ==
  ASSUME Inv, Capture \/ CaptureFails \/ Upload \/ UploadFails \/ CheckResult
  PROVE  Inv'
<1>1. pc \in {"capture", "upload", "check"}
  BY DEF Capture, CaptureFails, Upload, UploadFails, CheckResult
<1>2. /\ request.form = "action" /\ outcome = "running"
      /\ output \in Outputs /\ artifact \in Outputs /\ captured \in Grades \cup {"none"}
      /\ broken \in BOOLEAN /\ fault \in BOOLEAN /\ Graded \in Grades
  BY <1>1, GradedType DEF Inv, TypeOK, CommandRuns
<1>3. /\ broken => fault
      /\ ~broken => exit = "0"
      /\ ~broken /\ pc \in {"upload", "check"} => captured = Graded
      /\ captured \in {"none", Graded}
      /\ pc = "capture" => ~broken
      /\ pc = "check" /\ ~fault /\ request.upload => artifact = output
  BY <1>1, <1>2 DEF Inv, ActionGoesOn
<1>4. exit = "0" => output = [grade |-> Graded, whole |-> TRUE, current |-> TRUE]
  BY DEF Inv, Written
<1>5. CASE Capture
  <2>1. captured' = Graded
    BY <1>3, <1>4, <1>5 DEF Capture
  <2> QED
    BY <1>1, <1>2, <1>3, <1>5, <2>1, ActionStepInv DEF Capture
<1>6. CASE CaptureFails
  BY <1>1, <1>2, <1>3, <1>6, ActionStepInv DEF CaptureFails
<1>7. CASE Upload
  <2>1. artifact' \in Outputs /\ (request.upload => artifact' = output)
    BY <1>2, <1>7 DEF Upload
  <2> QED
    BY <1>1, <1>2, <1>3, <1>7, <2>1, ActionStepInv DEF Upload
<1>8. CASE UploadFails
  BY <1>1, <1>2, <1>3, <1>8, ActionStepInv DEF UploadFails
<1>9. CASE CheckResult
  BY <1>1, <1>2, <1>3, <1>9, ActionStepInv DEF CheckResult
<1> QED
  BY <1>5, <1>6, <1>7, <1>8, <1>9

LEMMA NextInv == Inv /\ [Next]_vars => Inv'
<1> SUFFICES ASSUME Inv, [Next]_vars PROVE Inv'
  OBVIOUS
<1>1. CASE UNCHANGED vars
  <2>1. Graded' = Graded
    BY <1>1, GradedKept DEF vars, jobVars
  <2> QED
    BY <1>1, <2>1 DEF vars, jobVars, evidenceVars, Inv, TypeOK, CommandRuns, Written, ExitCode,
                      CommandEnded, ActionGoesOn, ActionEnded, ReadKnown, NothingCaptured,
                      Generated, Outputs, Readings
<1>2. CASE BeginRun \/ PublishRun \/ ReportRun
  BY <1>2, SessionInv
<1>3. CASE Start
  BY <1>3, StartInv
<1>4. CASE Validate \/ Evaluate \/ Create \/ CreateFails \/ Encode \/ EncodeFails
           \/ Decide \/ Cancel
  BY <1>4, CommandInv
<1>5. CASE Capture \/ CaptureFails \/ Upload \/ UploadFails \/ CheckResult
  BY <1>5, ActionInv
<1> QED
  BY <1>1, <1>2, <1>3, <1>4, <1>5 DEF Next, Step

LEMMA InvHolds == Spec => []Inv
  BY InitInv, NextInv, PTL DEF Spec

-----------------------------------------------------------------------------
(* Theorems *)

\* For all files, requests and numbers of runs the state of a job keeps its type.
THEOREM JobTypeCorrect == Spec => []TypeOK
<1>1. Inv => TypeOK
  BY DEF Inv
<1> QED BY <1>1, InvHolds, PTL

\* The mode and the request of a job that has ended, in one form or the other.
LEMMA Ended ==
  ASSUME Inv, pc = "done", outcome # "none"
  PROVE  /\ outcome \in {"green", "red"} /\ Graded \in Grades
         /\ request \in Requests \cup Generated
         /\ request.form \in {"cli", "action"}
  BY GradedType, RequestType DEF Inv, TypeOK, IsRequest

\* main.go, action.yml: whatever failed and whatever an earlier job left, a
\* green job accepted the grade of the files it read.
THEOREM GreenCorrect == Spec => []GreenIsEarned
<1>1. ASSUME Inv, pc = "done", outcome = "green"
      PROVE  /\ JobMode(request) \in Modes /\ exit = "0"
             /\ Graded \notin RefusedGrades(JobMode(request))
  <2>1. CASE request.form = "cli"
    <3>1. exit = "0" /\ CliMode(request) \in Modes /\ ~ShouldExitOn(Graded, CliMode(request))
      BY <1>1, <2>1 DEF Inv, CommandEnded, ExitCode
    <3>2. JobMode(request) = CliMode(request)
      BY <2>1 DEF JobMode
    <3> QED BY <1>1, <3>1, <3>2, Ended, TablesAgree
  <2>2. CASE request.form = "action"
    <3>1. /\ ~broken /\ exit = "0" /\ captured = Graded
          /\ ActionMode(request) # "other" /\ ~CheckRefuses(Graded, ActionMode(request))
      BY <1>1, <2>2 DEF Inv, ActionGoesOn, ActionEnded
    <3>2. JobMode(request) = ActionMode(request) /\ ActionMode(request) \in Modes
      BY <1>1, <2>2, <3>1, Ended, RequestType
    <3>3. ActionMode(request) # "empty"
      BY DEF ActionMode
    <3> QED BY <1>1, <3>1, <3>2, <3>3, Ended, TablesAgree
  <2> QED BY <1>1, <2>1, <2>2, Ended
<1>2. Inv => GreenIsEarned
  BY <1>1 DEF GreenIsEarned
<1> QED BY <1>2, InvHolds, PTL

\* session.go and action.yml together: a green job that refuses NO_GRADE graded
\* the newest run's summary.
THEOREM NewestRunCorrect == Spec => []GreenIsOfNewestRun
<1>1. ASSUME Inv, GreenIsEarned, pc = "done", outcome = "green", SummaryPath(request) = "alias",
             "NO_GRADE" \in RefusedGrades(JobMode(request)), told \in {"published", "withdrawn"}
      PROVE  read.run = newest /\ read.measurement = content[newest]
  <2>1. exit = "0" /\ Graded # "NO_GRADE"
    BY <1>1 DEF GreenIsEarned
  <2>2. /\ read.run = slot
        /\ read.measurement = IF slot = 0 THEN NoSummary ELSE content[slot]
    BY <1>1, <2>1 DEF Inv, ReadKnown
  <2>3. read.measurement # NoSummary
    BY <2>1, GradedType, GateJobAssumption DEF GateJobAssumption
  <2>4. slot # 0
    BY <2>2, <2>3
  <2>5. slot = newest
    BY <1>1, <2>4 DEF Inv, ReadKnown
  <2> QED BY <2>2, <2>4, <2>5
<1>2. Inv /\ GreenIsEarned => GreenIsOfNewestRun
  BY <1>1 DEF GreenIsOfNewestRun
<1> QED BY <1>2, InvHolds, GreenCorrect, PTL

\* main.go, writeJSON: exit codes 0 and 1 promise this job's output file.
THEOREM OutputCorrect == Spec => []OutputIsOfThisJob
<1>1. ASSUME Inv, exit \in {"0", "1"}
      PROVE  /\ output = [grade |-> Graded, whole |-> TRUE, current |-> TRUE]
             /\ captured \in {"none", Graded}
  <2>1. output = [grade |-> Graded, whole |-> TRUE, current |-> TRUE]
    BY <1>1 DEF Inv, Written
  <2>2. captured \in {"none", Graded}
    <3>1. IsRequest(request)
      BY <1>1, RequestType DEF Inv, TypeOK
    <3>2. request.form \in {"cli", "action"}
      BY <3>1 DEF IsRequest
    <3>3. CASE request.form = "cli" \/ outcome = "none"
      BY <1>1, <3>3 DEF Inv, NothingCaptured
    <3>4. CASE request.form = "action" /\ outcome # "none"
      BY <1>1, <3>4 DEF Inv, ActionGoesOn
    <3> QED BY <3>2, <3>3, <3>4
  <2> QED BY <2>1, <2>2
<1>2. Inv => OutputIsOfThisJob
  BY <1>1 DEF OutputIsOfThisJob
<1> QED BY <1>2, InvHolds, PTL

\* A red job has a reason, and a generated step is not red for its mode.
THEOREM RedCorrect == Spec => []RedIsExplained
<1>1. ASSUME Inv, pc = "done", outcome = "red", ~fault
      PROVE  \/ JobMode(request) \notin Modes /\ ~request.generated
             \/ Graded \in RefusedGrades(JobMode(request))
  <2>1. CASE request.form = "cli"
    <3>1. exit \in {"none", "0", "1", "2", "killed"}
      BY <1>1 DEF Inv, TypeOK
    <3>2. exit \in {"1", "2"}
      BY <1>1, <2>1, <3>1 DEF Inv, CommandEnded, ExitCode
    <3>3. JobMode(request) = CliMode(request) /\ ~request.generated
      BY <1>1, <2>1, Ended, RequestType DEF JobMode, IsRequest
    <3>4. CASE exit = "1"
      BY <1>1, <3>3, <3>4, Ended, TablesAgree DEF Inv, ExitCode
    <3>5. CASE exit = "2"
      BY <1>1, <3>3, <3>5 DEF Inv, ExitCode
    <3> QED BY <3>2, <3>4, <3>5
  <2>2. CASE request.form = "action"
    <3>1. captured = Graded
      BY <1>1, <2>2 DEF Inv, ActionGoesOn
    <3>2. ActionMode(request) = "other" \/ CheckRefuses(Graded, ActionMode(request))
      BY <1>1, <2>2, <3>1 DEF Inv, ActionGoesOn, ActionEnded
    <3>3. /\ JobMode(request) = ActionMode(request)
          /\ ActionMode(request) \in Modes \cup {"other"}
          /\ request.generated => ActionMode(request) \in Modes
          /\ ActionMode(request) # "empty"
      BY <1>1, <2>2, Ended, RequestType DEF ActionMode
    <3>4. "other" \notin Modes
      BY DEF Modes
    <3> QED BY <1>1, <3>2, <3>3, <3>4, Ended, TablesAgree
  <2> QED BY <1>1, <2>1, <2>2, Ended
<1>2. Inv => RedIsExplained
  BY <1>1 DEF RedIsExplained
<1> QED BY <1>2, InvHolds, PTL

\* action.yml: a refused grade costs the job neither its outputs nor its artifact.
THEOREM DiagnosticsCorrect == Spec => []DiagnosticsSurvive
<1>1. ASSUME Inv, pc = "done", outcome # "none", request.form = "action", ~fault
      PROVE  /\ captured = Graded
             /\ request.upload => artifact = output /\ output.current
  <2>1. /\ ~broken /\ captured = Graded /\ exit = "0"
        /\ request.upload => artifact = output
    BY <1>1 DEF Inv, ActionGoesOn
  <2>2. exit \in {"0", "1"}
    BY <2>1
  <2>3. output = [grade |-> Graded, whole |-> TRUE, current |-> TRUE]
    BY <1>1, <2>2 DEF Inv, Written
  <2> QED BY <2>1, <2>3
<1>2. Inv => DiagnosticsSurvive
  BY <1>1 DEF DiagnosticsSurvive
<1> QED BY <1>2, InvHolds, PTL

=============================================================================
