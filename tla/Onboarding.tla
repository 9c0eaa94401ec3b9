----------------------------- MODULE Onboarding -----------------------------
(***************************************************************************)
(* From no files at all to a gate in CI (cmd/slint-gate): what init and    *)
(* recommend-policy write, and the wizard, which looks at the policy, the  *)
(* summary and the baseline, offers the next command, waits for an answer  *)
(* and runs it.  While it waits, test sessions publish and other terminals *)
(* run the same commands.                                                  *)
(*                                                                         *)
(* A command of the wizard is two steps, up to its refusal to overwrite    *)
(* and from there to its write: between them init may wait 10 s for        *)
(* kubectl and baseline approve reads the summary a second time.  The code *)
(* accepts that race ("single-user local CLI artifact write"), so late     *)
(* remembers which files somebody else wrote in between.                   *)
(***************************************************************************)
EXTENDS GateRules

CONSTANTS
  SummaryFiles,   \* what a session may publish
  AuditFiles,     \* the summaries of earlier runs, to be named with --summary
  UserPolicies,   \* policies a user writes by hand
  Paths,          \* where a baseline may be
  DefaultPath,    \* docs/baselines/sli-summary.json
  NoPath,         \* --baseline is not given
  Flags           \* the wizard's --baseline, a path or none

VARIABLES
  policy,     \* .slint/policy.yaml
  summary,    \* artifacts/sli-summary.json
  baselines,  \* the baseline file at each path, NoBaseline without one
  pc,         \* the wizard: off, inspect, evaluate, ask, writePolicy, writeBaseline
  path,       \* its baselinePath
  seen,       \* its onboardingState
  pending,    \* the policy that its command is about to write
  outPath,    \* where its command is about to write a baseline
  exit,       \* how the last wizard ended: done, or the error of a command
  late        \* history: the files written by others since its command's refusal

files == <<policy, summary, baselines>>
command == <<pending, outPath, late>>
vars == <<policy, summary, baselines, pc, path, seen, pending, outPath, exit, late>>

-----------------------------------------------------------------------------
(* The profile and the policies made from it *)

Threshold(id, op, target) == [metric |-> id, op |-> op, target |-> target]

\* kubebuilderOperatorCandidates: the default rules of its core and noisy
\* tiers, and the other two tiers' ids.
\* (Mutated: a default that has moved away from init's.)
ProfileRules_Drifted ==
  {Threshold("reconcile_total_delta", ">=", 0), Threshold("rest_client_429_delta", "==", 0)}
ProfileRules ==
  {Threshold("reconcile_total_delta", ">=", 1),
   Threshold("reconcile_error_delta", "==", 0),
   Threshold("workqueue_depth_end", "<=", 0),
   Threshold("rest_client_5xx_delta", "==", 0),
   Threshold("rest_client_429_delta", "==", 0),
   Threshold("workqueue_retries_total_delta", "==", 0)}
Noisy == {"rest_client_429_delta", "workqueue_retries_total_delta"}
Informational ==
  {"reconcile_success_delta", "workqueue_adds_total_delta", "rest_client_requests_total_delta"}

ProfileIds == {r.metric : r \in ProfileRules} \cup Informational

\* What both templates have around their thresholds.
Template(rules, informational) ==
  [state |-> "ok", version |-> "v1", rules |-> rules, regression |-> FALSE,
   tolerance |-> 10, required |-> FALSE, minLevel |-> "partial", coverage |-> TRUE,
   informational |-> informational, promote |-> {"threshold_miss", "coverage_gap"}]

\* init's policyTemplate.
InitPolicy ==
  Template(
    {Threshold("reconcile_total_delta", ">=", 1),
     Threshold("reconcile_error_delta", "==", 0),
     Threshold("workqueue_depth_end", "<=", 0),
     Threshold("workqueue_retries_total_delta", "==", 0),
     Threshold("rest_client_429_delta", "==", 0),
     Threshold("rest_client_5xx_delta", "==", 0)},
    {"reconcile_success_delta", "workqueue_adds_total_delta",
     "rest_client_requests_total_delta"})

Strictnesses == {"strict", "conservative", "lenient"}

\* classifyCandidates: a candidate is active when the summary has a record of
\* it, whether or not the record has a value.
Active(strictness, s) ==
  {r \in ProfileRules : /\ r.metric \in DOMAIN s.results
                        /\ ~(r.metric \in Noisy /\ strictness = "lenient")}

\* The policy that recommend-policy writes.
Draft(strictness, s) == Template(Active(strictness, s), Informational)

\* The draft's warning beside a rule that the measured value does not satisfy.
\* (Mutated: value and target change places.)
ViolatesDefault_Swapped(r, v) == ~CompareOp(r.target, r.op, v)
ViolatesDefault(r, v) == ~CompareOp(v, r.op, r.target)

MismatchNotes(strictness, s) ==
  {r \in Active(strictness, s) :
     s.results[r.metric].value # NoValue /\ ViolatesDefault(r, s.results[r.metric].value)}

ASSUME OnboardingAssumption ==
  /\ ProfileIds \subseteq Slis
  /\ {0, 1} \subseteq Values
  /\ \A s \in SummaryFiles \cup AuditFiles : IsMeasurement(s)
  /\ \A p \in UserPolicies : IsPolicy(p)
  /\ DefaultPath \in Paths
  /\ NoPath \notin Paths
  /\ Paths \cap {"policy", "summary"} = {}
  /\ Flags \subseteq Paths \cup {NoPath}

NoPolicy == [InitPolicy EXCEPT !.state = "missing"]
BrokenPolicy == [InitPolicy EXCEPT !.state = "invalid"]
NoBaseline == [state |-> "absent"]

-----------------------------------------------------------------------------
(* onboarding_state.go *)

NothingSeen ==
  [hasPolicy |-> FALSE, hasSummary |-> FALSE, summaryInvalid |-> FALSE,
   gateResult |-> "", hasBaseline |-> FALSE]

\* nextOnboardingStep; the steps that run the same command have one name.
\* (Mutated: only a FAIL keeps the wizard from approving.)
NextOnboardingStep_FailOnly(st) ==
  IF st.summaryInvalid THEN "inspect"
  ELSE IF ~st.hasPolicy THEN (IF st.hasSummary THEN "recommend-policy" ELSE "init")
  ELSE IF ~st.hasSummary THEN "run-e2e"
  ELSE IF st.gateResult = "FAIL" THEN "inspect"
  ELSE IF st.hasBaseline THEN "wire-ci" ELSE "approve"
NextOnboardingStep(st) ==
  IF st.summaryInvalid THEN "inspect"
  ELSE IF ~st.hasPolicy THEN (IF st.hasSummary THEN "recommend-policy" ELSE "init")
  ELSE IF ~st.hasSummary THEN "run-e2e"
  ELSE IF st.gateResult # "PASS" THEN "inspect"
  ELSE IF st.hasBaseline THEN "wire-ci" ELSE "approve"

PolicyExists == policy.state # "missing"
BaselineExists(p) == baselines[p] # NoBaseline

\* runBaselineApprove's acceptance; it passes the gate no baseline.
Approved(warn) ==
  LET grade == Grade(policy, summary, NoBaseline)
  IN  grade = "PASS" \/ (warn /\ grade = "WARN")

-----------------------------------------------------------------------------
(* The wizard *)

Init ==
  /\ policy = NoPolicy
  /\ summary \in SummaryFiles
  /\ baselines = [p \in Paths |-> NoBaseline]
  /\ pc = "off"
  /\ path = NoPath
  /\ seen = NothingSeen
  /\ pending = NoPolicy
  /\ outPath = NoPath
  /\ exit = "none"
  /\ late = {}

Start(flag) ==
  /\ pc = "off"
  /\ pc' = "inspect"
  /\ path' = flag
  /\ exit' = "none"
  /\ UNCHANGED <<files, seen, command>>

\* inspectOnboardingState up to LoadFile.
InspectFiles ==
  /\ pc = "inspect"
  /\ seen' = [NothingSeen EXCEPT
                !.hasPolicy = PolicyExists,
                !.hasSummary = summary.state = "ok",
                !.summaryInvalid = summary.state \notin {"ok", "missing"}]
  /\ pc' = "evaluate"
  /\ UNCHANGED <<files, path, exit, command>>

\* The rest of it: the gate reads policy and summary again.
EvaluateGate ==
  /\ pc = "evaluate"
  /\ seen' = [seen EXCEPT
                !.gateResult = IF seen.hasPolicy /\ seen.hasSummary
                               THEN Grade(policy, summary, NoBaseline) ELSE "",
                !.hasBaseline = path # NoPath /\ BaselineExists(path)]
  /\ pc' = "ask"
  /\ UNCHANGED <<files, path, exit, command>>

\* The wizard waits at the prompt of a step.
Asks(step) == pc = "ask" /\ NextOnboardingStep(seen) = step

\* No command is running, and nothing of the last look is kept.
Forgets ==
  /\ seen' = NothingSeen
  /\ pending' = NoPolicy
  /\ outPath' = NoPath
  /\ late' = {}

Ends(result) == pc' = "off" /\ exit' = result /\ path' = NoPath /\ Forgets

\* A command's error ends the wizard.
\* (Mutated: the wizard carries on and looks again.)
Errors_Ignored(error) == pc' = "inspect" /\ exit' = error /\ UNCHANGED path /\ Forgets
Errors(error) == Ends(error)

\* The next turn of runWizardLoop, with the baseline path of this one.
Continues(next) == pc' = "inspect" /\ path' = next /\ UNCHANGED exit /\ Forgets

\* No, or a step that has nothing more to run: the E2E test is the user's,
\* inspect and ci only print, and an error of inspect is reported, not returned.
Decline ==
  /\ pc = "ask"
  /\ Ends("done")
  /\ UNCHANGED files

\* The refusals to overwrite, decided when the command runs.
\* (Mutated: decided by what the wizard saw.)
PolicyRefused_Stale == seen.hasPolicy
PolicyRefused == PolicyExists
BaselineRefused_Stale(out) == seen.hasBaseline
BaselineRefused(out) == BaselineExists(out)

\* The command was not refused: it goes on to write p.
GoesOnToWrite(p) ==
  /\ pc' = "writePolicy"
  /\ pending' = p
  /\ UNCHANGED <<path, seen, exit, outPath, late>>

\* init up to kubectl.
RunInit ==
  /\ Asks("init")
  /\ IF PolicyRefused THEN Errors("exists") ELSE GoesOnToWrite(InitPolicy)
  /\ UNCHANGED files

\* With the default strictness; the summary is loaded before the refusal.
RunRecommendPolicy ==
  /\ Asks("recommend-policy")
  /\ IF summary.state # "ok" THEN Errors("summary")
     ELSE IF PolicyRefused THEN Errors("exists")
     ELSE GoesOnToWrite(Draft("conservative", summary))
  /\ UNCHANGED files

\* os.WriteFile: the file is written, left truncated, or nothing happens.  It
\* does not look again whether there is one.
WritePolicy ==
  /\ pc = "writePolicy"
  /\ \/ policy' = pending /\ Continues(path)
     \/ policy' \in {policy, BrokenPolicy} /\ Errors("write")
  /\ UNCHANGED <<summary, baselines>>

\* The path the prompt suggests, and so what Enter means.
Suggested == IF path = NoPath THEN DefaultPath ELSE path

\* The grade and the refusal.  --allow-warn is offered when the gate was WARN
\* at the last look.
RunApprove(out, warn) ==
  /\ Asks("approve")
  /\ warn => seen.gateResult = "WARN"
  /\ IF ~Approved(warn) THEN Errors("rejected")
     ELSE IF BaselineRefused(out) THEN Errors("exists")
     ELSE pc' = "writeBaseline" /\ outPath' = out
          /\ UNCHANGED <<path, seen, exit, pending, late>>
  /\ UNCHANGED files

\* The second read and the write, a rename: a failing one changes nothing.
WriteBaseline ==
  /\ pc = "writeBaseline"
  /\ \/ /\ summary.state = "ok"
        /\ baselines' = [baselines EXCEPT ![outPath] = summary]
        /\ Continues(outPath)
     \/ UNCHANGED baselines /\ Errors(IF summary.state = "ok" THEN "write" ELSE "summary")
  /\ UNCHANGED <<policy, summary>>

Wizard ==
  \/ InspectFiles
  \/ EvaluateGate
  \/ Decline
  \/ RunInit
  \/ RunRecommendPolicy
  \/ WritePolicy
  \/ \E out \in Paths \cup {Suggested}, warn \in BOOLEAN : RunApprove(out, warn)
  \/ WriteBaseline

-----------------------------------------------------------------------------
(* Everybody else *)

\* Somebody else writes a file, perhaps while a command of the wizard runs.
Elsewhere(file) ==
  /\ late' = IF pc \in {"writePolicy", "writeBaseline"} THEN late \cup {file} ELSE late
  /\ UNCHANGED <<pc, path, seen, pending, outPath, exit>>

\* A session publishes, or removes the file.
Publish ==
  /\ summary' \in SummaryFiles
  /\ Elsewhere("summary")
  /\ UNCHANGED <<policy, baselines>>

\* init and recommend-policy from the command line: with --force, or after a
\* refusal that was decided before the file there was written, they overwrite.
CommandWritesPolicy(p) ==
  /\ policy' \in {p, BrokenPolicy}
  /\ Elsewhere("policy")
  /\ UNCHANGED <<summary, baselines>>

InitCommand == CommandWritesPolicy(InitPolicy)

Drafts(s) == IF s.state = "ok" THEN {Draft(strictness, s) : strictness \in Strictnesses} ELSE {}

AuditDrafts == UNION {Drafts(s) : s \in AuditFiles}

\* With any --strictness, of the alias or of an audit file.
RecommendCommand == \E p \in Drafts(summary) \cup AuditDrafts : CommandWritesPolicy(p)

\* baseline approve from the command line, likewise; its grade may be that of
\* an earlier summary.
ApproveCommand(out) ==
  /\ summary.state = "ok"
  /\ baselines' = [baselines EXCEPT ![out] = summary]
  /\ Elsewhere(out)
  /\ UNCHANGED <<policy, summary>>

EditPolicy ==
  /\ policy' \in UserPolicies
  /\ Elsewhere("policy")
  /\ UNCHANGED <<summary, baselines>>

Next ==
  \/ \E flag \in Flags : Start(flag)
  \/ Wizard
  \/ Publish
  \/ InitCommand
  \/ RecommendCommand
  \/ \E out \in Paths : ApproveCommand(out)
  \/ EditPolicy

\* The wizard's calls return and its user answers, if only by closing the input.
Spec == Init /\ [][Next]_vars /\ WF_vars(Wizard)

-----------------------------------------------------------------------------
(***************************************************************************)
(* Properties                                                              *)
(***************************************************************************)

TypeOK ==
  /\ IsPolicy(policy)
  /\ summary \in SummaryFiles
  /\ baselines \in [Paths -> SummaryFiles \cup {NoBaseline}]
  /\ pc \in {"off", "inspect", "evaluate", "ask", "writePolicy", "writeBaseline"}
  /\ path \in Paths \cup {NoPath}
  /\ seen \in [hasPolicy : BOOLEAN, hasSummary : BOOLEAN, summaryInvalid : BOOLEAN,
               gateResult : {"", "PASS", "WARN", "FAIL", "NO_GRADE"}, hasBaseline : BOOLEAN]
  /\ IsPolicy(pending)
  /\ outPath \in Paths \cup {NoPath}
  /\ pc = "writeBaseline" => outPath \in Paths
  /\ exit \in {"none", "done", "exists", "summary", "rejected", "write"}
  /\ late \subseteq Paths \cup {"policy", "summary"}

\* The wizard never passes --force: whatever was written until its command
\* decided not to refuse, by another terminal or by hand, while the wizard
\* waited for an answer or before, it leaves as it is, policy and baselines.
\* What was written after that decision it may overwrite.
WizardOverwritesNothing ==
  [][Wizard =>
       /\ PolicyExists /\ "policy" \notin late => policy' = policy
       /\ \A p \in Paths : BaselineExists(p) /\ p \notin late => baselines'[p] = baselines[p]]_vars

\* A baseline that the wizard writes is a PASS, although the summary and the
\* policy may have changed since the wizard graded them, and although the code
\* has a prompt for approving a WARN.  What changes after approve itself has
\* graded them is excepted.
WizardApprovesPass ==
  [][Wizard /\ baselines' # baselines /\ late \cap {"policy", "summary"} = {} =>
       Grade(policy, summary, NoBaseline) = "PASS"]_vars

\* runWizardLoop ends, whatever is published and whichever commands run beside
\* it: every turn but the last leaves a file that the next look finds.
WizardEnds == pc # "off" ~> pc = "off"

AgreesWithInit(s) ==
  \A strictness \in Strictnesses \ {"lenient"} :
    LET draft == Grade(Draft(strictness, s), s, NoBaseline)
        init == Grade(InitPolicy, s, NoBaseline)
    IN  /\ draft = "FAIL" <=> init = "FAIL"
        /\ init = "PASS" => draft = "PASS"

AuditFilesAgree == \A s \in AuditFiles : AgreesWithInit(s)

\* kubebuilderOperatorCandidates "mirrors the thresholds already generated by
\* init.go's policyTemplate": of one summary, a draft that holds nothing back
\* FAILs what init's policy FAILs, and passes whatever that passes.
DraftAgreesWithInit == AgreesWithInit(summary) /\ AuditFilesAgree

\* Summaries without a record that lacks a value and without foreign SLIs.
WellMeasured(s) ==
  /\ s.state = "ok"
  /\ ~RunUnreliable(s)
  /\ \A id \in DOMAIN s.results : ValueSufficient(s, id) /\ id \in ProfileIds

WarnsRightly(s) ==
  WellMeasured(s) =>
    \A strictness \in Strictnesses \ {"lenient"} :
      Grade(Draft(strictness, s), s, NoBaseline)
        = (IF MismatchNotes(strictness, s) = {} THEN "PASS" ELSE "FAIL")

AuditFilesWarnRightly == \A s \in AuditFiles : WarnsRightly(s)

\* recommend-policy: the draft warns beside a rule exactly when the gate would
\* not pass the very summary it was made from.
DraftWarnsRightly == WarnsRightly(summary) /\ AuditFilesWarnRightly

=============================================================================
