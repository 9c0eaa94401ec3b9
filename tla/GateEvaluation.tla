---------------------------- MODULE GateEvaluation ----------------------------
(***************************************************************************)
(* gate.Evaluate (pkg/gate/gate.go), step by step: the three inputs are    *)
(* loaded, each family of rules appends its checks to one output record,   *)
(* and the grade is computed from what they accumulated.  The measurement  *)
(* status is rewritten on the way (reliability.go), after the thresholds   *)
(* have been graded.                                                       *)
(***************************************************************************)
EXTENDS GateRules

CONSTANTS
  PolicyFiles,       \* the policies a behaviour may load
  MeasurementFiles,  \* the measurements
  BaselineFiles      \* the baselines, a record of state "absent" among them

ASSUME GateInputAssumption ==
  /\ \A p \in PolicyFiles : IsPolicy(p)
  /\ \A s \in MeasurementFiles \cup BaselineFiles : IsMeasurement(s)
  /\ \A s \in MeasurementFiles : s.state # "absent"

VARIABLES
  policy, measurement, baseline,  \* the inputs as they will load
  phase,                          \* the next call of Evaluate
  out                             \* gate.Summary

vars == <<policy, measurement, baseline, phase, out>>
inputs == <<policy, measurement, baseline>>

Phases == {"load", "thresholds", "regression", "reliability", "diagnostics",
           "coverage", "grade", "done"}

\* newSummary
NewSummary ==
  [grade |-> "NO_GRADE", evaluation |-> "not_evaluated", measurementStatus |-> "ok",
   reasons |-> {}, checks |-> {}]

Init ==
  /\ policy \in PolicyFiles
  /\ measurement \in MeasurementFiles
  /\ baseline \in BaselineFiles
  /\ phase = "load"
  /\ out = NewSummary

\* initPolicy, initMeasurement and initBaseline each add their own reason.
\* (Mutated: a baseline that does not load is not reported.)
LoadReasons_NoBaseline ==
  (CASE policy.state = "missing" -> {"POLICY_MISSING"}
     [] policy.state = "invalid" -> {"POLICY_INVALID"}
     [] OTHER -> {})
  \cup
  (CASE measurement.state = "missing" -> {"MEASUREMENT_INPUT_MISSING"}
     [] measurement.state = "corrupt" -> {"MEASUREMENT_INPUT_CORRUPT"}
     [] measurement.state = "unsupported_schema" -> {"MEASUREMENT_SCHEMA_UNSUPPORTED"}
     [] OTHER -> {})
LoadReasons ==
  (CASE policy.state = "missing" -> {"POLICY_MISSING"}
     [] policy.state = "invalid" -> {"POLICY_INVALID"}
     [] OTHER -> {})
  \cup
  (CASE measurement.state = "missing" -> {"MEASUREMENT_INPUT_MISSING"}
     [] measurement.state = "corrupt" -> {"MEASUREMENT_INPUT_CORRUPT"}
     [] measurement.state = "unsupported_schema" -> {"MEASUREMENT_SCHEMA_UNSUPPORTED"}
     [] OTHER -> {})
  \cup
  (CASE BaselineStatus(baseline) = "unavailable" -> {"BASELINE_UNAVAILABLE"}
     [] BaselineStatus(baseline) = "corrupt" -> {"BASELINE_CORRUPT"}
     [] OTHER -> {})

Load ==
  /\ phase = "load"
  /\ out' = [out EXCEPT !.reasons = LoadReasons, !.measurementStatus = measurement.state]
  /\ phase' = IF policy.state = "ok" /\ measurement.state = "ok" THEN "thresholds" ELSE "done"
  /\ UNCHANGED inputs

\* A family of rules appends its checks and their reasons.
Append(o, checks) ==
  [o EXCEPT !.checks = @ \cup checks,
            !.reasons = @ \cup ({c.reason : c \in checks} \ {""})]

Thresholds ==
  /\ phase = "thresholds"
  /\ out' = Append(out, RunThresholds(policy, measurement))
  /\ phase' = "regression"
  /\ UNCHANGED inputs

Regression ==
  /\ phase = "regression"
  /\ out' = Append(out, RunRegression(policy, measurement, baseline))
  /\ phase' = "reliability"
  /\ UNCHANGED inputs

Reliability ==
  /\ phase = "reliability"
  /\ LET checks == RunReliability(policy, measurement)
     IN  out' = [Append(out, checks) EXCEPT
                   !.measurementStatus =
                      IF \E c \in checks : c.effect # "none" THEN "insufficient" ELSE @]
  /\ phase' = "diagnostics"
  /\ UNCHANGED inputs

Diagnostics ==
  /\ phase = "diagnostics"
  /\ out' = Append(out, RecordProducerDiagnostics(measurement))
  /\ phase' = "coverage"
  /\ UNCHANGED inputs

Coverage ==
  /\ phase = "coverage"
  /\ out' = Append(out, RunCoverage(policy, measurement))
  /\ phase' = "grade"
  /\ UNCHANGED inputs

\* The checks of the output file: the two warnings without one left out.
Recorded(checks) == {c \in checks : c.status # "none"}

ComputeEvalStatus(checks) ==
  IF Recorded(checks) = {} THEN "not_evaluated"
  ELSE IF "noGrade" \in Effects(checks) THEN "partially_evaluated"
  ELSE "evaluated"

FinalGrade ==
  /\ phase = "grade"
  /\ out' = [out EXCEPT
               !.evaluation = ComputeEvalStatus(out.checks),
               !.grade = ComputeGateResult(Effects(out.checks), BaselineStatus(baseline),
                                           policy.regression)]
  /\ phase' = "done"
  /\ UNCHANGED inputs

Next ==
  \/ Load \/ Thresholds \/ Regression \/ Reliability
  \/ Diagnostics \/ Coverage \/ FinalGrade

Spec == Init /\ [][Next]_vars

-----------------------------------------------------------------------------
(***************************************************************************)
(* Properties                                                              *)
(***************************************************************************)

TypeOK ==
  /\ policy \in PolicyFiles
  /\ measurement \in MeasurementFiles
  /\ baseline \in BaselineFiles
  /\ phase \in Phases
  /\ out.grade \in {"PASS", "WARN", "FAIL", "NO_GRADE"}
  /\ out.evaluation \in {"evaluated", "partially_evaluated", "not_evaluated"}

\* What the policy's author takes for a measured value of id in the file s.
Evidence(s, id) ==
  /\ s.collection # "Failed" /\ s.evaluation # "Failed"
  /\ id \in DOMAIN s.results \ s.skipped
  /\ s.results[id].value \in Values
  /\ ~s.results[id].missing

\* The value of a rule's metric is evidence and satisfies, or misses, the rule.
Holds(r) ==
  Evidence(measurement, r.metric) /\ CompareOp(measurement.results[r.metric].value, r.op, r.target)
Missed(r) ==
  Evidence(measurement, r.metric) /\ ~CompareOp(measurement.results[r.metric].value, r.op, r.target)

\* Both sides of a rule's regression check are evidence of the same thing.
SameThing(r) ==
  /\ Evidence(measurement, r.metric)
  /\ Evidence(baseline, r.metric)
  /\ measurement.results[r.metric].identity = baseline.results[r.metric].identity
  /\ measurement.results[r.metric].identity \in Identities
Regressed(r) ==
  IsRegression(policy.tolerance, r.op, measurement.results[r.metric].value,
               baseline.results[r.metric].value)

\* Measured SLIs that neither a rule nor the informational list mentions.
Gaps ==
  {id \in Slis \ policy.informational :
     Evidence(measurement, id) /\ \A r \in policy.rules : r.metric # id}

\* What a regression check needs of the three files.
ProvablyComparable ==
  /\ baseline.state = "ok"
  /\ policy.version = "v2"
  /\ measurement.contract = "slo.v4" /\ baseline.contract = "slo.v4"

\* A condition of the promotion list really is violated.
Violated(condition) ==
  \/ condition = "threshold_miss" /\ \E r \in policy.rules : Missed(r)
  \/ /\ condition = "regression_detected"
     /\ policy.regression /\ ProvablyComparable
     /\ \E r \in policy.rules : SameThing(r) /\ Regressed(r)
  \/ condition = "coverage_gap" /\ policy.coverage /\ Gaps # {}

\* docs/gate-contract.md and gate.go: a PASS is never granted on missing,
\* skipped, partial-input or failed evidence, on an incomparable baseline, or
\* with a condition of the policy left unchecked, whichever rule family
\* noticed it and in whatever order the families ran.
PassIsProven ==
  phase = "done" /\ out.grade = "PASS" =>
    /\ policy.state = "ok" /\ measurement.state = "ok"
    /\ measurement.collection # "Failed" /\ measurement.evaluation # "Failed"
    /\ \A r \in policy.rules : Holds(r)
    /\ policy.regression =>
         /\ ProvablyComparable
         /\ \A r \in policy.rules : SameThing(r) /\ ~Regressed(r)
    /\ policy.required => ReliabilityRank(measurement.collection) >= RequiredRank(policy)
    /\ policy.coverage => Gaps = {}

\* A FAIL stands on evidence too: some promoted condition really is violated,
\* so an unreliable value or a condition the policy only warns about never
\* fails a build.
FailIsProven ==
  phase = "done" /\ out.grade = "FAIL" =>
    \E condition \in Promotions(policy) : Violated(condition)

\* evidence.go: "an unrelated insufficient SLI cannot poison an independently
\* sufficient one".  A violation of any promoted condition fails the gate,
\* whatever could not be graded beside it, and is not downgraded.
ViolationNotMasked ==
  /\ phase = "done"
  /\ policy.state = "ok" /\ measurement.state = "ok"
  /\ \E condition \in Promotions(policy) : Violated(condition)
  => out.grade = "FAIL"

\* Whoever reads a result other than PASS finds a reason code for it, and a
\* grade that is given is that of a complete evaluation or of a violation.
RefusalIsExplained ==
  phase = "done" =>
    /\ out.grade # "PASS" => out.reasons # {}
    /\ out.grade \in {"PASS", "WARN"} => out.evaluation = "evaluated"

\* A PASS with regression enabled (regression.go) never has a value worse than
\* its baseline by more than the tolerance, in the direction the operator of
\* the rule calls worse.  A zero baseline has no percentage: any worsening
\* counts.  The one exception is of the code: from zero it looks at the operator
\* alone, so a higher-is-better metric may fall below a baseline of zero.
PassIsNotWorse ==
  phase = "done" /\ out.grade = "PASS" /\ policy.regression =>
    \A r \in policy.rules :
      LET cur == measurement.results[r.metric].value
          old == baseline.results[r.metric].value
          t == policy.tolerance * Abs(old)
      IN  /\ LowerIsBetter(r.op) => 100 * (cur - old) <= t
          /\ HigherIsBetter(r.op) => 100 * (old - cur) <= t \/ old = 0

=============================================================================
