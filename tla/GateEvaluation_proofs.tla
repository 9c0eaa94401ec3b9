------------------------ MODULE GateEvaluation_proofs ------------------------
(***************************************************************************)
(* Proofs about GateEvaluation, for any policies, summaries and baselines. *)
(* The invariant says which families have run in each phase, and that the  *)
(* accumulated checks are exactly theirs; what a grade stands on then      *)
(* follows from the checks one by one.                                     *)
(***************************************************************************)
EXTENDS GateEvaluation, TLAPS

Fields == {"grade", "evaluation", "measurementStatus", "reasons", "checks"}

\* The families in the order they run, and the phases after each of them.
AfterThresholds == {"regression", "reliability", "diagnostics", "coverage", "grade"}
AfterRegression == {"reliability", "diagnostics", "coverage", "grade"}
AfterReliability == {"diagnostics", "coverage", "grade"}

Loaded == policy.state = "ok" /\ measurement.state = "ok"

\* Every check is one of a family's: nothing else ever makes a grade.
OnlyRules(checks) ==
  checks \subseteq RunThresholds(policy, measurement)
                   \cup RunRegression(policy, measurement, baseline)
                   \cup RunReliability(policy, measurement)
                   \cup RecordProducerDiagnostics(measurement)
                   \cup RunCoverage(policy, measurement)

\* Every grading family has appended its checks.
AllRules(checks) ==
  /\ RunThresholds(policy, measurement) \subseteq checks
  /\ RunRegression(policy, measurement, baseline) \subseteq checks
  /\ RunReliability(policy, measurement) \subseteq checks
  /\ RunCoverage(policy, measurement) \subseteq checks

Final ==
  /\ Loaded
  /\ AllRules(out.checks)
  /\ out.grade = ComputeGateResult(Effects(out.checks), BaselineStatus(baseline),
                                   policy.regression)
  /\ out.evaluation = ComputeEvalStatus(out.checks)

Inputs ==
  /\ policy \in PolicyFiles
  /\ measurement \in MeasurementFiles
  /\ baseline \in BaselineFiles

Progress ==
  /\ phase \in Phases
  /\ DOMAIN out = Fields
  /\ OnlyRules(out.checks)
  /\ phase \in AfterThresholds => RunThresholds(policy, measurement) \subseteq out.checks
  /\ phase \in AfterRegression =>
       RunRegression(policy, measurement, baseline) \subseteq out.checks
  /\ phase \in AfterReliability => RunReliability(policy, measurement) \subseteq out.checks
  /\ phase = "grade" => RunCoverage(policy, measurement) \subseteq out.checks
  /\ phase \notin {"load", "done"} => Loaded
  /\ phase # "done" => out.grade = "NO_GRADE" /\ out.evaluation = "not_evaluated"
  /\ phase = "done" =>
       \/ ~Loaded /\ out.grade = "NO_GRADE" /\ out.evaluation = "not_evaluated"
       \/ Final

GateInv == Inputs /\ Progress

-----------------------------------------------------------------------------

\* A new output record has no checks.
LEMMA GateInit == Init => GateInv
<1> SUFFICES ASSUME Init  PROVE GateInv  OBVIOUS
<1>1. Inputs  BY DEF Init, Inputs
<1>2. /\ DOMAIN out = Fields /\ out.checks = {}
      /\ out.grade = "NO_GRADE" /\ out.evaluation = "not_evaluated"
  BY DEF Init, NewSummary, Fields
<1>3. OnlyRules(out.checks)  BY <1>2 DEF OnlyRules
<1>4. QED
  BY <1>1, <1>2, <1>3
  DEF Init, GateInv, Progress, Phases, AfterThresholds, AfterRegression, AfterReliability

\* Appending adds checks and leaves the rest of the record alone.
LEMMA AppendFields ==
  ASSUME NEW o, DOMAIN o = Fields, NEW checks
  PROVE  /\ DOMAIN Append(o, checks) = Fields
         /\ Append(o, checks).checks = o.checks \cup checks
         /\ Append(o, checks).grade = o.grade
         /\ Append(o, checks).evaluation = o.evaluation
BY DEF Append, Fields

\* Each step keeps the account of which families have run.
LEMMA GateStep == GateInv /\ [Next]_vars => GateInv'
<1> SUFFICES ASSUME GateInv, [Next]_vars  PROVE GateInv'  OBVIOUS
<1> USE DEF GateInv
<1>1. ASSUME UNCHANGED inputs  PROVE Inputs'
  BY <1>1 DEF Inputs, inputs
<1>2. ASSUME NEW checks, NEW next \in Phases,
             UNCHANGED inputs, phase' = next, next \notin {"load", "done"},
             phase # "done", Loaded,
             DOMAIN out' = Fields,
             out'.checks = out.checks \cup checks,
             out'.grade = out.grade, out'.evaluation = out.evaluation,
             OnlyRules(checks),
             next \in AfterThresholds => RunThresholds(policy, measurement) \subseteq out'.checks,
             next \in AfterRegression =>
               RunRegression(policy, measurement, baseline) \subseteq out'.checks,
             next \in AfterReliability => RunReliability(policy, measurement) \subseteq out'.checks,
             next = "grade" => RunCoverage(policy, measurement) \subseteq out'.checks
      PROVE  GateInv'
  <2>1. Inputs'  BY <1>1, <1>2
  <2>2. policy' = policy /\ measurement' = measurement /\ baseline' = baseline
    BY <1>2 DEF inputs
  <2>3. OnlyRules(out.checks)'  BY <1>2, <2>2 DEF Progress, OnlyRules
  <2>4. Loaded'  BY <1>2, <2>2 DEF Loaded
  <2>5. out'.grade = "NO_GRADE" /\ out'.evaluation = "not_evaluated"
    BY <1>2 DEF Progress
  <2>6. Progress'  BY <1>2, <2>2, <2>3, <2>4, <2>5 DEF Progress
  <2>7. QED  BY <2>1, <2>6
<1>3. CASE Load
  <2>1. /\ DOMAIN out' = Fields /\ out'.checks = out.checks
        /\ out'.grade = out.grade /\ out'.evaluation = out.evaluation
    BY <1>3 DEF Load, Progress, Fields
  <2>2. policy' = policy /\ measurement' = measurement /\ baseline' = baseline
    BY <1>3 DEF Load, inputs
  <2>3. Inputs'  BY <1>1, <1>3 DEF Load
  <2>4. OnlyRules(out.checks)'  BY <2>1, <2>2 DEF Progress, OnlyRules
  <2>5. phase' = IF Loaded THEN "thresholds" ELSE "done"  BY <1>3 DEF Load, Loaded
  <2>6. phase = "load"  BY <1>3 DEF Load
  <2>7. Loaded' = Loaded  BY <2>2 DEF Loaded
  <2>8. Progress'
    BY <2>1, <2>4, <2>5, <2>6, <2>7
    DEF Progress, Phases, AfterThresholds, AfterRegression, AfterReliability
  <2>9. QED  BY <2>3, <2>8
<1>4. CASE Thresholds
  <2>1. OnlyRules(RunThresholds(policy, measurement))  BY DEF OnlyRules
  <2>2. QED
    BY <1>2, <1>4, <2>1, AppendFields
    DEF Thresholds, Progress, Phases, AfterThresholds, AfterRegression, AfterReliability
<1>5. CASE Regression
  <2>1. OnlyRules(RunRegression(policy, measurement, baseline))  BY DEF OnlyRules
  <2>2. QED
    BY <1>2, <1>5, <2>1, AppendFields
    DEF Regression, Progress, Phases, AfterThresholds, AfterRegression, AfterReliability
<1>6. CASE Reliability
  <2>1. OnlyRules(RunReliability(policy, measurement))  BY DEF OnlyRules
  <2> DEFINE o == Append(out, RunReliability(policy, measurement))
  <2>2. /\ DOMAIN o = Fields
        /\ o.checks = out.checks \cup RunReliability(policy, measurement)
        /\ o.grade = out.grade /\ o.evaluation = out.evaluation
    BY AppendFields DEF Progress
  <2>3. PICK status : out' = [o EXCEPT !.measurementStatus = status]
    BY <1>6 DEF Reliability
  <2>4. /\ DOMAIN out' = Fields
        /\ out'.checks = out.checks \cup RunReliability(policy, measurement)
        /\ out'.grade = out.grade /\ out'.evaluation = out.evaluation
    <3> HIDE DEF o
    <3> QED  BY <2>2, <2>3 DEF Fields
  <2>5. QED
    BY <1>2, <1>6, <2>1, <2>4
    DEF Reliability, Progress, Phases, AfterThresholds, AfterRegression, AfterReliability
<1>7. CASE Diagnostics
  <2>1. OnlyRules(RecordProducerDiagnostics(measurement))  BY DEF OnlyRules
  <2>2. QED
    BY <1>2, <1>7, <2>1, AppendFields
    DEF Diagnostics, Progress, Phases, AfterThresholds, AfterRegression, AfterReliability
<1>8. CASE Coverage
  <2>1. OnlyRules(RunCoverage(policy, measurement))  BY DEF OnlyRules
  <2>2. QED
    BY <1>2, <1>8, <2>1, AppendFields
    DEF Coverage, Progress, Phases, AfterThresholds, AfterRegression, AfterReliability
<1>9. CASE FinalGrade
  <2>1. policy' = policy /\ measurement' = measurement /\ baseline' = baseline
    BY <1>9 DEF FinalGrade, inputs
  <2>2. /\ phase = "grade" /\ phase' = "done"
        /\ DOMAIN out' = Fields /\ out'.checks = out.checks
        /\ out'.evaluation = ComputeEvalStatus(out.checks)
        /\ out'.grade = ComputeGateResult(Effects(out.checks), BaselineStatus(baseline),
                                          policy.regression)
    BY <1>9 DEF FinalGrade, Progress, Fields
  <2>3. Loaded /\ AllRules(out.checks)
    BY <2>2 DEF Progress, AllRules, AfterThresholds, AfterRegression, AfterReliability
  <2>4. Loaded' /\ AllRules(out.checks)'
    BY <2>1, <2>2, <2>3 DEF Loaded, AllRules
  <2>5. Final'  BY <2>1, <2>2, <2>4 DEF Final
  <2>6. OnlyRules(out.checks)'  BY <2>1, <2>2 DEF Progress, OnlyRules
  <2>7. Inputs'  BY <1>1, <1>9 DEF FinalGrade
  <2>8. Progress'
    BY <2>2, <2>5, <2>6
    DEF Progress, Phases, AfterThresholds, AfterRegression, AfterReliability
  <2>9. QED  BY <2>7, <2>8
<1>10. CASE UNCHANGED vars
  BY <1>10
  DEF vars, Inputs, Progress, Loaded, Final, AllRules, OnlyRules
<1>11. QED
  BY <1>3, <1>4, <1>5, <1>6, <1>7, <1>8, <1>9, <1>10 DEF Next

-----------------------------------------------------------------------------
(***************************************************************************)
(* What the final grade stands on                                          *)
(***************************************************************************)

\* The typed facts of valueSufficient are what a policy's author calls evidence.
LEMMA SufficientIsEvidence ==
  ASSUME NEW s, IsMeasurement(s), NEW id
  PROVE  ValueSufficient(s, id) <=> Evidence(s, id)
<1>1. ASSUME id \in DOMAIN s.results
      PROVE  s.results[id].value \in Values \cup {NoValue}
  BY <1>1 DEF IsMeasurement, Results
<1>2. QED
  BY <1>1, GateRulesAssumption DEF ValueSufficient, Evidence, RunUnreliable

\* The loaded inputs have the shape of their files.
LEMMA InputShapes ==
  ASSUME Inputs
  PROVE  /\ IsPolicy(policy) /\ IsMeasurement(measurement) /\ IsMeasurement(baseline)
         /\ \A r \in policy.rules : r.metric \in Slis
BY GateInputAssumption DEF Inputs, IsPolicy, Rules

\* No check of a passing gate had an effect.
LEMMA PassHasNoEffect ==
  ASSUME NEW checks, NEW status, NEW regression,
         ComputeGateResult(Effects(checks), status, regression) = "PASS"
  PROVE  /\ \A c \in checks : c.effect \notin {"failed", "noGrade", "warn"}
         /\ ~(status = "absent_first_run" /\ regression)
BY DEF ComputeGateResult, Effects

\* A gate fails exactly when a check does.
LEMMA FailHasFailedCheck ==
  ASSUME NEW checks, NEW status, NEW regression
  PROVE  ComputeGateResult(Effects(checks), status, regression) = "FAIL"
           <=> \E c \in checks : c.effect = "failed"
BY DEF ComputeGateResult, Effects

\* A missed check is never without effect.
LEMMA MissHasEffect ==
  ASSUME NEW p, NEW condition
  PROVE  /\ Effect(p, condition) \in {"failed", "warn"}
         /\ Effect(p, condition) = "failed" <=> condition \in Promotions(p)
BY DEF Effect

\* A threshold check without effect is one whose rule holds; a failed one is a
\* promoted miss, and every promoted miss is one.
LEMMA ThresholdCheck ==
  ASSUME Inputs, NEW r \in policy.rules
  PROVE  LET c == EvalThreshold(policy, measurement, r)
         IN  /\ c.effect \notin {"failed", "noGrade", "warn"} => Holds(r)
             /\ c.effect = "failed" <=> "threshold_miss" \in Promotions(policy) /\ Missed(r)
<1>1. ValueSufficient(measurement, r.metric) <=> Evidence(measurement, r.metric)
  BY InputShapes, SufficientIsEvidence
<1>2. /\ Effect(policy, "threshold_miss") \in {"failed", "warn"}
      /\ Effect(policy, "threshold_miss") = "failed"
           <=> "threshold_miss" \in Promotions(policy)
  BY MissHasEffect
<1>3. QED  BY <1>1, <1>2 DEF EvalThreshold, Check, Holds, Missed

\* The same of a regression check, over evidence of the same thing.
LEMMA RegressionCheck ==
  ASSUME Inputs, NEW r \in policy.rules
  PROVE  LET c == EvalRegressionCheck(policy, measurement, baseline, r)
         IN  /\ c.effect \notin {"failed", "noGrade", "warn"} => SameThing(r) /\ ~Regressed(r)
             /\ c.effect = "failed" <=>
                  /\ "regression_detected" \in Promotions(policy)
                  /\ SameThing(r) /\ Regressed(r)
<1>1. /\ ValueSufficient(measurement, r.metric) <=> Evidence(measurement, r.metric)
      /\ ValueSufficient(baseline, r.metric) <=> Evidence(baseline, r.metric)
  BY InputShapes, SufficientIsEvidence
<1>2. /\ Effect(policy, "regression_detected") \in {"failed", "warn"}
      /\ Effect(policy, "regression_detected") = "failed"
           <=> "regression_detected" \in Promotions(policy)
  BY MissHasEffect
<1>3. ASSUME Evidence(measurement, r.metric), Evidence(baseline, r.metric)
      PROVE  Comparable(measurement, baseline, r.metric) <=> SameThing(r)
  <2>1. measurement.results[r.metric].identity \in Identities \cup {NoIdentity}
    BY <1>3, InputShapes DEF Evidence, IsMeasurement, Results
  <2>2. QED  BY <1>3, <2>1, GateRulesAssumption DEF Comparable, SameThing
<1>4. SameThing(r) => Evidence(measurement, r.metric) /\ Evidence(baseline, r.metric)
  BY DEF SameThing
<1>5. QED
  BY <1>1, <1>2, <1>3, <1>4 DEF EvalRegressionCheck, Check, Regressed

\* Over comparable files, regression's checks are those of the rules.
LEMMA ComparableRegression ==
  ASSUME policy.regression, ProvablyComparable
  PROVE  RunRegression(policy, measurement, baseline)
           = {EvalRegressionCheck(policy, measurement, baseline, r) : r \in policy.rules}
BY DEF RunRegression, ProvablyComparable, BaselineStatus, TrustCorrect

\* The SLIs of coverage's checks are the gaps.
LEMMA UncoveredIsGaps ==
  ASSUME Inputs
  PROVE  Uncovered(policy, measurement) = Gaps
<1>1. IsMeasurement(measurement)  BY InputShapes
<1>2. \A id : ValueSufficient(measurement, id) <=> Evidence(measurement, id)
  BY <1>1, SufficientIsEvidence
<1>3. DOMAIN measurement.results \subseteq Slis  BY <1>1 DEF IsMeasurement
<1>4. \A id : Evidence(measurement, id) => id \in DOMAIN measurement.results
  BY DEF Evidence
<1>5. QED  BY <1>2, <1>3, <1>4 DEF Uncovered, Gaps

\* Under an enabled regression, a gate passes only over a comparable baseline.
LEMMA PassedRegression ==
  ASSUME Inputs, policy.regression,
         \A c \in RunRegression(policy, measurement, baseline) :
            c.effect \notin {"failed", "noGrade", "warn"}
  PROVE  /\ baseline.state = "ok"
         /\ TrustCorrect(policy, measurement, baseline)
         /\ \A r \in policy.rules : SameThing(r) /\ ~Regressed(r)
<1>1. BaselineStatus(baseline) # "absent_first_run"  BY DEF RunRegression, Check
<1>2. BaselineStatus(baseline) \notin {"unavailable", "corrupt"}
  BY <1>1 DEF RunRegression, Check
<1>3. baseline.state = "ok"
  <2>1. baseline.state \in {"ok", "missing", "corrupt", "unsupported_schema", "absent"}
    BY InputShapes DEF IsMeasurement
  <2>2. QED  BY <1>1, <1>2, <2>1 DEF BaselineStatus
<1>4. TrustCorrect(policy, measurement, baseline)
  BY <1>1, <1>2 DEF RunRegression, Check
<1>5. RunRegression(policy, measurement, baseline)
        = {EvalRegressionCheck(policy, measurement, baseline, r) : r \in policy.rules}
  BY <1>1, <1>2, <1>4 DEF RunRegression
<1>6. QED  BY <1>3, <1>4, <1>5, RegressionCheck

\* What a PASS stands on.
LEMMA PassFollows == GateInv => PassIsProven
<1> SUFFICES ASSUME GateInv, phase = "done", out.grade = "PASS"
             PROVE  PassIsProven
  BY DEF PassIsProven
<1>1. Inputs /\ Final  BY DEF GateInv, Progress
<1>2. /\ \A c \in out.checks : c.effect \notin {"failed", "noGrade", "warn"}
      /\ AllRules(out.checks)
  BY <1>1, PassHasNoEffect DEF Final
<1>3. policy.state = "ok" /\ measurement.state = "ok"  BY <1>1 DEF Final, Loaded
<1>4. \A r \in policy.rules : Holds(r)
  BY <1>1, <1>2, ThresholdCheck DEF AllRules, RunThresholds
<1>5. policy.regression =>
        /\ baseline.state = "ok"
        /\ TrustCorrect(policy, measurement, baseline)
        /\ \A r \in policy.rules : SameThing(r) /\ ~Regressed(r)
  BY <1>1, <1>2, PassedRegression DEF AllRules
<1>6. /\ ~RunUnreliable(measurement)
      /\ policy.required => ~(ReliabilityRank(measurement.collection) < RequiredRank(policy))
  BY <1>2 DEF AllRules, RunReliability, Check
<1>7. policy.required => ReliabilityRank(measurement.collection) >= RequiredRank(policy)
  BY <1>6 DEF ReliabilityRank, RequiredRank
<1>8. policy.coverage => Gaps = {}
  <2> SUFFICES ASSUME policy.coverage, Gaps # {}  PROVE FALSE  OBVIOUS
  <2>1. PICK id \in Uncovered(policy, measurement) : TRUE  BY <1>1, UncoveredIsGaps
  <2> DEFINE effect == Effect(policy, "coverage_gap")
             c == Check("coverage", id, IF effect = "failed" THEN "fail" ELSE "warn",
                        effect, "COVERAGE_GAP")
  <2>2. c \in RunCoverage(policy, measurement)  BY <2>1 DEF RunCoverage
  <2>3. c \in out.checks  BY <1>2, <2>2 DEF AllRules
  <2>4. c.effect \in {"failed", "warn"}  BY MissHasEffect DEF Check
  <2>5. QED  BY <1>2, <2>3, <2>4
<1>9. QED
  BY <1>3, <1>4, <1>5, <1>6, <1>7, <1>8
     DEF PassIsProven, RunUnreliable, TrustCorrect, ProvablyComparable

\* What a FAIL stands on.
LEMMA FailFollows == GateInv => FailIsProven
<1> SUFFICES ASSUME GateInv, phase = "done", out.grade = "FAIL"
             PROVE  \E condition \in Promotions(policy) : Violated(condition)
  BY DEF FailIsProven
<1>1. Inputs /\ Final /\ OnlyRules(out.checks)  BY DEF GateInv, Progress
<1>2. PICK c \in out.checks : c.effect = "failed"
  BY <1>1, FailHasFailedCheck DEF Final
<1>3. CASE c \in RunThresholds(policy, measurement)
  BY <1>1, <1>2, <1>3, ThresholdCheck DEF RunThresholds, Violated
<1>4. CASE c \in RunRegression(policy, measurement, baseline)
  <2>1. policy.regression  BY <1>4 DEF RunRegression
  <2>2. c \in {EvalRegressionCheck(policy, measurement, baseline, r) : r \in policy.rules}
    <3>1. \A reason, status, effect : effect # "failed" =>
            c # Check("regression", "*", status, effect, reason)
      BY <1>2 DEF Check
    <3>2. QED  BY <1>4, <3>1, <2>1 DEF RunRegression
  <2>3. PICK r \in policy.rules : c = EvalRegressionCheck(policy, measurement, baseline, r)
    BY <2>2
  <2>4. ProvablyComparable
    <3> DEFINE first == Check("regression", "*", "none", "warn", "BASELINE_ABSENT_FIRST_RUN")
               lost == Check("regression", "*", "none", "noGrade", "")
               other == Check("regression", "*", "no_grade", "noGrade", "BASELINE_INCOMPARABLE")
    <3>1. c \notin {first, lost, other}
      <4>1. first.effect = "warn" /\ lost.effect = "noGrade" /\ other.effect = "noGrade"
        BY DEF Check
      <4> HIDE DEF first, lost, other
      <4>2. QED  BY <1>2, <4>1
    <3>2. BaselineStatus(baseline) \notin {"absent_first_run", "unavailable", "corrupt"}
      BY <1>4, <2>1, <3>1 DEF RunRegression
    <3>3. baseline.state = "ok"
      BY <1>1, <3>2, InputShapes DEF IsMeasurement, BaselineStatus
    <3>4. TrustCorrect(policy, measurement, baseline)
      BY <1>4, <2>1, <3>1, <3>2 DEF RunRegression
    <3>5. QED  BY <3>3, <3>4 DEF TrustCorrect, ProvablyComparable
  <2>5. QED  BY <1>1, <1>2, <2>1, <2>3, <2>4, RegressionCheck DEF Violated
<1>5. CASE c \in RunReliability(policy, measurement)
  <2>1. \A reason, status, effect : effect # "failed" =>
          c # Check("reliability", "*", status, effect, reason)
    BY <1>2 DEF Check
  <2>2. QED  BY <1>5, <2>1 DEF RunReliability
<1>6. CASE c \in RecordProducerDiagnostics(measurement)
  <2>1. \A id : Check("measurement_diagnostic", id, "info", "none", "").effect = "none"
    BY DEF Check
  <2>2. QED  BY <1>2, <1>6, <2>1 DEF RecordProducerDiagnostics
<1>7. CASE c \in RunCoverage(policy, measurement)
  <2>1. policy.coverage /\ Uncovered(policy, measurement) # {}
    BY <1>7 DEF RunCoverage
  <2>2. c.effect = Effect(policy, "coverage_gap")  BY <1>7 DEF RunCoverage, Check
  <2>3. "coverage_gap" \in Promotions(policy)  BY <1>2, <2>2, MissHasEffect
  <2>4. QED  BY <1>1, <2>1, <2>3, UncoveredIsGaps DEF Violated
<1>8. QED  BY <1>1, <1>3, <1>4, <1>5, <1>6, <1>7 DEF OnlyRules

\* A promoted violation is a failed check, whatever the others are.
LEMMA ViolationFollows == GateInv => ViolationNotMasked
<1> SUFFICES ASSUME GateInv, phase = "done", Loaded,
                    NEW condition \in Promotions(policy), Violated(condition)
             PROVE  \E c \in out.checks : c.effect = "failed"
  BY FailHasFailedCheck DEF ViolationNotMasked, Loaded, GateInv, Progress, Final
<1>1. Inputs /\ AllRules(out.checks)  BY DEF GateInv, Progress, Final
<1>2. ASSUME condition = "threshold_miss", NEW r \in policy.rules, Missed(r)
      PROVE  \E c \in out.checks : c.effect = "failed"
  <2>1. EvalThreshold(policy, measurement, r).effect = "failed"
    BY <1>1, <1>2, ThresholdCheck
  <2>2. QED  BY <1>1, <1>2, <2>1 DEF AllRules, RunThresholds
<1>3. ASSUME condition = "regression_detected", policy.regression, ProvablyComparable,
             NEW r \in policy.rules, SameThing(r), Regressed(r)
      PROVE  \E c \in out.checks : c.effect = "failed"
  <2>1. EvalRegressionCheck(policy, measurement, baseline, r).effect = "failed"
    BY <1>1, <1>3, RegressionCheck
  <2>2. QED  BY <1>1, <1>3, <2>1, ComparableRegression DEF AllRules
<1>4. ASSUME condition = "coverage_gap", policy.coverage, Gaps # {}
      PROVE  \E c \in out.checks : c.effect = "failed"
  <2>1. PICK id \in Uncovered(policy, measurement) : TRUE  BY <1>1, <1>4, UncoveredIsGaps
  <2>2. Effect(policy, "coverage_gap") = "failed"  BY <1>4, MissHasEffect
  <2> DEFINE c == Check("coverage", id, "fail", "failed", "COVERAGE_GAP")
  <2>3. c \in RunCoverage(policy, measurement)  BY <1>4, <2>1, <2>2 DEF RunCoverage
  <2>4. c.effect = "failed"  BY DEF Check
  <2>5. QED  BY <1>1, <2>3, <2>4 DEF AllRules
<1>5. QED  BY <1>2, <1>3, <1>4 DEF Violated

\* A rule's value that is no regression is no worse than the tolerance.
LEMMA NoRegressionNoWorse ==
  ASSUME NEW tol \in Nat, NEW op, NEW cur \in Int, NEW base \in Int,
         ~IsRegression(tol, op, cur, base)
  PROVE  /\ LowerIsBetter(op) => 100 * (cur - base) <= tol * Abs(base)
         /\ HigherIsBetter(op) => 100 * (base - cur) <= tol * Abs(base) \/ base = 0
<1> DEFINE t == tol * Abs(base)
<1>1. Abs(base) \in Nat  BY DEF Abs
<1>2. t \in Int /\ 100 * (cur - base) \in Int  BY <1>1
<1>3. 100 * (base - cur) = -(100 * (cur - base))  OBVIOUS
<1>4. CASE base = 0
  <2>1. t = 0  BY <1>4 DEF Abs
  <2>2. ~HigherIsBetter(op) => cur = 0
    BY <1>4 DEF IsRegression
  <2>3. LowerIsBetter(op) => ~HigherIsBetter(op)  BY DEF LowerIsBetter, HigherIsBetter
  <2>4. cur = 0 => 100 * (cur - base) <= t  BY <1>4, <2>1
  <2>5. QED  BY <1>4, <2>2, <2>3, <2>4
<1>5. CASE base # 0
  <2>1. /\ ~(LowerIsBetter(op) /\ 100 * (cur - base) > t)
        /\ ~(HigherIsBetter(op) /\ 100 * (cur - base) < -t)
    BY <1>5 DEF IsRegression
  <2> HIDE DEF t
  <2>2. QED  BY <2>1, <1>2, <1>3 DEF t
<1>6. QED  BY <1>4, <1>5

\* The evidence of a PASS bounds how much worse it may be.
LEMMA NotWorseFollows == GateInv => PassIsNotWorse
<1> SUFFICES ASSUME GateInv, phase = "done", out.grade = "PASS", policy.regression,
                    NEW r \in policy.rules
             PROVE  LET cur == measurement.results[r.metric].value
                        old == baseline.results[r.metric].value
                        t == policy.tolerance * Abs(old)
                    IN  /\ LowerIsBetter(r.op) => 100 * (cur - old) <= t
                        /\ HigherIsBetter(r.op) => 100 * (old - cur) <= t \/ old = 0
  BY DEF PassIsNotWorse
<1> DEFINE cur == measurement.results[r.metric].value
           old == baseline.results[r.metric].value
<1>1. SameThing(r) /\ ~Regressed(r)  BY PassFollows DEF PassIsProven
<1>2. cur \in Int /\ old \in Int  BY <1>1, GateRulesAssumption DEF SameThing, Evidence
<1>3. policy.tolerance \in Nat  BY GateInputAssumption DEF GateInv, Inputs, IsPolicy
<1>4. ~IsRegression(policy.tolerance, r.op, cur, old)  BY <1>1 DEF Regressed
<1> HIDE DEF cur, old
<1>5. QED  BY <1>2, <1>3, <1>4, NoRegressionNoWorse DEF cur, old

-----------------------------------------------------------------------------
(***************************************************************************)
(* What the reasons explain, and what the grade is a function of           *)
(***************************************************************************)

\* The reasons of what did not load, and of every check, are in the output.
ReasonInv ==
  /\ phase = "load" => out.checks = {}
  /\ phase # "load" => LoadReasons \subseteq out.reasons
  /\ \A c \in out.checks : c.reason # "" => c.reason \in out.reasons

LEMMA AppendReasons ==
  ASSUME NEW o, DOMAIN o = Fields, NEW checks
  PROVE  Append(o, checks).reasons = o.reasons \cup ({c.reason : c \in checks} \ {""})
BY DEF Append, Fields

LEMMA ReasonInit == Init => ReasonInv
BY DEF Init, ReasonInv, NewSummary

\* A family adds the reasons of its checks.
LEMMA FamilyReasons ==
  ASSUME ReasonInv, phase # "load", phase' # "load", UNCHANGED inputs, NEW checks,
         out'.checks = out.checks \cup checks,
         out'.reasons = out.reasons \cup ({c.reason : c \in checks} \ {""})
  PROVE  ReasonInv'
<1>1. LoadReasons' = LoadReasons
  BY DEF inputs, LoadReasons
<1>2. LoadReasons' \subseteq out'.reasons
  BY <1>1 DEF ReasonInv
<1>3. \A c \in out'.checks : c.reason # "" => c.reason \in out'.reasons
  BY DEF ReasonInv
<1> QED  BY <1>2, <1>3 DEF ReasonInv

LEMMA AppendStep ==
  ASSUME ReasonInv, DOMAIN out = Fields, NEW checks, out' = Append(out, checks),
         phase # "load", phase' # "load", UNCHANGED inputs
  PROVE  ReasonInv'
<1>1. /\ out'.checks = out.checks \cup checks
      /\ out'.reasons = out.reasons \cup ({c.reason : c \in checks} \ {""})
  BY AppendFields, AppendReasons
<1> QED  BY <1>1, FamilyReasons

LEMMA ReasonStep == GateInv /\ ReasonInv /\ [Next]_vars => ReasonInv'
<1> SUFFICES ASSUME GateInv, ReasonInv, [Next]_vars  PROVE ReasonInv'  OBVIOUS
<1>1. DOMAIN out = Fields  BY DEF GateInv, Progress
<1>2. CASE Load
  <2>1. out'.reasons = LoadReasons /\ out'.checks = {} /\ phase' # "load"
    BY <1>1, <1>2 DEF Load, Fields, ReasonInv
  <2>2. LoadReasons' = LoadReasons  BY <1>2 DEF Load, inputs, LoadReasons
  <2> QED  BY <2>1, <2>2 DEF ReasonInv
<1>3. CASE Thresholds
  BY <1>1, <1>3, AppendStep DEF Thresholds
<1>4. CASE Regression
  BY <1>1, <1>4, AppendStep DEF Regression
<1>5. CASE Reliability
  <2> DEFINE checks == RunReliability(policy, measurement)
             o == Append(out, checks)
  <2>1. /\ DOMAIN o = Fields /\ o.checks = out.checks \cup checks
        /\ o.reasons = out.reasons \cup ({c.reason : c \in checks} \ {""})
    BY <1>1, AppendFields, AppendReasons
  <2>2. PICK status : out' = [o EXCEPT !.measurementStatus = status]
    BY <1>5 DEF Reliability
  <2>3. out'.checks = o.checks /\ out'.reasons = o.reasons
    <3> HIDE DEF o
    <3> QED  BY <2>1, <2>2 DEF Fields
  <2>4. phase # "load" /\ phase' # "load" /\ UNCHANGED inputs
    BY <1>5 DEF Reliability
  <2> QED  BY <2>1, <2>3, <2>4, FamilyReasons
<1>6. CASE Diagnostics
  BY <1>1, <1>6, AppendStep DEF Diagnostics
<1>7. CASE Coverage
  BY <1>1, <1>7, AppendStep DEF Coverage
<1>8. CASE FinalGrade
  <2>1. out'.checks = out.checks /\ out'.reasons = out.reasons
    BY <1>1, <1>8 DEF FinalGrade, Fields
  <2>2. LoadReasons' = LoadReasons /\ phase # "load" /\ phase' # "load"
    BY <1>8 DEF FinalGrade, inputs, LoadReasons
  <2> QED  BY <2>1, <2>2 DEF ReasonInv
<1>9. CASE UNCHANGED vars
  BY <1>9 DEF vars, ReasonInv, LoadReasons
<1> QED
  BY <1>2, <1>3, <1>4, <1>5, <1>6, <1>7, <1>8, <1>9 DEF Next

\* An input that does not load has a reason of its own.
LEMMA UnloadedHasReason ==
  ASSUME Inputs, ~Loaded  PROVE LoadReasons # {}
<1>1. policy.state \in {"ok", "missing", "invalid"}
  BY InputShapes DEF IsPolicy
<1>2. measurement.state \in {"ok", "missing", "corrupt", "unsupported_schema"}
  BY InputShapes, GateInputAssumption DEF IsMeasurement, Inputs
<1>3. CASE policy.state # "ok"
  <2>1. "POLICY_MISSING" \in LoadReasons \/ "POLICY_INVALID" \in LoadReasons
    BY <1>1, <1>3 DEF LoadReasons
  <2> QED  BY <2>1
<1>4. CASE measurement.state # "ok"
  <2>1. \E reason \in {"MEASUREMENT_INPUT_MISSING", "MEASUREMENT_INPUT_CORRUPT",
                       "MEASUREMENT_SCHEMA_UNSUPPORTED"} : reason \in LoadReasons
    BY <1>2, <1>4 DEF LoadReasons
  <2> QED  BY <2>1
<1> QED  BY <1>3, <1>4 DEF Loaded

LEMMA DiagnosticHasNoEffect ==
  ASSUME NEW c \in RecordProducerDiagnostics(measurement)  PROVE c.effect = "none"
<1>1. PICK id : c = Check("measurement_diagnostic", id, "info", "none", "")
  BY DEF RecordProducerDiagnostics
<1> QED  BY <1>1 DEF Check

\* A check with an effect has a reason, but for the one of a baseline that did
\* not load, which has given its reason before.
LEMMA EffectHasReason ==
  ASSUME OnlyRules(out.checks), NEW c \in out.checks, c.effect # "none"
  PROVE  c.reason # "" \/ LoadReasons # {}
<1>1. CASE c \in RunThresholds(policy, measurement)
  <2>1. PICK r \in policy.rules : c = EvalThreshold(policy, measurement, r)
    BY <1>1 DEF RunThresholds
  <2> QED  BY <2>1 DEF Check, EvalThreshold, InsufficientReason
<1>2. CASE c \in RunRegression(policy, measurement, baseline)
  <2>1. CASE BaselineStatus(baseline) \in {"unavailable", "corrupt"}
    <3>1. "BASELINE_UNAVAILABLE" \in LoadReasons \/ "BASELINE_CORRUPT" \in LoadReasons
      BY <2>1 DEF LoadReasons
    <3> QED  BY <3>1
  <2>2. CASE BaselineStatus(baseline) \notin {"unavailable", "corrupt"}
    <3>1. \/ c = Check("regression", "*", "none", "warn", "BASELINE_ABSENT_FIRST_RUN")
          \/ c = Check("regression", "*", "no_grade", "noGrade", "BASELINE_INCOMPARABLE")
          \/ \E r \in policy.rules : c = EvalRegressionCheck(policy, measurement, baseline, r)
      BY <1>2, <2>2 DEF RunRegression
    <3>2. CASE \E r \in policy.rules : c = EvalRegressionCheck(policy, measurement, baseline, r)
      <4>1. PICK r \in policy.rules : c = EvalRegressionCheck(policy, measurement, baseline, r)
        BY <3>2
      <4> QED  BY <4>1 DEF Check, EvalRegressionCheck
    <3>3. CASE c = Check("regression", "*", "none", "warn", "BASELINE_ABSENT_FIRST_RUN")
      BY <3>3 DEF Check
    <3>4. CASE c = Check("regression", "*", "no_grade", "noGrade", "BASELINE_INCOMPARABLE")
      BY <3>4 DEF Check
    <3> QED  BY <3>1, <3>2, <3>3, <3>4
  <2> QED  BY <2>1, <2>2
<1>3. CASE c \in RunReliability(policy, measurement)
  <2>1. CASE c = Check("reliability", "*", "no_grade", "noGrade", "COLLECTION_FAILED")
    BY <2>1 DEF Check
  <2>2. CASE c = Check("reliability", "*", "warn", "warn", "RELIABILITY_INSUFFICIENT")
    BY <2>2 DEF Check
  <2>3. CASE c = Check("reliability", "*", "pass", "none", "")
    BY <2>3 DEF Check
  <2> QED  BY <1>3, <2>1, <2>2, <2>3 DEF RunReliability
<1>4. CASE c \in RecordProducerDiagnostics(measurement)
  BY <1>4, DiagnosticHasNoEffect
<1>5. CASE c \in RunCoverage(policy, measurement)
  <2>1. PICK id, status, effect : c = Check("coverage", id, status, effect, "COVERAGE_GAP")
    BY <1>5 DEF RunCoverage
  <2> QED  BY <2>1 DEF Check
<1> QED  BY <1>1, <1>2, <1>3, <1>4, <1>5 DEF OnlyRules

\* A grade other than PASS is the effect of some check.
LEMMA RefusalHasEffect ==
  ASSUME Final, out.grade # "PASS"
  PROVE  \E c \in out.checks : c.effect # "none"
<1> DEFINE effects == Effects(out.checks)
<1>1. CASE BaselineStatus(baseline) = "absent_first_run" /\ policy.regression
  <2> DEFINE c == Check("regression", "*", "none", "warn", "BASELINE_ABSENT_FIRST_RUN")
  <2>1. c \in RunRegression(policy, measurement, baseline)
    BY <1>1 DEF RunRegression
  <2>2. c \in out.checks /\ c.effect = "warn"
    BY <2>1 DEF Final, AllRules, Check
  <2> QED  BY <2>2
<1>2. CASE ~(BaselineStatus(baseline) = "absent_first_run" /\ policy.regression)
  <2>1. {"failed", "noGrade", "warn"} \cap effects # {}
    BY <1>2 DEF Final, ComputeGateResult
  <2> QED  BY <2>1 DEF Effects
<1> QED  BY <1>1, <1>2

LEMMA RefusalFollows == GateInv /\ ReasonInv => RefusalIsExplained
<1> SUFFICES ASSUME GateInv, ReasonInv, phase = "done"
             PROVE  /\ out.grade # "PASS" => out.reasons # {}
                    /\ out.grade \in {"PASS", "WARN"} => out.evaluation = "evaluated"
  BY DEF RefusalIsExplained
<1>1. Inputs /\ OnlyRules(out.checks) /\ LoadReasons \subseteq out.reasons
  BY DEF GateInv, Progress, ReasonInv
<1>2. CASE ~Loaded
  BY <1>1, <1>2, UnloadedHasReason DEF GateInv, Progress, Final
<1>3. CASE Loaded
  <2>1. Final  BY <1>3 DEF GateInv, Progress
  <2>2. ASSUME out.grade # "PASS"  PROVE out.reasons # {}
    <3>1. PICK c \in out.checks : c.effect # "none"  BY <2>1, <2>2, RefusalHasEffect
    <3> QED  BY <1>1, <3>1, EffectHasReason DEF ReasonInv
  <2>3. ASSUME out.grade \in {"PASS", "WARN"}  PROVE out.evaluation = "evaluated"
    <3>1. "noGrade" \notin Effects(out.checks)
      BY <2>1, <2>3 DEF Final, ComputeGateResult
    <3>2. PICK c \in RunReliability(policy, measurement) : c.status # "none"
      BY DEF RunReliability, Check
    <3>3. Recorded(out.checks) # {}
      BY <2>1, <3>2 DEF Final, AllRules, Recorded
    <3> QED  BY <2>1, <3>1, <3>3 DEF Final, ComputeEvalStatus
  <2> QED  BY <2>2, <2>3
<1> QED  BY <1>2, <1>3

\* The effects that count for a grade are those of the four grading families.
LEMMA GradeFollows ==
  GateInv /\ phase = "done" => out.grade = Grade(policy, measurement, baseline)
<1> SUFFICES ASSUME GateInv, phase = "done"
             PROVE  out.grade = Grade(policy, measurement, baseline)
  OBVIOUS
<1>1. CASE ~Loaded
  BY <1>1 DEF GateInv, Progress, Final, Grade, Loaded
<1>2. CASE Loaded
  <2> DEFINE rules == RunThresholds(policy, measurement)
                        \cup RunRegression(policy, measurement, baseline)
                        \cup RunReliability(policy, measurement)
                        \cup RunCoverage(policy, measurement)
  <2>1. Final /\ OnlyRules(out.checks)  BY <1>2 DEF GateInv, Progress
  <2>2. \A c \in RecordProducerDiagnostics(measurement) : c.effect = "none"
    BY DiagnosticHasNoEffect
  <2>3. /\ rules \subseteq out.checks
        /\ \A c \in out.checks : c \in rules \/ c.effect = "none"
    BY <2>1, <2>2 DEF Final, AllRules, OnlyRules
  <2> HIDE DEF rules
  <2>4. \A e \in {"failed", "noGrade", "warn"} : e \in Effects(out.checks) <=> e \in Effects(rules)
    BY <2>3 DEF Effects
  <2>5. Grade(policy, measurement, baseline)
          = ComputeGateResult(Effects(rules), BaselineStatus(baseline), policy.regression)
    BY <1>2 DEF Grade, Loaded, rules
  <2> QED  BY <2>1, <2>4, <2>5 DEF Final, ComputeGateResult
<1> QED  BY <1>1, <1>2

-----------------------------------------------------------------------------
(***************************************************************************)
(* Two policies compared                                                   *)
(***************************************************************************)

\* The policy q asks for nothing that p does not ask for, whatever it promotes.
NoStricter(q, p) ==
  /\ q.state = "ok" /\ q.rules \subseteq p.rules
  /\ q.regression => /\ p.regression /\ q.version = p.version
                     /\ q.tolerance >= p.tolerance
  /\ q.required => p.required /\ RequiredRank(q) <= RequiredRank(p)
  /\ q.coverage => /\ p.coverage /\ q.rules = p.rules
                   /\ p.informational \subseteq q.informational

\* q is p, promoting at least what p does.  An empty list promotes everything.
PromotesMore(q, p) ==
  /\ q.state = p.state /\ q.version = p.version /\ q.rules = p.rules
  /\ q.regression = p.regression /\ q.tolerance = p.tolerance
  /\ q.required = p.required /\ q.minLevel = p.minLevel
  /\ q.coverage = p.coverage /\ q.informational = p.informational
  /\ Promotions(p) \subseteq Promotions(q)

Harmless(checks) == \A c \in checks : c.effect \notin {"failed", "noGrade", "warn"}
AllChecks(p, s, b) ==
  RunThresholds(p, s) \cup RunRegression(p, s, b) \cup RunReliability(p, s) \cup RunCoverage(p, s)

\* A grade is PASS exactly when no check has an effect, except on a first run.
LEMMA PassIsHarmless ==
  ASSUME NEW p, NEW s, NEW b
  PROVE  Grade(p, s, b) = "PASS" <=>
           /\ p.state = "ok" /\ s.state = "ok"
           /\ Harmless(AllChecks(p, s, b))
           /\ ~(BaselineStatus(b) = "absent_first_run" /\ p.regression)
<1> DEFINE checks == AllChecks(p, s, b)
<1>1. CASE p.state = "ok" /\ s.state = "ok"
  <2>1. Grade(p, s, b) = ComputeGateResult(Effects(checks), BaselineStatus(b), p.regression)
    BY <1>1 DEF Grade, AllChecks
  <2> HIDE DEF checks
  <2>2. Harmless(checks) <=> \A e \in {"failed", "noGrade", "warn"} : e \notin Effects(checks)
    BY DEF Harmless, Effects
  <2> QED  BY <1>1, <2>1, <2>2 DEF ComputeGateResult, checks
<1> QED  BY <1>1 DEF Grade

\* More tolerance turns no value into a regression.
LEMMA ToleranceHelps ==
  ASSUME NEW t \in Nat, NEW u \in Nat, u >= t, NEW op, NEW cur \in Int, NEW base \in Int,
         ~IsRegression(t, op, cur, base)
  PROVE  ~IsRegression(u, op, cur, base)
<1> DEFINE a == Abs(base)
           d == 100 * (cur - base)
<1>1. a \in Nat /\ d \in Int  BY DEF Abs
<1>2. t * a \in Int /\ u * a \in Int /\ t * a <= u * a
  <2> HIDE DEF a
  <2>1. \A k \in Nat : k * a \in Nat  BY <1>1
  <2>2. u * a = t * a + (u - t) * a /\ u - t \in Nat  BY <1>1
  <2> QED  BY <2>1, <2>2
<1>3. Abs(d) \in Int  BY <1>1 DEF Abs
<1>4. CASE base = 0 /\ cur # 0  BY <1>4 DEF IsRegression
<1>5. CASE ~(base = 0 /\ cur # 0)
  <2>1. \A k : IsRegression(k, op, cur, base) <=>
          \/ LowerIsBetter(op) /\ d > k * a
          \/ HigherIsBetter(op) /\ d < -(k * a)
          \/ ~LowerIsBetter(op) /\ ~HigherIsBetter(op) /\ Abs(d) > k * a
    BY <1>5 DEF IsRegression
  <2> HIDE DEF a, d
  <2> QED  BY <1>1, <1>2, <1>3, <2>1
<1> QED  BY <1>4, <1>5

\* The regression checks of a policy that asks for no more.
LEMMA WeakerRegression ==
  ASSUME NEW p, NEW q, NEW s, NEW b, IsPolicy(p), IsPolicy(q), IsMeasurement(s), IsMeasurement(b),
         NoStricter(q, p), Harmless(RunRegression(p, s, b))
  PROVE  Harmless(RunRegression(q, s, b))
<1>1. CASE ~q.regression  BY <1>1 DEF RunRegression, Harmless
<1>2. CASE q.regression
  <2>1. p.regression /\ q.version = p.version /\ q.tolerance >= p.tolerance /\ q.rules \subseteq p.rules
    BY <1>2 DEF NoStricter
  <2>2. BaselineStatus(b) \notin {"absent_first_run", "unavailable", "corrupt"}
    BY <2>1 DEF RunRegression, Check, Harmless
  <2>3. TrustCorrect(p, s, b)  BY <2>1, <2>2 DEF RunRegression, Check, Harmless
  <2>4. TrustCorrect(q, s, b)  BY <2>1, <2>3 DEF TrustCorrect
  <2>5. /\ RunRegression(p, s, b) = {EvalRegressionCheck(p, s, b, r) : r \in p.rules}
        /\ RunRegression(q, s, b) = {EvalRegressionCheck(q, s, b, r) : r \in q.rules}
    BY <1>2, <2>1, <2>2, <2>3, <2>4 DEF RunRegression
  <2>6. ASSUME NEW r \in q.rules
        PROVE  EvalRegressionCheck(q, s, b, r).effect \notin {"failed", "noGrade", "warn"}
    <3> DEFINE cur == s.results[r.metric].value
               base == b.results[r.metric].value
    <3>1. EvalRegressionCheck(p, s, b, r).effect \notin {"failed", "noGrade", "warn"}
      BY <2>1, <2>5 DEF Harmless
    <3>2. /\ ValueSufficient(s, r.metric) /\ ValueSufficient(b, r.metric)
          /\ Comparable(s, b, r.metric)
          /\ ~IsRegression(p.tolerance, r.op, cur, base)
      <4>1. Effect(p, "regression_detected") \in {"failed", "warn"}  BY MissHasEffect
      <4> QED  BY <3>1, <4>1 DEF EvalRegressionCheck, Check
    <3>3. cur \in Int /\ base \in Int
      BY <3>2, GateRulesAssumption DEF ValueSufficient, IsMeasurement, Results
    <3>4. p.tolerance \in Nat /\ q.tolerance \in Nat  BY DEF IsPolicy
    <3> HIDE DEF cur, base
    <3>5. ~IsRegression(q.tolerance, r.op, cur, base)
      BY <2>1, <3>2, <3>3, <3>4, ToleranceHelps
    <3> QED  BY <3>2, <3>5 DEF EvalRegressionCheck, Check, cur, base
  <2> QED  BY <2>5, <2>6 DEF Harmless
<1> QED  BY <1>1, <1>2

LEMMA WeakerPasses ==
  ASSUME NEW p, NEW q, NEW s, NEW b, IsPolicy(p), IsPolicy(q), IsMeasurement(s), IsMeasurement(b),
         NoStricter(q, p), Grade(p, s, b) = "PASS"
  PROVE  Grade(q, s, b) = "PASS"
<1>1. /\ s.state = "ok"
      /\ Harmless(RunThresholds(p, s)) /\ Harmless(RunRegression(p, s, b))
      /\ Harmless(RunReliability(p, s)) /\ Harmless(RunCoverage(p, s))
      /\ ~(BaselineStatus(b) = "absent_first_run" /\ p.regression)
  BY PassIsHarmless DEF Harmless, AllChecks
<1>2. Harmless(RunThresholds(q, s))
  <2> SUFFICES ASSUME NEW r \in q.rules
               PROVE  EvalThreshold(q, s, r).effect \notin {"failed", "noGrade", "warn"}
    BY DEF RunThresholds, Harmless
  <2>1. EvalThreshold(p, s, r).effect \notin {"failed", "noGrade", "warn"}
    BY <1>1 DEF NoStricter, RunThresholds, Harmless
  <2>2. Effect(p, "threshold_miss") \in {"failed", "warn"}  BY MissHasEffect
  <2> QED  BY <2>1, <2>2 DEF EvalThreshold, Check
<1>3. Harmless(RunRegression(q, s, b))  BY <1>1, WeakerRegression
<1>4. Harmless(RunReliability(q, s))
  <2>1. ~RunUnreliable(s)  BY <1>1 DEF RunReliability, Check, Harmless
  <2>2. p.required => ~(ReliabilityRank(s.collection) < RequiredRank(p))
    BY <1>1, <2>1 DEF RunReliability, Check, Harmless
  <2>3. /\ ReliabilityRank(s.collection) \in Int
        /\ RequiredRank(p) \in Int /\ RequiredRank(q) \in Int
    BY DEF ReliabilityRank, RequiredRank
  <2>4. q.required => p.required /\ RequiredRank(q) <= RequiredRank(p)  BY DEF NoStricter
  <2>5. q.required => ~(ReliabilityRank(s.collection) < RequiredRank(q))
    BY <2>2, <2>3, <2>4
  <2> DEFINE good == Check("reliability", "*", "pass", "none", "")
  <2>6. RunReliability(q, s) = {good}  BY <2>1, <2>5 DEF RunReliability
  <2>7. good.effect = "none"  BY DEF Check
  <2> QED  BY <2>6, <2>7 DEF Harmless
<1>5. Harmless(RunCoverage(q, s))
  <2>1. CASE ~q.coverage  BY <2>1 DEF RunCoverage, Harmless
  <2>2. CASE q.coverage
    <3>1. Uncovered(q, s) \subseteq Uncovered(p, s)  BY <2>2 DEF Uncovered, NoStricter
    <3>2. Uncovered(p, s) = {}
      <4> SUFFICES ASSUME NEW id \in Uncovered(p, s)  PROVE FALSE  OBVIOUS
      <4> DEFINE effect == Effect(p, "coverage_gap")
                 c == Check("coverage", id, IF effect = "failed" THEN "fail" ELSE "warn",
                            effect, "COVERAGE_GAP")
      <4>1. c \in RunCoverage(p, s)  BY <2>2 DEF RunCoverage, NoStricter
      <4>2. c.effect \in {"failed", "warn"}  BY MissHasEffect DEF Check
      <4> QED  BY <1>1, <4>1, <4>2 DEF Harmless
    <3> QED  BY <3>1, <3>2 DEF RunCoverage, Harmless
  <2> QED  BY <2>1, <2>2
<1>6. q.state = "ok" /\ ~(BaselineStatus(b) = "absent_first_run" /\ q.regression)
  BY <1>1 DEF NoStricter
<1> QED  BY <1>1, <1>2, <1>3, <1>4, <1>5, <1>6, PassIsHarmless DEF Harmless, AllChecks

\* Where a check fails under p it fails under a policy that promotes more.
LEMMA MorePromotedFails ==
  ASSUME NEW p, NEW q, NEW s, NEW b, PromotesMore(q, p), Grade(p, s, b) = "FAIL"
  PROVE  Grade(q, s, b) = "FAIL"
<1>1. p.state = "ok" /\ s.state = "ok"  BY DEF Grade
<1>2. q.state = "ok"  BY <1>1 DEF PromotesMore
<1>3. \A x : x.state = "ok" =>
        (Grade(x, s, b) = "FAIL" <=> \E c \in AllChecks(x, s, b) : c.effect = "failed")
  <2> SUFFICES ASSUME NEW x, x.state = "ok"
               PROVE  Grade(x, s, b) = "FAIL" <=> \E c \in AllChecks(x, s, b) : c.effect = "failed"
    OBVIOUS
  <2> DEFINE checks == AllChecks(x, s, b)
  <2>1. Grade(x, s, b) = ComputeGateResult(Effects(checks), BaselineStatus(b), x.regression)
    BY <1>1 DEF Grade, AllChecks
  <2> HIDE DEF checks
  <2>2. ComputeGateResult(Effects(checks), BaselineStatus(b), x.regression) = "FAIL"
          <=> \E c \in checks : c.effect = "failed"
    BY FailHasFailedCheck
  <2> QED  BY <2>1, <2>2 DEF checks
<1>4. \A condition : Effect(p, condition) = "failed" => Effect(q, condition) = "failed"
  BY DEF Effect, PromotesMore
<1>5. PICK c \in AllChecks(p, s, b) : c.effect = "failed"  BY <1>1, <1>3
<1>6. CASE c \in RunThresholds(p, s)
  <2>1. PICK r \in p.rules : c = EvalThreshold(p, s, r)  BY <1>6 DEF RunThresholds
  <2>2. EvalThreshold(q, s, r).effect = "failed"
    BY <1>4, <1>5, <2>1 DEF EvalThreshold, Check
  <2>3. EvalThreshold(q, s, r) \in AllChecks(q, s, b)
    BY DEF PromotesMore, RunThresholds, AllChecks
  <2> QED  BY <1>2, <1>3, <2>2, <2>3
<1>7. CASE c \in RunRegression(p, s, b)
  <2>1. /\ p.regression /\ TrustCorrect(p, s, b)
        /\ BaselineStatus(b) \notin {"absent_first_run", "unavailable", "corrupt"}
    <3>1. p.regression  BY <1>7 DEF RunRegression
    <3>2. BaselineStatus(b) # "absent_first_run"
      <4> SUFFICES ASSUME BaselineStatus(b) = "absent_first_run"  PROVE FALSE  OBVIOUS
      <4>1. c = Check("regression", "*", "none", "warn", "BASELINE_ABSENT_FIRST_RUN")
        BY <1>7, <3>1 DEF RunRegression
      <4> QED  BY <1>5, <4>1 DEF Check
    <3>3. BaselineStatus(b) \notin {"unavailable", "corrupt"}
      <4> SUFFICES ASSUME BaselineStatus(b) \in {"unavailable", "corrupt"}  PROVE FALSE
        OBVIOUS
      <4>1. c = Check("regression", "*", "none", "noGrade", "")
        BY <1>7, <3>1, <3>2 DEF RunRegression
      <4> QED  BY <1>5, <4>1 DEF Check
    <3>4. TrustCorrect(p, s, b)
      <4> SUFFICES ASSUME ~TrustCorrect(p, s, b)  PROVE FALSE  OBVIOUS
      <4>1. c = Check("regression", "*", "no_grade", "noGrade", "BASELINE_INCOMPARABLE")
        BY <1>7, <3>1, <3>2, <3>3 DEF RunRegression
      <4> QED  BY <1>5, <4>1 DEF Check
    <3> QED  BY <3>1, <3>2, <3>3, <3>4
  <2>2. q.regression /\ TrustCorrect(q, s, b)  BY <2>1 DEF PromotesMore, TrustCorrect
  <2>3. /\ RunRegression(p, s, b) = {EvalRegressionCheck(p, s, b, r) : r \in p.rules}
        /\ RunRegression(q, s, b) = {EvalRegressionCheck(q, s, b, r) : r \in q.rules}
    BY <2>1, <2>2 DEF RunRegression
  <2>4. PICK r \in p.rules : c = EvalRegressionCheck(p, s, b, r)  BY <1>7, <2>3
  <2>5. EvalRegressionCheck(q, s, b, r).effect = "failed"
    BY <1>4, <1>5, <2>4 DEF EvalRegressionCheck, Check, PromotesMore
  <2>6. EvalRegressionCheck(q, s, b, r) \in AllChecks(q, s, b)
    BY <2>3 DEF PromotesMore, AllChecks
  <2> QED  BY <1>2, <1>3, <2>5, <2>6
<1>8. ~(c \in RunReliability(p, s))
  <2> DEFINE failed == Check("reliability", "*", "no_grade", "noGrade", "COLLECTION_FAILED")
             short == Check("reliability", "*", "warn", "warn", "RELIABILITY_INSUFFICIENT")
             good == Check("reliability", "*", "pass", "none", "")
  <2>1. RunReliability(p, s) \subseteq {failed, short, good}  BY DEF RunReliability
  <2>2. failed.effect = "noGrade" /\ short.effect = "warn" /\ good.effect = "none"
    BY DEF Check
  <2> HIDE DEF failed, short, good
  <2> QED  BY <1>5, <2>1, <2>2
<1>9. CASE c \in RunCoverage(p, s)
  <2>1. p.coverage /\ Effect(p, "coverage_gap") = "failed"
    BY <1>5, <1>9 DEF RunCoverage, Check
  <2>2. PICK id \in Uncovered(p, s) : TRUE  BY <1>9 DEF RunCoverage
  <2>3. id \in Uncovered(q, s) /\ q.coverage  BY <2>1, <2>2 DEF Uncovered, PromotesMore
  <2>4. Effect(q, "coverage_gap") = "failed"  BY <1>4, <2>1
  <2> DEFINE d == Check("coverage", id, "fail", "failed", "COVERAGE_GAP")
  <2>5. d \in AllChecks(q, s, b)  BY <2>3, <2>4 DEF RunCoverage, AllChecks
  <2>6. d.effect = "failed"  BY DEF Check
  <2> QED  BY <1>2, <1>3, <2>5, <2>6
<1> QED  BY <1>5, <1>6, <1>7, <1>8, <1>9 DEF AllChecks

-----------------------------------------------------------------------------
(* The theorems *)

\* The output record has its types: grades and evaluations of the known kinds.
THEOREM GateTypeCorrect == Spec => []TypeOK
<1>1. GateInv => TypeOK
  BY DEF GateInv, Inputs, Progress, Final, TypeOK, ComputeGateResult, ComputeEvalStatus
<1> QED  BY <1>1, GateInit, GateStep, PTL DEF Spec

\* Evaluate, step by step, computes the function Grade by which
\* BaselineLifecycle grades a summary: what the families append, and in which
\* order, changes the reasons and never the grade.
THEOREM EvaluateIsGrade ==
  Spec => [](phase = "done" => out.grade = Grade(policy, measurement, baseline))
<1>1. GateInv => (phase = "done" => out.grade = Grade(policy, measurement, baseline))
  BY GradeFollows
<1> QED  BY <1>1, GateInit, GateStep, PTL DEF Spec

\* Whatever is loaded, a result other than PASS has a reason, and a PASS or
\* WARN a complete evaluation.
THEOREM RefusalCorrect == Spec => []RefusalIsExplained
BY GateInit, GateStep, ReasonInit, ReasonStep, RefusalFollows, PTL DEF Spec

\* Whatever is loaded, a PASS is proven by evidence.
THEOREM PassCorrect == Spec => []PassIsProven
BY GateInit, GateStep, PassFollows, PTL DEF Spec

\* Whatever is loaded, a PASS is no regression beyond the tolerance.
THEOREM NotWorseCorrect == Spec => []PassIsNotWorse
BY GateInit, GateStep, NotWorseFollows, PTL DEF Spec

\* Whatever is loaded, a FAIL is.
THEOREM FailCorrect == Spec => []FailIsProven
BY GateInit, GateStep, FailFollows, PTL DEF Spec

\* No insufficient SLI hides another one's promoted violation.
THEOREM ViolationCorrect == Spec => []ViolationNotMasked
BY GateInit, GateStep, ViolationFollows, PTL DEF Spec

\* What passes a policy passes every policy that asks for less of it: fewer
\* rules, more tolerance, a lower required level, a family switched off.  No
\* rule of one family hides or repairs what another one finds, and promote_to_fail
\* (policy.go) never decides whether a run passes.
THEOREM WeakerPolicyPasses ==
  Spec => [](phase = "done" /\ out.grade = "PASS" =>
              \A q : IsPolicy(q) /\ NoStricter(q, policy)
                       => Grade(q, measurement, baseline) = "PASS")
<1>1. GateInv => (phase = "done" /\ out.grade = "PASS" =>
                    \A q : IsPolicy(q) /\ NoStricter(q, policy)
                             => Grade(q, measurement, baseline) = "PASS")
  <2> SUFFICES ASSUME GateInv, phase = "done", out.grade = "PASS",
                      NEW q, IsPolicy(q), NoStricter(q, policy)
               PROVE  Grade(q, measurement, baseline) = "PASS"
    OBVIOUS
  <2>1. Grade(policy, measurement, baseline) = "PASS"  BY GradeFollows
  <2>2. IsPolicy(policy) /\ IsMeasurement(measurement) /\ IsMeasurement(baseline)
    BY InputShapes DEF GateInv
  <2> QED  BY <2>1, <2>2, WeakerPasses
<1> QED  BY <1>1, GateInit, GateStep, PTL DEF Spec

\* docs/DECISIONS.md: where promote_to_fail and fail_on "are omitted or empty, the
\* default promotion set is" all conditions.  A run that fails under a promotion
\* list fails under every wider one, the empty list being the widest.
THEOREM WiderPromotionFails ==
  Spec => [](phase = "done" /\ out.grade = "FAIL" =>
              \A q : PromotesMore(q, policy) => Grade(q, measurement, baseline) = "FAIL")
<1>1. GateInv => (phase = "done" /\ out.grade = "FAIL" =>
                    \A q : PromotesMore(q, policy) => Grade(q, measurement, baseline) = "FAIL")
  BY GradeFollows, MorePromotedFails
<1> QED  BY <1>1, GateInit, GateStep, PTL DEF Spec

=============================================================================
