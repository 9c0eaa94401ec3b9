------------------------------ MODULE GateRules ------------------------------
(***************************************************************************)
(* The rules slint-gate grades by (pkg/gate), as operators on a loaded     *)
(* policy p, measurement s and baseline b.  GateEvaluation runs them one   *)
(* after another; BaselineLifecycle composes them into one verdict.        *)
(*                                                                         *)
(* A loaded file is a record whose state says how loading went; its other  *)
(* fields are read only when the state is "ok".  A policy's rules are a    *)
(* set: every rule is graded by itself and the flags are or-ed.            *)
(***************************************************************************)
EXTENDS Integers

CONSTANTS
  Slis,        \* SLI IDs
  Values,      \* measured values and threshold targets
  NoValue,     \* SLIResult.Value = nil
  Identities,  \* complete comparability identities (four coordinates)
  NoIdentity   \* a comparability identity that is nil or lacks a coordinate

ASSUME GateRulesAssumption ==
  /\ Values \subseteq Int
  /\ NoValue \notin Values
  /\ NoIdentity \notin Identities

Operators == {"<=", "<", ">=", ">", "=="}
Conditions == {"threshold_miss", "regression_detected", "coverage_gap"}
Levels == {"", "Complete", "Partial", "Failed"}

Results ==
  [value : Values \cup {NoValue}, missing : BOOLEAN,
   status : {"pass", "warn", "fail", "block", "skip"},
   identity : Identities \cup {NoIdentity}]

\* A summary.Summary file.  An absent Reliability is "", "" and {}.
IsMeasurement(s) ==
  /\ DOMAIN s = {"state", "contract", "collection", "evaluation", "skipped", "results"}
  /\ s.state \in {"ok", "missing", "corrupt", "unsupported_schema", "absent"}
  /\ s.contract \in {"slo.v3", "slo.v4"}
  /\ {s.collection, s.evaluation} \subseteq Levels
  /\ s.skipped \subseteq Slis
  /\ DOMAIN s.results \subseteq Slis
  /\ s.results \in [DOMAIN s.results -> Results]

Rules == [metric : Slis, op : Operators, target : Values]

\* A .slint/policy.yaml file.
IsPolicy(p) ==
  /\ p.state \in {"ok", "missing", "invalid"}
  /\ p.version \in {"v1", "v2"}
  /\ p.rules \subseteq Rules
  /\ {p.regression, p.required, p.coverage} \subseteq BOOLEAN
  /\ p.tolerance \in Nat
  /\ p.minLevel \in {"partial", "complete"}
  /\ p.informational \subseteq Slis
  /\ p.promote \subseteq Conditions

-----------------------------------------------------------------------------
(* evidence.go *)

\* A failed collection or evaluation makes every value of the run unreliable.
RunUnreliable(s) == "Failed" \in {s.collection, s.evaluation}

\* valueSufficient judges typed facts, never the producer's status.
\* (Mutated: the missing inputs are not looked at.)
ValueSufficient_IgnoresInputs(s, id) ==
  /\ ~RunUnreliable(s)
  /\ id \in DOMAIN s.results
  /\ id \notin s.skipped
  /\ s.results[id].value # NoValue
ValueSufficient(s, id) ==
  /\ ~RunUnreliable(s)
  /\ id \in DOMAIN s.results
  /\ id \notin s.skipped
  /\ ~s.results[id].missing
  /\ s.results[id].value # NoValue

InsufficientReason(s, id) ==
  IF ~RunUnreliable(s) /\ id \notin DOMAIN s.results
  THEN "MEASUREMENT_INPUT_MISSING" ELSE "EVIDENCE_INSUFFICIENT"

-----------------------------------------------------------------------------
(* policy.go, threshold.go *)

\* makePromotionSet: an empty list promotes everything.
Promotions(p) == IF p.promote = {} THEN Conditions ELSE p.promote

\* A check that misses: it fails the gate when its condition is promoted.
\* (Mutated: the promotion list is not consulted.)
Effect_AlwaysFailed(p, condition) == "failed"
Effect(p, condition) == IF condition \in Promotions(p) THEN "failed" ELSE "warn"

Check(category, metric, status, effect, reason) ==
  [category |-> category, metric |-> metric, status |-> status,
   effect |-> effect, reason |-> reason]

CompareOp(v, op, target) ==
  \/ op = "<=" /\ v <= target
  \/ op = "<"  /\ v < target
  \/ op = ">=" /\ v >= target
  \/ op = ">"  /\ v > target
  \/ op = "==" /\ v = target

EvalThreshold(p, s, r) ==
  IF ~ValueSufficient(s, r.metric)
  THEN Check("threshold", r.metric, "no_grade", "noGrade", InsufficientReason(s, r.metric))
  ELSE IF CompareOp(s.results[r.metric].value, r.op, r.target)
  THEN Check("threshold", r.metric, "pass", "none", "")
  ELSE Check("threshold", r.metric, "fail", Effect(p, "threshold_miss"), "THRESHOLD_MISS")

-----------------------------------------------------------------------------
(* regression.go *)

LowerIsBetter(op) == op \in {"<=", "<"}
HigherIsBetter(op) == op \in {">=", ">"}

Abs(x) == IF x < 0 THEN -x ELSE x

\* isRegression on deltaPct, cross-multiplied by the baseline's magnitude.
\* From a zero baseline no percentage exists: any change is an improvement
\* of a higher-is-better metric and a regression of every other one.
\* (Mutated: nothing can be worse than zero.)
IsRegression_NotFromZero(tolerance, op, cur, base) ==
  LET d == 100 * (cur - base)
      t == tolerance * Abs(base)
  IN  /\ base # 0
      /\ \/ LowerIsBetter(op) /\ d > t
         \/ HigherIsBetter(op) /\ d < -t
         \/ ~LowerIsBetter(op) /\ ~HigherIsBetter(op) /\ Abs(d) > t
IsRegression(tolerance, op, cur, base) ==
  LET d == 100 * (cur - base)
      t == tolerance * Abs(base)
  IN  IF base = 0 /\ cur # 0 THEN ~HigherIsBetter(op)
      ELSE \/ LowerIsBetter(op) /\ d > t
           \/ HigherIsBetter(op) /\ d < -t
           \/ ~LowerIsBetter(op) /\ ~HigherIsBetter(op) /\ Abs(d) > t

\* Comparability.Equal: both identities complete and the same.
Comparable(s, b, id) ==
  /\ s.results[id].identity # NoIdentity
  /\ s.results[id].identity = b.results[id].identity

EvalRegressionCheck(p, s, b, r) ==
  IF ~ValueSufficient(s, r.metric) \/ ~ValueSufficient(b, r.metric)
  THEN Check("regression", r.metric, "no_grade", "noGrade", "EVIDENCE_INSUFFICIENT")
  ELSE IF ~Comparable(s, b, r.metric)
  THEN Check("regression", r.metric, "no_grade", "noGrade", "BASELINE_INCOMPARABLE")
  ELSE IF IsRegression(p.tolerance, r.op, s.results[r.metric].value, b.results[r.metric].value)
  THEN Check("regression", r.metric, "fail", Effect(p, "regression_detected"), "REGRESSION_DETECTED")
  ELSE Check("regression", r.metric, "pass", "none", "")

\* Only slint.policy.v2 over two slo.v4 artifacts can prove comparability.
TrustCorrect(p, s, b) == p.version = "v2" /\ s.contract = "slo.v4" /\ b.contract = "slo.v4"

\* initBaseline: absent is no --baseline at all.
BaselineStatus(b) ==
  CASE b.state = "absent"  -> "absent_first_run"
    [] b.state = "missing" -> "unavailable"
    [] b.state = "ok"      -> "present"
    [] OTHER               -> "corrupt"

\* A check stands for a warning without one, too: the first run's, and the
\* NO_GRADE of a baseline that could not be loaded (status "none").
RunRegression(p, s, b) ==
  IF ~p.regression THEN {}
  ELSE CASE BaselineStatus(b) = "absent_first_run" ->
              {Check("regression", "*", "none", "warn", "BASELINE_ABSENT_FIRST_RUN")}
         [] BaselineStatus(b) \in {"unavailable", "corrupt"} ->
              {Check("regression", "*", "none", "noGrade", "")}
         [] OTHER ->
              IF ~TrustCorrect(p, s, b)
              THEN {Check("regression", "*", "no_grade", "noGrade", "BASELINE_INCOMPARABLE")}
              ELSE {EvalRegressionCheck(p, s, b, r) : r \in p.rules}

-----------------------------------------------------------------------------
(* reliability.go, coverage.go *)

ReliabilityRank(level) ==
  CASE level = "Complete" -> 2 [] level = "Partial" -> 1 [] OTHER -> 0

RequiredRank(p) == IF p.minLevel = "complete" THEN 2 ELSE 1

\* A failed run is NO_GRADE whatever the policy requires.
RunReliability(p, s) ==
  {IF RunUnreliable(s)
   THEN Check("reliability", "*", "no_grade", "noGrade", "COLLECTION_FAILED")
   ELSE IF p.required /\ ReliabilityRank(s.collection) < RequiredRank(p)
   THEN Check("reliability", "*", "warn", "warn", "RELIABILITY_INSUFFICIENT")
   ELSE Check("reliability", "*", "pass", "none", "")}

\* Measured SLIs that no threshold covers, unless listed as informational.
Uncovered(p, s) ==
  {id \in DOMAIN s.results :
     /\ ValueSufficient(s, id)
     /\ id \notin p.informational
     /\ \A r \in p.rules : r.metric # id}

RunCoverage(p, s) ==
  IF ~p.coverage THEN {}
  ELSE LET effect == Effect(p, "coverage_gap")
       IN  {Check("coverage", id, IF effect = "failed" THEN "fail" ELSE "warn",
                  effect, "COVERAGE_GAP") : id \in Uncovered(p, s)}

-----------------------------------------------------------------------------
(* gate.go *)

RunThresholds(p, s) == {EvalThreshold(p, s, r) : r \in p.rules}

\* The producer's own verdicts, recorded as diagnostics only.
RecordProducerDiagnostics(s) ==
  {Check("measurement_diagnostic", id, "info", "none", "") :
     id \in {i \in DOMAIN s.results : s.results[i].status # "pass"}}

\* FAIL outranks NO_GRADE, which outranks WARN.
\* (Mutated: NO_GRADE outranks FAIL.)
ComputeGateResult_NoGradeFirst(effects, status, regression) ==
  IF "noGrade" \in effects THEN "NO_GRADE"
  ELSE IF "failed" \in effects THEN "FAIL"
  ELSE IF "warn" \in effects THEN "WARN"
  ELSE IF status = "absent_first_run" /\ regression THEN "WARN"
  ELSE "PASS"
ComputeGateResult(effects, status, regression) ==
  IF "failed" \in effects THEN "FAIL"
  ELSE IF "noGrade" \in effects THEN "NO_GRADE"
  ELSE IF "warn" \in effects THEN "WARN"
  ELSE IF status = "absent_first_run" /\ regression THEN "WARN"
  ELSE "PASS"

Effects(checks) == {c.effect : c \in checks}

\* Evaluate as one function: the grade of s under p against b.
Grade(p, s, b) ==
  IF p.state # "ok" \/ s.state # "ok" THEN "NO_GRADE"
  ELSE ComputeGateResult(
         Effects(RunThresholds(p, s) \cup RunRegression(p, s, b)
                 \cup RunReliability(p, s) \cup RunCoverage(p, s)),
         BaselineStatus(b), p.regression)

=============================================================================
