--------------------------- MODULE MCGateEvaluation ---------------------------
(* Instances of GateEvaluation for TLC: two SLIs, m1 varied and m2 beside it. *)
EXTENDS GateEvaluation, TLC

CONSTANTS m1, m2, i1, i2

R(v, inputsMissing, id) ==
  [value |-> v, missing |-> inputsMissing, status |-> "pass", identity |-> id]
Good(v) == R(v, FALSE, i1)
Failing(v) == [Good(v) EXCEPT !.status = "fail"]

\* A complete slo.v4 summary with these results.
Summary(results) ==
  [state |-> "ok", contract |-> "slo.v4", collection |-> "Complete",
   evaluation |-> "Complete", skipped |-> {}, results |-> results]
Unloaded(why) == [Summary(<<>>) EXCEPT !.state = why]

Beside == {<<>>, m2 :> Good(1), m2 :> R(NoValue, TRUE, i1)}
Under(v) == {<<>>, m1 :> Good(0), m1 :> Good(1), m1 :> Failing(2), m1 :> R(1, TRUE, i1)}

SmallMeasurements ==
  {[Summary(x @@ y) EXCEPT !.collection = q[1], !.evaluation = q[2], !.skipped = q[3]] :
     x \in Under(1), y \in Beside,
     q \in {<<"Complete", "Complete", {}>>, <<"Partial", "Complete", {}>>, <<"", "", {}>>,
            <<"Failed", "Partial", {}>>, <<"Complete", "Failed", {}>>,
            <<"Complete", "Complete", {m1}>>}}
  \cup {[Summary(m1 :> Good(1)) EXCEPT !.contract = "slo.v3"]}
  \cup {Unloaded(why) : why \in {"missing", "corrupt", "unsupported_schema"}}

SmallBaselines ==
  {Unloaded(why) : why \in {"absent", "missing", "corrupt", "unsupported_schema"}}
  \cup {Summary((m1 :> x) @@ (m2 :> Good(1))) :
          x \in {Good(0), Good(1), Good(2), R(1, FALSE, i2), R(1, FALSE, NoIdentity)}}
  \cup {[Summary(m1 :> Good(1)) EXCEPT !.contract = "slo.v3"],
        [Summary(m1 :> Good(1)) EXCEPT !.skipped = {m1}]}

Rule(m, op, t) == [metric |-> m, op |-> op, target |-> t]

\* The strictest defaults; the other policies vary one field of it.
Policy(rules, regr) ==
  [state |-> "ok", version |-> "v2", rules |-> rules, regression |-> regr,
   tolerance |-> 50, required |-> FALSE, minLevel |-> "partial",
   coverage |-> FALSE, informational |-> {}, promote |-> {}]
RuleSets ==
  {{}, {Rule(m1, "<=", 1)}, {Rule(m1, ">=", 1), Rule(m2, "<", 2)}, {Rule(m1, "==", 1)}}
Variants(p) ==
  {p, [p EXCEPT !.version = "v1"], [p EXCEPT !.promote = {"threshold_miss"}],
   [p EXCEPT !.coverage = TRUE, !.promote = {"regression_detected"}],
   [p EXCEPT !.coverage = TRUE, !.informational = {m2}],
   [p EXCEPT !.required = TRUE], [p EXCEPT !.required = TRUE, !.minLevel = "complete"]}

SmallPolicies ==
  UNION {Variants(Policy(rules, regr)) : rules \in RuleSets, regr \in BOOLEAN}
  \cup {[Policy({}, FALSE) EXCEPT !.state = why] : why \in {"missing", "invalid"}}
=============================================================================
