------------------------- MODULE MCBaselineLifecycle -------------------------
(* Instances of BaselineLifecycle for TLC. *)
EXTENDS BaselineLifecycle, TLC

CONSTANTS m1, m2, i1

R(v, inputsMissing) ==
  [value |-> v, missing |-> inputsMissing, status |-> "pass", identity |-> i1]

Summary(results, skips) ==
  [state |-> "ok", contract |-> "slo.v4", collection |-> "Complete",
   evaluation |-> "Complete", skipped |-> skips, results |-> results]
NoBaseline == [Summary(<<>>, {}) EXCEPT !.state = "absent"]

\* m1 is ruled by the policies and m2 is not; either may be nil, lack an
\* input or, m2, be marked as skipped; or the run failed or is of another
\* contract.
SomeSummaries ==
  {Summary((m1 :> x) @@ y, {}) :
     x \in {R(1, FALSE), R(2, FALSE)},
     y \in {<<>>, m2 :> R(1, FALSE), m2 :> R(2, TRUE), m2 :> R(NoValue, FALSE)}}
  \cup {Summary((m1 :> R(2, FALSE)) @@ (m2 :> y), {m2}) :
          y \in {R(1, FALSE), R(NoValue, FALSE)}}
  \cup {Summary(m1 :> R(NoValue, TRUE), {}),
        [Summary(m1 :> R(1, FALSE), {}) EXCEPT !.contract = "slo.v3"],
        [Summary((m1 :> R(1, FALSE)) @@ (m2 :> R(2, FALSE)), {})
           EXCEPT !.collection = "Failed"],
        [NoBaseline EXCEPT !.state = "missing"]}

Policy(rules, regr) ==
  [state |-> "ok", version |-> "v2", rules |-> rules, regression |-> regr,
   tolerance |-> 50, required |-> FALSE, minLevel |-> "partial",
   coverage |-> FALSE, informational |-> {}, promote |-> {"regression_detected"}]
Rule(m, op, t) == [metric |-> m, op |-> op, target |-> t]

SomePolicies ==
  {Policy({}, FALSE), Policy({Rule(m1, "<=", 2)}, FALSE),
   Policy({Rule(m1, ">=", 2)}, FALSE),
   Policy({Rule(m1, "<", 3), Rule(m1, ">=", 1)}, FALSE)}
RegressionPolicy == {Policy({Rule(m1, "<=", 2)}, TRUE)}
OnePolicy == {Policy({Rule(m1, "<=", 2)}, FALSE)}

=============================================================================
