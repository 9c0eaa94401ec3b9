---------------------------- MODULE MCOnboarding ----------------------------
(* Instances of Onboarding for TLC. *)
EXTENDS Onboarding, TLC

CONSTANTS i1, p1, p2, Unrecorded

R(v) == [value |-> v, missing |-> v = NoValue, status |-> "pass", identity |-> i1]

Summary(results) ==
  [state |-> "ok", contract |-> "slo.v4", collection |-> "Complete",
   evaluation |-> "Complete", skipped |-> {}, results |-> results]

\* Good values everywhere, as DefaultSpecs measures them, but for one core SLI,
\* one noisy one and an SLI of the user's own, which may be bad, nil or absent.
Varied == {"reconcile_total_delta", "rest_client_429_delta"}
Steady ==
  [id \in ProfileIds \ Varied |-> R(IF id = "reconcile_success_delta" THEN 1 ELSE 0)]
Record(id, v) == IF v = Unrecorded THEN <<>> ELSE id :> R(v)

Measured ==
  {Summary(Steady @@ Record("reconcile_total_delta", x)
                  @@ Record("rest_client_429_delta", y) @@ Record("custom", z)) :
     x \in {0, 1, NoValue}, y \in {0, 1, Unrecorded}, z \in {0, Unrecorded}}

ManySummaries ==
  Measured
  \cup {[Summary(Steady) EXCEPT !.state = st] : st \in {"missing", "corrupt"}}
  \cup {[Summary(Steady) EXCEPT !.collection = "Failed"], Summary(Steady)}

\* A PASS, a miss, each with and without an SLI that no policy covers, and no
\* readable file.
FewSummaries ==
  {Summary(Steady @@ Record("reconcile_total_delta", x)
                  @@ Record("rest_client_429_delta", 0) @@ Record("custom", z)) :
     x \in {0, 1}, z \in {0, Unrecorded}}
  \cup {[Summary(Steady) EXCEPT !.state = st] : st \in {"missing", "corrupt"}}

\* Coverage gaps only warn.
SomePolicies == {[InitPolicy EXCEPT !.promote = {"threshold_miss"}]}

AllSlis == {r.metric : r \in InitPolicy.rules} \cup InitPolicy.informational \cup {"custom"}

=============================================================================
