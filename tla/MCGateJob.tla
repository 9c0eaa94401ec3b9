------------------------------ MODULE MCGateJob ------------------------------
(* Instances of GateJob for TLC: one SLI with one rule. *)
EXTENDS GateJob, TLC

CONSTANTS m1, i1

Summary(v) ==
  [state |-> "ok", contract |-> "slo.v4", collection |-> "Complete",
   evaluation |-> "Complete", skipped |-> {},
   results |-> m1 :> [value |-> v, missing |-> FALSE, status |-> "pass", identity |-> i1]]
Missing == [Summary(0) EXCEPT !.state = "missing"]

\* Without a baseline the second policy warns of its absence.
Policy(regr) ==
  [state |-> "ok", version |-> "v2", rules |-> {[metric |-> m1, op |-> "<=", target |-> 0]},
   regression |-> regr, tolerance |-> 0, required |-> FALSE, minLevel |-> "partial",
   coverage |-> FALSE, informational |-> {}, promote |-> {}]
SomePolicies == {Policy(FALSE), Policy(TRUE)}
SomeSummaries == {Summary(0), Summary(1)}
NoBaseline == {[Missing EXCEPT !.state = "absent"]}

Typed == [mode |-> "FAIL", exact |-> FALSE]
Blank == [mode |-> "empty", exact |-> FALSE]
Typo == [mode |-> "other", exact |-> TRUE]
SomeWords == {Word(m) : m \in Modes} \cup {Typed, Blank, Typo}

\* Every mode by the preferred name, and the ways the two names, the two paths
\* and their defaults meet.
Step0(form, on, off) ==
  [form |-> form, exitOn |-> on, failOn |-> off, summary |-> "unset", legacy |-> "unset",
   upload |-> TRUE, generated |-> FALSE]
SomeRequests ==
  {Step0(form, w, Unset) : form \in {"cli", "action"}, w \in SomeWords \cup {Unset}}
  \cup {Step0(form, w, Word("FAIL_WARN_OR_NOGRADE")) :
          form \in {"cli", "action"}, w \in {Unset, Word("empty")}}
  \cup {Step0("action", Unset, Word("empty")), Step0("cli", Unset, Typed)}
  \cup {[Step0(form, Word("FAIL_OR_NOGRADE"), Unset) EXCEPT !.summary = path[1], !.legacy = path[2]] :
          form \in {"cli", "action"}, path \in {<<"empty", "unset">>, <<"unset", "other">>}}
  \cup {[Step0("action", Unset, Unset) EXCEPT !.upload = FALSE]}
=============================================================================
