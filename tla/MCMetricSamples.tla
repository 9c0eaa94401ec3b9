---------------------------- MODULE MCMetricSamples ----------------------------
(* Instances of MetricSamples for TLC. *)
EXTENDS MetricSamples, TLC

\* A metric with two series of two labels, one that also has an unlabelled
\* series, and a histogram's bucket.
Req(code) == [name |-> "req", labels |-> [code |-> code, method |-> "get"]]
Own == [name |-> "own", labels |-> [code |-> "ok"]]
Bucket == [name |-> "hist", labels |-> [le |-> "1"]]
MCSeries == {Req("ok"), Req("err"), Own, Bare("own"), Bucket}
MCKeys == MCSeries \cup {Bare("req"), Bare("hist")}
MCCanonical == [k \in MCKeys |-> k]
MCFamily == [k \in MCKeys |-> k.name]
MCPercentile == [m \in {"window_p95", "window_p99"} |-> 50]
MCLabelOrders == {<<"code", "le", "method">>, <<"method", "le", "code">>}

Ok == {Req("ok")}
Both == {Req("ok"), Req("err")}
MCInputs ==
  {Exact(k) : k \in {Bare("req"), Req("ok"), Bare("own"), Bare("hist"), Bucket}}
  \cup {Selector("req", match, agg, "") : match \in {Ok, Both}, agg \in {"", "sum"}}
  \cup {Selector("req", {Req("err")}, "sum", "zero_if_family_present"),
        Selector("own", {Own}, "sum", "zero_if_family_present")}
=============================================================================
