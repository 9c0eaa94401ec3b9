--------------------------- MODULE MCSliEvaluation ---------------------------
(* Instances of SliEvaluation for TLC. *)
EXTENDS SliEvaluation, TLC

\* Series A of family F in two spellings, and series B.
MCKeys == {"a", "ax", "b"}
MCCanonical == [k \in MCKeys |-> IF k = "b" THEN "B" ELSE "A"]
MCFamily == [k \in MCKeys |-> "F"]
\* Small enough ranks for a window of four values to tell the modes apart.
MCPercentile == [m \in {"window_p95", "window_p99"} |-> IF m = "window_p95" THEN 50 ELSE 75]

MCValues == {0, 2}
SamplesOf(keys) == UNION {[ks -> MCValues] : ks \in SUBSET keys}

Ok(sample, skew, latency) ==
  [ok |-> TRUE, sample |-> sample, skew |-> skew, latency |-> latency]
MCPointOutcomes ==
  {Ok(sample, 0, 1) : sample \in SamplesOf(MCKeys)}
  \cup {Ok(("a" :> 2) @@ ("b" :> 2), 6000, 1), Ok(("a" :> 2) @@ ("b" :> 2), 0, 6000)}
  \cup {[Ok(<<>>, 0, 6000) EXCEPT !.ok = FALSE]}

WindowSamples == SamplesOf({"a", "b"})
Windows == {<<>>} \cup {<<x>> : x \in WindowSamples}
           \cup {<<x, y>> : x, y \in WindowSamples}
MCWindowOutcomes ==
  {[ok |-> TRUE, samples |-> w, latency |-> 1] : w \in Windows}
  \cup {[ok |-> FALSE, samples |-> <<>>, latency |-> 6000]}

A == Exact("a")
B == Exact("b")
Warn == {[op |-> ">=", target |-> 2, level |-> "warn"], [op |-> ">=", target |-> 4, level |-> "fail"]}
Sli(mode, reset, inputs) ==
  [id |-> "m", mode |-> mode, reset |-> reset, inputs |-> inputs, judge |-> Warn]
Named(id, s) == [s EXCEPT !.id = id]

One == Selector("F", {"A"}, "", "")
AnyOne == Selector("F", {"A", "B"}, "", "")
Both == Selector("F", {"A", "B"}, "sum", "")
Zero == Selector("F", {"B"}, "sum", "zero_if_family_present")

Resets == {"", "warn", "no_grade", "fail", "skip"}
Deltas ==
  {Sli("delta", reset, <<A>>) : reset \in Resets}
  \cup {Sli("delta", reset, <<in>>) : reset \in {"", "skip"}, in \in {One, AnyOne, Both, Zero}}
  \cup {Sli("delta", "fail", <<A, Zero>>)}
Levels1 == {Sli(mode, "", <<in>>) : mode \in {"single", "start", "end"}, in \in {A, AnyOne, Both}}
WindowInputs ==
  {<<A>>, <<B>>, <<A, B>>, <<B, A>>, <<A, B, B>>, <<B, A, B>>, <<A, A, B, B>>, <<A, B, A>>}
WindowSlis(mode) == {Sli(mode, "", inputs) : inputs \in WindowInputs}

Invalid ==
  {Sli("window_max", "", <<One>>), Sli("end", "", <<Zero>>),
   Sli("delta", "", <<Selector("F", {"A"}, "max", "")>>)}
Unknown == Sli("median", "", <<A>>)

Trust == [subject |-> "s", window |-> "w", source |-> "c"]
Request(specs, trust, fetcher) ==
  [specs |-> specs, trust |-> trust, windowFetcher |-> fetcher]
Pair(s, t) == <<Named("m", s), Named("n", t)>>

\* Alone; two of one kind, to compare their contracts; and of both kinds.
MCRequests ==
  {Request(<<s>>, trust, TRUE) :
     s \in Deltas \cup Levels1 \cup Invalid \cup {Unknown}, trust \in {NoTrust, Trust}}
  \cup {Request(Pair(Sli("delta", r, <<A>>), Sli("delta", q, <<A>>)), Trust, TRUE) :
          r \in Resets, q \in {"", "skip"}}
  \cup {Request(Pair(Sli("single", "", <<in>>), Sli(mode, "", <<in>>)), NoTrust, FALSE) :
          in \in {A, One}, mode \in {"start", "end"}}
  \cup UNION {{Request(Pair(s, t), Trust, TRUE) : s, t \in WindowSlis(m)} : m \in WindowModes}
  \cup {Request(Pair(Sli(m, "", <<A, B>>), Sli(n, "", <<A, B>>)), Trust, TRUE) :
          m, n \in WindowModes}
  \cup {Request(Pair(Sli("delta", "no_grade", <<B>>), s), trust, fetcher) :
          s \in {Sli("window_max", "", <<A>>), Sli("window_ratio", "", <<A, B>>)},
          trust \in {NoTrust, Trust}, fetcher \in BOOLEAN}
  \cup {Request(<<Sli("delta", "", <<A>>), Sli("end", "", <<A>>)>>, trust, TRUE) :
          trust \in {NoTrust, Trust}}
  \cup {Request(<<Named("", Sli("end", "", <<A>>))>>, trust, TRUE) : trust \in {NoTrust, Trust}}
  \cup {Request(<<>>, NoTrust, FALSE), Request(<<Sli("end", "", <<A>>)>>,
          [Trust EXCEPT !.source = ""], TRUE)}

NoLimits == [startSkew |-> 0, endSkew |-> 0, latency |-> 0]
MCSessionConfigs ==
  {[strictness |-> s, gateOn |-> g, limits |-> l] :
     s \in {"", "StrictCollection", "StrictEvaluation", "RequiredSLIs", "other"},
     g \in {"none", "fail", "warn"}, l \in {NoLimits, [NoLimits EXCEPT !.endSkew = 5000]}}
=============================================================================
