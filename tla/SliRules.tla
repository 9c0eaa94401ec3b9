------------------------------- MODULE SliRules -------------------------------
(***************************************************************************)
(* What the engine computes of one SLI (pkg/slo/engine, pkg/slo/spec): how *)
(* an input resolves in a sample, the value of a point or window SLI, its  *)
(* judgement, and the measurement contract that identifies it.             *)
(*                                                                         *)
(* A sample is a function from the keys the fetcher delivered to integers. *)
(* Two keys may spell one series: Canonical gives the metric and labels a  *)
(* key stands for.  A selector's label matchers are the set of series they *)
(* accept.  Values are fractions, exact where the code has floats.         *)
(***************************************************************************)
EXTENDS Integers, Sequences, FiniteSets, Functions, FiniteSetsExt

CONSTANTS
  Keys,        \* the keys of samples
  Canonical,   \* Canonical[k]: the metric and labels that key k spells
  Family,      \* Family[k]: the metric name of key k
  Percentile   \* Percentile[mode]: the rank of window_p95 and window_p99 in per cent

PointModes == {"single", "start", "end", "delta"}
WindowModes ==
  {"window_min", "window_max", "window_avg", "window_p95", "window_p99", "window_ratio"}

ASSUME SliRulesAssumption ==
  /\ DOMAIN Canonical = Keys /\ DOMAIN Family = Keys
  /\ \A m \in {"window_p95", "window_p99"} : Percentile[m] \in 1 .. 100

\* SLIResult.Value = nil, or a measured value num/den, den > 0.
NoValue == [nil |-> TRUE]
Fraction(n, d) == IF d < 0 THEN [num |-> -n, den |-> -d] ELSE [num |-> n, den |-> d]
SameValue(v, w) ==
  IF NoValue \in {v, w} THEN v = w ELSE v.num * w.den = w.num * v.den

Exact(k) == [kind |-> "exact", key |-> k]
Selector(metric, match, aggregate, emptyMatch) ==
  [kind |-> "selector", metric |-> metric, match |-> match,
   aggregate |-> aggregate, emptyMatch |-> emptyMatch]

IsSelector(in) == in.kind = "selector"

-----------------------------------------------------------------------------
(* selector.go *)

\* Selector.Validate, where the metric, the labels and the regexps are well formed.
ValidSelector(sel) ==
  /\ sel.aggregate \in {"", "sum"}
  /\ \/ sel.emptyMatch = ""
     \/ sel.emptyMatch = "zero_if_family_present" /\ sel.aggregate = "sum"

\* SLISpec.ValidateSelectors
ValidSelectors(s) ==
  \A i \in DOMAIN s.inputs : IsSelector(s.inputs[i]) =>
    /\ s.mode \in PointModes
    /\ ValidSelector(s.inputs[i])
    /\ s.inputs[i].emptyMatch = "zero_if_family_present" => s.mode = "delta"

OfFamily(sel, sample) == {k \in DOMAIN sample : Family[k] = sel.metric}
Matched(sel, sample) == {k \in OfFamily(sel, sample) : Canonical[k] \in sel.match}

\* Selector.Resolve returns no error.
Resolves(sel, sample) ==
  CASE Matched(sel, sample) = {} ->
         sel.emptyMatch = "zero_if_family_present" /\ OfFamily(sel, sample) # {}
    [] OTHER -> sel.aggregate = "sum" \/ Cardinality(Matched(sel, sample)) = 1

SumOn(f, S) == MapThenSumSet(LAMBDA x : f[x], S)
SelectedValue(sel, sample) == SumOn(sample, Matched(sel, sample))

\* sameSeries, by canonical identity and not by spelling.
SameSeries(sel, start, end) ==
  {Canonical[k] : k \in Matched(sel, start)} = {Canonical[k] : k \in Matched(sel, end)}

-----------------------------------------------------------------------------
(* engine.go: point SLIs *)

Result(s, status, value, missing) ==
  [id |-> s.id, status |-> status, value |-> value, missing |-> missing]

Compare(v, op, target) ==
  \/ op = "<=" /\ v.num <= target * v.den
  \/ op = ">=" /\ v.num >= target * v.den
  \/ op = "<"  /\ v.num < target * v.den
  \/ op = ">"  /\ v.num > target * v.den
  \/ op = "==" /\ v.num = target * v.den

\* judge: a rule of level fail outranks every one of level warn.
Judge(v, rules) ==
  LET fired == {r.level : r \in {q \in rules : Compare(v, q.op, q.target)}}
  IN  IF "fail" \in fired THEN "fail" ELSE IF "warn" \in fired THEN "warn" ELSE "pass"

Judged(s, value) == Result(s, Judge(value, s.judge), value, {})
Skipped(s) == Result(s, "skip", NoValue, {})

\* The endpoints a compute mode reads; an unknown mode resolves both.
NeedStart(mode) == mode # "end"
NeedEnd(mode) == mode \notin {"single", "start"}

\* An exact key is required of both samples, whatever the mode reads.
\* (Mutated: a selector may match one series at the start, another at the end.)
InputResolves_AnySeries(in, mode, start, end) ==
  IF IsSelector(in)
  THEN /\ NeedStart(mode) => Resolves(in, start)
       /\ NeedEnd(mode) => Resolves(in, end)
  ELSE in.key \in (DOMAIN start) \cap (DOMAIN end)
InputResolves(in, mode, start, end) ==
  IF IsSelector(in)
  THEN /\ NeedStart(mode) => Resolves(in, start)
       /\ NeedEnd(mode) => Resolves(in, end)
       /\ mode = "delta" /\ in.aggregate = "" => SameSeries(in, start, end)
  ELSE in.key \in (DOMAIN start) \cap (DOMAIN end)

InputValue(in, sample) == IF IsSelector(in) THEN SelectedValue(in, sample) ELSE sample[in.key]

SumOfInputs(inputs, sample) ==
  SumFunction([i \in DOMAIN inputs |-> InputValue(inputs[i], sample)])

ResetStatus(policy) ==
  CASE policy = "fail" -> "fail" [] policy \in {"no_grade", "skip"} -> "skip" [] OTHER -> "warn"
\* A negative delta: the policy keeps the value with a status, or clears it.
OnCounterReset(s, delta) ==
  LET status == ResetStatus(s.reset)
  IN  Result(s, status, IF status = "skip" THEN NoValue ELSE delta, {})

EvalSLI(s, start, end) ==
  LET missing == {s.inputs[i] : i \in {j \in DOMAIN s.inputs :
                     ~InputResolves(s.inputs[j], s.mode, start, end)}}
      delta == SumOfInputs(s.inputs, end) - SumOfInputs(s.inputs, start)
  IN  CASE missing # {} -> Result(s, "skip", NoValue, missing)
        [] missing = {} /\ s.mode \in {"single", "start"} ->
             Judged(s, Fraction(SumOfInputs(s.inputs, start), 1))
        [] missing = {} /\ s.mode = "end" ->
             Judged(s, Fraction(SumOfInputs(s.inputs, end), 1))
        [] missing = {} /\ s.mode = "delta" ->
             IF delta < 0 THEN OnCounterReset(s, Fraction(delta, 1))
             ELSE Judged(s, Fraction(delta, 1))
        [] OTHER -> Skipped(s)

-----------------------------------------------------------------------------
(* engine.go: window SLIs, whose inputs are exact keys *)

\* windowValues: one pooled value for each sample and each input it has.
Pooled(inputs, window) ==
  {p \in (DOMAIN window) \X (DOMAIN inputs) : inputs[p[2]].key \in DOMAIN window[p[1]]}

\* An input is missing when no sample has it.
WindowMissing(inputs, window) ==
  {inputs[i] : i \in {j \in DOMAIN inputs :
     \A n \in DOMAIN window : inputs[j].key \notin DOMAIN window[n]}}

SumOf(in, window) ==
  MapThenSumSet(LAMBDA n : window[n][in.key], {n \in DOMAIN window : in.key \in DOMAIN window[n]})

\* percentile: the value of nearest rank; rank 1 is the least value.
OfRank(rank, pool, val) ==
  {v \in {val[p] : p \in pool} :
     /\ Cardinality({p \in pool : val[p] < v}) < rank
     /\ rank <= Cardinality({p \in pool : val[p] <= v})}
AtRank(rank, pool, val) == CHOOSE v \in OfRank(rank, pool, val) : TRUE
RankOf(percent, n) == (percent * n + 99) \div 100

WindowValue(mode, inputs, window) ==
  LET pool == Pooled(inputs, window)
      n == Cardinality(pool)
      val == [p \in pool |-> window[p[1]][inputs[p[2]].key]]
  IN  CASE mode = "window_min" -> Fraction(AtRank(1, pool, val), 1)
        [] mode = "window_max" -> Fraction(AtRank(n, pool, val), 1)
        [] mode = "window_avg" -> Fraction(SumFunction(val), n)
        [] mode \in {"window_p95", "window_p99"} ->
             Fraction(AtRank(RankOf(Percentile[mode], n), pool, val), 1)
        [] OTHER -> Fraction(SumOf(inputs[1], window), SumOf(inputs[2], window))

\* windowRatio's refusals: one of two operands is not given, or zero divides.
NoRatio(s, window) ==
  s.mode = "window_ratio" /\ (Len(s.inputs) < 2 \/ SumOf(s.inputs[2], window) = 0)

EvalWindowSLI(s, window) ==
  LET missing == WindowMissing(s.inputs, window)
  IN  IF missing # {} THEN Result(s, "skip", NoValue, missing)
      ELSE IF Pooled(s.inputs, window) = {} \/ NoRatio(s, window) THEN Skipped(s)
      ELSE Judged(s, WindowValue(s.mode, s.inputs, window))

-----------------------------------------------------------------------------
(* comparability.go *)

\* The rules that judge a value are no part of how it is measured.
CanonicalMode(mode) == IF mode = "single" THEN "start" ELSE mode
ResetEffect(s) ==
  IF s.mode # "delta" THEN "none"
  ELSE IF s.reset \in {"no_grade", "skip"} THEN "clear" ELSE "preserve"

Count(in, inputs) == Cardinality({i \in DOMAIN inputs : inputs[i] = in})
Once(S) == [in \in S |-> 1]

\* The greatest common divisor of the multiplicities of inputs.
CommonFactor(inputs) ==
  Max({d \in 1 .. Len(inputs) : \A in \in Range(inputs) : Count(in, inputs) % d = 0})

\* canonicalInputKeys: the inputs whose order is kept, and the multiplicity
\* of those whose order is not.
\* (Mutated: percentiles drop the multiplicities altogether.)
CanonicalInputs_Dedup(mode, inputs) ==
  IF mode \in {"window_min", "window_max", "window_p95", "window_p99"}
  THEN [ordered |-> <<>>, counted |-> Once(Range(inputs))]
  ELSE [ordered |-> inputs, counted |-> <<>>]
CanonicalInputs(mode, inputs) ==
  CASE mode \in {"window_min", "window_max"} ->
         [ordered |-> <<>>, counted |-> Once(Range(inputs))]
    [] mode \in {"window_p95", "window_p99"} ->
         [ordered |-> <<>>, counted |->
            [in \in Range(inputs) |-> Count(in, inputs) \div CommonFactor(inputs)]]
    [] mode = "window_ratio" /\ Len(inputs) > 2 ->
         [ordered |-> SubSeq(inputs, 1, 2), counted |->
            Once(Range(inputs) \ {inputs[1], inputs[2]})]
    [] OTHER -> [ordered |-> inputs, counted |-> <<>>]

\* sliContractID, a collision-free hash of these fields.
SliContract(s) ==
  [id |-> s.id, mode |-> CanonicalMode(s.mode), reset |-> ResetEffect(s),
   inputs |-> CanonicalInputs(s.mode, s.inputs)]

\* Two SLIs that differ at most in name and judgement, says the contract.
SameMeasurement(s, t) ==
  \A part \in {"mode", "reset", "inputs"} : SliContract(s)[part] = SliContract(t)[part]

=============================================================================
