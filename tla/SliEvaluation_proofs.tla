------------------------- MODULE SliEvaluation_proofs -------------------------
(***************************************************************************)
(* Proofs about SliEvaluation, for any requests, samples and sessions.     *)
(* The invariant says that the results so far are those of the specs in    *)
(* order, that exactly the skipped ones are listed, and what the statuses  *)
(* of the reliability record are in each phase.                            *)
(***************************************************************************)
EXTENDS SliEvaluation, FiniteSetTheorems, WellFoundedInduction, TLAPS

BeforeEvaluation == {"validate", "rejected", "fetchStart", "fetchEnd", "fetchWindow", "begin"}

\* The collection status of a run that got past its point fetches.
Collection == IF windowErr THEN "Failed" ELSE "Complete"

\* Exactly the SLIs whose result is a skip are listed, and nothing else is.
SkipsListed ==
  Range(rel.skipped) = {results[i].id : i \in {j \in 1 .. Len(results) : results[j].status = "skip"}}

PointFailed ==
  /\ results = <<>> /\ ~windowErr
  /\ rel.collection = "Failed"
  /\ summary = Written(rel, <<>>)

Completed ==
  /\ Len(results) = Len(Specs)
  /\ rel.collection = Collection
  /\ rel.evaluation = IF rel.skipped # <<>> THEN "Partial" ELSE "Complete"
  /\ summary = Written(rel, results)

RunInv ==
  /\ req \in Requests
  /\ TypeOK
  /\ IsFiniteSet(rel.missing)
  /\ IsFiniteSet(DOMAIN start) /\ IsFiniteSet(DOMAIN end) /\ IsFiniteSet(DOMAIN window)
  /\ \A i \in 1 .. Len(results) : results[i] = Evaluated(Specs[i])
  /\ SkipsListed
  /\ phase \notin {"validate", "rejected"} => TrustValid
  /\ phase \in BeforeEvaluation => results = <<>>
  /\ phase \in BeforeEvaluation \ {"begin"} => ~windowErr /\ rel.collection = ""
  /\ phase = "begin" => rel.collection = IF windowErr THEN "Failed" ELSE ""
  /\ phase = "evaluate" => rel.collection = Collection /\ rel.evaluation = "Complete"
  /\ phase = "done" => PointFailed \/ Completed

-----------------------------------------------------------------------------

\* What the assumptions say of a request's specs.
LEMMA RequestFacts ==
  ASSUME req \in Requests
  PROVE  /\ Specs \in Seq(Range(Specs)) /\ Len(Specs) \in Nat /\ DOMAIN Specs = 1 .. Len(Specs)
         /\ \A i \in 1 .. Len(Specs) :
              /\ Specs[i].id \in Ids(Specs)
              /\ Range(Specs[i].inputs) \subseteq AllInputs
              /\ DOMAIN Specs[i].inputs = 1 .. Len(Specs[i].inputs)
              /\ Len(Specs[i].inputs) \in Nat
<1>1. Specs \in Seq(Range(Specs))  BY SliEvaluationAssumption DEF Specs
<1>2. Len(Specs) \in Nat /\ DOMAIN Specs = 1 .. Len(Specs)  BY <1>1
<1>3. ASSUME NEW i \in 1 .. Len(Specs)
      PROVE  /\ Specs[i].id \in Ids(Specs)
             /\ Range(Specs[i].inputs) \subseteq AllInputs
             /\ Specs[i].inputs \in Seq(Range(Specs[i].inputs))
  <2>1. Specs[i] \in Range(Specs)  BY <1>2 DEF Range
  <2>2. Specs[i].inputs \in Seq(Range(Specs[i].inputs))
    BY <2>1, SliEvaluationAssumption DEF Specs
  <2>3. QED  BY <1>2, <2>2 DEF Ids, AllInputs
<1>4. QED  BY <1>1, <1>2, <1>3

\* The inputs of a spec are finitely many.
LEMMA InputsFinite ==
  ASSUME NEW inputs, NEW n \in Nat, inputs \in [1 .. n -> Range(inputs)]
  PROVE  IsFiniteSet(Range(inputs))
<1>1. IsFiniteSet(1 .. n)  BY FS_Interval
<1>2. inputs \in Surjection(1 .. n, Range(inputs))  BY DEF Surjection, Range
<1>3. QED  BY <1>1, <1>2, FS_Surjection DEF ExistsSurjection

\* A measured fraction is not nil.
LEMMA FractionIsValue ==
  ASSUME NEW n, NEW d  PROVE Fraction(n, d) # NoValue
<1>1. DOMAIN NoValue = {"nil"}  BY DEF NoValue
<1>2. DOMAIN Fraction(n, d) = {"num", "den"}  BY DEF Fraction
<1>3. QED  BY <1>1, <1>2

LEMMA JudgedFacts ==
  ASSUME NEW s, NEW v, v # NoValue
  PROVE  /\ Judged(s, v).id = s.id /\ IsResult(Judged(s, v))
         /\ Judged(s, v).missing = {} /\ Judged(s, v).value = v
BY DEF Judged, Judge, Result, IsResult

LEMMA SkippedFacts ==
  ASSUME NEW s, NEW missing
  PROVE  /\ Skipped(s).id = s.id /\ IsResult(Skipped(s)) /\ Skipped(s).missing = {}
         /\ LET r == Result(s, "skip", NoValue, missing)
            IN  r.id = s.id /\ IsResult(r) /\ r.missing = missing
BY DEF Skipped, Result, IsResult

LEMMA ResetFacts ==
  ASSUME NEW s, NEW v, v # NoValue
  PROVE  LET r == OnCounterReset(s, v)
         IN  /\ r.id = s.id /\ IsResult(r) /\ r.missing = {}
             /\ r.value # NoValue => r.value = v /\ r.status \in {"warn", "fail"}
BY DEF OnCounterReset, ResetStatus, Result, IsResult

\* A point SLI's result: skipped and without a value, or judged with one.
LEMMA PointFacts ==
  ASSUME NEW s, NEW a, NEW b
  PROVE  LET r == EvalSLI(s, a, b)
         IN  /\ r.id = s.id /\ IsResult(r) /\ r.missing \subseteq Range(s.inputs)
             /\ s.mode = "delta" /\ r.value # NoValue =>
                  /\ \A j \in DOMAIN s.inputs : InputResolves(s.inputs[j], s.mode, a, b)
                  /\ r.value.num < 0 => r.status \in {"warn", "fail"}
<1> DEFINE missing == {s.inputs[i] : i \in {j \in DOMAIN s.inputs :
                          ~InputResolves(s.inputs[j], s.mode, a, b)}}
           delta == SumOfInputs(s.inputs, b) - SumOfInputs(s.inputs, a)
           F(n) == Fraction(n, 1)
           r == EvalSLI(s, a, b)
<1>1. missing \subseteq Range(s.inputs)  BY DEF Range
<1>2. CASE missing # {}
  <2>1. r = Result(s, "skip", NoValue, missing)  BY <1>2 DEF EvalSLI
  <2> HIDE DEF missing
  <2>2. QED  BY <1>1, <2>1, SkippedFacts DEF Result
<1>3. CASE missing = {}
  <2>1. \A j \in DOMAIN s.inputs : InputResolves(s.inputs[j], s.mode, a, b)  BY <1>3
  <2>2. CASE s.mode = "delta"
    <3>1. r = IF delta < 0 THEN OnCounterReset(s, F(delta)) ELSE Judged(s, F(delta))
      BY <1>3, <2>2 DEF EvalSLI
    <3>2. F(delta) # NoValue /\ F(delta).num = delta  BY FractionIsValue DEF Fraction
    <3> HIDE DEF delta, F, r
    <3>3. CASE delta < 0
      BY <3>1, <3>2, <3>3, <2>1, ResetFacts DEF r
    <3>4. CASE ~(delta < 0)
      BY <3>1, <3>2, <3>4, <2>1, JudgedFacts DEF r
    <3>5. QED  BY <3>3, <3>4
  <2>3. CASE s.mode # "delta"
    <3>1. \/ r = Judged(s, F(SumOfInputs(s.inputs, a)))
          \/ r = Judged(s, F(SumOfInputs(s.inputs, b)))
          \/ r = Skipped(s)
      BY <1>3, <2>3 DEF EvalSLI
    <3>2. \A n : F(n) # NoValue  BY FractionIsValue
    <3> HIDE DEF F, r
    <3>3. r.id = s.id /\ IsResult(r) /\ r.missing = {}
      BY <3>1, <3>2, JudgedFacts, SkippedFacts
    <3>4. QED  BY <3>3, <2>3 DEF r
  <2>4. QED  BY <2>2, <2>3
<1>4. QED  BY <1>2, <1>3

\* A window SLI's result is one, too.
LEMMA WindowFacts ==
  ASSUME NEW s, NEW w
  PROVE  LET r == EvalWindowSLI(s, w)
         IN  r.id = s.id /\ IsResult(r) /\ r.missing \subseteq Range(s.inputs)
<1> DEFINE missing == WindowMissing(s.inputs, w)
           v == WindowValue(s.mode, s.inputs, w)
           r == EvalWindowSLI(s, w)
<1>1. missing \subseteq Range(s.inputs)  BY DEF WindowMissing, Range
<1>2. \E n, d : v = Fraction(n, d)  BY DEF WindowValue
<1>3. v # NoValue  BY <1>2, FractionIsValue
<1>4. \/ r = Result(s, "skip", NoValue, missing) \/ r = Skipped(s) \/ r = Judged(s, v)
  BY DEF EvalWindowSLI
<1> HIDE DEF missing, v, r
<1>5. QED  BY <1>1, <1>3, <1>4, SkippedFacts, JudgedFacts DEF r

LEMMA EvaluatedFacts ==
  ASSUME NEW s
  PROVE  LET r == Evaluated(s)
         IN  /\ r.id = s.id /\ IsResult(r) /\ r.missing \subseteq Range(s.inputs)
             /\ windowErr /\ IsWindow(s) => r.status = "skip"
<1>1. Skipped(s).id = s.id /\ IsResult(Skipped(s)) /\ Skipped(s).missing = {}
      /\ Skipped(s).status = "skip"
  BY SkippedFacts DEF Skipped, Result
<1>2. CASE ~IsWindow(s)  BY <1>2, PointFacts DEF Evaluated
<1>3. CASE IsWindow(s)  BY <1>1, <1>3, WindowFacts DEF Evaluated
<1>4. QED  BY <1>2, <1>3

-----------------------------------------------------------------------------
(* The invariant *)

\* The fields a step writes into rel keep it a reliability record.
RelOK(r) ==
  r \in [collection : Levels, evaluation : Levels, blocked : BOOLEAN,
         skipped : Seq(Ids(Specs)), missing : SUBSET AllInputs,
         startSkew : Int, endSkew : Int, latency : Int, confidence : Int]

\* Nothing is in the empty sequence.
LEMMA EmptySeq ==
  Range(<<>>) = {} /\ Len(<<>>) = 0 /\ 1 .. 0 = {} /\ \A S : <<>> \in Seq(S)
BY DEF Range

LEMMA RunInit == Init => RunInv
<1> SUFFICES ASSUME Init  PROVE RunInv  OBVIOUS
<1> USE DEF Init
<1>0. Len(results) = 0 /\ Len(Specs) \in Nat /\ 1 .. Len(results) = {} /\ results = <<>>
  BY EmptySeq, RequestFacts
<1>1. TypeOK
  <2>1. <<>> \in Seq(Ids(Specs)) /\ {} \in SUBSET AllInputs /\ -1 \in Int  BY EmptySeq
  <2>2. RelOK(rel)  BY <2>1 DEF RelOK, NewReliability, Levels, Unset
  <2>3. results \in Seq(Range(results)) /\ Len(results) <= Len(Specs)  BY <1>0, EmptySeq
  <2>4. QED  BY <1>0, <2>2, <2>3 DEF TypeOK, RelOK
<1>2. SkipsListed  BY <1>0, EmptySeq DEF SkipsListed, NewReliability
<1>3. IsFiniteSet({}) /\ DOMAIN <<>> = {}  BY FS_EmptySet
<1>4. QED  BY <1>0, <1>1, <1>2, <1>3 DEF RunInv, NewReliability, BeforeEvaluation

\* The steps before the evaluation: no result, and nothing listed.
LEMMA StillEmpty ==
  ASSUME RunInv, results = <<>>, results' = <<>>, req' = req,
         rel'.skipped = rel.skipped, rel'.missing = rel.missing, RelOK(rel'),
         windowErr' \in BOOLEAN,
         phase' \in {"validate", "rejected", "fetchStart", "fetchEnd", "fetchWindow", "begin",
                     "evaluate", "done"}
  PROVE  /\ TypeOK' /\ SkipsListed' /\ IsFiniteSet(rel'.missing) /\ (req \in Requests)'
         /\ \A i \in 1 .. Len(results') : results'[i] = Evaluated(Specs[i])'
<1>1. Ids(Specs)' = Ids(Specs) /\ AllInputs' = AllInputs /\ Specs' = Specs
  BY DEF Ids, AllInputs, Specs
<1>2. /\ Len(results) = 0 /\ Len(results') = 0 /\ 1 .. Len(results) = {} /\ 1 .. Len(results') = {}
      /\ results' \in Seq(Range(results'))
  BY EmptySeq
<1>3. Len(Specs) \in Nat  BY RequestFacts DEF RunInv
<1>4. TypeOK'  BY <1>1, <1>2, <1>3 DEF TypeOK, RelOK
<1>5. SkipsListed'  BY <1>2 DEF RunInv, SkipsListed
<1>6. QED  BY <1>2, <1>4, <1>5 DEF RunInv

LEMMA ValidateStep == RunInv /\ Validate => RunInv'
<1> SUFFICES ASSUME RunInv, Validate  PROVE RunInv'  OBVIOUS
<1>1. phase' \in {"rejected", "fetchStart", "fetchWindow", "begin"}
  BY DEF Validate, AfterPoint
<1>2. results = <<>> /\ RelOK(rel) /\ windowErr \in BOOLEAN
  BY DEF RunInv, TypeOK, RelOK, Validate, BeforeEvaluation
<1>3. TrustValid' = TrustValid
  BY DEF Validate, TrustValid, UniqueIds, Specs
<1>4. phase' # "rejected" => TrustValid  BY DEF Validate
<1>5. /\ TypeOK' /\ SkipsListed' /\ IsFiniteSet(rel'.missing) /\ (req \in Requests)'
      /\ \A i \in 1 .. Len(results') : results'[i] = Evaluated(Specs[i])'
  BY <1>1, <1>2, StillEmpty DEF Validate, RelOK
<1>6. QED
  BY <1>1, <1>2, <1>3, <1>4, <1>5 DEF RunInv, Validate, BeforeEvaluation

LEMMA OutcomeTypes ==
  /\ \A o \in PointOutcomes : o.skew \in Int /\ o.latency \in Int /\ IsFiniteSet(DOMAIN o.sample)
  /\ \A o \in WindowOutcomes : o.latency \in Int /\ o.ok \in BOOLEAN /\ IsFiniteSet(DOMAIN o.samples)
BY SliEvaluationAssumption

\* A point fetch: on to the next phase, or a failed collection.
LEMMA FetchPointStep ==
  ASSUME RunInv, NEW o \in PointOutcomes, FetchStart(o) \/ FetchEnd(o)
  PROVE  RunInv'
<1>1. /\ results = <<>> /\ RelOK(rel) /\ windowErr = FALSE /\ rel.collection = "" /\ TrustValid
      /\ IsFiniteSet(DOMAIN start) /\ IsFiniteSet(DOMAIN end) /\ IsFiniteSet(DOMAIN window)
  BY DEF RunInv, TypeOK, RelOK, FetchStart, FetchEnd, BeforeEvaluation
<1>2. /\ req' = req /\ results' = results /\ windowErr' = windowErr /\ window' = window
      /\ start' \in {start, o.sample} /\ end' \in {end, o.sample}
  BY DEF FetchStart, FetchEnd
<1>3. PICK r : /\ RelOK(r) /\ r.skipped = rel.skipped /\ r.missing = rel.missing
                /\ r.collection = ""
                /\ \/ phase' \in {"fetchEnd", "fetchWindow", "begin"} /\ rel' = r
                   \/ PointFetchFailure(r)
  <2> DEFINE x == [rel EXCEPT !.startSkew = o.skew, !.latency = o.latency]
             y == [rel EXCEPT !.endSkew = o.skew, !.latency = Larger(rel.latency, o.latency)]
  <2>1. RelOK(x) /\ x.skipped = rel.skipped /\ x.missing = rel.missing /\ x.collection = ""
    BY <1>1, OutcomeTypes DEF RelOK
  <2>2. RelOK(y) /\ y.skipped = rel.skipped /\ y.missing = rel.missing /\ y.collection = ""
    BY <1>1, OutcomeTypes DEF RelOK, Larger
  <2>3. CASE FetchStart(o)
    <3>1. (phase' = "fetchEnd" /\ rel' = x) \/ PointFetchFailure(x)  BY <2>3 DEF FetchStart
    <3>2. QED  BY <2>1, <3>1
  <2>4. CASE FetchEnd(o)
    <3>1. (phase' = AfterPoint /\ rel' = y) \/ PointFetchFailure(y)  BY <2>4 DEF FetchEnd
    <3>2. QED  BY <2>2, <3>1 DEF AfterPoint
  <2>5. QED  BY <2>3, <2>4
<1>4. IsFiniteSet(DOMAIN start') /\ IsFiniteSet(DOMAIN end') /\ IsFiniteSet(DOMAIN window')
  BY <1>1, <1>2, OutcomeTypes
<1>5. TrustValid'  BY <1>1, <1>2 DEF TrustValid, UniqueIds, Specs
<1>6. CASE phase' \in {"fetchEnd", "fetchWindow", "begin"} /\ rel' = r
  <2>1. /\ TypeOK' /\ SkipsListed' /\ IsFiniteSet(rel'.missing) /\ (req \in Requests)'
        /\ \A i \in 1 .. Len(results') : results'[i] = Evaluated(Specs[i])'
    BY <1>1, <1>2, <1>3, <1>6, StillEmpty DEF RelOK
  <2>2. QED  BY <1>1, <1>2, <1>3, <1>4, <1>5, <1>6, <2>1 DEF RunInv, BeforeEvaluation
<1>7. CASE PointFetchFailure(r)
  <2> DEFINE failed == [r EXCEPT !.collection = "Failed", !.blocked = TRUE]
  <2>1. RelOK(failed) /\ failed.skipped = r.skipped /\ failed.missing = r.missing
        /\ failed.collection = "Failed"
    BY <1>3 DEF RelOK, Levels
  <2>2. phase' = "done" /\ rel' = failed /\ summary' = Written(failed, <<>>)
    BY <1>7 DEF PointFetchFailure
  <2> HIDE DEF failed
  <2>3. /\ TypeOK' /\ SkipsListed' /\ IsFiniteSet(rel'.missing) /\ (req \in Requests)'
        /\ \A i \in 1 .. Len(results') : results'[i] = Evaluated(Specs[i])'
    BY <1>1, <1>2, <1>3, <2>1, <2>2, StillEmpty DEF RelOK
  <2>4. Written(failed, <<>>) = Written(rel, <<>>)'
    BY <1>2, <2>2 DEF Written, ContractVersion, Confidence, Stamp, Identity, Specs
  <2>5. PointFailed'  BY <1>1, <1>2, <2>1, <2>2, <2>4 DEF PointFailed
  <2>6. QED  BY <1>4, <1>5, <2>2, <2>3, <2>5 DEF RunInv, BeforeEvaluation
<1>8. QED  BY <1>3, <1>6, <1>7

LEMMA FetchWindowStep ==
  ASSUME RunInv, NEW o \in WindowOutcomes, FetchWindow(o)
  PROVE  RunInv'
<1>1. results = <<>> /\ RelOK(rel) /\ rel.collection = "" /\ TrustValid
  BY DEF RunInv, TypeOK, RelOK, FetchWindow, BeforeEvaluation
<1>2. /\ RelOK(rel') /\ rel'.skipped = rel.skipped /\ rel'.missing = rel.missing
      /\ rel'.collection = IF windowErr' THEN "Failed" ELSE ""
      /\ windowErr' \in BOOLEAN
  BY <1>1, OutcomeTypes DEF FetchWindow, RelOK, Larger, Levels
<1>3. TrustValid'  BY <1>1 DEF FetchWindow, TrustValid, UniqueIds, Specs
<1>4. /\ TypeOK' /\ SkipsListed' /\ IsFiniteSet(rel'.missing) /\ (req \in Requests)'
      /\ \A i \in 1 .. Len(results') : results'[i] = Evaluated(Specs[i])'
  BY <1>1, <1>2, StillEmpty DEF FetchWindow, RelOK
<1>5. IsFiniteSet(DOMAIN window')  BY OutcomeTypes DEF FetchWindow
<1>6. QED  BY <1>1, <1>2, <1>3, <1>4, <1>5 DEF RunInv, FetchWindow, BeforeEvaluation

LEMMA BeginStep == RunInv /\ BeginEvaluation => RunInv'
<1> SUFFICES ASSUME RunInv, BeginEvaluation  PROVE RunInv'  OBVIOUS
<1>1. results = <<>> /\ RelOK(rel) /\ windowErr \in BOOLEAN /\ TrustValid
  BY DEF RunInv, TypeOK, RelOK, BeginEvaluation, BeforeEvaluation
<1>2. /\ RelOK(rel') /\ rel'.skipped = rel.skipped /\ rel'.missing = rel.missing
      /\ rel'.collection = Collection /\ rel'.evaluation = "Complete"
  BY <1>1 DEF RunInv, BeginEvaluation, RelOK, Collection, Levels
<1>3. TrustValid' /\ Collection' = Collection
  BY <1>1 DEF BeginEvaluation, TrustValid, UniqueIds, Specs, Collection
<1>4. /\ TypeOK' /\ SkipsListed' /\ IsFiniteSet(rel'.missing) /\ (req \in Requests)'
      /\ \A i \in 1 .. Len(results') : results'[i] = Evaluated(Specs[i])'
  BY <1>1, <1>2, StillEmpty DEF BeginEvaluation, RelOK
<1>5. QED  BY <1>1, <1>2, <1>3, <1>4 DEF RunInv, BeginEvaluation, BeforeEvaluation

LEMMA RangeOfAppend ==
  ASSUME NEW S, NEW q \in Seq(S), NEW x \in S
  PROVE  Range(Append(q, x)) = Range(q) \cup {x}
<1> DEFINE a == Append(q, x)
           n == Len(q)
<1>1. n \in Nat /\ DOMAIN q = 1 .. n /\ DOMAIN a = 1 .. n + 1  OBVIOUS
<1>2. a[n + 1] = x /\ \A i \in 1 .. n : a[i] = q[i]  OBVIOUS
<1>3. \A i \in 1 .. n + 1 : i \in 1 .. n \/ i = n + 1  BY <1>1
<1>4. n + 1 \in 1 .. n + 1 /\ 1 .. n \subseteq 1 .. n + 1  BY <1>1
<1> HIDE DEF a, n
<1>5. QED  BY <1>1, <1>2, <1>3, <1>4 DEF Range, a

\* One pass of the loop: the next result is that of the next spec, and it is
\* listed exactly when it is a skip.
LEMMA EvaluateStep == RunInv /\ EvaluateNext => RunInv'
<1> SUFFICES ASSUME RunInv, EvaluateNext  PROVE RunInv'  OBVIOUS
<1> DEFINE n == Len(results) + 1
           r == Evaluated(Specs[n])
           listed(rs, k) == {rs[i].id : i \in {j \in 1 .. k : rs[j].status = "skip"}}
<1>1. /\ phase = "evaluate" /\ Len(results) < Len(Specs) /\ results' = Append(results, r)
      /\ rel' = [rel EXCEPT !.missing = @ \cup r.missing,
                            !.skipped = IF r.status = "skip" THEN Append(@, r.id) ELSE @]
      /\ UNCHANGED <<req, phase, start, end, window, windowErr, summary>>
  BY DEF EvaluateNext
<1>2. /\ RelOK(rel) /\ windowErr \in BOOLEAN /\ results \in Seq(Range(results))
      /\ Len(results) \in Nat
  <2>1. /\ RelOK(rel) /\ windowErr \in BOOLEAN /\ results \in Seq(Range(results))
    BY DEF RunInv, TypeOK, RelOK
  <2>2. QED  BY <2>1
<1>3. n \in 1 .. Len(Specs) /\ Len(Specs) \in Nat
  <2>1. Len(Specs) \in Nat  BY RequestFacts DEF RunInv
  <2>2. Len(results) < Len(Specs)  BY <1>1
  <2>3. QED  BY <1>2, <2>1, <2>2
<1>4. /\ r.id = Specs[n].id /\ IsResult(r) /\ r.missing \subseteq AllInputs
      /\ IsFiniteSet(r.missing) /\ r.id \in Ids(Specs)
  <2>1. r.id = Specs[n].id /\ IsResult(r) /\ r.missing \subseteq Range(Specs[n].inputs)
    BY EvaluatedFacts
  <2>2. Range(Specs[n].inputs) \subseteq AllInputs /\ Specs[n].id \in Ids(Specs)
    BY <1>3, RequestFacts DEF RunInv
  <2>3. IsFiniteSet(Range(Specs[n].inputs))
    <3>1. /\ DOMAIN Specs[n].inputs = 1 .. Len(Specs[n].inputs)
          /\ Len(Specs[n].inputs) \in Nat
      BY <1>3, RequestFacts DEF RunInv
    <3>2. Specs[n].inputs \in Seq(Range(Specs[n].inputs))
      <4>1. Specs[n] \in Range(Specs)  BY <1>3, RequestFacts DEF RunInv, Range
      <4>2. QED  BY <4>1, SliEvaluationAssumption DEF RunInv, Specs
    <3>3. QED  BY <3>1, <3>2, InputsFinite
  <2>4. QED  BY <2>1, <2>2, <2>3, FS_Subset
<1>5. Specs' = Specs /\ Ids(Specs)' = Ids(Specs) /\ AllInputs' = AllInputs
  BY <1>1 DEF Specs, Ids, AllInputs
<1> HIDE DEF r
<1>6. /\ Len(results') = n /\ results'[n] = r
      /\ \A i \in 1 .. Len(results) : results'[i] = results[i]
      /\ results' \in Seq(Range(results'))
  <2>1. Len(results') = n /\ results'[n] = r /\ \A i \in 1 .. Len(results) : results'[i] = results[i]
    BY <1>1, <1>2
  <2>2. results' \in Seq(Range(results) \cup {r})  BY <1>1, <1>2
  <2>3. results' \in [1 .. n -> Range(results')]  BY <1>2, <2>1, <2>2 DEF Range
  <2>4. QED  BY <1>2, <2>1, <2>3
<1>7. RelOK(rel)' /\ IsFiniteSet(rel'.missing)
  <2>1. RelOK(rel')
    <3>1. rel.skipped \in Seq(Ids(Specs)) /\ rel.missing \in SUBSET AllInputs
      BY <1>2 DEF RelOK
    <3>2. Append(rel.skipped, r.id) \in Seq(Ids(Specs))  BY <1>4, <3>1
    <3>3. rel.missing \cup r.missing \in SUBSET AllInputs  BY <1>4, <3>1
    <3> DEFINE skipped == IF r.status = "skip" THEN Append(rel.skipped, r.id) ELSE rel.skipped
               missing == rel.missing \cup r.missing
    <3>4. skipped \in Seq(Ids(Specs)) /\ missing \in SUBSET AllInputs  BY <3>1, <3>2, <3>3
    <3>5. rel' = [rel EXCEPT !.missing = missing, !.skipped = skipped]
      BY <1>1, <1>2 DEF RelOK
    <3> HIDE DEF skipped, missing
    <3>6. QED  BY <1>2, <3>4, <3>5 DEF RelOK
  <2>2. rel'.missing = rel.missing \cup r.missing  BY <1>1, <1>2 DEF RelOK
  <2>3. IsFiniteSet(rel'.missing)  BY <1>4, <2>2, FS_Union DEF RunInv
  <2>4. QED  BY <1>5, <2>1, <2>3 DEF RelOK
<1>8. \A i \in 1 .. n : results'[i] = Evaluated(Specs[i])'
  <2>1. \A i \in 1 .. Len(results) : results[i] = Evaluated(Specs[i])  BY DEF RunInv
  <2>2. \A i \in 1 .. n : Evaluated(Specs[i])' = Evaluated(Specs[i])
    BY <1>1, <1>5 DEF Evaluated
  <2>3. QED  BY <1>2, <1>6, <2>1, <2>2 DEF r
<1>9. \A i \in 1 .. n : results'[i].id = Specs[i].id /\ IsResult(results'[i])
  <2>1. \A i \in 1 .. Len(results) : results[i].id = Specs[i].id /\ IsResult(results[i])
    BY DEF RunInv, TypeOK
  <2>2. \A i \in 1 .. n : i \in 1 .. Len(results) \/ i = n  BY <1>2
  <2>3. QED  BY <1>4, <1>6, <2>1, <2>2
<1>10. SkipsListed'
  <2>1. Range(rel.skipped) = listed(results, Len(results))  BY DEF RunInv, SkipsListed
  <2>2. listed(results', n) = IF r.status = "skip" THEN listed(results, Len(results)) \cup {r.id}
                              ELSE listed(results, Len(results))
    BY <1>2, <1>6
  <2>3. Range(rel'.skipped) = IF r.status = "skip" THEN Range(rel.skipped) \cup {r.id}
                              ELSE Range(rel.skipped)
    <3>1. rel.skipped \in Seq(Ids(Specs))  BY <1>2 DEF RelOK
    <3>2. Range(Append(rel.skipped, r.id)) = Range(rel.skipped) \cup {r.id}
      BY <1>4, <3>1, RangeOfAppend
    <3>3. rel'.skipped = IF r.status = "skip" THEN Append(rel.skipped, r.id) ELSE rel.skipped
      BY <1>1, <1>2 DEF RelOK
    <3>4. QED  BY <3>2, <3>3
  <2>4. QED  BY <1>6, <2>1, <2>2, <2>3 DEF SkipsListed
<1>11. TypeOK'  BY <1>1, <1>2, <1>3, <1>5, <1>6, <1>7, <1>9 DEF TypeOK, RelOK
<1>12. rel'.collection = rel.collection /\ rel'.evaluation = rel.evaluation
  BY <1>1, <1>2 DEF RelOK
<1>13. TrustValid' /\ Collection' = Collection
  BY <1>1 DEF RunInv, TrustValid, UniqueIds, Specs, Collection
<1>14. QED
  BY <1>1, <1>6, <1>7, <1>8, <1>10, <1>11, <1>12, <1>13 DEF RunInv, BeforeEvaluation

LEMMA FinishStep == RunInv /\ Finish => RunInv'
<1> SUFFICES ASSUME RunInv, Finish  PROVE RunInv'  OBVIOUS
<1> DEFINE r == [rel EXCEPT !.evaluation = IF rel.skipped # <<>> THEN "Partial" ELSE @]
<1>1. /\ phase = "evaluate" /\ Len(results) = Len(Specs) /\ phase' = "done"
      /\ rel' = r /\ summary' = Written(r, results)
      /\ UNCHANGED <<req, start, end, window, windowErr, results>>
  BY DEF Finish
<1>2. RelOK(rel) /\ rel.collection = Collection /\ rel.evaluation = "Complete" /\ TrustValid
  BY <1>1 DEF RunInv, TypeOK, RelOK
<1>3. /\ RelOK(r) /\ r.skipped = rel.skipped /\ r.missing = rel.missing
      /\ r.collection = rel.collection
      /\ r.evaluation = IF rel.skipped # <<>> THEN "Partial" ELSE "Complete"
  BY <1>2 DEF RelOK, Levels
<1> HIDE DEF r
<1>4. Specs' = Specs /\ Ids(Specs)' = Ids(Specs) /\ AllInputs' = AllInputs
  BY <1>1 DEF Specs, Ids, AllInputs
<1>5. TypeOK'  BY <1>1, <1>3, <1>4 DEF RunInv, TypeOK, RelOK
<1>6. SkipsListed' /\ IsFiniteSet(rel'.missing)  BY <1>1, <1>3 DEF RunInv, SkipsListed
<1>7. Written(r, results) = Written(rel, results)'
  BY <1>1, <1>4 DEF Written, ContractVersion, Confidence, Stamp, Identity
<1>8. Completed'  BY <1>1, <1>2, <1>3, <1>4, <1>7 DEF Completed, Collection
<1>9. TrustValid'  BY <1>1, <1>2 DEF TrustValid, UniqueIds, Specs
<1>10. \A i \in 1 .. Len(results') : results'[i] = Evaluated(Specs[i])'
  BY <1>1, <1>4 DEF RunInv, Evaluated
<1>11. QED
  BY <1>1, <1>5, <1>6, <1>8, <1>9, <1>10 DEF RunInv, BeforeEvaluation

LEMMA RunStutter == RunInv /\ UNCHANGED vars => RunInv'
<1> SUFFICES ASSUME RunInv, UNCHANGED vars  PROVE RunInv'  OBVIOUS
<1>1. UNCHANGED <<req, phase, start, end, window, windowErr, rel, results, summary>>
  BY DEF vars
<1>2. Specs' = Specs /\ Ids(Specs)' = Ids(Specs) /\ AllInputs' = AllInputs
  BY <1>1 DEF Specs, Ids, AllInputs
<1>3. TypeOK' = TypeOK  BY <1>1, <1>2 DEF TypeOK
<1>4. TrustValid' = TrustValid /\ Collection' = Collection /\ SkipsListed' = SkipsListed
  BY <1>1, <1>2 DEF TrustValid, UniqueIds, Ids, Collection, SkipsListed
<1>5. \A r, rs : Written(r, rs)' = Written(r, rs)
  BY <1>1, <1>2 DEF Written, ContractVersion, Confidence, Stamp, Identity
<1>6. PointFailed' = PointFailed /\ Completed' = Completed
  BY <1>1, <1>2, <1>4, <1>5 DEF PointFailed, Completed
<1>7. \A s : Evaluated(s)' = Evaluated(s)  BY <1>1 DEF Evaluated
<1>8. QED  BY <1>1, <1>2, <1>3, <1>4, <1>6, <1>7 DEF RunInv

LEMMA RunStep == RunInv /\ [Next]_vars => RunInv'
BY ValidateStep, FetchPointStep, FetchWindowStep, BeginStep, EvaluateStep, FinishStep,
   RunStutter DEF Next

\* The state keeps its type, and the results are those of the specs in order.
THEOREM EvaluationTypeCorrect == Spec => []TypeOK
<1>1. RunInv => TypeOK  BY DEF RunInv
<1>2. QED  BY <1>1, RunInit, RunStep, PTL DEF Spec

-----------------------------------------------------------------------------
(* What the summary says *)

LEMMA WrittenFacts ==
  ASSUME NEW r, NEW rs, NEW n \in Nat, rs \in [1 .. n -> Range(rs)]
  PROVE  LET w == Written(r, rs)
         IN  /\ w.version = ContractVersion(r)
             /\ DOMAIN w.results = 1 .. n /\ Len(w.results) = n
             /\ \A i \in 1 .. n : w.results[i].result = rs[i]
             /\ w.version = "slo.v3" => \A i \in 1 .. n : w.results[i].identity = NoIdentity
<1> DEFINE version == ContractVersion(r)
           stamped == Stamp(version, rs)
<1>1. /\ Written(r, rs).version = version /\ Written(r, rs).results = stamped
  BY DEF Written
<1>2. stamped = [i \in 1 .. n |-> stamped[i]]  BY DEF Stamp
<1>3. \A i \in 1 .. n : /\ stamped[i].result = rs[i]
                        /\ version = "slo.v3" => stamped[i].identity = NoIdentity
  BY DEF Stamp
<1> HIDE DEF version, stamped
<1>4. DOMAIN stamped = 1 .. n /\ Len(stamped) = n  BY <1>2
<1>5. QED  BY <1>1, <1>3, <1>4 DEF version

\* A finished run: what is written is the record rel with the results.
LEMMA DoneFacts ==
  ASSUME RunInv, Done
  PROVE  /\ Len(results) \in Nat /\ Len(Specs) \in Nat /\ DOMAIN Specs = 1 .. Len(Specs)
         /\ RelOK(rel) /\ IsFiniteSet(rel.missing) /\ windowErr \in BOOLEAN /\ TrustValid
         /\ results \in [1 .. Len(results) -> Range(results)]
         /\ summary = Written(rel, results)
         /\ DOMAIN summary.results = 1 .. Len(results) /\ Len(summary.results) = Len(results)
         /\ \A i \in 1 .. Len(results) : summary.results[i].result = results[i]
         /\ \/ results = <<>> /\ ~windowErr /\ rel.collection = "Failed"
            \/ Completed
<1>1. RelOK(rel) /\ IsFiniteSet(rel.missing) /\ windowErr \in BOOLEAN
  BY DEF RunInv, TypeOK, RelOK
<1>2. results \in Seq(Range(results))  BY DEF RunInv, TypeOK
<1>3. Len(results) \in Nat /\ results \in [1 .. Len(results) -> Range(results)]  BY <1>2
<1>4. Len(Specs) \in Nat /\ DOMAIN Specs = 1 .. Len(Specs) /\ TrustValid
  BY RequestFacts DEF RunInv, Done
<1>5. PointFailed \/ Completed  BY DEF RunInv, Done
<1>6. summary = Written(rel, results)  BY <1>5 DEF PointFailed, Completed
<1>7. /\ DOMAIN summary.results = 1 .. Len(results) /\ Len(summary.results) = Len(results)
      /\ \A i \in 1 .. Len(results) : summary.results[i].result = results[i]
  BY <1>3, <1>6, WrittenFacts
<1>8. QED  BY <1>1, <1>3, <1>4, <1>5, <1>6, <1>7 DEF PointFailed

\* A v4 summary is a trusted request's whose fetches all succeeded, and an
\* identity found by the id of a result is that of its own spec.
LEMMA TrustedFollows == RunInv => TrustedIsComparable
<1> SUFFICES ASSUME RunInv, Done
             PROVE  /\ summary.version = "slo.v4" <=>
                         req.trust # NoTrust /\ ~windowErr /\ Len(summary.results) = Len(Specs)
                           /\ summary.rel.collection = "Complete"
                    /\ \A i \in 1 .. Len(summary.results) :
                         summary.results[i].identity =
                           IF summary.version = "slo.v4" THEN Identity(Specs[i]) ELSE NoIdentity
                    /\ summary.version = "slo.v4" => Blank \notin Ids(Specs) /\ UniqueIds(Specs)
  BY DEF TrustedIsComparable
<1>1. summary.version = ContractVersion(rel) /\ summary.rel.collection = rel.collection
  BY DoneFacts DEF Written, RelOK
<1>2. summary.version = "slo.v3" \/ summary.version = "slo.v4"  BY <1>1 DEF ContractVersion
<1>3. summary.version = "slo.v4" <=> req.trust # NoTrust /\ rel.collection # "Failed"
  BY <1>1 DEF ContractVersion
<1>4. rel.collection # "Failed" => Completed  BY DoneFacts
<1>5. Completed => Len(results) = Len(Specs) /\ rel.collection = Collection
  BY DEF Completed
<1>6. rel.collection \in {"Failed", "Complete"}
  BY DoneFacts, <1>5 DEF Collection
<1>7. summary.version = "slo.v4" <=>
        req.trust # NoTrust /\ ~windowErr /\ Len(summary.results) = Len(Specs)
          /\ summary.rel.collection = "Complete"
  BY <1>1, <1>3, <1>4, <1>5, <1>6, DoneFacts DEF Collection
<1>8. ASSUME NEW i \in 1 .. Len(results), summary.version = "slo.v4"
      PROVE  summary.results[i].identity = Identity(Specs[i])
  <2>1. UniqueIds(Specs)  BY <1>3, <1>8, DoneFacts DEF TrustValid
  <2>2. i \in DOMAIN Specs /\ results[i].id = Specs[i].id
    BY <1>3, <1>4, <1>5, <1>8, DoneFacts DEF RunInv, TypeOK
  <2>3. (CHOOSE j \in DOMAIN Specs : Specs[j].id = results[i].id) = i
    BY <2>1, <2>2 DEF UniqueIds
  <2>4. summary.results = Stamp("slo.v4", results)
    BY <1>1, <1>8, DoneFacts DEF Written
  <2>5. i \in DOMAIN results  BY DoneFacts
  <2>6. summary.results[i].identity =
          Identity(Specs[CHOOSE j \in DOMAIN Specs : Specs[j].id = results[i].id])
    BY <2>4, <2>5 DEF Stamp
  <2>7. QED  BY <2>3, <2>6
<1>9. ASSUME NEW i \in 1 .. Len(results), summary.version = "slo.v3"
      PROVE  summary.results[i].identity = NoIdentity
  <2>1. summary = Written(rel, results) /\ Len(results) \in Nat
        /\ results \in [1 .. Len(results) -> Range(results)]
    BY DoneFacts
  <2>2. QED  BY <1>9, <2>1, WrittenFacts
<1>10. summary.version = "slo.v4" => Blank \notin Ids(Specs) /\ UniqueIds(Specs)
  BY <1>3, DoneFacts DEF TrustValid
<1>11. QED  BY <1>2, <1>7, <1>8, <1>9, <1>10, DoneFacts

\* A trusted summary's identities are those of the SLIs it measured.
THEOREM TrustedCorrect == Spec => []TrustedIsComparable
BY TrustedFollows, RunInit, RunStep, PTL DEF Spec

-----------------------------------------------------------------------------
(* What the gate and the policies make of it *)

\* A skip is a result without a value, and in a run that got as far as its
\* results it is one whose id is listed.
LEMMA ListedIsSkipped ==
  ASSUME RunInv, Len(results) = Len(Specs), UniqueIds(Specs), NEW i \in DOMAIN Specs
  PROVE  /\ i \in 1 .. Len(results) /\ results[i].id = Specs[i].id /\ IsResult(results[i])
         /\ Specs[i].id \in Range(rel.skipped) <=> results[i].value = NoValue
<1>1. i \in 1 .. Len(results) /\ DOMAIN Specs = 1 .. Len(results)  BY RequestFacts DEF RunInv
<1>2. \A j \in 1 .. Len(results) : results[j].id = Specs[j].id /\ IsResult(results[j])
  BY DEF RunInv, TypeOK
<1>3. Specs[i].id \in Range(rel.skipped) <=>
        \E j \in 1 .. Len(results) : results[j].status = "skip" /\ results[j].id = Specs[i].id
  BY DEF RunInv, SkipsListed
<1>4. \A j \in 1 .. Len(results) : results[j].id = Specs[i].id => j = i
  BY <1>1, <1>2 DEF UniqueIds
<1>5. Specs[i].id \in Range(rel.skipped) <=> results[i].status = "skip"
  BY <1>1, <1>2, <1>3, <1>4
<1>6. QED  BY <1>1, <1>2, <1>5 DEF IsResult

\* Where every SLI has its result, the gate finds it under its id.
LEMMA GradableIffMeasured ==
  ASSUME RunInv, Done, UniqueIds(Specs), NEW i \in DOMAIN Specs
  PROVE  Gradable(i) <=> Measured /\ results[i].value # NoValue /\ ~windowErr
<1> DEFINE id == Specs[i].id
           ids == {summary.results[k].result.id : k \in DOMAIN summary.results}
           E == Evidence
<1>1. /\ E.collection = rel.collection /\ E.evaluation = rel.evaluation
      /\ E.skipped = Range(rel.skipped) /\ DOMAIN E.results = ids
  BY DoneFacts DEF Evidence, Written, RelOK
<1>2. CASE results = <<>> /\ ~windowErr /\ rel.collection = "Failed"
  <2>1. ~Gradable(i)
    BY <1>1, <1>2 DEF Gradable, Gate!ValueSufficient, Gate!RunUnreliable
  <2>2. Len(Specs) # 0 /\ Len(summary.results) = 0  BY <1>2, DoneFacts, EmptySeq
  <2>3. QED  BY <2>1, <2>2 DEF Measured
<1>3. CASE Completed
  <2>1. /\ Len(results) = Len(Specs) /\ rel.collection = Collection
        /\ rel.evaluation \in {"Partial", "Complete"}
    BY <1>3 DEF Completed
  <2>2. Measured  BY <2>1, DoneFacts DEF Measured
  <2>3. Gate!RunUnreliable(E) <=> windowErr
    BY <1>1, <2>1 DEF Gate!RunUnreliable, Collection
  <2>4. /\ i \in 1 .. Len(results) /\ results[i].id = id /\ IsResult(results[i])
        /\ id \in Range(rel.skipped) <=> results[i].value = NoValue
    BY <2>1, ListedIsSkipped
  <2>5. id \in ids  BY <2>4, DoneFacts
  <2>6. (CHOOSE k \in DOMAIN summary.results : summary.results[k].result.id = id) = i
    <3>1. \A k \in DOMAIN summary.results :
            k \in DOMAIN Specs /\ summary.results[k].result.id = Specs[k].id
      BY <2>1, DoneFacts DEF RunInv, TypeOK
    <3>2. i \in DOMAIN summary.results  BY <2>4, DoneFacts
    <3>3. QED  BY <3>1, <3>2 DEF UniqueIds
  <2>7. E.results[id] = [value |-> results[i].value, missing |-> results[i].missing # {}]
    BY <2>4, <2>5, <2>6, DoneFacts DEF Evidence
  <2>8. results[i].missing # {} => results[i].value = NoValue  BY <2>4 DEF IsResult
  <2> HIDE DEF id, ids, E
  <2>9. Gate!ValueSufficient(E, id) <=> ~windowErr /\ results[i].value # NoValue
    <3>1. /\ E.results[id].value = results[i].value
          /\ E.results[id].missing <=> results[i].missing # {}
      <4> DEFINE rec == [value |-> results[i].value, missing |-> results[i].missing # {}]
      <4>1. rec.value = results[i].value /\ (rec.missing <=> results[i].missing # {})  OBVIOUS
      <4>2. E.results[id] = rec  BY <2>7
      <4>3. QED  BY <4>1, <4>2, Zenon
    <3>2. id \in DOMAIN E.results /\ (id \notin E.skipped <=> results[i].value # NoValue)
      BY <1>1, <2>4, <2>5
    <3>3. QED  BY <2>3, <2>8, <3>1, <3>2, Zenon DEF Gate!ValueSufficient
  <2>10. QED  BY <2>2, <2>9 DEF Gradable, E, id
<1>4. QED  BY <1>2, <1>3, DoneFacts

\* The gate grades exactly the measured SLIs.
THEOREM GradesMeasuredCorrect == Spec => []GateGradesMeasured
<1>1. RunInv => GateGradesMeasured  BY GradableIffMeasured DEF GateGradesMeasured
<1>2. QED  BY <1>1, RunInit, RunStep, PTL DEF Spec

\* A session whose policies pass has delivered what they ask for.
LEMMA StrictFollows == RunInv => StrictSessionDelivers
<1> SUFFICES ASSUME RunInv, Done, NEW c \in SessionConfigs, PoliciesPass(c, summary)
             PROVE  /\ c.strictness \in {"StrictEvaluation", "RequiredSLIs"} /\ UniqueIds(Specs) =>
                         \A i \in DOMAIN Specs : Gradable(i)
                    /\ c.strictness = "StrictCollection" =>
                         ~windowErr /\ Len(summary.results) = Len(Specs)
                    /\ c.gateOn = "warn" =>
                         \A i \in 1 .. Len(summary.results) :
                           Specs[i].mode = "delta" /\ results[i].value # NoValue =>
                             ~(results[i].value.num < 0)
  BY DEF StrictSessionDelivers
<1>1. /\ summary.rel.collection = rel.collection /\ summary.rel.evaluation = rel.evaluation
      /\ Len(summary.results) = Len(results) /\ StrictnessOK(c, summary) /\ GatingOK(c, summary)
  BY DoneFacts DEF Written, RelOK, PoliciesPass
<1>2. ASSUME c.strictness \in {"StrictCollection", "StrictEvaluation", "RequiredSLIs"}
      PROVE  ~windowErr /\ Completed /\ Len(results) = Len(Specs)
  <2>1. rel.collection # "Failed"  BY <1>1, <1>2 DEF StrictnessOK
  <2>2. QED  BY <2>1, DoneFacts DEF Completed, Collection
<1>3. ASSUME c.strictness \in {"StrictEvaluation", "RequiredSLIs"}, UniqueIds(Specs),
             NEW i \in DOMAIN Specs
      PROVE  Gradable(i)
  <2>1. rel.evaluation # "Partial"  BY <1>1, <1>3 DEF StrictnessOK
  <2>2. rel.skipped = <<>> /\ Len(results) = Len(Specs) /\ ~windowErr
    BY <1>2, <1>3, <2>1 DEF Completed
  <2>3. results[i].value # NoValue  BY <1>3, <2>2, ListedIsSkipped, EmptySeq
  <2>4. Measured  BY <1>1, <2>2 DEF Measured
  <2>5. QED  BY <1>3, <2>2, <2>3, <2>4, GradableIffMeasured
<1>4. ASSUME c.gateOn = "warn", NEW i \in 1 .. Len(results),
             Specs[i].mode = "delta", results[i].value # NoValue
      PROVE  ~(results[i].value.num < 0)
  <2>1. results[i].status \notin {"fail", "warn"}
    BY <1>1, <1>4, DoneFacts DEF GatingOK
  <2>2. results[i] = EvalSLI(Specs[i], start, end)
    BY <1>4 DEF RunInv, Evaluated, IsWindow, WindowModes
  <2>3. QED  BY <1>4, <2>1, <2>2, PointFacts
<1>5. QED  BY <1>1, <1>2, <1>3, <1>4

\* A strict session's End returns no error only for what it promises.
THEOREM StrictSessionCorrect == Spec => []StrictSessionDelivers
BY StrictFollows, RunInit, RunStep, PTL DEF Spec

-----------------------------------------------------------------------------
(* Deltas *)

\* Past its validation a request has only valid selectors.
SelectorsValid ==
  phase \notin {"validate", "rejected"} => \A i \in DOMAIN Specs : ValidSelectors(Specs[i])

LEMMA SelectorsStep == SelectorsValid /\ [Next]_vars => SelectorsValid'
<1> SUFFICES ASSUME SelectorsValid, [Next]_vars  PROVE SelectorsValid'  OBVIOUS
<1>1. CASE Validate  BY <1>1 DEF Validate, SelectorsValid, Specs
<1>2. CASE ~Validate
  <2>1. /\ Specs' = Specs
        /\ phase \in {"validate", "rejected"} => phase' = phase
    BY <1>2 DEF Next, FetchStart, FetchEnd, FetchWindow, BeginEvaluation, EvaluateNext, Finish,
                vars, Specs
  <2>2. QED  BY <2>1 DEF SelectorsValid
<1>3. QED  BY <1>1, <1>2

\* An input that resolves at both ends of a delta is of one thing.
LEMMA ResolvedDelta ==
  ASSUME NEW s, s.mode = "delta", ValidSelectors(s), IsFiniteSet(DOMAIN start),
         IsFiniteSet(DOMAIN end), NEW j \in DOMAIN s.inputs,
         InputResolves(s.inputs[j], s.mode, start, end)
  PROVE  LET in == s.inputs[j]
         IN  \/ ~IsSelector(in) /\ in.key \in DOMAIN start /\ in.key \in DOMAIN end
             \/ /\ IsSelector(in) /\ in.aggregate = ""
                /\ \E a \in DOMAIN start, b \in DOMAIN end :
                     /\ Canonical[a] = Canonical[b]
                     /\ Matched(in, start) = {a} /\ Matched(in, end) = {b}
             \/ /\ IsSelector(in) /\ in.aggregate = "sum"
                /\ \A sample \in {start, end} : \E k \in DOMAIN sample :
                     /\ Family[k] = in.metric
                     /\ in.emptyMatch = "" => Canonical[k] \in in.match
<1> DEFINE in == s.inputs[j]
<1>1. CASE ~IsSelector(in)  BY <1>1 DEF InputResolves
<1>2. CASE IsSelector(in)
  <2>1. /\ Resolves(in, start) /\ Resolves(in, end)
        /\ in.aggregate = "" => SameSeries(in, start, end)
    BY <1>2 DEF InputResolves, NeedStart, NeedEnd
  <2>2. /\ in.aggregate \in {"", "sum"} /\ in.emptyMatch \in {"", "zero_if_family_present"}
        /\ in.emptyMatch = "zero_if_family_present" => in.aggregate = "sum"
    BY <1>2 DEF ValidSelectors, ValidSelector
  <2> HIDE DEF in
  <2>3. CASE in.aggregate = "sum"
    <3>1. ASSUME NEW sample, Resolves(in, sample)
          PROVE  \E k \in DOMAIN sample :
                   Family[k] = in.metric /\ (in.emptyMatch = "" => Canonical[k] \in in.match)
      <4>1. CASE Matched(in, sample) = {}
        BY <2>2, <3>1, <4>1 DEF Resolves, OfFamily
      <4>2. CASE Matched(in, sample) # {}  BY <4>2 DEF Matched, OfFamily
      <4>3. QED  BY <4>1, <4>2
    <3>2. QED  BY <1>2, <2>1, <2>3, <3>1 DEF in
  <2>4. CASE in.aggregate = ""
    <3>1. ASSUME NEW sample, Resolves(in, sample), IsFiniteSet(DOMAIN sample)
          PROVE  \E k \in DOMAIN sample : Matched(in, sample) = {k}
      <4>1. Matched(in, sample) # {} /\ Cardinality(Matched(in, sample)) = 1
        BY <2>2, <2>4, <3>1 DEF Resolves
      <4>2. Matched(in, sample) \subseteq DOMAIN sample  BY DEF Matched, OfFamily
      <4>3. IsFiniteSet(Matched(in, sample))  BY <3>1, <4>2, FS_Subset
      <4>4. PICK k : Matched(in, sample) = {k}  BY <4>1, <4>3, FS_Singleton
      <4>5. QED  BY <4>2, <4>4
    <3>2. PICK a \in DOMAIN start : Matched(in, start) = {a}  BY <2>1, <3>1
    <3>3. PICK b \in DOMAIN end : Matched(in, end) = {b}  BY <2>1, <3>1
    <3>4. {Canonical[a]} = {Canonical[b]}  BY <2>1, <2>4, <3>2, <3>3 DEF SameSeries
    <3>5. Canonical[a] = Canonical[b]  BY <3>4
    <3>6. QED  BY <1>2, <2>4, <3>2, <3>3, <3>5 DEF in
  <2>5. QED  BY <2>2, <2>3, <2>4
<1>3. QED  BY <1>1, <1>2

LEMMA DeltaFollows == RunInv /\ SelectorsValid => DeltaIsOfOneSeries
<1> SUFFICES ASSUME RunInv, SelectorsValid, NEW i \in 1 .. Len(results),
                    Specs[i].mode = "delta", results[i].value # NoValue
             PROVE  /\ \A j \in DOMAIN Specs[i].inputs :
                         LET in == Specs[i].inputs[j]
                         IN  \/ ~IsSelector(in) /\ in.key \in DOMAIN start /\ in.key \in DOMAIN end
                             \/ /\ IsSelector(in) /\ in.aggregate = ""
                                /\ \E a \in DOMAIN start, b \in DOMAIN end :
                                     /\ Canonical[a] = Canonical[b]
                                     /\ Matched(in, start) = {a} /\ Matched(in, end) = {b}
                             \/ /\ IsSelector(in) /\ in.aggregate = "sum"
                                /\ \A sample \in {start, end} : \E k \in DOMAIN sample :
                                     /\ Family[k] = in.metric
                                     /\ in.emptyMatch = "" => Canonical[k] \in in.match
                    /\ results[i].value.num < 0 => results[i].status \in {"warn", "fail"}
  BY DEF DeltaIsOfOneSeries
<1>1. results[i] = EvalSLI(Specs[i], start, end)
  BY DEF RunInv, Evaluated, IsWindow, WindowModes
<1>2. /\ \A j \in DOMAIN Specs[i].inputs :
           InputResolves(Specs[i].inputs[j], Specs[i].mode, start, end)
      /\ results[i].value.num < 0 => results[i].status \in {"warn", "fail"}
  BY <1>1, PointFacts
<1>3. ValidSelectors(Specs[i])
  <2>1. Len(results) \in Nat /\ Len(results) <= Len(Specs)
    <3>1. results \in Seq(Range(results)) /\ Len(results) <= Len(Specs)  BY DEF RunInv, TypeOK
    <3>2. QED  BY <3>1
  <2>2. Len(Specs) \in Nat /\ DOMAIN Specs = 1 .. Len(Specs)  BY RequestFacts DEF RunInv
  <2>3. i \in DOMAIN Specs  BY <2>1, <2>2
  <2>4. results # <<>>  BY <2>1, EmptySeq
  <2>5. QED  BY <2>3, <2>4 DEF RunInv, BeforeEvaluation, SelectorsValid
<1>4. IsFiniteSet(DOMAIN start) /\ IsFiniteSet(DOMAIN end)  BY DEF RunInv
<1>5. QED  BY <1>2, <1>3, <1>4, ResolvedDelta

\* A reported delta is of one thing at two times.
THEOREM DeltaCorrect == Spec => []DeltaIsOfOneSeries
<1>1. Init => SelectorsValid  BY DEF Init, SelectorsValid
<1>2. QED  BY <1>1, RunInit, RunStep, SelectorsStep, DeltaFollows, PTL DEF Spec

-----------------------------------------------------------------------------
(* Confidence *)

\* A record without any penalty.
Flawless(r) ==
  /\ r.collection = "Complete" /\ r.evaluation # "Partial" /\ r.missing = {} /\ r.skipped = <<>>
  /\ \A f \in {"startSkew", "endSkew", "latency"} : r[f] <= SlowMs

LEMMA ConfidenceFacts ==
  ASSUME NEW r, RelOK(r), IsFiniteSet(r.missing)
  PROVE  /\ Confidence(r) \in 0 .. 10
         /\ Confidence(r) = 10 => Flawless(r)
         /\ r.collection # "Complete" => Confidence(r) = 0
<1> DEFINE fields == {"startSkew", "endSkew", "latency"}
           slow == {f \in fields : r[f] > SlowMs}
           partial == IF r.evaluation = "Partial" THEN 2 ELSE 0
           m == Cardinality(r.missing)
           k == Len(r.skipped)
           l == Cardinality(slow)
           penalty == partial + AtMost(m, 3) + AtMost(k, 3) + l
<1>1. Confidence(r) = IF r.collection # "Complete" THEN 0 ELSE 10 - AtMost(penalty, 10)
  BY DEF Confidence
<1>2. m \in Nat /\ (m = 0 => r.missing = {})  BY FS_CardinalityType, FS_EmptySet
<1>3. k \in Nat /\ (k = 0 => r.skipped = <<>>)
  <2>1. r.skipped \in Seq(Ids(Specs))  BY DEF RelOK
  <2>2. QED  BY <2>1
<1>4. l \in Nat /\ (l = 0 => slow = {})
  <2>1. IsFiniteSet(fields)
    <3>1. fields = {"startSkew"} \cup {"endSkew"} \cup {"latency"}  OBVIOUS
    <3>2. /\ IsFiniteSet({"startSkew"}) /\ IsFiniteSet({"endSkew"}) /\ IsFiniteSet({"latency"})
      BY FS_Singleton
    <3>3. IsFiniteSet({"startSkew"} \cup {"endSkew"})  BY <3>2, FS_Union
    <3>4. IsFiniteSet(({"startSkew"} \cup {"endSkew"}) \cup {"latency"})
      BY <3>2, <3>3, FS_Union
    <3>5. QED  BY <3>1, <3>4
  <2>2. IsFiniteSet(slow)  BY <2>1, FS_Subset
  <2>3. QED  BY <2>2, FS_CardinalityType, FS_EmptySet
<1>5. partial \in {0, 2} /\ (partial = 0 => r.evaluation # "Partial")  OBVIOUS
<1>6. slow = {} => \A f \in fields : r[f] <= SlowMs
  <2>1. r.startSkew \in Int /\ r.endSkew \in Int /\ r.latency \in Int  BY DEF RelOK
  <2>2. SUFFICES ASSUME slow = {}, NEW f \in fields  PROVE r[f] <= SlowMs  OBVIOUS
  <2>3. ~(r[f] > SlowMs)  BY <2>2
  <2>4. QED  BY <2>1, <2>3 DEF SlowMs
<1> HIDE DEF partial, m, k, slow, l, fields
<1>7. penalty \in Nat /\ (penalty = 0 => partial = 0 /\ m = 0 /\ k = 0 /\ l = 0)
  BY <1>2, <1>3, <1>4, <1>5 DEF AtMost
<1> HIDE DEF penalty
<1>8. /\ Confidence(r) \in 0 .. 10
      /\ Confidence(r) = 10 => r.collection = "Complete" /\ penalty = 0
      /\ r.collection # "Complete" => Confidence(r) = 0
  BY <1>1, <1>7 DEF AtMost
<1>9. penalty = 0 /\ r.collection = "Complete" => Flawless(r)
  BY <1>2, <1>3, <1>4, <1>5, <1>6, <1>7 DEF Flawless, fields
<1>10. QED  BY <1>8, <1>9

LEMMA ConfidenceFollows == RunInv => ConfidenceIsEarned
<1> SUFFICES ASSUME RunInv, Done
             PROVE  /\ summary.rel.confidence \in 0 .. 10
                    /\ summary.rel.confidence = 10 =>
                         /\ \A f \in {"startSkew", "endSkew", "latency"} : summary.rel[f] <= SlowMs
                         /\ ~windowErr
                         /\ Len(results) = Len(Specs)
                         /\ \A i \in DOMAIN Specs : results[i].value # NoValue
                    /\ windowErr => summary.rel.confidence = 0
  BY DEF ConfidenceIsEarned
<1>1. /\ summary.rel.confidence = Confidence(rel)
      /\ \A f \in {"startSkew", "endSkew", "latency"} : summary.rel[f] = rel[f]
  <2>1. summary.rel = [rel EXCEPT !.confidence = Confidence(rel)]
    BY DoneFacts DEF Written
  <2>2. RelOK(rel)  BY DoneFacts
  <2>3. QED  BY <2>1, <2>2 DEF RelOK
<1>2. /\ Confidence(rel) \in 0 .. 10 /\ (Confidence(rel) = 10 => Flawless(rel))
      /\ rel.collection # "Complete" => Confidence(rel) = 0
  BY DoneFacts, ConfidenceFacts
<1>3. windowErr => rel.collection # "Complete"  BY DoneFacts DEF Completed, Collection
<1>4. ASSUME Flawless(rel)
      PROVE  /\ ~windowErr /\ Len(results) = Len(Specs)
             /\ \A i \in DOMAIN Specs : results[i].value # NoValue
  <2>1. Completed /\ Len(results) = Len(Specs) /\ rel.skipped = <<>> /\ ~windowErr
    BY <1>3, <1>4, DoneFacts DEF Completed, Flawless
  <2>2. \A i \in 1 .. Len(results) : results[i].status # "skip" /\ IsResult(results[i])
    <3>1. Range(rel.skipped) = {} /\ SkipsListed  BY <2>1, EmptySeq DEF RunInv
    <3>2. \A i \in 1 .. Len(results) : results[i].status # "skip"  BY <3>1 DEF SkipsListed
    <3>3. \A i \in 1 .. Len(results) : IsResult(results[i])  BY DEF RunInv, TypeOK
    <3>4. QED  BY <3>2, <3>3
  <2>3. QED  BY <2>1, <2>2, DoneFacts DEF IsResult
<1>5. QED  BY <1>1, <1>2, <1>3, <1>4 DEF Flawless

\* Full confidence is earned.
THEOREM ConfidenceCorrect == Spec => []ConfidenceIsEarned
BY ConfidenceFollows, RunInit, RunStep, PTL DEF Spec

-----------------------------------------------------------------------------
(***************************************************************************)
(* Measurement contracts.  What a contract keeps of the inputs decides the *)
(* value: a least or greatest value depends on which cells of the window   *)
(* are read, and a nearest rank on how often each, up to a common factor.  *)
(***************************************************************************)

\* A nonempty set of naturals has a least element.
LEMMA LeastExists ==
  ASSUME NEW S \in SUBSET Nat, S # {}
  PROVE  \E m \in S : \A k \in S : m <= k
<1>1. PICK m \in S : \A k \in S : <<k, m>> \notin OpToRel(<, Nat)
  BY WFMin, NatLessThanWellFounded, Zenon
<1>2. \A k \in S : ~(k < m)
  <2>1. SUFFICES ASSUME NEW k \in S, k < m  PROVE <<k, m>> \in {p \in Nat \X Nat : p[1] < p[2]}
    BY <1>1, Zenon DEF OpToRel
  <2>2. QED  BY <2>1
<1>3. QED  BY <1>2

\* A nonempty set of naturals up to a bound has a greatest element.
LEMMA GreatestExists ==
  ASSUME NEW n \in Nat, NEW S \in SUBSET (0 .. n), S # {}
  PROVE  Max(S) \in S /\ \A x \in S : x <= Max(S)
<1> DEFINE below == {m \in Nat : n - m \in S}
<1>1. below # {} /\ below \in SUBSET Nat
  <2>1. PICK x \in S : TRUE  OBVIOUS
  <2>2. n - x \in Nat /\ n - (n - x) = x  BY <2>1
  <2>3. n - x \in below  BY <2>1, <2>2
  <2>4. QED  BY <2>3
<1>2. PICK m \in below : \A k \in below : m <= k
  <2> HIDE DEF below
  <2>1. QED  BY <1>1, LeastExists
<1>3. \A x \in S : x <= n - m
  <2>1. SUFFICES ASSUME NEW x \in S  PROVE x <= n - m  OBVIOUS
  <2>2. n - x \in below  OBVIOUS
  <2>3. m <= n - x  BY <1>2, <2>2
  <2>4. QED  BY <1>1, <2>3
<1>4. \E x \in S : \A y \in S : x >= y  BY <1>2, <1>3
<1>5. Max(S) = CHOOSE x \in S : \A y \in S : x >= y  BY DEF Max
<1> HIDE DEF below
<1>6. Max(S) \in S /\ \A y \in S : Max(S) >= y  BY <1>4, <1>5
<1>7. QED  BY <1>6

\* The multiplicities of inputs are multiples of their common factor.
LEMMA CommonFactorDivides ==
  ASSUME NEW inputs, inputs \in Seq(Range(inputs)), Len(inputs) > 0
  PROVE  /\ CommonFactor(inputs) \in Nat \ {0}
         /\ \A in \in Range(inputs) :
              /\ Count(in, inputs) \in Nat
              /\ Count(in, inputs) = CommonFactor(inputs) * (Count(in, inputs) \div CommonFactor(inputs))
<1> DEFINE n == Len(inputs)
           common == {d \in 1 .. n : \A in \in Range(inputs) : Count(in, inputs) % d = 0}
<1>1. n \in Nat /\ DOMAIN inputs = 1 .. n  OBVIOUS
<1>2. \A in \in Range(inputs) : Count(in, inputs) \in Nat
  <2>1. IsFiniteSet(DOMAIN inputs)  BY <1>1, FS_Interval
  <2>2. SUFFICES ASSUME NEW in \in Range(inputs)  PROVE Count(in, inputs) \in Nat  OBVIOUS
  <2>3. {i \in DOMAIN inputs : inputs[i] = in} \subseteq DOMAIN inputs  OBVIOUS
  <2>4. IsFiniteSet({i \in DOMAIN inputs : inputs[i] = in})  BY <2>1, <2>3, FS_Subset
  <2>5. QED  BY <2>4, FS_CardinalityType DEF Count
<1>3. 1 \in common  BY <1>1, <1>2
<1>4. CommonFactor(inputs) \in common
  <2>1. common \in SUBSET (0 .. n) /\ common # {}  BY <1>1, <1>3
  <2>2. Max(common) \in common  BY <1>1, <2>1, GreatestExists
  <2>3. QED  BY <2>2 DEF CommonFactor
<1>5. ASSUME NEW c \in Nat, NEW d \in Nat \ {0}, c % d = 0  PROVE c = d * (c \div d)
  BY <1>5
<1> DEFINE f == CommonFactor(inputs)
<1>6. f \in Nat \ {0} /\ \A in \in Range(inputs) : Count(in, inputs) % f = 0  BY <1>1, <1>4
<1> HIDE DEF f
<1>7. \A in \in Range(inputs) : Count(in, inputs) = f * (Count(in, inputs) \div f)
  BY <1>2, <1>5, <1>6
<1>8. QED  BY <1>2, <1>6, <1>7 DEF f

\* The cells of a window that some inputs read, and the values there.
Cells(R, w) == {c \in (DOMAIN w) \X R : c[2].key \in DOMAIN w[c[1]]}
CellValue(w, c) == w[c[1]][c[2].key]

\* The pooled values of inputs that stand for some cells.
Over(inputs, w, W) == {p \in Pooled(inputs, w) : <<p[1], inputs[p[2]]>> \in W}

LEMMA PooledFacts ==
  ASSUME NEW inputs, inputs \in Seq(Range(inputs)), NEW w, IsFiniteSet(DOMAIN w)
  PROVE  /\ IsFiniteSet(Pooled(inputs, w)) /\ Cardinality(Pooled(inputs, w)) \in Nat
         /\ Over(inputs, w, Cells(Range(inputs), w)) = Pooled(inputs, w)
         /\ \A W : /\ IsFiniteSet(Over(inputs, w, W)) /\ Cardinality(Over(inputs, w, W)) \in Nat
                   /\ Cardinality(Over(inputs, w, W)) <= Cardinality(Pooled(inputs, w))
                   /\ Cardinality(Over(inputs, w, W)) = Cardinality(Pooled(inputs, w))
                        => Over(inputs, w, W) = Pooled(inputs, w)
<1>1. IsFiniteSet(DOMAIN inputs)
  <2>1. DOMAIN inputs = 1 .. Len(inputs) /\ Len(inputs) \in Nat  OBVIOUS
  <2>2. QED  BY <2>1, FS_Interval
<1>2. IsFiniteSet((DOMAIN w) \X (DOMAIN inputs))  BY <1>1, FS_Product
<1>3. Pooled(inputs, w) \subseteq (DOMAIN w) \X (DOMAIN inputs)  BY DEF Pooled
<1>4. IsFiniteSet(Pooled(inputs, w))  BY <1>2, <1>3, FS_Subset
<1>5. \A W : Over(inputs, w, W) \subseteq Pooled(inputs, w)  BY DEF Over
<1>6. Over(inputs, w, Cells(Range(inputs), w)) = Pooled(inputs, w)
  BY DEF Over, Cells, Pooled, Range
<1>7. QED  BY <1>4, <1>5, <1>6, FS_Subset, FS_CardinalityType

\* Every cell is read through some input, so the pool covers the cells.
LEMMA OverCovers ==
  ASSUME NEW inputs, NEW w, NEW W, W \subseteq Cells(Range(inputs), w)
  PROVE  /\ Over(inputs, w, W) = {} <=> W = {}
         /\ Over(inputs, w, W) = Pooled(inputs, w) <=> W = Cells(Range(inputs), w)
<1>1. \A c \in Cells(Range(inputs), w) : \E p \in Pooled(inputs, w) : c = <<p[1], inputs[p[2]]>>
  <2>1. SUFFICES ASSUME NEW c \in Cells(Range(inputs), w)
                 PROVE  \E p \in Pooled(inputs, w) : c = <<p[1], inputs[p[2]]>>
    OBVIOUS
  <2>2. PICK i \in DOMAIN inputs : c[2] = inputs[i]  BY DEF Cells, Range
  <2>3. c = <<c[1], inputs[i]>> /\ <<c[1], i>> \in Pooled(inputs, w)
    BY <2>2 DEF Cells, Pooled
  <2>4. QED  BY <2>3
<1>2. \A p \in Pooled(inputs, w) : <<p[1], inputs[p[2]]>> \in Cells(Range(inputs), w)
  BY DEF Cells, Pooled, Range
<1>3. QED  BY <1>1, <1>2 DEF Over

PooledValue(inputs, w) == [p \in Pooled(inputs, w) |-> w[p[1]][inputs[p[2]].key]]
Below(R, w, v) == {c \in Cells(R, w) : CellValue(w, c) < v}
UpTo(R, w, v) == {c \in Cells(R, w) : CellValue(w, c) <= v}
Hit(R, w, v) == \E c \in Cells(R, w) : CellValue(w, c) = v

\* The values of a rank, told by the cells.
LEMMA OfRankByCells ==
  ASSUME NEW inputs, NEW w, NEW rank, NEW v
  PROVE  v \in OfRank(rank, Pooled(inputs, w), PooledValue(inputs, w)) <=>
           /\ Hit(Range(inputs), w, v)
           /\ Cardinality(Over(inputs, w, Below(Range(inputs), w, v))) < rank
           /\ rank <= Cardinality(Over(inputs, w, UpTo(Range(inputs), w, v)))
<1> DEFINE pool == Pooled(inputs, w)
           val == PooledValue(inputs, w)
           cells == Cells(Range(inputs), w)
<1>1. \A p \in pool : /\ <<p[1], inputs[p[2]]>> \in cells
                      /\ val[p] = CellValue(w, <<p[1], inputs[p[2]]>>)
  BY DEF Pooled, Cells, CellValue, Range, PooledValue
<1>2. \A c \in cells : \E p \in pool : c = <<p[1], inputs[p[2]]>>
  <2>1. SUFFICES ASSUME NEW c \in cells  PROVE \E p \in pool : c = <<p[1], inputs[p[2]]>>
    OBVIOUS
  <2>2. PICK i \in DOMAIN inputs : c[2] = inputs[i]  BY DEF Cells, Range
  <2>3. c = <<c[1], inputs[i]>> /\ <<c[1], i>> \in pool  BY <2>2 DEF Cells, Pooled
  <2>4. QED  BY <2>3
<1> HIDE DEF val, pool
<1>3. {p \in pool : val[p] < v} = Over(inputs, w, Below(Range(inputs), w, v))
  BY <1>1 DEF Over, Below, pool
<1>4. {p \in pool : val[p] <= v} = Over(inputs, w, UpTo(Range(inputs), w, v))
  BY <1>1 DEF Over, UpTo, pool
<1> HIDE DEF cells
<1>5. v \in {val[p] : p \in pool} <=> Hit(Range(inputs), w, v)
  <2>1. ASSUME NEW p \in pool, v = val[p]  PROVE \E c \in cells : CellValue(w, c) = v
    BY <1>1, <2>1
  <2>2. ASSUME NEW c \in cells, CellValue(w, c) = v  PROVE \E p \in pool : v = val[p]
    BY <1>1, <1>2, <2>2
  <2>3. QED  BY <2>1, <2>2 DEF Hit, cells
<1>6. v \in OfRank(rank, pool, val) <=>
        /\ v \in {val[p] : p \in pool}
        /\ Cardinality({p \in pool : val[p] < v}) < rank
        /\ rank <= Cardinality({p \in pool : val[p] <= v})
  BY DEF OfRank
<1>7. QED  BY <1>3, <1>4, <1>5, <1>6 DEF val, pool

\* What the cardinality of a cover tells, whatever the multiplicities.
LEMMA OverCounts ==
  ASSUME NEW inputs, inputs \in Seq(Range(inputs)), NEW w, IsFiniteSet(DOMAIN w),
         NEW W, W \subseteq Cells(Range(inputs), w)
  PROVE  LET k == Cardinality(Over(inputs, w, W))
             n == Cardinality(Pooled(inputs, w))
         IN  /\ k < 1 <=> W = {}
             /\ 1 <= k <=> W # {}
             /\ k < n <=> W # Cells(Range(inputs), w)
             /\ n <= k <=> W = Cells(Range(inputs), w)
<1> DEFINE k == Cardinality(Over(inputs, w, W))
           n == Cardinality(Pooled(inputs, w))
<1>1. k \in Nat /\ n \in Nat /\ k <= n /\ (k = n => Over(inputs, w, W) = Pooled(inputs, w))
  BY PooledFacts
<1>2. k = 0 <=> W = {}
  <2>1. IsFiniteSet(Over(inputs, w, W))  BY PooledFacts
  <2>2. k = 0 <=> Over(inputs, w, W) = {}  BY <2>1, FS_EmptySet
  <2>3. QED  BY <2>2, OverCovers
<1>3. k = n <=> W = Cells(Range(inputs), w)  BY <1>1, OverCovers
<1> HIDE DEF k, n
<1>4. /\ k < 1 <=> W = {}
      /\ 1 <= k <=> W # {}
      /\ k < n <=> W # Cells(Range(inputs), w)
      /\ n <= k <=> W = Cells(Range(inputs), w)
  BY <1>1, <1>2, <1>3
<1>5. QED  BY <1>4 DEF k, n

\* The least and the greatest value are the same for inputs of one range.
LEMMA SameExtremes ==
  ASSUME NEW a, a \in Seq(Range(a)), NEW b, b \in Seq(Range(b)), Range(a) = Range(b),
         NEW w, IsFiniteSet(DOMAIN w)
  PROVE  /\ AtRank(1, Pooled(a, w), PooledValue(a, w)) = AtRank(1, Pooled(b, w), PooledValue(b, w))
         /\ AtRank(Cardinality(Pooled(a, w)), Pooled(a, w), PooledValue(a, w))
              = AtRank(Cardinality(Pooled(b, w)), Pooled(b, w), PooledValue(b, w))
<1> DEFINE cells == Cells(Range(a), w)
           below(v) == Below(Range(a), w, v)
           upTo(v) == UpTo(Range(a), w, v)
           hit(v) == Hit(Range(a), w, v)
<1>1. ASSUME NEW s \in {a, b}, NEW v
      PROVE  /\ v \in OfRank(1, Pooled(s, w), PooledValue(s, w))
                   <=> hit(v) /\ below(v) = {} /\ upTo(v) # {}
             /\ v \in OfRank(Cardinality(Pooled(s, w)), Pooled(s, w), PooledValue(s, w))
                   <=> hit(v) /\ below(v) # cells /\ upTo(v) = cells
  <2>1. s \in Seq(Range(s)) /\ Range(s) = Range(a)  OBVIOUS
  <2>2. below(v) \subseteq Cells(Range(s), w) /\ upTo(v) \subseteq Cells(Range(s), w)
    BY <2>1 DEF Below, UpTo
  <2>3. \A rank : v \in OfRank(rank, Pooled(s, w), PooledValue(s, w)) <=>
                 /\ hit(v)
                 /\ Cardinality(Over(s, w, below(v))) < rank
                 /\ rank <= Cardinality(Over(s, w, upTo(v)))
    BY <2>1, OfRankByCells
  <2> HIDE DEF below, upTo, hit
  <2>4. /\ Cardinality(Over(s, w, below(v))) < 1 <=> below(v) = {}
        /\ Cardinality(Over(s, w, below(v))) < Cardinality(Pooled(s, w)) <=> below(v) # cells
    BY <2>1, <2>2, OverCounts
  <2>5. /\ 1 <= Cardinality(Over(s, w, upTo(v))) <=> upTo(v) # {}
        /\ Cardinality(Pooled(s, w)) <= Cardinality(Over(s, w, upTo(v))) <=> upTo(v) = cells
    BY <2>1, <2>2, OverCounts
  <2> HIDE DEF cells
  <2>6. QED  BY <2>3, <2>4, <2>5
<1> HIDE DEF cells, below, upTo, hit
<1>2. OfRank(1, Pooled(a, w), PooledValue(a, w)) = OfRank(1, Pooled(b, w), PooledValue(b, w))
  BY <1>1
<1>3. OfRank(Cardinality(Pooled(a, w)), Pooled(a, w), PooledValue(a, w))
        = OfRank(Cardinality(Pooled(b, w)), Pooled(b, w), PooledValue(b, w))
  BY <1>1
<1>4. QED  BY <1>2, <1>3 DEF AtRank

\* A nearest rank compares with a count as the count does with the percentage.
LEMMA RankCompares ==
  ASSUME NEW percent \in Nat, NEW n \in Nat, NEW k \in Nat
  PROVE  /\ RankOf(percent, n) \in Int
         /\ k < RankOf(percent, n) <=> 100 * k < percent * n
<1> DEFINE m == percent * n
<1>1. m \in Nat  OBVIOUS
<1> HIDE DEF m
<1>2. (m + 99) \div 100 \in Int /\ (k < (m + 99) \div 100 <=> 100 * k < m)  BY <1>1
<1>3. QED  BY <1>2 DEF RankOf, m

\* Counts in proportion compare with ranks of one percentage alike.
LEMMA RanksInProportion ==
  ASSUME NEW percent \in Nat, NEW c \in Nat \ {0}, NEW d \in Nat \ {0},
         NEW j \in Nat, NEW k \in Nat, j * d = k * c,
         NEW m \in Nat, NEW n \in Nat, m * d = n * c
  PROVE  j < RankOf(percent, m) <=> k < RankOf(percent, n)
<1>1. /\ j < RankOf(percent, m) <=> 100 * j < percent * m
      /\ k < RankOf(percent, n) <=> 100 * k < percent * n
  BY RankCompares
<1>2. ASSUME NEW x \in Int, NEW y \in Int, NEW z \in Nat \ {0}  PROVE x < y <=> x * z < y * z
  BY <1>2
<1>3. (100 * j) * d = (100 * k) * c /\ (percent * m) * d = (percent * n) * c
  <2>1. (100 * j) * d = 100 * (j * d) /\ (100 * k) * c = 100 * (k * c)  OBVIOUS
  <2>2. (percent * m) * d = percent * (m * d) /\ (percent * n) * c = percent * (n * c)  OBVIOUS
  <2>3. QED  BY <2>1, <2>2
<1>4. 100 * j \in Int /\ 100 * k \in Int /\ percent * m \in Int /\ percent * n \in Int  OBVIOUS
<1>5. 100 * j < percent * m <=> (100 * j) * d < (percent * m) * d  BY <1>2, <1>4
<1>6. 100 * k < percent * n <=> (100 * k) * c < (percent * n) * c  BY <1>2, <1>4
<1>7. QED  BY <1>1, <1>3, <1>5, <1>6

Fiber(S, p, i) == {s \in S : p[s] = i}

\* Two sets are in bijection when they are so over each member of an index set.
LEMMA FiberBijection ==
  ASSUME NEW S, NEW T, NEW I, NEW p \in [S -> I], NEW q \in [T -> I],
         \A i \in I : ExistsBijection(Fiber(S, p, i), Fiber(T, q, i))
  PROVE  ExistsBijection(S, T)
<1> DEFINE A(i) == Fiber(S, p, i)
           B(i) == Fiber(T, q, i)
           g == [i \in I |-> CHOOSE f \in Bijection(A(i), B(i)) : TRUE]
           F == [s \in S |-> g[p[s]][s]]
<1>1. ASSUME NEW i \in I  PROVE g[i] \in Bijection(A(i), B(i))
  <2>1. Bijection(A(i), B(i)) # {}  BY DEF ExistsBijection
  <2> HIDE DEF A, B
  <2>2. QED  BY <2>1
<1> HIDE DEF g
<1>2. ASSUME NEW i \in I
      PROVE  /\ \A x \in A(i) : g[i][x] \in B(i)
             /\ \A x, y \in A(i) : g[i][x] = g[i][y] => x = y
             /\ \A z \in B(i) : \E x \in A(i) : g[i][x] = z
  <2> HIDE DEF A, B
  <2>1. QED  BY <1>1 DEF Bijection, Injection, Surjection, IsInjective
<1>3. \A s \in S : p[s] \in I /\ s \in A(p[s]) /\ F[s] \in T /\ q[F[s]] = p[s]
  BY <1>2 DEF Fiber
<1>4. F \in [S -> T]  BY <1>3
<1>5. ASSUME NEW x \in S, NEW y \in S, F[x] = F[y]  PROVE x = y
  <2>1. p[x] = p[y]  BY <1>3, <1>5
  <2>2. x \in A(p[x]) /\ y \in A(p[x]) /\ g[p[x]][x] = g[p[x]][y]  BY <1>3, <1>5, <2>1
  <2>3. QED  BY <1>2, <1>3, <2>2
<1>6. ASSUME NEW z \in T  PROVE \E s \in S : F[s] = z
  <2>1. q[z] \in I /\ z \in B(q[z])  BY DEF Fiber
  <2>2. PICK s \in A(q[z]) : g[q[z]][s] = z  BY <1>2, <2>1
  <2>3. QED  BY <2>2 DEF Fiber
<1> HIDE DEF F
<1>7. F \in Bijection(S, T)  BY <1>4, <1>5, <1>6 DEF Bijection, Injection, Surjection, IsInjective
<1>8. QED  BY <1>7 DEF ExistsBijection

Places(in, inputs) == {i \in DOMAIN inputs : inputs[i] = in}
CellOf(inputs, p) == <<p[1], inputs[p[2]]>>
Copies(inputs, w, W, d) == Over(inputs, w, W) \X (1 .. d)
CopiedCell(inputs, w, W, d) == [x \in Copies(inputs, w, W, d) |-> CellOf(inputs, x[1])]

\* How many pooled values stand for one cell, each of them d times.
LEMMA FiberSize ==
  ASSUME NEW inputs, inputs \in Seq(Range(inputs)), NEW w, NEW d \in Nat \ {0},
         NEW W, W \subseteq Cells(Range(inputs), w), NEW cell \in W
  PROVE  LET fiber == Fiber(Copies(inputs, w, W, d), CopiedCell(inputs, w, W, d), cell)
         IN  IsFiniteSet(fiber) /\ Cardinality(fiber) = Count(cell[2], inputs) * d
<1> DEFINE fiber == Fiber(Copies(inputs, w, W, d), CopiedCell(inputs, w, W, d), cell)
           places == Places(cell[2], inputs)
           line == {cell[1]} \X places
<1>1. IsFiniteSet(places) /\ Cardinality(places) = Count(cell[2], inputs) /\ Cardinality(places) \in Nat
  <2>1. DOMAIN inputs = 1 .. Len(inputs) /\ Len(inputs) \in Nat  OBVIOUS
  <2>2. IsFiniteSet(DOMAIN inputs)  BY <2>1, FS_Interval
  <2>3. places \subseteq DOMAIN inputs  BY DEF Places
  <2>4. IsFiniteSet(places)  BY <2>2, <2>3, FS_Subset
  <2>5. QED  BY <2>4, FS_CardinalityType DEF Places, Count
<1>2. IsFiniteSet(1 .. d) /\ Cardinality(1 .. d) = d  BY FS_Interval
<1>3. IsFiniteSet({cell[1]}) /\ Cardinality({cell[1]}) = 1  BY FS_Singleton
<1>4. cell = <<cell[1], cell[2]>> /\ cell[1] \in DOMAIN w /\ cell[2].key \in DOMAIN w[cell[1]]
  BY DEF Cells
<1>5. \A n, i : <<n, i>> \in line <=> n = cell[1] /\ i \in DOMAIN inputs /\ inputs[i] = cell[2]
  BY DEF Places
<1>6. \A p \in Over(inputs, w, W) : CellOf(inputs, p) = cell => p \in line
  <2>1. SUFFICES ASSUME NEW p \in Over(inputs, w, W), CellOf(inputs, p) = cell  PROVE p \in line
    OBVIOUS
  <2>2. p = <<p[1], p[2]>> /\ p[2] \in DOMAIN inputs  BY DEF Over, Pooled
  <2>3. p[1] = cell[1] /\ inputs[p[2]] = cell[2]  BY <1>4, <2>1 DEF CellOf
  <2> HIDE DEF line
  <2>4. QED  BY <1>5, <2>2, <2>3
<1>7. \A p \in line : p \in Over(inputs, w, W) /\ CellOf(inputs, p) = cell
  <2>1. SUFFICES ASSUME NEW i \in places
                 PROVE  <<cell[1], i>> \in Over(inputs, w, W) /\ CellOf(inputs, <<cell[1], i>>) = cell
    OBVIOUS
  <2>2. i \in DOMAIN inputs /\ inputs[i] = cell[2]  BY DEF Places
  <2>3. <<cell[1], i>> \in Pooled(inputs, w)  BY <1>4, <2>2 DEF Pooled
  <2>4. QED  BY <1>4, <2>2, <2>3 DEF Over, CellOf
<1> HIDE DEF line
<1>8. fiber = line \X (1 .. d)  BY <1>6, <1>7 DEF Fiber, Copies, CopiedCell
<1> HIDE DEF fiber, places
<1>9. IsFiniteSet(line) /\ Cardinality(line) = Count(cell[2], inputs)
  <2>1. IsFiniteSet(line) /\ Cardinality(line) = 1 * Cardinality(places)
    BY <1>1, <1>3, FS_Product DEF line
  <2>2. QED  BY <1>1, <2>1
<1>10. IsFiniteSet(fiber) /\ Cardinality(fiber) = Count(cell[2], inputs) * d
  BY <1>2, <1>8, <1>9, FS_Product
<1>11. QED  BY <1>10 DEF fiber

\* When the multiplicities of two lists of inputs are in proportion, so are the
\* numbers of pooled values that stand for any cells.
LEMMA CoversInProportion ==
  ASSUME NEW a, a \in Seq(Range(a)), NEW b, b \in Seq(Range(b)), Range(a) = Range(b),
         NEW w, IsFiniteSet(DOMAIN w), NEW c \in Nat \ {0}, NEW d \in Nat \ {0},
         \A in \in Range(a) : Count(in, a) * d = Count(in, b) * c,
         NEW W, W \subseteq Cells(Range(a), w)
  PROVE  Cardinality(Over(a, w, W)) * d = Cardinality(Over(b, w, W)) * c
<1> DEFINE S == Copies(a, w, W, d)
           T == Copies(b, w, W, c)
           p == CopiedCell(a, w, W, d)
           q == CopiedCell(b, w, W, c)
<1>1. p \in [S -> W] /\ q \in [T -> W]  BY DEF Over, CellOf, Copies, CopiedCell
<1>2. ASSUME NEW cell \in W  PROVE ExistsBijection(Fiber(S, p, cell), Fiber(T, q, cell))
  <2>1. IsFiniteSet(Fiber(S, p, cell)) /\ Cardinality(Fiber(S, p, cell)) = Count(cell[2], a) * d
    BY FiberSize
  <2>2. IsFiniteSet(Fiber(T, q, cell)) /\ Cardinality(Fiber(T, q, cell)) = Count(cell[2], b) * c
    BY FiberSize
  <2>3. Count(cell[2], a) * d = Count(cell[2], b) * c  BY DEF Cells
  <2> HIDE DEF S, T, p, q
  <2>4. QED  BY <2>1, <2>2, <2>3, FS_SameCardinalityBij
<1>3. /\ IsFiniteSet(S) /\ Cardinality(S) = Cardinality(Over(a, w, W)) * d
      /\ IsFiniteSet(T) /\ Cardinality(T) = Cardinality(Over(b, w, W)) * c
  <2>1. IsFiniteSet(Over(a, w, W)) /\ IsFiniteSet(Over(b, w, W))  BY PooledFacts
  <2>2. IsFiniteSet(1 .. c) /\ Cardinality(1 .. c) = c /\ IsFiniteSet(1 .. d) /\ Cardinality(1 .. d) = d
    BY FS_Interval
  <2>3. QED  BY <2>1, <2>2, FS_Product DEF Copies
<1> HIDE DEF S, T, p, q
<1>4. ExistsBijection(S, T)  BY <1>1, <1>2, FiberBijection
<1>5. QED  BY <1>3, <1>4, FS_Bijection

\* Percentiles are the same for inputs whose reduced multiplicities are.
LEMMA SamePercentile ==
  ASSUME NEW a, a \in Seq(Range(a)), NEW b, b \in Seq(Range(b)), Range(a) = Range(b),
         Range(a) # {}, NEW w, IsFiniteSet(DOMAIN w), NEW percent \in Nat,
         \A in \in Range(a) :
           Count(in, a) \div CommonFactor(a) = Count(in, b) \div CommonFactor(b)
  PROVE  AtRank(RankOf(percent, Cardinality(Pooled(a, w))), Pooled(a, w), PooledValue(a, w))
           = AtRank(RankOf(percent, Cardinality(Pooled(b, w))), Pooled(b, w), PooledValue(b, w))
<1> DEFINE c == CommonFactor(a)
           d == CommonFactor(b)
           size(s, W) == Cardinality(Over(s, w, W))
           rank(s) == RankOf(percent, Cardinality(Pooled(s, w)))
<1>1. Len(a) > 0 /\ Len(b) > 0
  <2>1. DOMAIN a = 1 .. Len(a) /\ Len(a) \in Nat /\ DOMAIN b = 1 .. Len(b) /\ Len(b) \in Nat
    OBVIOUS
  <2>2. DOMAIN a # {} /\ DOMAIN b # {}  BY DEF Range
  <2>3. QED  BY <2>1, <2>2
<1>2. c \in Nat \ {0} /\ d \in Nat \ {0}  BY <1>1, CommonFactorDivides
<1>3. ASSUME NEW in \in Range(a)  PROVE Count(in, a) * d = Count(in, b) * c
  <2> DEFINE q == Count(in, a) \div c
  <2>1. Count(in, a) \in Nat /\ Count(in, a) = c * q  BY <1>1, CommonFactorDivides
  <2>2. Count(in, b) = d * q  BY <1>1, CommonFactorDivides
  <2>3. q \in Int  BY <1>2, <2>1
  <2> HIDE DEF c, d, q
  <2>4. QED  BY <1>2, <2>1, <2>2, <2>3
<1> HIDE DEF c, d
<1>4. \A W : W \subseteq Cells(Range(a), w) => size(a, W) * d = size(b, W) * c
  BY <1>2, <1>3, CoversInProportion
<1>5. \A W : size(a, W) \in Nat /\ size(b, W) \in Nat  BY PooledFacts
<1>6. /\ Cardinality(Pooled(a, w)) * d = Cardinality(Pooled(b, w)) * c
      /\ Cardinality(Pooled(a, w)) \in Nat /\ Cardinality(Pooled(b, w)) \in Nat
  <2>1. /\ Over(a, w, Cells(Range(a), w)) = Pooled(a, w)
        /\ Over(b, w, Cells(Range(a), w)) = Pooled(b, w)
    BY PooledFacts
  <2>2. size(a, Cells(Range(a), w)) * d = size(b, Cells(Range(a), w)) * c  BY <1>4
  <2>3. QED  BY <1>5, <2>1, <2>2
<1>7. /\ rank(a) \in Int /\ rank(b) \in Int
      /\ \A W : W \subseteq Cells(Range(a), w) => (size(a, W) < rank(a) <=> size(b, W) < rank(b))
  <2>1. rank(a) \in Int /\ rank(b) \in Int  BY <1>6, RankCompares
  <2>2. SUFFICES ASSUME NEW W, W \subseteq Cells(Range(a), w)
                 PROVE  size(a, W) < rank(a) <=> size(b, W) < rank(b)
    BY <2>1
  <2>3. size(a, W) * d = size(b, W) * c /\ size(a, W) \in Nat /\ size(b, W) \in Nat
    BY <1>4, <1>5, <2>2
  <2> HIDE DEF size
  <2>4. QED  BY <1>2, <1>6, <2>3, RanksInProportion
<1>8. ASSUME NEW v
      PROVE  v \in OfRank(rank(a), Pooled(a, w), PooledValue(a, w))
               <=> v \in OfRank(rank(b), Pooled(b, w), PooledValue(b, w))
  <2> DEFINE R == Range(a)
  <2>1. \A s \in {a, b} : v \in OfRank(rank(s), Pooled(s, w), PooledValue(s, w)) <=>
          Hit(R, w, v) /\ size(s, Below(R, w, v)) < rank(s) /\ rank(s) <= size(s, UpTo(R, w, v))
    BY OfRankByCells
  <2>2. Below(R, w, v) \subseteq Cells(R, w) /\ UpTo(R, w, v) \subseteq Cells(R, w)
    BY DEF Below, UpTo
  <2> HIDE DEF size, rank, R
  <2>3. /\ size(a, Below(R, w, v)) < rank(a) <=> size(b, Below(R, w, v)) < rank(b)
        /\ size(a, UpTo(R, w, v)) < rank(a) <=> size(b, UpTo(R, w, v)) < rank(b)
    BY <1>7, <2>2 DEF R
  <2>4. \A s \in {a, b} : rank(s) <= size(s, UpTo(R, w, v)) <=> ~(size(s, UpTo(R, w, v)) < rank(s))
    BY <1>5, <1>7
  <2>5. QED  BY <2>1, <2>3, <2>4
<1> HIDE DEF rank
<1>9. OfRank(rank(a), Pooled(a, w), PooledValue(a, w))
        = OfRank(rank(b), Pooled(b, w), PooledValue(b, w))
  BY <1>8
<1>10. QED  BY <1>9 DEF AtRank, rank

\* What the inputs of two SLIs of one window mode and contract have in common.
LEMMA ContractInputs ==
  ASSUME NEW mode \in WindowModes, NEW a, a \in Seq(Range(a)), NEW b, b \in Seq(Range(b)),
         CanonicalInputs(mode, a) = CanonicalInputs(mode, b)
  PROVE  /\ Range(a) = Range(b)
         /\ mode = "window_avg" => a = b
         /\ mode = "window_ratio" =>
              a = b \/ (Len(a) >= 2 /\ Len(b) >= 2 /\ a[1] = b[1] /\ a[2] = b[2])
         /\ mode \in {"window_p95", "window_p99"} => \A in \in Range(a) :
              Count(in, a) \div CommonFactor(a) = Count(in, b) \div CommonFactor(b)
<1>1. CASE mode \in {"window_min", "window_max"}
  <2>1. Once(Range(a)) = Once(Range(b))  BY <1>1 DEF CanonicalInputs
  <2>2. DOMAIN Once(Range(a)) = Range(a) /\ DOMAIN Once(Range(b)) = Range(b)  BY DEF Once
  <2>3. QED  BY <1>1, <2>1, <2>2
<1>2. CASE mode \in {"window_p95", "window_p99"}
  <2> DEFINE reduced(s) == [in \in Range(s) |-> Count(in, s) \div CommonFactor(s)]
  <2>1. reduced(a) = reduced(b)  BY <1>2 DEF CanonicalInputs
  <2>2. DOMAIN reduced(a) = Range(a) /\ DOMAIN reduced(b) = Range(b)  OBVIOUS
  <2>3. /\ \A in \in Range(a) : reduced(a)[in] = Count(in, a) \div CommonFactor(a)
        /\ \A in \in Range(b) : reduced(b)[in] = Count(in, b) \div CommonFactor(b)
    OBVIOUS
  <2> HIDE DEF reduced
  <2>4. Range(a) = Range(b)  BY <2>1, <2>2
  <2>5. QED  BY <1>2, <2>1, <2>3, <2>4
<1>3. CASE mode = "window_avg"
  <2>1. a = b  BY <1>3 DEF CanonicalInputs
  <2>2. QED  BY <1>3, <2>1
<1>4. CASE mode = "window_ratio"
  <2> DEFINE rest(s) == Once(Range(s) \ {s[1], s[2]})
             long(s) == [ordered |-> SubSeq(s, 1, 2), counted |-> rest(s)]
             short(s) == [ordered |-> s, counted |-> <<>>]
  <2>1. \A s : CanonicalInputs(mode, s) = IF Len(s) > 2 THEN long(s) ELSE short(s)
    BY <1>4 DEF CanonicalInputs
  <2>2. ASSUME NEW s, s \in Seq(Range(s)), Len(s) >= 2
        PROVE  /\ Len(SubSeq(s, 1, 2)) = 2 /\ SubSeq(s, 1, 2)[1] = s[1] /\ SubSeq(s, 1, 2)[2] = s[2]
               /\ DOMAIN rest(s) = Range(s) \ {s[1], s[2]} /\ {s[1], s[2]} \subseteq Range(s)
    <3>1. Len(SubSeq(s, 1, 2)) = 2 /\ SubSeq(s, 1, 2)[1] = s[1] /\ SubSeq(s, 1, 2)[2] = s[2]
      BY <2>2
    <3>2. DOMAIN rest(s) = Range(s) \ {s[1], s[2]}  BY DEF Once
    <3>3. 1 \in DOMAIN s /\ 2 \in DOMAIN s  BY <2>2
    <3>4. QED  BY <3>1, <3>2, <3>3 DEF Range
  <2>3. DOMAIN <<>> = {}  OBVIOUS
  <2>4. Len(a) \in Nat /\ Len(b) \in Nat  OBVIOUS
  <2>5. CASE Len(a) > 2 /\ Len(b) > 2
    <3>1. SubSeq(a, 1, 2) = SubSeq(b, 1, 2) /\ rest(a) = rest(b)  BY <2>1, <2>5
    <3> HIDE DEF rest
    <3>2. a[1] = b[1] /\ a[2] = b[2]  BY <2>2, <2>4, <2>5, <3>1
    <3>3. Range(a) = Range(b)
      <4>1. /\ DOMAIN rest(a) = Range(a) \ {a[1], a[2]} /\ {a[1], a[2]} \subseteq Range(a)
            /\ DOMAIN rest(b) = Range(b) \ {b[1], b[2]} /\ {b[1], b[2]} \subseteq Range(b)
        <5>1. Len(a) >= 2 /\ Len(b) >= 2  BY <2>4, <2>5
        <5> HIDE DEF long, short
        <5>2. QED  BY <2>2, <5>1
      <4>2. Range(a) \ {a[1], a[2]} = Range(b) \ {b[1], b[2]}  BY <3>1, <4>1
      <4>3. {a[1], a[2]} = {b[1], b[2]}  BY <3>2
      <4> DEFINE p == {a[1], a[2]}
                 q == {b[1], b[2]}
      <4>4. Range(a) \ p = Range(b) \ q /\ p \subseteq Range(a) /\ q \subseteq Range(b) /\ p = q
        BY <4>1, <4>2, <4>3
      <4> HIDE DEF p, q, long, short
      <4>5. QED  BY <4>4
    <3>4. QED  BY <1>4, <2>4, <2>5, <3>2, <3>3
  <2>6. ASSUME NEW s, s \in Seq(Range(s)), NEW u, u \in Seq(Range(u)),
               Len(s) > 2, ~(Len(u) > 2), long(s) = short(u)
        PROVE  Range(s) = Range(u) /\ Len(u) = 2 /\ s[1] = u[1] /\ s[2] = u[2]
    <3> HIDE DEF rest
    <3>1. SubSeq(s, 1, 2) = u /\ rest(s) = <<>> /\ Len(s) \in Nat
      <4>1. Len(s) \in Nat  BY <2>6
      <4>2. long(s).ordered = short(u).ordered /\ long(s).counted = short(u).counted  BY <2>6
      <4>3. QED  BY <4>1, <4>2
    <3>2. /\ Len(u) = 2 /\ s[1] = u[1] /\ s[2] = u[2] /\ Range(s) \ {s[1], s[2]} = {}
          /\ {s[1], s[2]} \subseteq Range(s)
      <4>1. Len(s) >= 2  BY <2>6, <3>1
      <4>2. DOMAIN rest(s) = {}  BY <2>3, <3>1
      <4> HIDE DEF long, short
      <4>3. QED  BY <2>2, <2>6, <3>1, <4>1, <4>2
    <3>3. Range(u) = {u[1], u[2]}
      <4>1. DOMAIN u = 1 .. 2  BY <2>6, <3>2
      <4>2. DOMAIN u = {1, 2}  BY <4>1
      <4>3. QED  BY <4>2 DEF Range
    <3>4. QED  BY <3>2, <3>3
  <2> HIDE DEF long, short
  <2>7. CASE Len(a) > 2 /\ ~(Len(b) > 2)
    <3>1. Range(a) = Range(b) /\ Len(b) = 2 /\ a[1] = b[1] /\ a[2] = b[2]  BY <2>1, <2>6, <2>7
    <3>2. QED  BY <1>4, <2>4, <2>7, <3>1
  <2>8. CASE ~(Len(a) > 2) /\ Len(b) > 2
    <3>1. Range(a) = Range(b) /\ Len(a) = 2 /\ a[1] = b[1] /\ a[2] = b[2]  BY <2>1, <2>6, <2>8
    <3>2. QED  BY <1>4, <2>4, <2>8, <3>1
  <2>9. CASE ~(Len(a) > 2) /\ ~(Len(b) > 2)
    <3>1. a = b  BY <2>1, <2>9 DEF short
    <3>2. QED  BY <1>4, <3>1
  <2>10. QED  BY <2>5, <2>7, <2>8, <2>9
<1>5. QED  BY <1>1, <1>2, <1>3, <1>4 DEF WindowModes

\* Window SLIs of one mode whose canonical inputs are the same have one value.
LEMMA SameWindowValue ==
  ASSUME NEW s, NEW u, s.mode = u.mode, s.mode \in WindowModes,
         s.inputs \in Seq(Range(s.inputs)), u.inputs \in Seq(Range(u.inputs)),
         CanonicalInputs(s.mode, s.inputs) = CanonicalInputs(u.mode, u.inputs),
         NEW w, IsFiniteSet(DOMAIN w)
  PROVE  EvalWindowSLI(s, w).value = EvalWindowSLI(u, w).value
<1> DEFINE a == s.inputs
           b == u.inputs
           mode == s.mode
<1>1. /\ Range(a) = Range(b)
      /\ mode = "window_avg" => a = b
      /\ mode = "window_ratio" =>
           a = b \/ (Len(a) >= 2 /\ Len(b) >= 2 /\ a[1] = b[1] /\ a[2] = b[2])
      /\ mode \in {"window_p95", "window_p99"} => \A in \in Range(a) :
           Count(in, a) \div CommonFactor(a) = Count(in, b) \div CommonFactor(b)
  BY ContractInputs
<1>2. WindowMissing(a, w) = WindowMissing(b, w)
  <2>1. \A q : WindowMissing(q, w)
                = {in \in Range(q) : \A n \in DOMAIN w : in.key \notin DOMAIN w[n]}
    BY DEF WindowMissing, Range
  <2>2. QED  BY <1>1, <2>1
<1>3. Pooled(a, w) = {} <=> Pooled(b, w) = {}
  <2>1. \A q : Pooled(q, w) = {} <=> \A in \in Range(q), n \in DOMAIN w : in.key \notin DOMAIN w[n]
    <3>1. ASSUME NEW q, NEW p \in Pooled(q, w)
          PROVE  \E in \in Range(q), n \in DOMAIN w : in.key \in DOMAIN w[n]
      BY DEF Pooled, Range
    <3>2. ASSUME NEW q, NEW i \in DOMAIN q, NEW n \in DOMAIN w, q[i].key \in DOMAIN w[n]
          PROVE  <<n, i>> \in Pooled(q, w)
      BY <3>2 DEF Pooled
    <3>3. QED  BY <3>1, <3>2 DEF Range
  <2>2. QED  BY <1>1, <2>1
<1>4. NoRatio(s, w) <=> NoRatio(u, w)
  <2>1. Len(a) \in Nat /\ Len(b) \in Nat  OBVIOUS
  <2>2. QED  BY <1>1, <2>1 DEF NoRatio
<1>5. ASSUME Pooled(a, w) # {}  PROVE WindowValue(mode, a, w) = WindowValue(mode, b, w)
  <2> DEFINE at(q, rank) == AtRank(rank, Pooled(q, w), PooledValue(q, w))
             size(q) == Cardinality(Pooled(q, w))
  <2>1. Range(a) # {}  BY <1>5 DEF Pooled, Range
  <2>2. \A q : WindowValue(mode, q, w) =
          CASE mode = "window_min" -> Fraction(at(q, 1), 1)
            [] mode = "window_max" -> Fraction(at(q, size(q)), 1)
            [] mode = "window_avg" -> Fraction(SumFunction(PooledValue(q, w)), size(q))
            [] mode \in {"window_p95", "window_p99"} ->
                 Fraction(at(q, RankOf(Percentile[mode], size(q))), 1)
            [] OTHER -> Fraction(SumOf(q[1], w), SumOf(q[2], w))
    BY DEF WindowValue, PooledValue
  <2>3. at(a, 1) = at(b, 1) /\ at(a, size(a)) = at(b, size(b))  BY <1>1, SameExtremes
  <2>4. mode \in {"window_p95", "window_p99"} =>
          at(a, RankOf(Percentile[mode], size(a))) = at(b, RankOf(Percentile[mode], size(b)))
    <3>1. SUFFICES ASSUME mode \in {"window_p95", "window_p99"}
                   PROVE  at(a, RankOf(Percentile[mode], size(a))) = at(b, RankOf(Percentile[mode], size(b)))
      OBVIOUS
    <3>2. Percentile[mode] \in Nat
      <4>1. Percentile[mode] \in 1 .. 100
        <5> HIDE DEF mode
        <5>1. QED  BY <3>1, SliRulesAssumption
      <4>2. \A k \in 1 .. 100 : k \in Nat  OBVIOUS
      <4> HIDE DEF mode
      <4>3. QED  BY <4>1, <4>2
    <3>3. \A in \in Range(a) :
            Count(in, a) \div CommonFactor(a) = Count(in, b) \div CommonFactor(b)
      BY <1>1, <3>1
    <3> HIDE DEF mode, a, b
    <3>4. QED  BY <1>1, <2>1, <3>2, <3>3, SamePercentile DEF a, b
  <2> HIDE DEF at, size
  <2>5. CASE mode = "window_min"  BY <2>2, <2>3, <2>5
  <2>6. CASE mode = "window_max"  BY <2>2, <2>3, <2>6
  <2>7. CASE mode = "window_avg"  BY <1>1, <2>7
  <2>8. CASE mode \in {"window_p95", "window_p99"}  BY <2>2, <2>4, <2>8
  <2>9. CASE mode = "window_ratio"
    <3>1. a = b \/ (a[1] = b[1] /\ a[2] = b[2])  BY <1>1, <2>9
    <3>2. \A q : WindowValue(mode, q, w) = Fraction(SumOf(q[1], w), SumOf(q[2], w))
      BY <2>2, <2>9
    <3>3. QED  BY <3>1, <3>2
  <2>10. QED  BY <2>5, <2>6, <2>7, <2>8, <2>9 DEF WindowModes
<1>6. \A q : EvalWindowSLI(q, w).value =
        IF WindowMissing(q.inputs, w) # {} \/ Pooled(q.inputs, w) = {} \/ NoRatio(q, w) THEN NoValue
        ELSE WindowValue(q.mode, q.inputs, w)
  BY DEF EvalWindowSLI, Result, Skipped, Judged
<1>7. QED  BY <1>2, <1>3, <1>4, <1>5, <1>6

\* Point SLIs of one contract have one value.
LEMMA SamePointValue ==
  ASSUME NEW s, NEW u, CanonicalMode(s.mode) = CanonicalMode(u.mode),
         ~IsWindow(s), ~IsWindow(u), ResetEffect(s) = ResetEffect(u),
         CanonicalInputs(s.mode, s.inputs) = CanonicalInputs(u.mode, u.inputs),
         NEW x, NEW y
  PROVE  EvalSLI(s, x, y).value = EvalSLI(u, x, y).value
<1> DEFINE missing(q) == {q.inputs[i] : i \in {j \in DOMAIN q.inputs :
                             ~InputResolves(q.inputs[j], q.mode, x, y)}}
           sum(q, at) == SumOfInputs(q.inputs, at)
           delta(q) == sum(q, y) - sum(q, x)
           F(n) == Fraction(n, 1)
<1>1. s.inputs = u.inputs
  <2>1. \A q : ~IsWindow(q) => CanonicalInputs(q.mode, q.inputs) = [ordered |-> q.inputs, counted |-> <<>>]
    BY DEF CanonicalInputs, IsWindow, WindowModes
  <2>2. /\ [ordered |-> s.inputs, counted |-> <<>>].ordered = s.inputs
        /\ [ordered |-> u.inputs, counted |-> <<>>].ordered = u.inputs
    OBVIOUS
  <2>3. QED  BY <2>1, <2>2
<1>2. s.mode = u.mode \/ {s.mode, u.mode} \subseteq {"single", "start"}  BY DEF CanonicalMode
<1>3. missing(s) = missing(u)
  <2>1. \A in : InputResolves(in, s.mode, x, y) <=> InputResolves(in, u.mode, x, y)
    BY <1>2 DEF InputResolves, NeedStart, NeedEnd
  <2>2. QED  BY <1>1, <2>1
<1>4. \A at : sum(s, at) = sum(u, at)  BY <1>1
<1>5. \A q : ResetStatus(q.reset) = "skip" <=> q.reset \in {"no_grade", "skip"}
  BY DEF ResetStatus
<1>6. s.mode = "delta" => (ResetStatus(s.reset) = "skip" <=> ResetStatus(u.reset) = "skip")
  BY <1>2, <1>5 DEF ResetEffect
<1>7. ASSUME NEW q
      PROVE  EvalSLI(q, x, y).value =
               CASE missing(q) # {} -> NoValue
                 [] missing(q) = {} /\ q.mode \in {"single", "start"} -> F(sum(q, x))
                 [] missing(q) = {} /\ q.mode = "end" -> F(sum(q, y))
                 [] missing(q) = {} /\ q.mode = "delta" ->
                      IF delta(q) < 0 /\ ResetStatus(q.reset) = "skip" THEN NoValue ELSE F(delta(q))
                 [] OTHER -> NoValue
  <2> DEFINE m == missing(q)
             d == delta(q)
             f == F(sum(q, x))
             g == F(sum(q, y))
             h == F(d)
  <2>1. EvalSLI(q, x, y) =
          CASE m # {} -> Result(q, "skip", NoValue, m)
            [] m = {} /\ q.mode \in {"single", "start"} -> Judged(q, f)
            [] m = {} /\ q.mode = "end" -> Judged(q, g)
            [] m = {} /\ q.mode = "delta" -> IF d < 0 THEN OnCounterReset(q, h) ELSE Judged(q, h)
            [] OTHER -> Skipped(q)
    BY DEF EvalSLI
  <2>2. \A v : /\ Judged(q, v).value = v /\ Skipped(q).value = NoValue
               /\ Result(q, "skip", NoValue, v).value = NoValue
               /\ OnCounterReset(q, v).value = IF ResetStatus(q.reset) = "skip" THEN NoValue ELSE v
    BY DEF Judged, Skipped, Result, OnCounterReset
  <2> HIDE DEF m, d, f, g, h
  <2>3. EvalSLI(q, x, y).value =
          CASE m # {} -> NoValue
            [] m = {} /\ q.mode \in {"single", "start"} -> f
            [] m = {} /\ q.mode = "end" -> g
            [] m = {} /\ q.mode = "delta" ->
                 IF d < 0 /\ ResetStatus(q.reset) = "skip" THEN NoValue ELSE h
            [] OTHER -> NoValue
    BY <2>1, <2>2
  <2>4. QED  BY <2>3, Zenon DEF m, d, f, g, h
<1> HIDE DEF missing, sum, F
<1>8. QED  BY <1>2, <1>3, <1>4, <1>6, <1>7

LEMMA SameContractFollows == RunInv => SameContractSameValue
<1> SUFFICES ASSUME RunInv, NEW i \in 1 .. Len(results), NEW j \in 1 .. Len(results),
                    SameMeasurement(Specs[i], Specs[j])
             PROVE  SameValue(results[i].value, results[j].value)
  BY DEF SameContractSameValue
<1> DEFINE s == Specs[i]
           u == Specs[j]
<1>1. s.inputs \in Seq(Range(s.inputs)) /\ u.inputs \in Seq(Range(u.inputs))
  <2>1. Len(results) \in Nat /\ Len(results) <= Len(Specs)
    <3>1. results \in Seq(Range(results)) /\ Len(results) <= Len(Specs)  BY DEF RunInv, TypeOK
    <3>2. QED  BY <3>1
  <2>2. Len(Specs) \in Nat /\ DOMAIN Specs = 1 .. Len(Specs)  BY RequestFacts DEF RunInv
  <2>3. i \in DOMAIN Specs /\ j \in DOMAIN Specs  BY <2>1, <2>2
  <2>4. s \in Range(Specs) /\ u \in Range(Specs)  BY <2>3 DEF Range
  <2>5. QED  BY <2>4, SliEvaluationAssumption DEF RunInv, Specs
<1>2. /\ CanonicalMode(s.mode) = CanonicalMode(u.mode) /\ ResetEffect(s) = ResetEffect(u)
      /\ CanonicalInputs(s.mode, s.inputs) = CanonicalInputs(u.mode, u.inputs)
  BY DEF SameMeasurement, SliContract
<1>3. results[i] = Evaluated(s) /\ results[j] = Evaluated(u) /\ IsFiniteSet(DOMAIN window)
  BY DEF RunInv
<1> HIDE DEF s, u
<1>4. Evaluated(s).value = Evaluated(u).value
  <2>1. CASE ~IsWindow(s) /\ ~IsWindow(u)
    <3>1. EvalSLI(s, start, end).value = EvalSLI(u, start, end).value
      BY <1>2, <2>1, SamePointValue
    <3>2. QED  BY <2>1, <3>1 DEF Evaluated
  <2>2. CASE IsWindow(s) \/ IsWindow(u)
    <3>1. s.mode = u.mode /\ s.mode \in WindowModes
      BY <1>2, <2>2 DEF IsWindow, WindowModes, CanonicalMode
    <3>2. EvalWindowSLI(s, window).value = EvalWindowSLI(u, window).value
      BY <1>1, <1>2, <1>3, <3>1, SameWindowValue
    <3>3. Skipped(s).value = Skipped(u).value  BY DEF Skipped, Result
    <3>4. QED  BY <3>1, <3>2, <3>3 DEF Evaluated, IsWindow
  <2>3. QED  BY <2>1, <2>2
<1>5. \A v : SameValue(v, v)  BY DEF SameValue
<1>6. QED  BY <1>3, <1>4, <1>5 DEF s, u

\* SLIs of one measurement contract never get different values from one run.
THEOREM SameContractCorrect == Spec => []SameContractSameValue
BY SameContractFollows, RunInit, RunStep, PTL DEF Spec

=============================================================================
