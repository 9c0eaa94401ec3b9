----------------------------- MODULE SliEvaluation -----------------------------
(***************************************************************************)
(* Engine.Execute (pkg/slo/engine/engine.go): a request is validated, its  *)
(* samples are fetched, its SLIs are evaluated one after another into one  *)
(* reliability record, and the summary is stamped and written.  The        *)
(* policies a session then applies to it (pkg/slint/propagation.go), and   *)
(* what the gate accepts of it (GateRules), are operators on the summary.  *)
(***************************************************************************)
EXTENDS SliRules

CONSTANTS
  Requests,       \* the requests: specs, trust contract, window fetcher given or not
  PointOutcomes,  \* what Fetch may return: a sample or an error, its skew and latency
  WindowOutcomes, \* what FetchRange may return
  SessionConfigs, \* the strictness, gating level and limits of a session
  NoTrust,        \* RunConfig.TrustContract = nil
  NoIdentity,     \* SLIResult.Comparability = nil
  NoSummary       \* nothing is written yet

ASSUME SliEvaluationAssumption ==
  /\ \A r \in Requests :
       /\ r.specs \in Seq(Range(r.specs)) /\ r.windowFetcher \in BOOLEAN
       /\ \A s \in Range(r.specs) : s.inputs \in Seq(Range(s.inputs))
  /\ \A o \in PointOutcomes \cup WindowOutcomes : o.ok \in BOOLEAN /\ o.latency \in Nat
  /\ \A o \in PointOutcomes : o.skew \in Int /\ IsFiniteSet(DOMAIN o.sample)
  /\ \A o \in WindowOutcomes : IsFiniteSet(DOMAIN o.samples)

SlowMs == 5000  \* ensureConfidenceScore's limit for skew and latency
Unset == -1     \* a skew or latency that was never recorded

VARIABLES
  req,      \* the ExecuteRequest
  phase,    \* where Execute is
  start,    \* the start sample
  end,      \* the end sample
  window,   \* the window samples
  windowErr,\* FetchRange returned an error
  rel,      \* summary.Reliability
  results,  \* the results so far, one for each evaluated spec
  summary   \* the summary written to OutPath

vars == <<req, phase, start, end, window, windowErr, rel, results, summary>>

Specs == req.specs
IsWindow(s) == s.mode \in WindowModes
Ids(specs) == {specs[i].id : i \in DOMAIN specs}
UniqueIds(specs) == \A i, j \in DOMAIN specs : specs[i].id = specs[j].id => i = j
AllInputs == UNION {Range(Specs[i].inputs) : i \in DOMAIN Specs}

Levels == {"", "Complete", "Partial", "Failed"}

NewReliability ==
  [collection |-> "", evaluation |-> "", blocked |-> FALSE, skipped |-> <<>>, missing |-> {},
   startSkew |-> Unset, endSkew |-> Unset, latency |-> Unset, confidence |-> Unset]

Init ==
  /\ req \in Requests
  /\ phase = "validate"
  /\ start = <<>> /\ end = <<>> /\ window = <<>>
  /\ windowErr = FALSE
  /\ rel = NewReliability
  /\ results = <<>>
  /\ summary = NoSummary

-----------------------------------------------------------------------------
(* comparability.go *)

\* A blank id, and one of a trust contract's coordinates that is blank.
Blank == ""

\* validateTrustContract and validateProtectedSpecIDs.
\* (Mutated: SLI ids may repeat or be blank.)
TrustValid_AnyIds ==
  req.trust # NoTrust => \A f \in {"subject", "window", "source"} : req.trust[f] # Blank
TrustValid ==
  req.trust # NoTrust =>
    /\ \A f \in {"subject", "window", "source"} : req.trust[f] # Blank
    /\ Blank \notin Ids(Specs) /\ UniqueIds(Specs)

\* The contract a run is stamped with: a failed collection is no trusted evidence.
ContractVersion(r) ==
  IF req.trust # NoTrust /\ r.collection # "Failed" THEN "slo.v4" ELSE "slo.v3"

Identity(s) ==
  [contract |-> SliContract(s), window |-> <<CanonicalMode(s.mode), req.trust.window>>,
   subject |-> req.trust.subject, source |-> req.trust.source]

\* applyTrustContract: an identity is found by the id of the result.
Stamp(version, rs) ==
  [i \in DOMAIN rs |-> [result |-> rs[i], identity |->
     IF version = "slo.v3" THEN NoIdentity
     ELSE Identity(Specs[CHOOSE j \in DOMAIN Specs : Specs[j].id = rs[i].id])]]

-----------------------------------------------------------------------------
(* engine.go *)

AtMost(n, k) == IF n < k THEN n ELSE k

\* ensureConfidenceScore, in tenths.
Confidence(r) ==
  LET slow == {f \in {"startSkew", "endSkew", "latency"} : r[f] > SlowMs}
      penalty == (IF r.evaluation = "Partial" THEN 2 ELSE 0)
                 + AtMost(Cardinality(r.missing), 3) + AtMost(Len(r.skipped), 3)
                 + Cardinality(slow)
  IN  IF r.collection # "Complete" THEN 0 ELSE 10 - AtMost(penalty, 10)

Written(r, rs) ==
  [version |-> ContractVersion(r), rel |-> [r EXCEPT !.confidence = Confidence(r)],
   results |-> Stamp(ContractVersion(r), rs)]

\* splitSpecNeeds: a request without SLIs still takes both samples.
NeedsPoint == Specs = <<>> \/ \E i \in DOMAIN Specs : ~IsWindow(Specs[i])
NeedsWindow == \E i \in DOMAIN Specs : IsWindow(Specs[i])

AfterPoint == IF NeedsWindow /\ req.windowFetcher THEN "fetchWindow" ELSE "begin"

\* A request the engine rejects leaves neither a fetch nor a summary.
Validate ==
  /\ phase = "validate"
  /\ phase' = IF ~TrustValid \/ \E i \in DOMAIN Specs : ~ValidSelectors(Specs[i])
              THEN "rejected"
              ELSE IF NeedsPoint THEN "fetchStart" ELSE AfterPoint
  /\ UNCHANGED <<req, start, end, window, windowErr, rel, results, summary>>

Larger(a, b) == IF a < b THEN b ELSE a

\* pointFetchFailure: the summary of a failed collection has no results.
PointFetchFailure(r) ==
  LET failed == [r EXCEPT !.collection = "Failed", !.blocked = TRUE]
  IN  /\ phase' = "done"
      /\ rel' = failed
      /\ summary' = Written(failed, <<>>)

FetchStart(o) ==
  LET r == [rel EXCEPT !.startSkew = o.skew, !.latency = o.latency]
  IN  /\ phase = "fetchStart"
      /\ \/ o.ok /\ phase' = "fetchEnd" /\ start' = o.sample /\ rel' = r /\ UNCHANGED summary
         \/ ~o.ok /\ PointFetchFailure(r) /\ UNCHANGED start
      /\ UNCHANGED <<req, end, window, windowErr, results>>

FetchEnd(o) ==
  LET r == [rel EXCEPT !.endSkew = o.skew, !.latency = Larger(rel.latency, o.latency)]
  IN  /\ phase = "fetchEnd"
      /\ \/ o.ok /\ phase' = AfterPoint /\ end' = o.sample /\ rel' = r /\ UNCHANGED summary
         \/ ~o.ok /\ PointFetchFailure(r) /\ UNCHANGED end
      /\ UNCHANGED <<req, start, window, windowErr, results>>

\* A failed window fetch fails the collection, and Execute goes on.
\* (Mutated: it is told to the window SLIs alone.)
FetchWindow_Unmarked(o) ==
  /\ phase = "fetchWindow"
  /\ phase' = "begin"
  /\ window' = o.samples
  /\ windowErr' = ~o.ok
  /\ rel' = [rel EXCEPT !.latency = Larger(@, o.latency)]
  /\ UNCHANGED <<req, start, end, results, summary>>
FetchWindow(o) ==
  /\ phase = "fetchWindow"
  /\ phase' = "begin"
  /\ window' = o.samples
  /\ windowErr' = ~o.ok
  /\ rel' = [rel EXCEPT !.latency = Larger(@, o.latency),
                        !.collection = IF o.ok THEN @ ELSE "Failed", !.blocked = @ \/ ~o.ok]
  /\ UNCHANGED <<req, start, end, results, summary>>

BeginEvaluation ==
  /\ phase = "begin"
  /\ phase' = "evaluate"
  /\ rel' = [rel EXCEPT !.collection = IF @ = "" THEN "Complete" ELSE @,
                        !.evaluation = "Complete"]
  /\ UNCHANGED <<req, start, end, window, windowErr, results, summary>>

Evaluated(s) ==
  IF ~IsWindow(s) THEN EvalSLI(s, start, end)
  ELSE IF ~req.windowFetcher \/ windowErr THEN Skipped(s)
  ELSE EvalWindowSLI(s, window)

\* One pass of the loop in evaluateSLIs.
\* (Mutated: only SLIs with missing inputs are listed as skipped.)
EvaluateNext_MissingOnly ==
  LET r == Evaluated(Specs[Len(results) + 1])
  IN  /\ phase = "evaluate" /\ Len(results) < Len(Specs)
      /\ results' = Append(results, r)
      /\ rel' = [rel EXCEPT !.missing = @ \cup r.missing,
                            !.skipped = IF r.missing # {} THEN Append(@, r.id) ELSE @]
      /\ UNCHANGED <<req, phase, start, end, window, windowErr, summary>>
EvaluateNext ==
  LET r == Evaluated(Specs[Len(results) + 1])
  IN  /\ phase = "evaluate" /\ Len(results) < Len(Specs)
      /\ results' = Append(results, r)
      /\ rel' = [rel EXCEPT !.missing = @ \cup r.missing,
                            !.skipped = IF r.status = "skip" THEN Append(@, r.id) ELSE @]
      /\ UNCHANGED <<req, phase, start, end, window, windowErr, summary>>

\* Execute's end; a failing write is in SummaryPublication.
Finish ==
  LET r == [rel EXCEPT !.evaluation = IF rel.skipped # <<>> THEN "Partial" ELSE @]
  IN  /\ phase = "evaluate" /\ Len(results) = Len(Specs)
      /\ phase' = "done"
      /\ rel' = r
      /\ summary' = Written(r, results)
      /\ UNCHANGED <<req, start, end, window, windowErr, results>>

Next ==
  \/ Validate
  \/ \E o \in PointOutcomes : FetchStart(o) \/ FetchEnd(o)
  \/ \E o \in WindowOutcomes : FetchWindow(o)
  \/ BeginEvaluation
  \/ EvaluateNext
  \/ Finish

Spec == Init /\ [][Next]_vars

-----------------------------------------------------------------------------
(* propagation.go: the policies of a session c on the summary it wrote *)

\* buildStrictnessBlockReasons; a limit of 0 is none.
Blocked(c, sum) ==
  \/ sum.rel.blocked
  \/ \E i \in DOMAIN sum.results : sum.results[i].result.status = "block"
  \/ \E f \in {"startSkew", "endSkew", "latency"} :
       c.limits[f] > 0 /\ sum.rel[f] > c.limits[f]

\* CheckStrictness returns nil.
StrictnessOK(c, sum) ==
  LET incomplete(level) == level \in {"Failed", "Partial"}
  IN  \/ c.strictness \in {"", "BestEffort"}
      \/ /\ ~Blocked(c, sum)
         /\ c.strictness \in {"StrictCollection", "StrictEvaluation", "RequiredSLIs"}
              => ~incomplete(sum.rel.collection)
         /\ c.strictness \in {"StrictEvaluation", "RequiredSLIs"}
              => ~incomplete(sum.rel.evaluation)
         /\ c.strictness = "RequiredSLIs" => sum.rel.skipped = <<>>

\* CheckGating returns nil.  Skipped and blocked results are strictness's.
GatingOK(c, sum) ==
  LET refused == CASE c.gateOn = "fail" -> {"fail"} [] c.gateOn = "warn" -> {"fail", "warn"}
                   [] OTHER -> {}
  IN  \A i \in DOMAIN sum.results : sum.results[i].result.status \notin refused

PoliciesPass(c, sum) == StrictnessOK(c, sum) /\ GatingOK(c, sum)

-----------------------------------------------------------------------------
(* What the gate makes of the summary *)

Gate == INSTANCE GateRules WITH Slis <- Ids(Specs), Values <- {}, Identities <- {}

\* The summary as GateRules has it.  Duplicate ids are refused when it is loaded.
Evidence ==
  [collection |-> summary.rel.collection, evaluation |-> summary.rel.evaluation,
   skipped |-> Range(summary.rel.skipped),
   results |-> [id \in {summary.results[i].result.id : i \in DOMAIN summary.results} |->
     LET r == summary.results[CHOOSE i \in DOMAIN summary.results :
                                summary.results[i].result.id = id].result
     IN  [value |-> r.value, missing |-> r.missing # {}]]]

Gradable(i) == Gate!ValueSufficient(Evidence, Specs[i].id)

Done == phase = "done"
Measured == Done /\ Len(summary.results) = Len(Specs)

-----------------------------------------------------------------------------
(* Properties *)

IsResult(r) ==
  /\ r.status \in {"pass", "warn", "fail", "skip"}
  /\ (r.value = NoValue) <=> (r.status = "skip")
  /\ r.missing # {} => r.status = "skip"

\* The state of Execute keeps its type, and a result has a value exactly when
\* its SLI was not skipped.
TypeOK ==
  /\ phase \in {"validate", "rejected", "fetchStart", "fetchEnd", "fetchWindow", "begin",
                "evaluate", "done"}
  /\ rel \in [collection : Levels, evaluation : Levels, blocked : BOOLEAN,
              skipped : Seq(Ids(Specs)), missing : SUBSET AllInputs,
              startSkew : Int, endSkew : Int, latency : Int, confidence : Int]
  /\ windowErr \in BOOLEAN
  /\ results \in Seq(Range(results)) /\ Len(results) <= Len(Specs)
  /\ \A i \in 1 .. Len(results) : results[i].id = Specs[i].id /\ IsResult(results[i])

\* A reported delta (evalSLI) is of one thing at two times: an exact input
\* was in both samples, an unaggregated selector matched one and the same
\* series in both, and a family that is not there never counts as zero.  And
\* a delta below zero never passes for a measurement the producer is content with.
DeltaIsOfOneSeries ==
  \A i \in 1 .. Len(results) :
    Specs[i].mode = "delta" /\ results[i].value # NoValue =>
      /\ \A j \in DOMAIN Specs[i].inputs :
           LET in == Specs[i].inputs[j]
           IN  \/ ~IsSelector(in) /\ in.key \in DOMAIN start /\ in.key \in DOMAIN end
               \/ /\ IsSelector(in) /\ in.aggregate = ""
                  /\ \E a \in DOMAIN start, b \in DOMAIN end :
                       /\ Canonical[a] = Canonical[b]
                       /\ Matched(in, start) = {a} /\ Matched(in, end) = {b}
               \/ /\ IsSelector(in) /\ in.aggregate = "sum"
                  /\ \A sample \in {start, end} : \E k \in DOMAIN sample :
                       /\ Family[k] = in.metric
                       /\ in.emptyMatch = "" => Canonical[k] \in in.match
      /\ results[i].value.num < 0 => results[i].status \in {"warn", "fail"}

\* The gate (evidence.go) grades exactly the SLIs the engine has measured:
\* those with a value, in a run none of whose fetches failed.  What the
\* engine marks in four places (value, inputs missing, skipped list,
\* reliability) never disagrees.
GateGradesMeasured ==
  Done /\ UniqueIds(Specs) =>
    \A i \in DOMAIN Specs :
      Gradable(i) <=> Measured /\ results[i].value # NoValue /\ ~windowErr

\* End returns no error under StrictEvaluation or RequiredSLIs only if the
\* gate can grade every SLI of the session, and under StrictCollection only if
\* every fetch succeeded; gating at level warn lets no negative delta by.  (A
\* reset that no_grade or skip leaves without a value is caught by strictness
\* only: it passes gating at level warn.)
StrictSessionDelivers ==
  Done => \A c \in SessionConfigs : PoliciesPass(c, summary) =>
    /\ c.strictness \in {"StrictEvaluation", "RequiredSLIs"} /\ UniqueIds(Specs) =>
         \A i \in DOMAIN Specs : Gradable(i)
    /\ c.strictness = "StrictCollection" =>
         ~windowErr /\ Len(summary.results) = Len(Specs)
    /\ c.gateOn = "warn" =>
         \A i \in 1 .. Len(summary.results) :
           Specs[i].mode = "delta" /\ results[i].value # NoValue => ~(results[i].value.num < 0)

\* A summary is slo.v4 exactly when it was requested so and every fetch
\* succeeded; each result then carries the identity of the SLI it measures
\* and not of another one of the same id, and no result of an slo.v3 summary
\* carries one (applyTrustContract).  Its ids are such that the gate loads it
\* (Summary.Validate).
TrustedIsComparable ==
  Done =>
    /\ summary.version = "slo.v4" <=>
         req.trust # NoTrust /\ ~windowErr /\ Len(summary.results) = Len(Specs)
           /\ summary.rel.collection = "Complete"
    /\ \A i \in 1 .. Len(summary.results) :
         summary.results[i].identity =
           IF summary.version = "slo.v4" THEN Identity(Specs[i]) ELSE NoIdentity
    /\ summary.version = "slo.v4" => Blank \notin Ids(Specs) /\ UniqueIds(Specs)

\* SLIs of one measurement contract, evaluated on the same samples, have the
\* same value or none of them has one: an identity never calls comparable
\* what was measured differently (sliContractID).
SameContractSameValue ==
  \A i, j \in 1 .. Len(results) :
    SameMeasurement(Specs[i], Specs[j]) => SameValue(results[i].value, results[j].value)

\* Full confidence is earned by a run that measured every SLI in time, and a
\* run whose collection failed has none (ensureConfidenceScore).
ConfidenceIsEarned ==
  Done =>
    /\ summary.rel.confidence \in 0 .. 10
    /\ summary.rel.confidence = 10 =>
         /\ \A f \in {"startSkew", "endSkew", "latency"} : summary.rel[f] <= SlowMs
         /\ ~windowErr
         /\ Len(results) = Len(Specs)
         /\ \A i \in DOMAIN Specs : results[i].value # NoValue
    /\ windowErr => summary.rel.confidence = 0

=============================================================================
