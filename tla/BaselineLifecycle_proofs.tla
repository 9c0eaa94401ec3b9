----------------------- MODULE BaselineLifecycle_proofs -----------------------
(***************************************************************************)
(* Proofs about BaselineLifecycle, for any policies and summaries and any  *)
(* number of commands, with sessions that publish at any time.  The        *)
(* invariant says that a command under way has graded a summary which it   *)
(* accepts; whether that is still the published one decides what a write   *)
(* is known to do.                                                         *)
(***************************************************************************)
EXTENDS BaselineLifecycle, TLAPS

Acceptable(s) == Grade(policy, s, Absent) \in {"PASS", "WARN"}

\* A command under way has graded a summary that it accepts.
Inv ==
  /\ TypeOK
  /\ command # "none" => Acceptable(graded)
  /\ command \in Modes => Grade(policy, graded, Absent) = "PASS" /\ Exists
  /\ BaselineVouched

-----------------------------------------------------------------------------
(* What a grade says of the summary *)

\* The grades that a command accepts say that the run did not fail.
LEMMA AcceptableIsReliable ==
  ASSUME NEW p, NEW s, NEW b, Grade(p, s, b) \in {"PASS", "WARN"}
  PROVE  s.state = "ok" /\ ~RunUnreliable(s)
<1>1. p.state = "ok" /\ s.state = "ok"
  BY DEF Grade
<1> DEFINE checks == RunThresholds(p, s) \cup RunRegression(p, s, b)
                       \cup RunReliability(p, s) \cup RunCoverage(p, s)
<1>2. ComputeGateResult(Effects(checks), BaselineStatus(b), p.regression) \in {"PASS", "WARN"}
  BY <1>1 DEF Grade
<1>3. "noGrade" \notin Effects(checks)
  BY <1>2 DEF ComputeGateResult
<1>4. SUFFICES ASSUME RunUnreliable(s)  PROVE FALSE
  BY <1>1
<1> DEFINE c == Check("reliability", "*", "no_grade", "noGrade", "COLLECTION_FAILED")
<1>5. c \in checks
  BY <1>4 DEF RunReliability
<1>6. c.effect = "noGrade"
  BY DEF Check
<1> QED
  BY <1>3, <1>5, <1>6 DEF Effects

\* A PASS says that every rule's metric was measured.
LEMMA PassIsMeasured ==
  ASSUME NEW p, NEW s, NEW b, Grade(p, s, b) = "PASS", NEW r \in p.rules
  PROVE  ValueSufficient(s, r.metric)
<1>1. p.state = "ok" /\ s.state = "ok"
  BY DEF Grade
<1> DEFINE checks == RunThresholds(p, s) \cup RunRegression(p, s, b)
                       \cup RunReliability(p, s) \cup RunCoverage(p, s)
<1>2. ComputeGateResult(Effects(checks), BaselineStatus(b), p.regression) = "PASS"
  BY <1>1 DEF Grade
<1>3. "noGrade" \notin Effects(checks)
  BY <1>2 DEF ComputeGateResult
<1>4. EvalThreshold(p, s, r) \in checks
  BY DEF RunThresholds
<1>5. EvalThreshold(p, s, r).effect # "noGrade"
  BY <1>3, <1>4 DEF Effects
<1> QED
  BY <1>5 DEF EvalThreshold, Check

\* What an acceptable summary gives evidence of.
LEMMA VouchesForEvidence ==
  ASSUME NEW s, Acceptable(s), NEW id, ValueSufficient(s, id)
  PROVE  <<id, s.results[id]>> \in Vouches(s)
<1>1. id \in DOMAIN s.results
  BY DEF ValueSufficient
<1> QED
  BY <1>1 DEF Vouches, Acceptable

-----------------------------------------------------------------------------
(* What a merge does *)

\* The SLIs whose record a merge takes from the summary, and those whose skip
\* marker it does.
Taken(mode, directions, b, s) == Appended(b, s) \cup Updated(mode, directions, b, s)
Reconciled(mode, directions, b, s) == ReconcileFor(mode, Updated(mode, directions, b, s), b, s)

\* The fields of a merge.
LEMMA MergedResults ==
  ASSUME NEW mode, NEW directions, NEW b, IsMeasurement(b), NEW s
  PROVE  DOMAIN Merged(mode, directions, b, s).results = DOMAIN b.results \cup Appended(b, s)
<1>1. DOMAIN b = {"state", "contract", "collection", "evaluation", "skipped", "results"}
  BY DEF IsMeasurement
<1> QED BY <1>1 DEF Merged

LEMMA MergedIsFunction ==
  ASSUME NEW mode, NEW directions, NEW b, IsMeasurement(b), NEW s, NEW R,
         \A id \in DOMAIN Merged(mode, directions, b, s).results :
           Merged(mode, directions, b, s).results[id] \in R
  PROVE  Merged(mode, directions, b, s).results
           \in [DOMAIN Merged(mode, directions, b, s).results -> R]
<1>1. DOMAIN b = {"state", "contract", "collection", "evaluation", "skipped", "results"}
  BY DEF IsMeasurement
<1> QED BY <1>1 DEF Merged

LEMMA MergedSkipped ==
  ASSUME NEW mode, NEW directions, NEW b, IsMeasurement(b), NEW s
  PROVE  Merged(mode, directions, b, s).skipped =
           (b.skipped \ Reconciled(mode, directions, b, s))
             \cup (Reconciled(mode, directions, b, s) \cap s.skipped)
<1>1. DOMAIN b = {"state", "contract", "collection", "evaluation", "skipped", "results"}
  BY DEF IsMeasurement
<1> QED BY <1>1 DEF Merged, Taken, Reconciled

LEMMA MergedKept ==
  ASSUME NEW mode, NEW directions, NEW b, IsMeasurement(b), NEW s
  PROVE  LET m == Merged(mode, directions, b, s)
         IN  /\ m.state = b.state /\ m.contract = b.contract
             /\ m.collection = b.collection /\ m.evaluation = b.evaluation
<1>1. DOMAIN b = {"state", "contract", "collection", "evaluation", "skipped", "results"}
  BY DEF IsMeasurement
<1> QED BY <1>1 DEF Merged, Taken, Reconciled

LEMMA MergedDomain ==
  ASSUME NEW mode, NEW directions, NEW b, IsMeasurement(b), NEW s
  PROVE  DOMAIN Merged(mode, directions, b, s) = DOMAIN b
<1>1. DOMAIN b = {"state", "contract", "collection", "evaluation", "skipped", "results"}
  BY DEF IsMeasurement
<1> QED BY <1>1 DEF Merged, Taken, Reconciled

\* The record and the marker of one SLI.
LEMMA MergedRecord ==
  ASSUME NEW mode, NEW directions, NEW b, IsMeasurement(b), NEW s,
         NEW id \in DOMAIN Merged(mode, directions, b, s).results
  PROVE  IF id \in Taken(mode, directions, b, s)
         THEN Merged(mode, directions, b, s).results[id] = s.results[id]
         ELSE /\ id \in DOMAIN b.results
              /\ Merged(mode, directions, b, s).results[id] = b.results[id]
<1>1. DOMAIN b = {"state", "contract", "collection", "evaluation", "skipped", "results"}
  BY DEF IsMeasurement
<1> QED BY <1>1 DEF Merged, Taken

LEMMA MergedMarker ==
  ASSUME NEW mode, NEW directions, NEW b, IsMeasurement(b), NEW s, NEW id
  PROVE  id \in Merged(mode, directions, b, s).skipped <=>
           IF id \in Reconciled(mode, directions, b, s)
           THEN id \in s.skipped ELSE id \in b.skipped
<1>1. Merged(mode, directions, b, s).skipped =
        (b.skipped \ Reconciled(mode, directions, b, s))
          \cup (Reconciled(mode, directions, b, s) \cap s.skipped)
  BY MergedSkipped
<1> QED BY <1>1

LEMMA MergedType ==
  ASSUME NEW mode, NEW directions, NEW b, IsMeasurement(b), NEW s, IsMeasurement(s)
  PROVE  IsMeasurement(Merged(mode, directions, b, s))
<1> DEFINE m == Merged(mode, directions, b, s)
<1>1. /\ DOMAIN m = DOMAIN b
      /\ m.state = b.state /\ m.contract = b.contract
      /\ m.collection = b.collection /\ m.evaluation = b.evaluation
  BY MergedKept, MergedDomain
<1>2. DOMAIN m.results = DOMAIN b.results \cup Appended(b, s)
  BY MergedResults
<1>3. m.skipped \subseteq Slis
  BY MergedMarker DEF IsMeasurement
<1>4. Taken(mode, directions, b, s) \subseteq DOMAIN s.results
  BY DEF Taken, Appended, Updated, Measured
<1>5. DOMAIN m.results \subseteq Slis
  BY <1>2 DEF IsMeasurement, Appended, Measured
<1>6. ASSUME NEW id \in DOMAIN m.results  PROVE m.results[id] \in Results
  <2>1. CASE id \in Taken(mode, directions, b, s)
    <3>1. m.results[id] = s.results[id]
      BY <2>1, MergedRecord
    <3>2. s.results[id] \in Results
      BY <1>4, <2>1 DEF IsMeasurement
    <3> QED BY <3>1, <3>2
  <2>2. CASE id \notin Taken(mode, directions, b, s)
    <3>1. id \in DOMAIN b.results /\ m.results[id] = b.results[id]
      BY <2>2, MergedRecord
    <3> QED BY <3>1 DEF IsMeasurement
  <2> QED BY <2>1, <2>2
<1>7. m.results \in [DOMAIN m.results -> Results]
  BY <1>6, MergedIsFunction
<1> HIDE DEF m
<1>8. IsMeasurement(m)
  BY <1>1, <1>3, <1>5, <1>7 DEF IsMeasurement
<1> QED BY <1>8 DEF m

\* What a merge takes as evidence is a record of the summary, evidence there
\* if that run did not fail, or was evidence in the baseline.
LEMMA MergedEvidence ==
  ASSUME NEW mode \in Modes, NEW directions, NEW b, IsMeasurement(b),
         NEW s, IsMeasurement(s),
         NEW id, ValueSufficient(Merged(mode, directions, b, s), id)
  PROVE  LET m == Merged(mode, directions, b, s)
         IN  \/ /\ id \in DOMAIN s.results
                /\ ~RunUnreliable(s) => ValueSufficient(s, id)
                /\ m.results[id] = s.results[id]
             \/ ValueSufficient(b, id) /\ m.results[id] = b.results[id]
<1> DEFINE m == Merged(mode, directions, b, s)
           taken == Taken(mode, directions, b, s)
           reconciled == Reconciled(mode, directions, b, s)
<1>2. /\ id \in DOMAIN m.results /\ id \notin m.skipped
      /\ ~m.results[id].missing /\ m.results[id].value # NoValue
      /\ ~RunUnreliable(m)
  BY DEF ValueSufficient
<1>3. ~RunUnreliable(b)
  <2>1. m.collection = b.collection /\ m.evaluation = b.evaluation
    BY MergedKept
  <2> HIDE DEF m
  <2> QED BY <1>2, <2>1 DEF RunUnreliable
<1>1. /\ IF id \in taken THEN m.results[id] = s.results[id]
         ELSE id \in DOMAIN b.results /\ m.results[id] = b.results[id]
      /\ id \in m.skipped <=> IF id \in reconciled THEN id \in s.skipped ELSE id \in b.skipped
  BY <1>2, MergedRecord, MergedMarker
<1> HIDE DEF m
<1>4. taken \subseteq reconciled /\ reconciled \subseteq Measured(s)
  BY DEF Taken, Reconciled, ReconcileFor, Appended, Updated, Measured
<1>5. CASE id \in taken
  <2>1. m.results[id] = s.results[id]
    BY <1>1, <1>5
  <2>2. id \in DOMAIN s.results /\ id \notin s.skipped
    BY <1>1, <1>2, <1>4, <1>5 DEF Measured
  <2>3. ~RunUnreliable(s) => ValueSufficient(s, id)
    BY <1>2, <2>1, <2>2 DEF ValueSufficient
  <2> QED BY <2>1, <2>2, <2>3 DEF m
<1>6. CASE id \notin taken
  <2>1. m.results[id] = b.results[id] /\ id \in DOMAIN b.results
    BY <1>1, <1>6
  <2>2. CASE id \notin b.skipped
    <3>1. ValueSufficient(b, id)
      BY <1>2, <1>3, <2>1, <2>2 DEF ValueSufficient
    <3> QED BY <2>1, <3>1 DEF m
  <2>3. CASE id \in b.skipped
    <3>1. id \in reconciled /\ id \notin s.skipped
      BY <1>1, <1>2, <2>3
    <3>2. mode = "force-replace" /\ id \in Measured(s)
      BY <1>4, <1>6, <3>1 DEF Taken, Reconciled, ReconcileFor
    <3>3. b.results[id] = s.results[id]
      BY <1>6, <2>1, <3>2 DEF Taken, Updated
    <3>4. id \in DOMAIN s.results /\ (~RunUnreliable(s) => ValueSufficient(s, id))
      BY <1>2, <2>1, <3>1, <3>2, <3>3 DEF ValueSufficient, Measured
    <3> QED BY <2>1, <3>3, <3>4 DEF m
  <2> QED BY <2>2, <2>3
<1> QED BY <1>5, <1>6

-----------------------------------------------------------------------------
(* The invariant *)

LEMMA InitInv == ASSUME Init  PROVE Inv
<1>1. IsMeasurement(baseline) /\ ~Exists /\ DOMAIN baseline.results = {}
  BY LifecycleAssumption DEF Init, Exists
<1>2. TypeOK
  BY <1>1 DEF Init, TypeOK, Commands
<1>3. BaselineVouched
  BY <1>1 DEF BaselineVouched
<1> QED BY <1>1, <1>2, <1>3 DEF Init, Inv, Modes

\* A step of the commands that leaves the baseline alone.
LEMMA NoWriteInv ==
  ASSUME Inv, summary' \in SummaryFiles, UNCHANGED <<policy, baseline, history>>,
         command' \in Commands,
         graded' \in SummaryFiles \cup {Absent},
         command' # "none" => Acceptable(graded)',
         command' \in Modes => Grade(policy, graded, Absent)' = "PASS" /\ Exists
  PROVE  Inv'
<1>1. TypeOK'
  BY DEF Inv, TypeOK
<1>2. BaselineVouched'
  BY DEF Inv, BaselineVouched, history
<1>4. (command \in Modes => Grade(policy, graded, Absent) = "PASS" /\ Exists)'
  BY DEF Exists
<1> QED BY <1>1, <1>2, <1>4 DEF Inv

LEMMA PublishInv ==
  ASSUME Inv, Publish  PROVE Inv'
<1>1. UNCHANGED <<policy, baseline, command, graded, history>> /\ summary' \in SummaryFiles
  BY DEF Publish
<1>2. command' \in Commands /\ graded' \in SummaryFiles \cup {Absent}
  BY <1>1 DEF Inv, TypeOK
<1>3. command' # "none" => Acceptable(graded)'
  BY <1>1 DEF Inv, Acceptable
<1>4. command' \in Modes => Grade(policy, graded, Absent)' = "PASS" /\ Exists
  BY <1>1 DEF Inv
<1> QED BY <1>1, <1>2, <1>3, <1>4, NoWriteInv

LEMMA ApproveInv ==
  ASSUME Inv, NEW warn, NEW force, Approve(warn, force)  PROVE Inv'
<1>1. Acceptable(summary)
  BY DEF Approve, Accepted, GradeAlone, Acceptable
<1>2. Acceptable(graded)'
  BY <1>1 DEF Approve, Acceptable
<1>3. command' = "approve" /\ command' \in Commands /\ command' \notin Modes
  BY DEF Approve, Commands, Modes
<1>4. /\ summary' \in SummaryFiles /\ graded' \in SummaryFiles
      /\ UNCHANGED <<policy, baseline, history>>
  BY DEF Approve, Inv, TypeOK
<1> QED BY <1>2, <1>3, <1>4, NoWriteInv

LEMMA MergeInv ==
  ASSUME Inv, NEW mode \in Modes, Merge(mode)  PROVE Inv'
<1>1. Grade(policy, summary, Absent) = "PASS" /\ Exists
  BY DEF Merge, MergeAccepted, GradeAlone
<1>2. UNCHANGED <<policy, summary, baseline, history>> /\ command' = mode /\ graded' = summary
  BY DEF Merge
<1>3. Grade(policy, graded, Absent)' = "PASS"
  BY <1>1, <1>2
<1>4. Acceptable(graded)'
  BY <1>3 DEF Acceptable
<1>5. command' \in Commands /\ summary' \in SummaryFiles /\ graded' \in SummaryFiles
  BY <1>2 DEF Commands, Inv, TypeOK
<1> QED BY <1>1, <1>2, <1>3, <1>4, <1>5, NoWriteInv

LEMMA FailInv ==
  ASSUME Inv, Fail  PROVE Inv'
<1>1. command' = "none" /\ "none" \notin Modes
  BY DEF Fail, Modes
<1> QED BY <1>1, NoWriteInv DEF Fail, Commands, Inv, TypeOK

\* What a write notes: the records of the summary that the new baseline holds
\* join vouched if they are evidence in the graded summary, slipped if it is
\* another summary, and the older records stay.
LEMMA WriteNotes ==
  ASSUME Inv, command # "none", Noted, NEW id \in DOMAIN baseline'.results,
         \/ /\ id \in DOMAIN summary.results
            /\ ~RunUnreliable(summary) => ValueSufficient(summary, id)
            /\ baseline'.results[id] = summary.results[id]
         \/ ValueSufficient(baseline, id) /\ baseline'.results[id] = baseline.results[id]
  PROVE  <<id, baseline'.results[id]>> \in vouched' \cup slipped'
<1> DEFINE pair == <<id, baseline'.results[id]>>
<1>1. pair \in Records(baseline')
  BY DEF Records
<1>2. SUFFICES \/ pair \in vouched \cup slipped
               \/ ~Raced /\ pair \in Vouches(summary)
               \/ Raced /\ pair \in Records(summary)
  <2> HIDE DEF pair
  <2>1. pair \in vouched' \cup slipped'
    BY <1>1, <1>2 DEF Noted
  <2> QED BY <2>1 DEF pair
<1>3. CASE ValueSufficient(baseline, id) /\ baseline'.results[id] = baseline.results[id]
  <2>1. id \in DOMAIN baseline.results
    BY <1>3 DEF ValueSufficient
  <2> QED BY <1>3, <2>1 DEF Inv, BaselineVouched
<1>4. CASE /\ id \in DOMAIN summary.results
           /\ ~RunUnreliable(summary) => ValueSufficient(summary, id)
           /\ baseline'.results[id] = summary.results[id]
  <2>1. CASE Raced
    BY <1>4, <2>1 DEF Records
  <2>2. CASE ~Raced
    <3>1. Acceptable(summary)
      BY <2>2 DEF Inv, Raced
    <3>2. ~RunUnreliable(summary)
      BY <3>1, AcceptableIsReliable DEF Acceptable
    <3> QED BY <1>4, <2>2, <3>1, <3>2, VouchesForEvidence
  <2> QED BY <2>1, <2>2
<1> QED BY <1>3, <1>4

\* A write whose result is of the right type and evidence only of what the
\* history notes.
LEMMA WriteInv ==
  ASSUME Inv, UNCHANGED <<policy, summary>>, command' = "none", Noted,
         IsMeasurement(baseline'), BaselineVouched'
  PROVE  Inv'
<1>1. TypeOK'
  BY DEF Inv, TypeOK, Commands, Noted
<1> QED BY <1>1 DEF Inv, Modes

LEMMA ApproveWriteInv ==
  ASSUME Inv, ApproveWrite  PROVE Inv'
<1>1. baseline' = summary /\ Noted /\ command # "none"
  BY DEF ApproveWrite
<1>2. IsMeasurement(summary)
  BY LifecycleAssumption DEF Inv, TypeOK
<1>3. ASSUME NEW id \in DOMAIN baseline'.results, ValueSufficient(baseline', id)
      PROVE  <<id, baseline'.results[id]>> \in vouched' \cup slipped'
  <2>1. id \in DOMAIN summary.results /\ ValueSufficient(summary, id)
    BY <1>1, <1>3
  <2> QED BY <1>1, <1>3, <2>1, WriteNotes
<1>4. BaselineVouched'
  BY <1>3 DEF BaselineVouched
<1> QED BY <1>1, <1>2, <1>4, WriteInv DEF ApproveWrite

\* What MergeWrite writes, from which files; the summary that it read is the
\* one that it graded unless a session published meanwhile.
LEMMA MergeWriteFacts ==
  ASSUME Inv, NEW mode \in Modes, MergeWrite(mode)
  PROVE  /\ command # "none" /\ Exists
         /\ IsMeasurement(baseline) /\ IsMeasurement(summary)
         /\ ~Raced => Grade(policy, summary, Absent) = "PASS" /\ ~RunUnreliable(summary)
<1>1. command = mode /\ command # "none"
  BY DEF MergeWrite, Modes
<1>2. Grade(policy, graded, Absent) = "PASS" /\ Exists
  BY <1>1 DEF Inv
<1>3. ~Raced => Grade(policy, summary, Absent) = "PASS" /\ ~RunUnreliable(summary)
  BY <1>2, AcceptableIsReliable DEF Raced
<1>4. IsMeasurement(summary) /\ IsMeasurement(baseline)
  BY LifecycleAssumption DEF Inv, TypeOK
<1> QED BY <1>1, <1>2, <1>3, <1>4

LEMMA MergedReliable ==
  ASSUME NEW mode, NEW directions, NEW b, IsMeasurement(b), NEW s
  PROVE  RunUnreliable(Merged(mode, directions, b, s)) <=> RunUnreliable(b)
<1> DEFINE m == Merged(mode, directions, b, s)
<1>1. m.collection = b.collection /\ m.evaluation = b.evaluation
  BY MergedKept
<1> HIDE DEF m
<1>2. RunUnreliable(m) <=> RunUnreliable(b)
  BY <1>1 DEF RunUnreliable
<1> QED BY <1>2 DEF m

LEMMA MergeWriteInv ==
  ASSUME Inv, NEW mode \in Modes, MergeWrite(mode)  PROVE Inv'
<1>1. PICK directions : baseline' = Merged(mode, directions, baseline, summary)
  BY DEF MergeWrite
<1>2. IsMeasurement(baseline) /\ IsMeasurement(summary) /\ command # "none"
  BY MergeWriteFacts
<1>3. IsMeasurement(baseline')
  BY <1>1, <1>2, MergedType
<1>4. Noted
  BY DEF MergeWrite
<1>5. ASSUME NEW id \in DOMAIN baseline'.results, ValueSufficient(baseline', id)
      PROVE  <<id, baseline'.results[id]>> \in vouched' \cup slipped'
  <2>1. \/ /\ id \in DOMAIN summary.results
           /\ ~RunUnreliable(summary) => ValueSufficient(summary, id)
           /\ baseline'.results[id] = summary.results[id]
        \/ ValueSufficient(baseline, id) /\ baseline'.results[id] = baseline.results[id]
    BY <1>1, <1>2, <1>5, MergedEvidence
  <2> QED BY <1>2, <1>4, <1>5, <2>1, WriteNotes
<1>6. BaselineVouched'
  BY <1>5 DEF BaselineVouched
<1> QED BY <1>3, <1>4, <1>6, WriteInv DEF MergeWrite

LEMMA NextInv ==
  ASSUME Inv, [Next]_vars  PROVE Inv'
<1>1. CASE Publish  BY <1>1, PublishInv
<1>2. CASE \E warn, force \in BOOLEAN : Approve(warn, force)  BY <1>2, ApproveInv
<1>3. CASE ApproveWrite  BY <1>3, ApproveWriteInv
<1>4. CASE \E mode \in Modes : Merge(mode)  BY <1>4, MergeInv
<1>5. CASE \E mode \in Modes : MergeWrite(mode)  BY <1>5, MergeWriteInv
<1>6. CASE Fail  BY <1>6, FailInv
<1>7. CASE UNCHANGED vars
  BY <1>7 DEF vars, history, Inv, TypeOK, Acceptable, Exists, BaselineVouched
<1> QED BY <1>1, <1>2, <1>3, <1>4, <1>5, <1>6, <1>7 DEF Next

-----------------------------------------------------------------------------
(* The theorems *)

\* The state has its types, whatever the commands are interrupted by: the
\* baseline file is always a readable summary.
THEOREM LifecycleTypeCorrect == Spec => []TypeOK
<1>1. Inv => TypeOK
  BY DEF Inv
<1> QED BY <1>1, InitInv, NextInv, PTL DEF Spec

\* baseline_merge.go, KSL-T3 and baseline_approve.go: what the baseline holds
\* as evidence was evidence, whole, in one summary that was graded PASS or
\* WARN, but for the records of summaries that were published between a
\* command's grading and its write.
THEOREM VouchedCorrect == Spec => []BaselineVouched
<1>1. Inv => BaselineVouched
  BY DEF Inv
<1> QED BY <1>1, InitInv, NextInv, PTL DEF Spec

\* A direction that the policy gives is some rule's.
LEMMA DirectionIsBetter ==
  ASSUME NEW id, NEW direction, NEW old, NEW new,
         direction \in (IF Directions(id) = {} THEN {""} ELSE Directions(id)),
         IsImprovement(direction, old, new)
  PROVE  Better(id, old, new)
<1>1. direction \in {"lower", "higher"}
  BY DEF IsImprovement
<1>2. direction \in Directions(id)
  BY <1>1
<1>3. PICK r \in policy.rules :
        /\ r.metric = id /\ r.op # "=="
        /\ direction = IF LowerIsBetter(r.op) THEN "lower" ELSE "higher"
  BY <1>2 DEF Directions
<1>4. ~(LowerIsBetter(r.op) /\ HigherIsBetter(r.op))
  BY DEF LowerIsBetter, HigherIsBetter
<1> QED BY <1>3, <1>4 DEF IsImprovement, Better

\* A merge other than force-replace keeps one SLI's evidence.
LEMMA MergeKeepsOne ==
  ASSUME Inv, NEW mode \in Modes, MergeWrite(mode),
         mode = "append-new-only" \/ (mode = "review-existing" /\ ~Raced),
         NEW id \in DOMAIN baseline.results, ValueSufficient(baseline, id)
  PROVE  NotWeakened(id)
<1>1. PICK directions :
        /\ \A i \in Slis : directions[i] \in (IF Directions(i) = {} THEN {""} ELSE Directions(i))
        /\ baseline' = Merged(mode, directions, baseline, summary)
  BY DEF MergeWrite
<1> DEFINE taken == Taken(mode, directions, baseline, summary)
<1>2. /\ IsMeasurement(baseline) /\ ~RunUnreliable(baseline)
      /\ ~Raced => Grade(policy, summary, Absent) = "PASS" /\ ~RunUnreliable(summary)
  BY MergeWriteFacts DEF ValueSufficient
<1> DEFINE m == Merged(mode, directions, baseline, summary)
<1>3. id \in Slis /\ id \in DOMAIN m.results /\ baseline' = m
  <2>1. DOMAIN m.results = DOMAIN baseline.results \cup Appended(baseline, summary)
    BY <1>2, MergedResults
  <2>2. id \in Slis
    BY <1>2 DEF IsMeasurement
  <2>3. baseline' = m
    BY <1>1
  <2> HIDE DEF m
  <2> QED BY <2>1, <2>2, <2>3
<1>4. ~RunUnreliable(baseline')
  BY <1>1, <1>2, MergedReliable
<1>5. Reconciled(mode, directions, baseline, summary) = taken
  BY DEF Reconciled, ReconcileFor, Taken
<1>6. /\ IF id \in taken THEN baseline'.results[id] = summary.results[id]
         ELSE baseline'.results[id] = baseline.results[id]
      /\ id \in baseline'.skipped <=> IF id \in taken THEN id \in summary.skipped
                                      ELSE id \in baseline.skipped
  <2>1. IF id \in taken THEN m.results[id] = summary.results[id]
        ELSE m.results[id] = baseline.results[id]
    BY <1>2, <1>3, MergedRecord
  <2>2. id \in m.skipped <=> IF id \in taken THEN id \in summary.skipped
                             ELSE id \in baseline.skipped
    BY <1>2, <1>5, MergedMarker
  <2> HIDE DEF m, taken
  <2> QED BY <1>3, <2>1, <2>2
<1>7. id \in DOMAIN baseline'.results
  <2> HIDE DEF m
  <2> QED BY <1>3
<1>8. CASE id \notin taken
  <2>1. ValueSufficient(baseline', id)
    BY <1>4, <1>6, <1>7, <1>8 DEF ValueSufficient
  <2> QED BY <1>6, <1>8, <2>1 DEF NotWeakened
<1>9. CASE id \in taken
  <2>1. /\ IsImprovement(directions[id], baseline.results[id].value, summary.results[id].value)
        /\ ~Raced
    BY <1>9 DEF Taken, Appended, Updated
  <2>2. Better(id, baseline.results[id].value, summary.results[id].value)
    BY <1>1, <1>3, <2>1, DirectionIsBetter
  <2>3. PICK r \in policy.rules : r.metric = id
    BY <2>2 DEF Better
  <2>4. ValueSufficient(summary, id)
    BY <1>2, <2>1, <2>3, PassIsMeasured
  <2>5. ValueSufficient(baseline', id)
    BY <1>4, <1>6, <1>7, <1>9, <2>4 DEF ValueSufficient
  <2> QED BY <1>6, <1>9, <2>2, <2>5 DEF NotWeakened
<1> QED BY <1>8, <1>9

\* What is not written keeps what it knows.
LEMMA UnwrittenKeeps ==
  ASSUME UNCHANGED baseline  PROVE KeepsKnowledge
BY DEF KeepsKnowledge, NotWeakened, ValueSufficient, RunUnreliable

\* The merges of which knowledge is kept.
Keeping == command = "append-new-only" \/ (command = "review-existing" /\ ~Raced)

\* docs/sli-gate-onboarding-ux.md: a merge other than force-replace weakens
\* and deletes nothing that the baseline knows; review-existing if nobody
\* published since it graded the summary.
THEOREM KnowledgeKept == Spec => MergeKeepsKnowledge
<1> DEFINE Keeps == \/ command = "append-new-only"
                    \/ command = "review-existing" /\ ~Raced
                    => KeepsKnowledge
<1>1. ASSUME Inv, [Next]_vars  PROVE Keeps
  <2> SUFFICES ASSUME Keeping
               PROVE  KeepsKnowledge
    BY DEF Keeping
  <2>1. CASE UNCHANGED baseline
    BY <2>1, UnwrittenKeeps
  <2>2. CASE \E mode \in Modes : MergeWrite(mode)
    <3>1. PICK mode \in Modes : MergeWrite(mode)
      BY <2>2
    <3>2. /\ mode = "append-new-only" \/ (mode = "review-existing" /\ ~Raced)
          /\ IsMeasurement(baseline)
      BY <3>1, <1>1, MergeWriteFacts DEF MergeWrite, Keeping
    <3>3. DOMAIN baseline.results \subseteq DOMAIN baseline'.results
      <4>1. PICK directions : baseline' = Merged(mode, directions, baseline, summary)
        BY <3>1 DEF MergeWrite
      <4>2. DOMAIN Merged(mode, directions, baseline, summary).results
              = DOMAIN baseline.results \cup Appended(baseline, summary)
        BY <3>2, MergedResults
      <4> QED BY <4>1, <4>2
    <3> QED BY <1>1, <3>1, <3>2, <3>3, MergeKeepsOne DEF KeepsKnowledge
  <2>3. UNCHANGED baseline \/ \E mode \in Modes : MergeWrite(mode)
    BY <1>1 DEF Next, vars, Publish, Approve, ApproveWrite, Merge, Fail, Keeping
  <2> QED BY <2>1, <2>2, <2>3
<1>2. Inv /\ [Next]_vars => [Keeps]_vars
  BY <1>1
<1> QED BY <1>2, InitInv, NextInv, PTL DEF Spec, MergeKeepsKnowledge

\* A merge with force-replace rebaselines one SLI.
LEMMA ForceReplaceOne ==
  ASSUME Inv, MergeWrite("force-replace"), NEW id \in Measured(summary)
  PROVE  /\ baseline'.results[id] = summary.results[id]
         /\ ~RunUnreliable(summary) /\ ~RunUnreliable(baseline)
              => (ValueSufficient(baseline', id) <=> ValueSufficient(summary, id))
<1> DEFINE mode == "force-replace"
<1>1. PICK directions : baseline' = Merged(mode, directions, baseline, summary)
  BY DEF MergeWrite
<1>2. IsMeasurement(baseline)
  BY MergeWriteFacts DEF Modes
<1>3. id \in DOMAIN summary.results /\ id \in DOMAIN baseline'.results
  BY <1>1, <1>2, MergedResults DEF Appended, Measured
<1>4. RunUnreliable(baseline') <=> RunUnreliable(baseline)
  BY <1>1, <1>2, MergedReliable
<1>5. id \in baseline'.skipped <=> id \in summary.skipped
  BY <1>1, <1>2, MergedMarker DEF Reconciled, ReconcileFor
<1>6. baseline'.results[id] = summary.results[id]
  <2>1. CASE id \in Taken(mode, directions, baseline, summary)
    BY <1>1, <1>2, <1>3, <2>1, MergedRecord
  <2>2. CASE id \notin Taken(mode, directions, baseline, summary)
    <3>1. id \in DOMAIN baseline.results /\ baseline'.results[id] = baseline.results[id]
      BY <1>1, <1>2, <1>3, <2>2, MergedRecord
    <3>2. baseline.results[id] = summary.results[id]
      BY <2>2, <3>1 DEF Taken, Updated
    <3> QED BY <3>1, <3>2
  <2> QED BY <2>1, <2>2
<1> QED BY <1>2, <1>3, <1>4, <1>5, <1>6 DEF ValueSufficient

\* After force-replace the baseline holds the current record of every SLI
\* that the summary measured, and it is evidence exactly when it was there,
\* if neither the summary nor the baseline is of a run that failed.
THEOREM ForceReplaceCorrect == Spec => ForceReplaceRebaselines
<1> DEFINE Replaced == command = "force-replace" /\ baseline' # baseline => Rebaselined
<1>1. ASSUME Inv, [Next]_vars  PROVE Replaced
  <2> SUFFICES ASSUME command = "force-replace", baseline' # baseline
               PROVE  Rebaselined
    OBVIOUS
  <2>1. MergeWrite("force-replace")
    BY <1>1 DEF Next, vars, Publish, Approve, ApproveWrite, Merge, MergeWrite, Fail
  <2> QED BY <1>1, <2>1, ForceReplaceOne DEF Rebaselined
<1>2. Inv /\ [Next]_vars => [Replaced]_vars
  BY <1>1
<1> QED BY <1>2, InitInv, NextInv, PTL DEF Spec, ForceReplaceRebaselines

-----------------------------------------------------------------------------
(* A run against the baseline that was made of it *)

\* q is p with regression checks against a baseline.
Enables(q, p) ==
  /\ q.regression /\ q.version = "v2"
  /\ q.state = p.state /\ q.rules = p.rules /\ q.promote = p.promote
  /\ q.required = p.required /\ q.minLevel = p.minLevel
  /\ q.coverage = p.coverage /\ q.informational = p.informational

\* The rules' results of s can be compared at all.
HasIdentities(p, s) ==
  s.contract = "slo.v4" /\ \A r \in p.rules : s.results[r.metric].identity # NoIdentity

\* The baseline b has of each rule's metric what s has.
Holds(b, p, s) ==
  /\ b.state = "ok" /\ b.contract = s.contract
  /\ \A r \in p.rules : /\ b.results[r.metric] = s.results[r.metric]
                        /\ ValueSufficient(s, r.metric) => ValueSufficient(b, r.metric)

\* An accepted run stays accepted, and a passing one passes.
Settled(p, q, s, b) ==
  /\ Grade(q, s, b) \in {"PASS", "WARN"}
  /\ Grade(p, s, Absent) = "PASS" => Grade(q, s, b) = "PASS"

\* An acceptable run has measured every rule's metric.
LEMMA AcceptedIsMeasured ==
  ASSUME NEW p, NEW s, NEW b, Grade(p, s, b) \in {"PASS", "WARN"}, NEW r \in p.rules
  PROVE  ValueSufficient(s, r.metric)
<1>1. p.state = "ok" /\ s.state = "ok"
  BY DEF Grade
<1> DEFINE checks == RunThresholds(p, s) \cup RunRegression(p, s, b)
                       \cup RunReliability(p, s) \cup RunCoverage(p, s)
<1>2. ComputeGateResult(Effects(checks), BaselineStatus(b), p.regression) \in {"PASS", "WARN"}
  BY <1>1 DEF Grade
<1>3. "noGrade" \notin Effects(checks)
  BY <1>2 DEF ComputeGateResult
<1>4. EvalThreshold(p, s, r) \in checks
  BY DEF RunThresholds
<1>5. EvalThreshold(p, s, r).effect # "noGrade"
  BY <1>3, <1>4 DEF Effects
<1> QED BY <1>5 DEF EvalThreshold, Check

\* No value is a regression from itself.
LEMMA NoSelfRegression ==
  ASSUME NEW t \in Nat, NEW op, NEW v \in Int
  PROVE  ~IsRegression(t, op, v, v)
<1> DEFINE a == Abs(v)
<1>1. a \in Nat /\ 100 * (v - v) = 0
  BY DEF Abs
<1>2. t * a \in Nat
  BY <1>1
<1>3. Abs(0) = 0
  BY DEF Abs
<1> HIDE DEF a
<1>4. ~(0 > t * a) /\ ~(0 < -(t * a))
  BY <1>2
<1> QED BY <1>1, <1>3, <1>4 DEF IsRegression, a

\* The regression check of a rule whose metric has not changed passes.
LEMMA SameIsNoRegression ==
  ASSUME NEW q, IsPolicy(q), NEW s, IsMeasurement(s), NEW b, NEW r,
         ValueSufficient(s, r.metric), ValueSufficient(b, r.metric),
         b.results[r.metric] = s.results[r.metric],
         s.results[r.metric].identity # NoIdentity
  PROVE  EvalRegressionCheck(q, s, b, r) = Check("regression", r.metric, "pass", "none", "")
<1> DEFINE v == s.results[r.metric].value
<1>1. v \in Int
  BY GateRulesAssumption DEF ValueSufficient, IsMeasurement, Results
<1>2. q.tolerance \in Nat
  BY DEF IsPolicy
<1>3. ~IsRegression(q.tolerance, r.op, v, v)
  BY <1>1, <1>2, NoSelfRegression
<1>4. Comparable(s, b, r.metric)
  BY DEF Comparable
<1> QED BY <1>3, <1>4 DEF EvalRegressionCheck

\* What the other three families find does not depend on the baseline.
LEMMA EnablesSameFamilies ==
  ASSUME NEW p, NEW q, Enables(q, p), NEW s
  PROVE  /\ RunThresholds(q, s) = RunThresholds(p, s)
         /\ RunReliability(q, s) = RunReliability(p, s)
         /\ RunCoverage(q, s) = RunCoverage(p, s)
<1>1. Promotions(q) = Promotions(p)
  BY DEF Promotions, Enables
<1>2. \A condition : Effect(q, condition) = Effect(p, condition)
  BY <1>1 DEF Effect
<1>3. \A r : EvalThreshold(q, s, r) = EvalThreshold(p, s, r)
  BY <1>2 DEF EvalThreshold
<1>4. RunThresholds(q, s) = RunThresholds(p, s)
  BY <1>3 DEF RunThresholds, Enables
<1>5. RunReliability(q, s) = RunReliability(p, s)
  BY DEF RunReliability, RequiredRank, Enables
<1>6. Uncovered(q, s) = Uncovered(p, s) /\ q.coverage = p.coverage
  BY DEF Uncovered, Enables
<1>7. RunCoverage(q, s) = RunCoverage(p, s)
  BY <1>2, <1>6 DEF RunCoverage
<1> QED BY <1>4, <1>5, <1>7

\* The effects of a run against a baseline that holds its own values.
LEMMA OwnRunSettled ==
  ASSUME NEW p, NEW q, IsPolicy(q), Enables(q, p),
         NEW s, IsMeasurement(s), Grade(p, s, Absent) \in {"PASS", "WARN"},
         HasIdentities(p, s), NEW b, Holds(b, p, s)
  PROVE  Settled(p, q, s, b)
<1> DEFINE others == RunThresholds(p, s) \cup RunReliability(p, s) \cup RunCoverage(p, s)
           before == RunRegression(p, s, Absent)
           after == RunRegression(q, s, b)
<1>1. p.state = "ok" /\ s.state = "ok" /\ q.state = "ok"
  BY DEF Grade, Enables
<1>2. BaselineStatus(b) = "present"
  BY DEF BaselineStatus, Holds
<1>3. TrustCorrect(q, s, b)
  BY DEF TrustCorrect, Enables, HasIdentities, Holds
<1>4. after = {EvalRegressionCheck(q, s, b, r) : r \in q.rules}
  BY <1>2, <1>3 DEF RunRegression, Enables
<1>5. \A c \in after : c.effect = "none"
  <2> SUFFICES ASSUME NEW r \in q.rules  PROVE EvalRegressionCheck(q, s, b, r).effect = "none"
    BY <1>4
  <2>1. r \in p.rules
    BY DEF Enables
  <2>2. ValueSufficient(s, r.metric)
    BY <2>1, AcceptedIsMeasured
  <2> DEFINE c == Check("regression", r.metric, "pass", "none", "")
  <2>3. EvalRegressionCheck(q, s, b, r) = c
    BY <2>1, <2>2, SameIsNoRegression DEF HasIdentities, Holds
  <2>4. c.effect = "none"
    BY DEF Check
  <2> QED BY <2>3, <2>4
<1>6. Grade(p, s, Absent) =
        ComputeGateResult(Effects(others \cup before), BaselineStatus(Absent), p.regression)
  <2>1. RunThresholds(p, s) \cup before \cup RunReliability(p, s) \cup RunCoverage(p, s)
          = others \cup before
    OBVIOUS
  <2> QED BY <1>1, <2>1 DEF Grade
<1>7. Grade(q, s, b) = ComputeGateResult(Effects(others \cup after), "present", q.regression)
  <2>1. RunThresholds(q, s) \cup after \cup RunReliability(q, s) \cup RunCoverage(q, s)
          = others \cup after
    BY EnablesSameFamilies
  <2> QED BY <1>1, <1>2, <2>1 DEF Grade
<1> HIDE DEF others, before, after
<1>8. \A e \in {"failed", "noGrade", "warn"} :
        e \in Effects(others \cup after) => e \in Effects(others \cup before)
  BY <1>5 DEF Effects
<1> QED BY <1>6, <1>7, <1>8 DEF ComputeGateResult, Settled

\* A baseline that is there was loaded, or made of one that was.
Loads == Exists => baseline.state = "ok"

LEMMA LoadsStep ==
  ASSUME Inv, Loads, [Next]_vars  PROVE Loads'
<1>1. CASE UNCHANGED baseline
  BY <1>1 DEF Loads, Exists
<1>2. CASE ApproveWrite
  BY <1>2 DEF ApproveWrite, Loads
<1>3. ASSUME NEW mode \in Modes, MergeWrite(mode)  PROVE Loads'
  <2>1. PICK directions : baseline' = Merged(mode, directions, baseline, summary)
    BY <1>3 DEF MergeWrite
  <2>2. IsMeasurement(baseline)
    BY DEF Inv, TypeOK
  <2>3. baseline'.state = baseline.state
    BY <2>1, <2>2, MergedKept
  <2> QED BY <2>3 DEF Loads, Exists
<1>4. UNCHANGED baseline \/ ApproveWrite \/ \E mode \in Modes : MergeWrite(mode)
  BY DEF Next, vars, Publish, Approve, Merge, Fail
<1> QED BY <1>1, <1>2, <1>3, <1>4

LEMMA ApprovedHolds ==
  ASSUME ApproveWrite  PROVE Holds(baseline', policy, summary)
BY DEF ApproveWrite, Holds

LEMMA ForceReplacedHolds ==
  ASSUME Inv, Loads, MergeWrite("force-replace"), ~Raced, ~RunUnreliable(baseline)
  PROVE  Holds(baseline', policy, summary)
<1>1. PICK directions : baseline' = Merged("force-replace", directions, baseline, summary)
  BY DEF MergeWrite
<1>2. /\ IsMeasurement(baseline) /\ Exists
      /\ Grade(policy, summary, Absent) = "PASS" /\ ~RunUnreliable(summary)
  BY MergeWriteFacts DEF Modes
<1>3. baseline'.state = "ok" /\ baseline'.contract = summary.contract
  <2>1. baseline'.state = baseline.state /\ baseline'.contract = baseline.contract
    BY <1>1, <1>2, MergedKept
  <2>2. summary.contract = baseline.contract /\ baseline.state = "ok"
    BY <1>2 DEF MergeWrite, Loads
  <2> QED BY <2>1, <2>2
<1>4. ASSUME NEW r \in policy.rules
      PROVE  /\ baseline'.results[r.metric] = summary.results[r.metric]
             /\ ValueSufficient(summary, r.metric) => ValueSufficient(baseline', r.metric)
  <2>1. ValueSufficient(summary, r.metric)
    BY <1>2, AcceptedIsMeasured
  <2>2. r.metric \in Measured(summary)
    BY <2>1 DEF ValueSufficient, Measured
  <2> QED BY <1>2, <2>2, ForceReplaceOne
<1> QED BY <1>3, <1>4 DEF Holds

\* A write of the summary that was graded, into a baseline of its own or one
\* of a run that did not fail.
OwnWrite ==
  /\ ~Raced
  /\ ApproveWrite \/ (MergeWrite("force-replace") /\ ~RunUnreliable(baseline))

\* What approve and merge --mode force-replace write is a baseline for the run
\* they took it from, if that is the run they graded.  Under the same policy
\* with regression enabled, whatever its tolerance, that run is graded PASS if
\* it was, and is never failed or left without a grade: enabling regression
\* does not turn red the very run that the maintainer accepted.
THEOREM OwnRunAccepted ==
  Spec => [][OwnWrite /\ HasIdentities(policy, summary)
               => \A q : IsPolicy(q) /\ Enables(q, policy)
                           => Settled(policy, q, summary, baseline')]_vars
<1> DEFINE Own == OwnWrite /\ HasIdentities(policy, summary)
                    => \A q : IsPolicy(q) /\ Enables(q, policy)
                                => Settled(policy, q, summary, baseline')
<1>1. ASSUME Inv, Loads  PROVE Own
  <2> SUFFICES ASSUME OwnWrite, HasIdentities(policy, summary),
                      NEW q, IsPolicy(q), Enables(q, policy)
               PROVE  Settled(policy, q, summary, baseline')
    OBVIOUS
  <2>1. Holds(baseline', policy, summary)
    BY <1>1, ApprovedHolds, ForceReplacedHolds DEF OwnWrite
  <2>2. IsMeasurement(summary)
    BY <1>1, LifecycleAssumption DEF Inv, TypeOK
  <2>3. Grade(policy, summary, Absent) \in {"PASS", "WARN"}
    <3>1. command # "none" /\ summary = graded
      BY DEF OwnWrite, ApproveWrite, MergeWrite, Raced
    <3> QED BY <1>1, <3>1 DEF Inv, Acceptable
  <2> QED BY <2>1, <2>2, <2>3, OwnRunSettled
<1>2. Inv /\ Loads => [Own]_vars
  BY <1>1
<1>3. Init => Loads
  BY LifecycleAssumption DEF Init, Loads, Exists
<1>4. Inv /\ Loads /\ [Next]_vars => Loads'
  BY LoadsStep
<1> HIDE DEF Own
<1>5. Spec => [][Own]_vars
  BY <1>2, <1>3, <1>4, InitInv, NextInv, PTL DEF Spec
<1> QED BY <1>5 DEF Own

=============================================================================
