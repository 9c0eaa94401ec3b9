-------------------------- MODULE Onboarding_proofs --------------------------
(* Theorems about Onboarding, for all summaries, user policies and paths. *)
EXTENDS Onboarding, TLAPS

-----------------------------------------------------------------------------
(* The two tables *)

\* A profile's rule is in the types that GateRules has for one.
LEMMA ProfileRulesType == ProfileRules \subseteq Rules
<1>1. ASSUME NEW r \in ProfileRules
      PROVE  r = [metric |-> r.metric, op |-> r.op, target |-> r.target]
  BY <1>1 DEF ProfileRules, Threshold
<1>2. ASSUME NEW r \in ProfileRules
      PROVE  r.op \in Operators /\ r.target \in {0, 1}
  BY <1>2 DEF ProfileRules, Threshold, Operators
<1>3. ASSUME NEW r \in ProfileRules PROVE r.metric \in Slis
  BY <1>3, OnboardingAssumption DEF OnboardingAssumption, ProfileIds
<1> QED
  BY <1>1, <1>2, <1>3, OnboardingAssumption DEF OnboardingAssumption, Rules

\* init's template and the profile, two tables kept in step by hand, have the
\* same rules and the same informational SLIs.
LEMMA SameTables ==
  /\ InitPolicy.rules = ProfileRules
  /\ InitPolicy.informational = Informational
  BY DEF InitPolicy, Template, ProfileRules, Informational, Threshold

LEMMA TemplateType ==
  ASSUME NEW rules \in SUBSET Rules, NEW informational \in SUBSET Slis
  PROVE  IsPolicy(Template(rules, informational))
  BY DEF Template, IsPolicy, Conditions

-----------------------------------------------------------------------------
(* What a generated policy makes of a summary *)

Missed(s, r) ==
  ValueSufficient(s, r.metric) /\ ~CompareOp(s.results[r.metric].value, r.op, r.target)
Met(s, r) ==
  ValueSufficient(s, r.metric) /\ CompareOp(s.results[r.metric].value, r.op, r.target)

Generated(rules) == Template(rules, Informational)

\* The checks of a policy made from the template: no regression, and a miss or
\* a gap fails.
LEMMA TemplateEffects ==
  ASSUME NEW rules, NEW s
  PROVE  LET p == Generated(rules)
         IN  /\ RunRegression(p, s, NoBaseline) = {}
             /\ Effects(RunReliability(p, s)) = {IF RunUnreliable(s) THEN "noGrade" ELSE "none"}
             /\ \A r \in rules :
                  EvalThreshold(p, s, r).effect
                    = (IF Missed(s, r) THEN "failed" ELSE IF Met(s, r) THEN "none" ELSE "noGrade")
             /\ Effects(RunCoverage(p, s)) = {e \in {"failed"} : Uncovered(p, s) # {}}
<1> DEFINE p == Generated(rules)
<1>1. /\ p.regression = FALSE /\ p.required = FALSE /\ p.coverage = TRUE
      /\ p.promote = {"threshold_miss", "coverage_gap"}
  BY DEF Generated, Template
<1>2. Effect(p, "threshold_miss") = "failed" /\ Effect(p, "coverage_gap") = "failed"
  BY <1>1 DEF Effect, Promotions
<1> HIDE DEF p
<1>3. RunRegression(p, s, NoBaseline) = {}
  BY <1>1 DEF RunRegression
<1>4. Effects(RunReliability(p, s)) = {IF RunUnreliable(s) THEN "noGrade" ELSE "none"}
  <2> DEFINE c == IF RunUnreliable(s)
                  THEN Check("reliability", "*", "no_grade", "noGrade", "COLLECTION_FAILED")
                  ELSE Check("reliability", "*", "pass", "none", "")
  <2>1. RunReliability(p, s) = {c}
    BY <1>1 DEF RunReliability
  <2>2. c.effect = IF RunUnreliable(s) THEN "noGrade" ELSE "none"
    BY DEF Check
  <2> HIDE DEF c
  <2>3. Effects({c}) = {c.effect}
    BY DEF Effects
  <2> QED
    BY <2>1, <2>2, <2>3
<1>5. ASSUME NEW r \in rules
      PROVE  EvalThreshold(p, s, r).effect
               = (IF Missed(s, r) THEN "failed" ELSE IF Met(s, r) THEN "none" ELSE "noGrade")
  BY <1>2 DEF EvalThreshold, Missed, Met, Check
<1>6. Effects(RunCoverage(p, s)) = {e \in {"failed"} : Uncovered(p, s) # {}}
  <2>1. RunCoverage(p, s) = {Check("coverage", id, "fail", "failed", "COVERAGE_GAP") :
                               id \in Uncovered(p, s)}
    BY <1>1, <1>2 DEF RunCoverage
  <2>2. \A id : Check("coverage", id, "fail", "failed", "COVERAGE_GAP").effect = "failed"
    BY DEF Check
  <2> QED
    BY <2>1, <2>2 DEF Effects
<1> QED
  BY <1>3, <1>4, <1>5, <1>6 DEF p

\* When such a policy FAILs and when it PASSes a loaded summary.
LEMMA TemplateGrade ==
  ASSUME NEW rules, NEW s, s.state = "ok"
  PROVE  /\ Grade(Generated(rules), s, NoBaseline) = "FAIL"
              <=> (\E r \in rules : Missed(s, r)) \/ Uncovered(Generated(rules), s) # {}
         /\ Grade(Generated(rules), s, NoBaseline) = "PASS"
              <=> /\ ~RunUnreliable(s)
                  /\ \A r \in rules : Met(s, r)
                  /\ Uncovered(Generated(rules), s) = {}
<1> DEFINE p == Generated(rules)
           checks == RunThresholds(p, s) \cup RunRegression(p, s, NoBaseline)
                     \cup RunReliability(p, s) \cup RunCoverage(p, s)
           E == Effects(checks)
<1>1. p.state = "ok" /\ p.rules = rules /\ p.regression = FALSE
  BY DEF Generated, Template
<1>2. /\ RunRegression(p, s, NoBaseline) = {}
      /\ Effects(RunReliability(p, s)) = {IF RunUnreliable(s) THEN "noGrade" ELSE "none"}
      /\ \A r \in rules :
           EvalThreshold(p, s, r).effect
             = (IF Missed(s, r) THEN "failed" ELSE IF Met(s, r) THEN "none" ELSE "noGrade")
      /\ Effects(RunCoverage(p, s)) = {e \in {"failed"} : Uncovered(p, s) # {}}
  BY TemplateEffects
<1> HIDE DEF p
<1>3. E = {EvalThreshold(p, s, r).effect : r \in rules}
          \cup Effects(RunReliability(p, s)) \cup Effects(RunCoverage(p, s))
  <2>1. RunThresholds(p, s) = {EvalThreshold(p, s, r) : r \in rules}
    BY <1>1 DEF RunThresholds
  <2> QED
    BY <2>1, <1>2 DEF Effects
<1>4. Grade(p, s, NoBaseline) = ComputeGateResult(E, BaselineStatus(NoBaseline), FALSE)
  BY <1>1 DEF Grade
<1>5. "failed" \in E <=> (\E r \in rules : Missed(s, r)) \/ Uncovered(p, s) # {}
  BY <1>2, <1>3 DEF Missed, Met
<1>6. "noGrade" \in E <=> RunUnreliable(s) \/ \E r \in rules : ~Missed(s, r) /\ ~Met(s, r)
  BY <1>2, <1>3 DEF Missed, Met
<1>7. "warn" \notin E
  BY <1>2, <1>3
<1>8. \A r : ~(Missed(s, r) /\ Met(s, r))
  BY DEF Missed, Met
<1> HIDE DEF E
<1>9. Grade(p, s, NoBaseline) =
        IF "failed" \in E THEN "FAIL" ELSE IF "noGrade" \in E THEN "NO_GRADE" ELSE "PASS"
  BY <1>4, <1>7 DEF ComputeGateResult
<1>10. Grade(p, s, NoBaseline) = "FAIL"
         <=> (\E r \in rules : Missed(s, r)) \/ Uncovered(p, s) # {}
  BY <1>5, <1>9
<1>11. Grade(p, s, NoBaseline) = "PASS"
         <=> /\ ~RunUnreliable(s)
             /\ \A r \in rules : Met(s, r)
             /\ Uncovered(p, s) = {}
  BY <1>5, <1>6, <1>8, <1>9
<1> QED
  BY <1>10, <1>11 DEF p

\* A draft and init's policy find the same gaps: a sufficient value has a record,
\* and a record of a candidate makes its rule active.
LEMMA SameGaps ==
  ASSUME NEW s, NEW strictness, strictness # "lenient"
  PROVE  Uncovered(Draft(strictness, s), s) = Uncovered(InitPolicy, s)
<1>1. /\ Draft(strictness, s).rules = Active(strictness, s)
      /\ Draft(strictness, s).informational = Informational
  BY DEF Draft, Template
<1>2. ASSUME NEW id, ValueSufficient(s, id)
      PROVE  (\A r \in Active(strictness, s) : r.metric # id)
               <=> (\A r \in ProfileRules : r.metric # id)
  BY <1>2 DEF Active, ValueSufficient
<1> QED
  BY <1>1, <1>2, SameTables DEF Uncovered

LEMMA GeneratedPolicies ==
  /\ InitPolicy = Generated(ProfileRules)
  /\ \A s, strictness : Draft(strictness, s) = Generated(Active(strictness, s))
<1>1. InitPolicy = Generated(ProfileRules)
  BY SameTables DEF InitPolicy, Generated, Template
<1>2. \A s, strictness : Draft(strictness, s) = Generated(Active(strictness, s))
  BY DEF Draft, Generated
<1> QED
  BY <1>1, <1>2

LEMMA DraftAgrees ==
  ASSUME NEW s, NEW strictness, strictness # "lenient"
  PROVE  LET draft == Grade(Draft(strictness, s), s, NoBaseline)
             init == Grade(InitPolicy, s, NoBaseline)
         IN  /\ draft = "FAIL" <=> init = "FAIL"
             /\ init = "PASS" => draft = "PASS"
<1> DEFINE draft == Grade(Draft(strictness, s), s, NoBaseline)
           init == Grade(InitPolicy, s, NoBaseline)
           A == Active(strictness, s)
<1>1. CASE s.state # "ok"
  BY <1>1 DEF Grade
<1>2. CASE s.state = "ok"
  <2>1. Uncovered(Draft(strictness, s), s) = Uncovered(InitPolicy, s)
    BY SameGaps
  <2>2. A \subseteq ProfileRules
    BY DEF Active
  <2>3. ASSUME NEW r \in ProfileRules, Missed(s, r) PROVE r \in A
    BY <2>3 DEF Missed, ValueSufficient, Active
  <2>4. draft = "FAIL" <=> (\E r \in A : Missed(s, r)) \/ Uncovered(Draft(strictness, s), s) # {}
    BY <1>2, GeneratedPolicies, TemplateGrade
  <2>5. init = "FAIL" <=> (\E r \in ProfileRules : Missed(s, r)) \/ Uncovered(InitPolicy, s) # {}
    BY <1>2, GeneratedPolicies, TemplateGrade
  <2>6. draft = "PASS"
          <=> ~RunUnreliable(s) /\ (\A r \in A : Met(s, r)) /\ Uncovered(Draft(strictness, s), s) = {}
    BY <1>2, GeneratedPolicies, TemplateGrade
  <2>7. init = "PASS"
          <=> ~RunUnreliable(s) /\ (\A r \in ProfileRules : Met(s, r)) /\ Uncovered(InitPolicy, s) = {}
    BY <1>2, GeneratedPolicies, TemplateGrade
  <2> QED
    BY <2>1, <2>2, <2>3, <2>4, <2>5, <2>6, <2>7
<1> QED
  BY <1>1, <1>2

LEMMA DraftWarns ==
  ASSUME NEW s, WellMeasured(s), NEW strictness, strictness # "lenient"
  PROVE  Grade(Draft(strictness, s), s, NoBaseline)
           = (IF MismatchNotes(strictness, s) = {} THEN "PASS" ELSE "FAIL")
<1> DEFINE d == Draft(strictness, s)
           A == Active(strictness, s)
<1>1. /\ s.state = "ok"
      /\ ~RunUnreliable(s)
      /\ \A id \in DOMAIN s.results : ValueSufficient(s, id) /\ id \in ProfileIds
  BY DEF WellMeasured
<1>2. Uncovered(d, s) = {}
  <2>1. Uncovered(d, s) = Uncovered(InitPolicy, s)
    BY SameGaps
  <2> QED
    BY <2>1, <1>1, SameTables DEF Uncovered, ProfileIds
<1>3. \A r \in A : /\ Missed(s, r) <=> r \in MismatchNotes(strictness, s)
                   /\ Met(s, r) <=> r \notin MismatchNotes(strictness, s)
  <2> SUFFICES ASSUME NEW r \in A
               PROVE  /\ Missed(s, r) <=> r \in MismatchNotes(strictness, s)
                      /\ Met(s, r) <=> r \notin MismatchNotes(strictness, s)
    OBVIOUS
  <2>1. ValueSufficient(s, r.metric)
    BY <1>1 DEF Active
  <2>2. s.results[r.metric].value # NoValue
    BY <2>1 DEF ValueSufficient
  <2> QED
    BY <2>1, <2>2 DEF Missed, Met, MismatchNotes, ViolatesDefault
<1>4. MismatchNotes(strictness, s) \subseteq A
  BY DEF MismatchNotes
<1>5. Grade(d, s, NoBaseline) = "FAIL" <=> (\E r \in A : Missed(s, r)) \/ Uncovered(d, s) # {}
  BY <1>1, GeneratedPolicies, TemplateGrade
<1>6. Grade(d, s, NoBaseline) = "PASS"
        <=> ~RunUnreliable(s) /\ (\A r \in A : Met(s, r)) /\ Uncovered(d, s) = {}
  BY <1>1, GeneratedPolicies, TemplateGrade
<1>7. CASE MismatchNotes(strictness, s) = {}
  BY <1>1, <1>2, <1>3, <1>6, <1>7
<1>8. CASE MismatchNotes(strictness, s) # {}
  <2>1. PICK r \in MismatchNotes(strictness, s) : TRUE
    BY <1>8
  <2>2. r \in A
    BY <1>4, <2>1
  <2>3. Missed(s, r)
    BY <1>3, <2>1, <2>2
  <2>4. Grade(d, s, NoBaseline) = "FAIL"
    BY <2>2, <2>3, <1>5
  <2> QED
    BY <1>8, <2>4
<1> QED
  BY <1>7, <1>8

-----------------------------------------------------------------------------
(* Types *)

LEMMA Templates ==
  /\ IsPolicy(InitPolicy) /\ IsPolicy(NoPolicy) /\ IsPolicy(BrokenPolicy)
  /\ \A strictness, s : IsPolicy(Draft(strictness, s))
<1>1. Informational \subseteq Slis
  BY OnboardingAssumption DEF OnboardingAssumption, ProfileIds
<1>2. \A rules \in SUBSET Rules : IsPolicy(Generated(rules))
  BY <1>1, TemplateType DEF Generated
<1>3. IsPolicy(InitPolicy)
  BY <1>2, GeneratedPolicies, ProfileRulesType
<1>4. \A strictness, s : IsPolicy(Draft(strictness, s))
  BY <1>2, GeneratedPolicies, ProfileRulesType DEF Active
<1>5. IsPolicy(NoPolicy) /\ IsPolicy(BrokenPolicy)
  <2>1. ASSUME NEW st \in {"missing", "invalid"}
        PROVE  LET q == [InitPolicy EXCEPT !.state = st]
               IN  /\ q.state = st
                   /\ q.version = InitPolicy.version /\ q.rules = InitPolicy.rules
                   /\ q.regression = InitPolicy.regression
                   /\ q.required = InitPolicy.required
                   /\ q.coverage = InitPolicy.coverage
                   /\ q.tolerance = InitPolicy.tolerance
                   /\ q.minLevel = InitPolicy.minLevel
                   /\ q.informational = InitPolicy.informational
                   /\ q.promote = InitPolicy.promote
    BY DEF InitPolicy, Template
  <2> QED
    BY <2>1, <1>3 DEF IsPolicy, NoPolicy, BrokenPolicy
<1> QED
  BY <1>3, <1>4, <1>5

Seen == [hasPolicy : BOOLEAN, hasSummary : BOOLEAN, summaryInvalid : BOOLEAN,
         gateResult : {"", "PASS", "WARN", "FAIL", "NO_GRADE"}, hasBaseline : BOOLEAN]

LEMMA GradeType ==
  ASSUME NEW p, NEW s, NEW b
  PROVE  Grade(p, s, b) \in {"PASS", "WARN", "FAIL", "NO_GRADE"}
  BY DEF Grade, ComputeGateResult

LEMMA NothingSeenType == NothingSeen \in Seen
  BY DEF NothingSeen, Seen

Gone == {"none", "done", "exists", "summary", "rejected", "write"}

\* However a command goes on, the wizard's own state stays well typed.
LEMMA NextTurnType ==
  ASSUME TypeOK
  PROVE  /\ \A result \in Gone : Errors(result) =>
              /\ pc' = "off" /\ path' = NoPath /\ exit' = result
              /\ seen' \in Seen /\ IsPolicy(pending') /\ outPath' = NoPath /\ late' = {}
         /\ \A next : Continues(next) =>
              /\ pc' = "inspect" /\ path' = next /\ exit' = exit
              /\ seen' \in Seen /\ IsPolicy(pending') /\ outPath' = NoPath /\ late' = {}
  BY Templates, NothingSeenType DEF Errors, Ends, Continues, Forgets

\* Somebody else's write leaves the wizard's own state alone.
LEMMA ElsewhereType ==
  ASSUME TypeOK, NEW file \in Paths \cup {"policy", "summary"}, Elsewhere(file)
  PROVE  /\ pc' = pc /\ path' = path /\ seen' = seen /\ exit' = exit
         /\ pending' = pending /\ outPath' = outPath
         /\ late' \subseteq Paths \cup {"policy", "summary"}
         /\ late \subseteq late'
         /\ pc \in {"writePolicy", "writeBaseline"} => file \in late'
  BY DEF Elsewhere, TypeOK

LEMMA PolicyStepTypes ==
  ASSUME TypeOK, RunInit \/ RunRecommendPolicy \/ WritePolicy
  PROVE  TypeOK'
<1> USE DEF Seen, Gone
<1>1. CASE RunInit
  <2>1. CASE PolicyRefused
    BY <1>1, <2>1, NextTurnType DEF TypeOK, RunInit, files
  <2>2. CASE ~PolicyRefused
    BY <1>1, <2>2, Templates DEF TypeOK, RunInit, files, GoesOnToWrite
  <2> QED
    BY <2>1, <2>2
<1>2. CASE RunRecommendPolicy
  <2>1. CASE summary.state # "ok" \/ PolicyRefused
    BY <1>2, <2>1, NextTurnType DEF TypeOK, RunRecommendPolicy, files
  <2>2. CASE summary.state = "ok" /\ ~PolicyRefused
    <3>1. IsPolicy(Draft("conservative", summary))
      BY Templates
    <3>2. GoesOnToWrite(Draft("conservative", summary))
      BY <1>2, <2>2 DEF RunRecommendPolicy
    <3>3. /\ IsPolicy(pending') /\ pc' = "writePolicy"
          /\ path' = path /\ seen' = seen /\ exit' = exit /\ outPath' = outPath /\ late' = late
      BY <3>1, <3>2 DEF GoesOnToWrite
    <3> QED
      BY <1>2, <3>3 DEF TypeOK, RunRecommendPolicy, files
  <2> QED
    BY <2>1, <2>2
<1>3. CASE WritePolicy
  <2>1. CASE policy' = pending /\ Continues(path)
    BY <1>3, <2>1, NextTurnType DEF TypeOK, WritePolicy
  <2>2. CASE policy' \in {policy, BrokenPolicy} /\ Errors("write")
    <3>1. IsPolicy(policy')
      BY <2>2, Templates DEF TypeOK
    <3> QED
      BY <1>3, <2>2, <3>1, NextTurnType DEF TypeOK, WritePolicy
  <2> QED
    BY <1>3, <2>1, <2>2 DEF WritePolicy
<1> QED
  BY <1>1, <1>2, <1>3

LEMMA BaselineStepTypes ==
  ASSUME TypeOK,
         \/ \E out \in Paths \cup {Suggested}, warn \in BOOLEAN : RunApprove(out, warn)
         \/ WriteBaseline
  PROVE  TypeOK'
<1> USE DEF Seen, Gone
<1>1. ASSUME NEW out \in Paths \cup {Suggested}, NEW warn \in BOOLEAN, RunApprove(out, warn)
      PROVE  TypeOK'
  <2>1. out \in Paths
    BY OnboardingAssumption DEF TypeOK, Suggested, OnboardingAssumption
  <2>2. CASE ~Approved(warn) \/ BaselineRefused(out)
    BY <1>1, <2>2, NextTurnType DEF TypeOK, RunApprove, files
  <2>3. CASE Approved(warn) /\ ~BaselineRefused(out)
    BY <1>1, <2>1, <2>3 DEF TypeOK, RunApprove, files
  <2> QED
    BY <2>2, <2>3
<1>2. CASE WriteBaseline
  <2>1. CASE summary.state = "ok" /\ Continues(outPath)
             /\ baselines' = [baselines EXCEPT ![outPath] = summary]
    <3>1. baselines' \in [Paths -> SummaryFiles \cup {NoBaseline}]
      BY <1>2, <2>1 DEF TypeOK, WriteBaseline
    <3> QED
      BY <1>2, <2>1, <3>1, NextTurnType DEF TypeOK, WriteBaseline
  <2>2. CASE UNCHANGED baselines /\ Errors(IF summary.state = "ok" THEN "write" ELSE "summary")
    BY <1>2, <2>2, NextTurnType DEF TypeOK, WriteBaseline
  <2> QED
    BY <1>2, <2>1, <2>2 DEF WriteBaseline
<1> QED
  BY <1>1, <1>2

LEMMA OtherStepTypes ==
  ASSUME TypeOK,
         \/ Publish
         \/ InitCommand
         \/ RecommendCommand
         \/ \E out \in Paths : ApproveCommand(out)
         \/ EditPolicy
  PROVE  TypeOK'
<1>1. CASE Publish
  BY <1>1, ElsewhereType DEF TypeOK, Publish
<1>2. ASSUME NEW p, IsPolicy(p), CommandWritesPolicy(p) PROVE TypeOK'
  <2>1. IsPolicy(policy')
    BY <1>2, Templates DEF CommandWritesPolicy
  <2> QED
    BY <1>2, <2>1, ElsewhereType DEF TypeOK, CommandWritesPolicy
<1>3. CASE InitCommand
  BY <1>2, <1>3, Templates DEF InitCommand
<1>4. CASE RecommendCommand
  <2>1. \A p \in Drafts(summary) \cup AuditDrafts : IsPolicy(p)
    BY Templates DEF Drafts, AuditDrafts
  <2> QED
    BY <1>2, <1>4, <2>1 DEF RecommendCommand
<1>5. ASSUME NEW out \in Paths, ApproveCommand(out) PROVE TypeOK'
  <2>1. baselines' \in [Paths -> SummaryFiles \cup {NoBaseline}]
    BY <1>5 DEF TypeOK, ApproveCommand
  <2> QED
    BY <1>5, <2>1, ElsewhereType DEF TypeOK, ApproveCommand
<1>6. CASE EditPolicy
  <2>1. IsPolicy(policy')
    BY <1>6, OnboardingAssumption DEF EditPolicy, OnboardingAssumption
  <2> QED
    BY <1>6, <2>1, ElsewhereType DEF TypeOK, EditPolicy
<1> QED
  BY <1>1, <1>3, <1>4, <1>5, <1>6

LEMMA TypeInductive == TypeOK /\ [Next]_vars => TypeOK'
<1> SUFFICES ASSUME TypeOK, [Next]_vars PROVE TypeOK'
  OBVIOUS
<1> USE DEF Seen, Gone
<1>1. ASSUME NEW flag \in Flags, Start(flag) PROVE TypeOK'
  BY <1>1, OnboardingAssumption DEF TypeOK, Start, OnboardingAssumption, files, command
<1>2. CASE InspectFiles
  <2>1. seen' \in Seen
    BY <1>2 DEF InspectFiles, NothingSeen, PolicyExists
  <2> QED
    BY <1>2, <2>1 DEF TypeOK, InspectFiles, files, command
<1>3. CASE EvaluateGate
  <2> DEFINE g == IF seen.hasPolicy /\ seen.hasSummary
                  THEN Grade(policy, summary, NoBaseline) ELSE ""
             h == path # NoPath /\ BaselineExists(path)
  <2>1. h \in BOOLEAN
    BY DEF BaselineExists
  <2>2. g \in {"", "PASS", "WARN", "FAIL", "NO_GRADE"}
    <3>1. Grade(policy, summary, NoBaseline) \in {"PASS", "WARN", "FAIL", "NO_GRADE"}
      BY GradeType
    <3> QED
      BY <3>1
  <2>3. seen' = [seen EXCEPT !.gateResult = g, !.hasBaseline = h]
    BY <1>3 DEF EvaluateGate
  <2>4. seen \in Seen
    BY DEF TypeOK
  <2> HIDE DEF g, h
  <2>5. seen' \in Seen
    BY <2>1, <2>2, <2>3, <2>4
  <2> QED
    BY <1>3, <2>5 DEF TypeOK, EvaluateGate, files, command
<1>4. CASE Decline
  <2>1. Errors("done")
    BY <1>4 DEF Decline, Errors
  <2> QED
    BY <1>4, <2>1, NextTurnType DEF TypeOK, Decline, files
<1>5. CASE UNCHANGED vars
  <2>1. /\ policy' = policy /\ summary' = summary /\ baselines' = baselines /\ pc' = pc
        /\ path' = path /\ seen' = seen /\ pending' = pending /\ outPath' = outPath
        /\ exit' = exit /\ late' = late
    BY <1>5 DEF vars
  <2>2. IsPolicy(policy') /\ IsPolicy(pending')
    BY <2>1 DEF TypeOK
  <2>3. seen' \in Seen
    BY <2>1 DEF TypeOK
  <2> QED
    BY <2>1, <2>2, <2>3 DEF TypeOK
<1> QED
  BY <1>1, <1>2, <1>3, <1>4, <1>5, PolicyStepTypes, BaselineStepTypes, OtherStepTypes
     DEF Next, Wizard

\* Type correctness: the policy file is always a policy or a file that the
\* gate refuses, whoever wrote it and however the write went, and a baseline is
\* always a summary that a session published.
THEOREM OnboardingTypeCorrect == Spec => []TypeOK
<1>1. Init => TypeOK
  BY Templates, NothingSeenType DEF Init, TypeOK, Seen
<1> QED
  BY <1>1, TypeInductive, PTL DEF Spec

-----------------------------------------------------------------------------
(* Between the refusal of a command and its write *)

\* What the command decided on still holds, but for what others wrote since.
PolicyDecided == pc = "writePolicy" /\ PolicyExists => "policy" \in late
BaselineDecided == pc = "writeBaseline" /\ BaselineExists(outPath) => outPath \in late
GradeDecided ==
  pc = "writeBaseline" /\ late \cap {"policy", "summary"} = {} =>
    Grade(policy, summary, NoBaseline) = "PASS"

Inv == TypeOK /\ PolicyDecided /\ BaselineDecided /\ GradeDecided

\* Where the next turn starts, or the wizard is off, nothing is decided.
LEMMA Undecided ==
  ASSUME pc' \notin {"writePolicy", "writeBaseline"}
  PROVE  PolicyDecided' /\ BaselineDecided' /\ GradeDecided'
  BY DEF PolicyDecided, BaselineDecided, GradeDecided

\* A wizard that asks to approve has seen a PASS, so it does not offer
\* --allow-warn, and what approve accepts when it grades again is a PASS.
LEMMA ApprovesPass ==
  ASSUME NEW out, NEW warn, RunApprove(out, warn), Approved(warn)
  PROVE  Grade(policy, summary, NoBaseline) = "PASS"
<1>1. seen.gateResult = "PASS"
  BY DEF RunApprove, Asks, NextOnboardingStep
<1>2. ~warn
  BY <1>1 DEF RunApprove
<1> QED
  BY <1>2 DEF Approved

LEMMA WizardDecides ==
  ASSUME Inv, Wizard
  PROVE  PolicyDecided' /\ BaselineDecided' /\ GradeDecided'
<1>1. CASE InspectFiles \/ EvaluateGate \/ Decline
  BY <1>1, Undecided DEF InspectFiles, EvaluateGate, Decline, Ends
<1>2. CASE RunInit \/ RunRecommendPolicy
  <2>1. CASE pc' = "off"
    BY <2>1, Undecided
  <2>2. CASE pc' # "off"
    <3>1. ~PolicyRefused /\ pc' = "writePolicy" /\ policy' = policy
      BY <1>2, <2>2 DEF RunInit, RunRecommendPolicy, Errors, Ends, GoesOnToWrite, files
    <3> QED
      BY <3>1 DEF PolicyDecided, BaselineDecided, GradeDecided, PolicyRefused, PolicyExists
  <2> QED
    BY <2>1, <2>2
<1>3. CASE WritePolicy \/ WriteBaseline
  BY <1>3, Undecided DEF WritePolicy, WriteBaseline, Continues, Errors, Ends
<1>4. ASSUME NEW out, NEW warn, RunApprove(out, warn)
      PROVE  PolicyDecided' /\ BaselineDecided' /\ GradeDecided'
  <2>1. CASE pc' = "off"
    BY <2>1, Undecided
  <2>2. CASE pc' # "off"
    <3>1. /\ Approved(warn) /\ ~BaselineRefused(out)
          /\ pc' = "writeBaseline" /\ outPath' = out
          /\ policy' = policy /\ summary' = summary /\ baselines' = baselines
      BY <1>4, <2>2 DEF RunApprove, Errors, Ends, files
    <3>2. ~BaselineExists(outPath)'
      BY <3>1 DEF BaselineRefused, BaselineExists
    <3>3. Grade(policy, summary, NoBaseline) = "PASS"
      BY <1>4, <3>1, ApprovesPass
    <3> QED
      BY <3>1, <3>2, <3>3 DEF PolicyDecided, BaselineDecided, GradeDecided
  <2> QED
    BY <2>1, <2>2
<1> QED
  BY <1>1, <1>2, <1>3, <1>4 DEF Wizard

\* A write of somebody else is in late when it meets a command half way.
LEMMA OthersAreLate ==
  ASSUME Inv, NEW file \in Paths \cup {"policy", "summary"}, Elsewhere(file),
         file # "policy" => policy' = policy,
         file # "summary" => summary' = summary,
         \A p \in Paths : file # p => baselines'[p] = baselines[p]
  PROVE  PolicyDecided' /\ BaselineDecided' /\ GradeDecided'
<1>1. /\ pc' = pc /\ outPath' = outPath /\ late \subseteq late'
      /\ pc \in {"writePolicy", "writeBaseline"} => file \in late'
      /\ pc = "writeBaseline" => outPath \in Paths
  BY ElsewhereType DEF Inv, TypeOK
<1>2. PolicyDecided'
  BY <1>1 DEF Inv, PolicyDecided, PolicyExists
<1>3. BaselineDecided'
  BY <1>1 DEF Inv, BaselineDecided, BaselineExists
<1>4. GradeDecided'
  BY <1>1 DEF Inv, GradeDecided
<1> QED
  BY <1>2, <1>3, <1>4

LEMMA OthersDecide ==
  ASSUME Inv,
         \/ Publish
         \/ InitCommand
         \/ RecommendCommand
         \/ \E out \in Paths : ApproveCommand(out)
         \/ EditPolicy
  PROVE  PolicyDecided' /\ BaselineDecided' /\ GradeDecided'
<1>1. CASE Publish
  BY <1>1, OthersAreLate DEF Publish
<1>2. ASSUME NEW p, CommandWritesPolicy(p)
      PROVE  PolicyDecided' /\ BaselineDecided' /\ GradeDecided'
  BY <1>2, OthersAreLate DEF CommandWritesPolicy
<1>3. ASSUME NEW out \in Paths, ApproveCommand(out)
      PROVE  PolicyDecided' /\ BaselineDecided' /\ GradeDecided'
  <2>1. \A p \in Paths : out # p => baselines'[p] = baselines[p]
    BY <1>3 DEF ApproveCommand, Inv, TypeOK
  <2> QED
    BY <1>3, <2>1, OthersAreLate DEF ApproveCommand
<1>4. CASE EditPolicy
  BY <1>4, OthersAreLate DEF EditPolicy
<1> QED
  BY <1>1, <1>2, <1>3, <1>4 DEF InitCommand, RecommendCommand

LEMMA DecidedInv == Spec => []Inv
<1>1. Init => Inv
  BY Templates, NothingSeenType
     DEF Init, Inv, TypeOK, Seen, PolicyDecided, BaselineDecided, GradeDecided
<1>2. Inv /\ [Next]_vars => Inv'
  <2> SUFFICES ASSUME Inv, [Next]_vars PROVE Inv'
    OBVIOUS
  <2>1. TypeOK'
    BY TypeInductive DEF Inv
  <2>2. CASE \E flag \in Flags : Start(flag)
    BY <2>1, <2>2, Undecided DEF Inv, Start
  <2>3. CASE Wizard
    BY <2>1, <2>3, WizardDecides DEF Inv
  <2>4. CASE UNCHANGED vars
    <3>1. PolicyDecided'
      BY <2>4 DEF Inv, PolicyDecided, PolicyExists, vars
    <3>2. BaselineDecided'
      BY <2>4 DEF Inv, BaselineDecided, BaselineExists, vars
    <3>3. GradeDecided'
      BY <2>4 DEF Inv, GradeDecided, vars
    <3> QED
      BY <2>1, <3>1, <3>2, <3>3 DEF Inv
  <2> QED
    BY <2>1, <2>2, <2>3, <2>4, OthersDecide DEF Inv, Next
<1> QED
  BY <1>1, <1>2, PTL DEF Spec

\* Of the wizard's steps only WritePolicy touches the policy and only
\* WriteBaseline a baseline, at the path it decided on.
LEMMA WizardFrame ==
  ASSUME Inv, Wizard
  PROVE  /\ policy' # policy => pc = "writePolicy"
         /\ baselines' # baselines => pc = "writeBaseline"
         /\ \A p \in Paths : baselines'[p] # baselines[p] => p = outPath
<1>1. CASE InspectFiles \/ EvaluateGate \/ Decline \/ RunInit \/ RunRecommendPolicy
  BY <1>1 DEF InspectFiles, EvaluateGate, Decline, RunInit, RunRecommendPolicy, files
<1>2. ASSUME NEW out, NEW warn, RunApprove(out, warn)
      PROVE  policy' = policy /\ baselines' = baselines
  BY <1>2 DEF RunApprove, files
<1>3. CASE WritePolicy
  BY <1>3 DEF WritePolicy
<1>4. CASE WriteBaseline
  BY <1>4 DEF WriteBaseline, Inv, TypeOK
<1> QED
  BY <1>1, <1>2, <1>3, <1>4 DEF Wizard

-----------------------------------------------------------------------------
(* The wizard and the drafts *)

\* The wizard leaves every file alone, with its content, that was written
\* before its command decided not to refuse, whoever wrote it since the wizard
\* looked.
THEOREM NothingOverwritten == Spec => WizardOverwritesNothing
<1>1. Inv /\ Wizard =>
        /\ PolicyExists /\ "policy" \notin late => policy' = policy
        /\ \A p \in Paths : BaselineExists(p) /\ p \notin late => baselines'[p] = baselines[p]
  <2> SUFFICES ASSUME Inv, Wizard
               PROVE  /\ PolicyExists /\ "policy" \notin late => policy' = policy
                      /\ \A p \in Paths :
                           BaselineExists(p) /\ p \notin late => baselines'[p] = baselines[p]
    OBVIOUS
  <2>1. PolicyExists /\ "policy" \notin late => policy' = policy
    BY WizardFrame DEF Inv, PolicyDecided
  <2>2. ASSUME NEW p \in Paths, BaselineExists(p), p \notin late
        PROVE  baselines'[p] = baselines[p]
    BY <2>2, WizardFrame DEF Inv, BaselineDecided
  <2> QED
    BY <2>1, <2>2
<1> QED
  BY <1>1, DecidedInv, PTL DEF WizardOverwritesNothing

\* A baseline that the wizard writes PASSes, unless the policy or the summary
\* changed after approve had graded them.
THEOREM OnlyPassApproved == Spec => WizardApprovesPass
<1>1. Inv /\ Wizard /\ baselines' # baselines /\ late \cap {"policy", "summary"} = {} =>
        Grade(policy, summary, NoBaseline) = "PASS"
  BY WizardFrame DEF Inv, GradeDecided
<1> QED
  BY <1>1, DecidedInv, PTL DEF WizardApprovesPass

\* A draft agrees with init's policy about every summary.
THEOREM DraftsAgree == Spec => []DraftAgreesWithInit
<1>1. DraftAgreesWithInit
  BY DraftAgrees DEF DraftAgreesWithInit, AuditFilesAgree, AgreesWithInit
<1> QED
  BY <1>1, PTL

\* A draft's warnings are right about every well measured summary.
THEOREM DraftsWarn == Spec => []DraftWarnsRightly
<1>1. DraftWarnsRightly
  BY DraftWarns DEF DraftWarnsRightly, AuditFilesWarnRightly, WarnsRightly
<1> QED
  BY <1>1, PTL

=============================================================================
