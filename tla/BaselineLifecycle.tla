-------------------------- MODULE BaselineLifecycle --------------------------
(***************************************************************************)
(* The regression baseline over a long sequence of runs: slint-gate        *)
(* baseline approve and baseline merge (cmd/slint-gate/baseline_approve.go *)
(* and baseline_merge.go) on the summary file that test sessions publish.  *)
(* Both commands grade the summary first and read the file again to write  *)
(* the baseline, so a step here is a command's work between two reads; a   *)
(* session may publish between them.                                       *)
(***************************************************************************)
EXTENDS GateRules

CONSTANTS
  PolicyFiles,    \* the policies, of which a behaviour uses one
  SummaryFiles,   \* what a session may publish
  Absent          \* no baseline: a record of state "absent"

ASSUME LifecycleAssumption ==
  /\ \A p \in PolicyFiles : IsPolicy(p)
  /\ \A s \in SummaryFiles : IsMeasurement(s)
  /\ IsMeasurement(Absent) /\ Absent.state = "absent" /\ DOMAIN Absent.results = {}

Modes == {"append-new-only", "review-existing", "force-replace"}
Commands == {"none", "approve"} \cup Modes

VARIABLES
  policy,     \* the policy file
  summary,    \* artifacts/sli-summary.json
  baseline,   \* the baseline file
  command,    \* the command between its gate and its write
  graded,     \* history: the summary that command graded, Absent without one
  vouched,    \* history: <<id, record>> that a graded summary gave evidence of
  slipped     \* history: <<id, record>> of a summary written but not graded

history == <<vouched, slipped>>
vars == <<policy, summary, baseline, command, graded, vouched, slipped>>

Init ==
  /\ policy \in PolicyFiles
  /\ summary \in SummaryFiles
  /\ baseline = Absent
  /\ command = "none"
  /\ graded = Absent
  /\ vouched = {}
  /\ slipped = {}

-----------------------------------------------------------------------------

\* A session publishes, or fails and removes the file (state "missing"), at
\* any time: the commands take no lock.
Publish ==
  /\ summary' \in SummaryFiles
  /\ UNCHANGED <<policy, baseline, command, graded, history>>

\* Neither command passes the gate a baseline.
GradeAlone == Grade(policy, summary, Absent)

Accepted(warn) == GradeAlone = "PASS" \/ (warn /\ GradeAlone = "WARN")

Exists == baseline.state # "absent"

\* Evaluate, then the refusals that need no second read.
Approve(warn, force) ==
  /\ command = "none"
  /\ Accepted(warn)
  /\ ~Exists \/ force
  /\ command' = "approve"
  /\ graded' = summary
  /\ UNCHANGED <<policy, summary, baseline, history>>

\* Merge has no --allow-warn.
MergeAccepted == GradeAlone = "PASS"

Merge(mode) ==
  /\ command = "none"
  /\ Exists
  /\ MergeAccepted
  /\ command' = mode
  /\ graded' = summary
  /\ UNCHANGED <<policy, summary, baseline, history>>

\* The merge command ends with "must pass its policy before merging".
MergeRefused == command = "none" /\ Exists /\ summary.state = "ok" /\ ~MergeAccepted

\* What a summary gives evidence of: nothing if its grade is refused.
Vouches(s) ==
  IF Grade(policy, s, Absent) \notin {"PASS", "WARN"} THEN {}
  ELSE {<<id, s.results[id]>> : id \in {i \in DOMAIN s.results : ValueSufficient(s, i)}}

Records(s) == {<<id, s.results[id]>> : id \in DOMAIN s.results}

\* The second read found the summary that was graded, or another one.
Raced == summary # graded

\* What the history notes of a write, for the records that the baseline holds.
Noted ==
  /\ vouched' = Records(baseline')
                  \cap (vouched \cup IF Raced THEN {} ELSE Vouches(summary))
  /\ slipped' = Records(baseline')
                  \cap (slipped \cup IF Raced THEN Records(summary) ELSE {})
  /\ graded' = Absent

\* LoadFile succeeded and the baseline is the summary, EvidencePaths dropped.
ApproveWrite ==
  /\ command = "approve"
  /\ summary.state = "ok"
  /\ baseline' = summary
  /\ Noted
  /\ command' = "none"
  /\ UNCHANGED <<policy, summary>>

-----------------------------------------------------------------------------
(* computeMergePlan and applyMergePlan *)

Measured(s) == {id \in DOMAIN s.results : s.results[id].value # NoValue}

\* Membership is decided over all baseline records, numeric or not.
Appended(b, s) == Measured(s) \ DOMAIN b.results

\* loadMetricDirections: the last rule of the metric with a direction wins.
\* The policy's order is left open, so either of two may be it.
Directions(id) ==
  {IF LowerIsBetter(r.op) THEN "lower" ELSE "higher" :
     r \in {q \in policy.rules : q.metric = id /\ q.op # "=="}}

\* (Mutated: the directions are swapped.)
IsImprovement_Swapped(direction, old, new) ==
  \/ direction = "lower" /\ new > old
  \/ direction = "higher" /\ new < old
IsImprovement(direction, old, new) ==
  \/ direction = "lower" /\ new < old
  \/ direction = "higher" /\ new > old

\* The existing SLIs whose record is replaced by the current one: under
\* force-replace those whose record differs, under review-existing those
\* whose number is a confirmed improvement of a number, else none.
Updated(mode, directions, b, s) ==
  {id \in DOMAIN b.results \cap Measured(s) :
     \/ mode = "force-replace" /\ b.results[id] # s.results[id]
     \/ /\ mode = "review-existing"
        /\ id \in Measured(b)
        /\ IsImprovement(directions[id], b.results[id].value, s.results[id].value)}

\* The SLIs whose skip marker is redecided from the current run.
\* (Mutated: all that the current run lists, a nil value or not; only those
\* whose record was replaced.)
ReconcileFor_Nil(mode, updated, b, s) ==
  IF mode = "force-replace" THEN DOMAIN s.results
  ELSE Appended(b, s) \cup updated
ReconcileFor_Replaced(mode, updated, b, s) == Appended(b, s) \cup updated
ReconcileFor(mode, updated, b, s) ==
  IF mode = "force-replace" THEN Measured(s)
  ELSE Appended(b, s) \cup updated

Merged(mode, directions, b, s) ==
  LET updated == Updated(mode, directions, b, s)
      taken == Appended(b, s) \cup updated
      reconciled == ReconcileFor(mode, updated, b, s)
  IN  [b EXCEPT
         !.results = [id \in DOMAIN b.results \cup Appended(b, s) |->
                        IF id \in taken THEN s.results[id] ELSE b.results[id]],
         !.skipped = (@ \ reconciled) \cup (reconciled \cap s.skipped)]

\* Both files are loaded, of one contract, and the merge is written.
MergeWrite(mode) ==
  /\ command = mode
  /\ summary.state = "ok"
  /\ summary.contract = baseline.contract
  /\ \E directions \in [Slis -> {"lower", "higher", ""}] :
       /\ \A id \in Slis :
            directions[id] \in (IF Directions(id) = {} THEN {""} ELSE Directions(id))
       /\ baseline' = Merged(mode, directions, baseline, summary)
  /\ Noted
  /\ command' = "none"
  /\ UNCHANGED <<policy, summary>>

\* The second read fails, the contracts differ, or the atomic write does not
\* happen: the baseline stays.
Fail ==
  /\ command # "none"
  /\ command' = "none"
  /\ graded' = Absent
  /\ UNCHANGED <<policy, summary, baseline, history>>

Next ==
  \/ Publish
  \/ \E warn, force \in BOOLEAN : Approve(warn, force)
  \/ ApproveWrite
  \/ \E mode \in Modes : Merge(mode) \/ MergeWrite(mode)
  \/ Fail

Spec == Init /\ [][Next]_vars

-----------------------------------------------------------------------------
(***************************************************************************)
(* Properties                                                              *)
(***************************************************************************)

TypeOK ==
  /\ policy \in PolicyFiles
  /\ summary \in SummaryFiles
  /\ IsMeasurement(baseline)
  /\ command \in Commands
  /\ graded \in SummaryFiles \cup {Absent}

\* baseline_merge.go, KSL-T3: no stale fact survives beside a new value, and
\* none is invented by recombination.  Whatever a regression check would take
\* as evidence in the baseline was, record and reliability together, evidence
\* in one summary graded PASS or WARN; only a summary published between a
\* command's grading and its write (slipped) gets its records in ungraded.
BaselineVouched ==
  \A id \in DOMAIN baseline.results :
    ValueSufficient(baseline, id) =>
      <<id, baseline.results[id]>> \in vouched \cup slipped

Better(id, old, new) ==
  \E r \in policy.rules :
    /\ r.metric = id
    /\ LowerIsBetter(r.op) => new < old
    /\ HigherIsBetter(r.op) => new > old
    /\ r.op # "=="

NotWeakened(id) ==
  LET old == baseline.results[id].value
      new == baseline'.results[id].value
  IN  ValueSufficient(baseline', id) /\ (new = old \/ Better(id, old, new))

KeepsKnowledge ==
  /\ DOMAIN baseline.results \subseteq DOMAIN baseline'.results
  /\ \A id \in DOMAIN baseline.results : ValueSufficient(baseline, id) => NotWeakened(id)

\* docs/sli-gate-onboarding-ux.md: the baseline grows "without silently
\* weakening or deleting what it already knows".  A merge other than
\* force-replace keeps every SLI, and what was evidence stays evidence with
\* the same or a better value: under append-new-only whatever is published
\* meanwhile, under review-existing if the summary is the one it graded.
MergeKeepsKnowledge ==
  [][\/ command = "append-new-only"
     \/ command = "review-existing" /\ ~Raced
     => KeepsKnowledge]_vars

\* Regression evidence in the baseline is the summary's, when both runs count.
Rebaselined ==
  \A id \in Measured(summary) :
    /\ baseline'.results[id] = summary.results[id]
    /\ ~RunUnreliable(summary) /\ ~RunUnreliable(baseline)
         => (ValueSufficient(baseline', id) <=> ValueSufficient(summary, id))

\* After force-replace, a regression check of the same summary finds for
\* every SLI with a current value the current record, evidence exactly when
\* the summary's is.  A merge keeps the baseline's own collection status, so
\* the second half needs two runs that did not fail; an approve that raced
\* with a failing run can leave a baseline of a failed one.
ForceReplaceRebaselines ==
  [][command = "force-replace" /\ baseline' # baseline => Rebaselined]_vars

\* docs/sli-gate-onboarding-ux.md: merge "requires the current summary to PASS
\* its policy": a summary that the gate grades PASS against the very baseline
\* is not refused for its grade.
PassingIsMergeable ==
  MergeRefused => Grade(policy, summary, baseline) # "PASS"

=============================================================================
