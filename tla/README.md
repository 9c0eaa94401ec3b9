# A verification development for kube-slint

kube-slint measures service-level indicators (SLIs) of a Kubernetes operator while a
test runs, publishes them as a summary file, and grades that file in CI with
`slint-gate` against a policy and a baseline.  A wrong measurement is worse than none
here: a stale file that a gate reads as current, a start sample taken after the
workload, a PASS on evidence that was skipped.  The modules of this directory model the
parts where such a thing could happen, check them with TLC, and prove the main results
with TLAPS.

Paths below are relative to the repository's root.

## The system

| Component | State it keeps | Operations | Interacts with |
|---|---|---|---|
| Session (`pkg/slint/session.go`) | run id, start time, warnings, hasFailed | NewSession, Start, End, Cleanup | engine, fetcher, the artifacts directory, kubectl |
| Summary writer (`pkg/slo/summary/writer.go`) | the audit files and the alias `sli-summary.json` | temporary file and rename | every session that shares the directory, slint-gate |
| Snapshot fetchers (`fetcher_curlpod.go`, `fetch/portforward`, `fetch/jsonendpoint`, `fetch/k8sobject`) | startCache, startErr, fetchCount, a kubectl process | PreFetch, Fetch | Session.Start, the engine's two fetches |
| Curl pods (`pkg/slo/fetch/curlpod`) | pods in a shared namespace | RunOnce, WaitDone, Logs, delete | kubectl, other sessions' cleanups and sweeps |
| Orphan sweep (`pkg/slint/sweep.go`) | a list of names to delete | list, filter, delete | the pods of every other session |
| Prometheus text and keys (`fetch/promtext`, `common/promkey`), window fetcher (`fetch/promrange`) | none between calls | ParseTextToMapWithAggregates, FetchRange | every fetcher that reads text; the engine's inputs |
| Engine (`pkg/slo/engine`) | none between runs | Execute: fetch, evaluate, write | fetchers, writer |
| Comparability identity (`engine/comparability.go`, `spec/selector.go`) | none | canonical form of what was measured | gate's regression rules |
| Gate (`pkg/gate`) | one output record | Evaluate: load, five rule families, grade | the summary, policy and baseline files |
| Baseline approve and merge (`cmd/slint-gate/baseline_*.go`) | the baseline file | approve, merge in three modes | the gate, the summary file |
| Gate command and composite action (`cmd/slint-gate/main.go`, `ci_github_actions.go`, `.github/actions/slint-gate`) | the output file, exit code, step output, artifact | evaluate, write, decide; capture, upload, check | the gate, the sessions' alias, the CI job |
| Onboarding (`init`, `quickstart`, `wizard`, `recommend-policy`) | the files they write | one step after another | all of the above |
| Dataplane analysis, reports, kubeutil, devutil | none that lasts | pure functions, single kubectl commands | |

Where it is hard:

* **Concurrency.**  Parallel test processes share the artifacts directory, with a stat
  long before a rename, and a namespace, with a list long before a delete.  A gate
  command reads a file twice while sessions may replace it.
* **Failure.**  Every kubectl command, write and remove may fail; a process may be
  killed at any point; a pod may be created by a command that then fails.  Most failures
  are deliberately not errors (a failed measurement is a summary that says so).
* **Time.**  Nested deadlines: `podRunTimeout` has to leave time for the delete after
  the waiting and the logs; a sweep's age limit has to exceed it.
* **Protocol.**  The start snapshot is served by the first Fetch a fetcher ever sees, so
  repeated Starts, abandoned sessions and shared fetchers matter.
* **Long histories.**  A baseline is merged with one summary after another, and skip
  markers and records come from different runs.

## Modules

### SummaryPublication: how End publishes a summary

One program counter per test process; each process runs one session after another.
`files` and `alias` are the audit files and `sli-summary.json`; `verdict` records what
End told its caller.  `ChoosePath` is NextSummaryPath, `Measure` and `ExecuteRejects`
are engine.Execute, `WriteUnique` and `WriteAlias` the two renames, each with a failing
twin, `Invalidate` is invalidateStaleStaticAlias, `CheckPolicies` CheckStrictness and
CheckGating with their decision left open.  A step is the code between two moments at
which another process may touch the directory.  A summary is the run it belongs to and
whether and where its collection failed: pointFetchFailure drops the error of writing the
summary (`PointFailed`, `UniqueWriteFailed`), while after a failed window fetch
(`WindowFailed`) and after a complete collection Execute returns it.

`CurrentEvidence` is the abstract specification for sessions that follow each other: a
slot that holds the newest run's summary or nothing, a report of success only with the
newest run's own evidence in it, and a report that promises nothing where the code says
so (a crash, End without Start, no artifacts directory, an alias that could not be
removed).  The refinement mapping, `CE`, stands at the end of SummaryPublication: the slot
is the run at the alias, and what was told is what End said of the newest run.

### StartSnapshot: the start-of-window sample

The four fetchers' fields and PreFetch/Fetch, with sessions one after another over a
fetcher of their own or a shared one.  End may be called again on a session (`MayEnd`),
since it never clears `started` and Attach's hook calls it after a test that has called it
itself.  A sample is the Start it was taken in or after;
a report records which two samples its deltas came from.  Start may be called again at
any time, with any fetcher.  The order of the error and
cache tests differs between fetchers and is kept (`ServesError`): curlpod looks at the
error first, portforward and jsonendpoint at the cache, so that with those two a repeated
Start whose PreFetch failed falls back on the snapshot of an earlier one.  portforward's Start
keeps localPort when kubectl does not become ready and is never tried again.

### GateRules and GateEvaluation: grading

`GateRules` has the rules as operators on loaded files: sufficiency of a value, each
rule family, the promotion list and the final precedence.  A check stands for a message
of the code, with its effect on the grade (`failed`, `noGrade`, `warn`, `none`) beside
its status.  `GateEvaluation` runs Evaluate call by call on one output record.
Percentages are cross-multiplied, so no division is needed; values are integers.

### BaselineLifecycle: approve and merge over many runs

It EXTENDS GateRules and composes its `Grade` with the two commands and the sessions
that publish.  A command is two steps, its gate and its write, because the code reads
the summary file twice.  `Merged` is computeMergePlan followed by applyMergePlan and
reconcileSkippedSLIs.  Sessions publish at any time, also between a command's two reads.
Three history variables say what that does: `graded` is the summary that the command under
way has graded; `vouched` has the records of the baseline that were sufficient evidence in
a summary graded PASS or WARN; `slipped` those that came from a summary which replaced the
graded one before the write, and which nobody graded.

### CurlPods: pods of sessions in one namespace

CurlPod.Run, one kubectl command per step, with the outer deadline in `budget` and that
of WaitDone and Logs in `left`; Session.Cleanup and the sweep by label; the cluster
(`Terminates`, `Vanishes`), the clock (`Tick`) and crashes.  A Tick never passes a
deadline that somebody has yet to react to, as a timer fires when it is due.  `excused`
is a history variable: the pods that a failing command, a used-up slack or a dead
process left behind.  The pods' names are distinct (they carry nanoseconds), and a
deleted pod stays for a while.

### SliRules and SliEvaluation: from samples to a summary

`SliRules` has what the engine computes of one SLI as operators: how an input resolves in
a sample (`InputResolves`, with selectors and their aggregation and empty-match policy),
point and window values, the judge, the counter-reset policies, and the measurement
contract of comparability.go (`SliContract`; a hash is its fields).  Keys are model
values that spell a series; a selector's matchers are the set of series they accept.

`SliEvaluation` is Execute: `Validate`, `FetchStart`, `FetchEnd`, `FetchWindow`,
`BeginEvaluation`, one `EvaluateNext` for each pass of evaluateSLIs' loop, `Finish`.  One
reliability record is written all along, as in the code, and `Written` stamps it with
contract version, confidence and identities.  `StrictnessOK` and `GatingOK`
(propagation.go) are operators on that summary.  `Gate == INSTANCE GateRules` composes it
with the gate: `Evidence` is the summary as GateRules has it, so the properties compare
what the engine marked with what `ValueSufficient` accepts.  The three views of a summary
in these modules fit together as follows: SummaryPublication has when it is written and
under which name, StartSnapshot which moments its two samples come from, SliEvaluation
what is in it.  MetricSamples, below, has how the samples come about, and GateJob what a
CI job makes of the file.

### MetricSamples: where the numbers come from

An exporter, which is not part of the program, counts events, registers series and
restarts (`Event`, `Register`, `Restart`); its text is read at two moments (`ScrapeStart`,
`ScrapeEnd`) with its labels in any order and a line that cannot be read; or Prometheus
scrapes it (`Store`) and answers one range query (`FetchRange`).  `ParseText` is
ParseTextToMap, `Canonicalize` and `LastWins` its key and map, `Aggregate` the totals it
adds under bare names, `ParseRange` the regrouping of series into samples (`Points` by
series, `SampleAt` by time, `InOrder`).  The module
EXTENDS SliRules, whose `Resolves`, `Matched` and `InputValue` read those samples as the
engine does.  `grown` is a history variable: the events of each series since the start
scrape.

### GateJob: the gate as a step of a CI job

runGate from its flags to its exit code (`Validate`, `Evaluate`, `Create`, `Encode`,
`Decide`, each write with a failing twin), by itself or inside the composite action, whose
other steps are `Capture`, `Upload` and `CheckResult`; a job may be cancelled while the
command runs.  `request` is the step as somebody wrote it, or as `ci github-actions` did
(`GeneratedStep`).  The exit modes are in the code twice, in Go and in shell, with other
defaults, and so they are here (`ShouldExitOn`, `CheckRefuses`).  Jobs follow each other in
one workspace, so the output file may be an earlier job's: its `current` says whether it is
this one's, which the program cannot see.  `Evidence == INSTANCE CurrentEvidence` is the
sessions: the abstract specification that publish_solo shows SummaryPublication to
implement takes the sessions' place, so that what a green job says can be carried back to
the run that was measured.  `fault` is a history variable.

### Onboarding: from no files to a gate in CI

`runWizardLoop` with its `seen` state (onboardingState) and `path` (baselinePath): a turn
is `InspectFiles`, `EvaluateGate` (the gate reads policy and summary again), and the
prompt, at which the user declines or lets the step's command run.  A command is two
steps: `RunInit`, `RunRecommendPolicy` and `RunApprove` go up to the refusal to overwrite,
`WritePolicy` and `WriteBaseline` do the rest (for init after up to 10 s of kubectl, for
approve after the second read of the summary).  Beside it sessions publish, other terminals
run the same commands (recommend-policy of any audit file, too), and the user edits the
policy, between the two steps as well; `late` is a history variable, the files that
somebody else wrote there.  A baseline is the summary it was made from, so that replacing
one is seen.  The commands of other terminals are one step each and may write whenever a
command with `--force`, or one whose refusal is long past, could, which is more often than
they do; their baseline approve takes the summary at the default path only.
The two policy templates
(`InitPolicy`, `Draft`) are policies of GateRules, which the module EXTENDS, so that
`Grade` says what they are worth.  The SLI names and default thresholds are the source's,
in two tables as in the source.

## What the runs show

| Run | Bounds | Shows |
|---|---|---|
| publish | 2 processes, 3 sessions, own names | AuditTrailPreserved, AuditedAlias, AliasOfPublishedRun, EndReturns under any failure and crash |
| publish_solo | 1 process, 3 sessions, 2 names | SummaryPublication implements CurrentEvidence |
| snapshot | 3 fetcher kinds, 4 Starts, 2 Ends of a session | StartSampleIsOfSession, EndSampleIsLive |
| snapshot_k8sobject | 3 Starts | a post-workload start sample after a failed PreFetch (finding) |
| gate | 58 policies, 2 SLIs, 3 values, 2 identities | PassIsProven, PassIsNotWorse, FailIsProven, ViolationNotMasked, RefusalIsExplained |
| engine | requests of 1 or 2 SLIs of every mode, 3 keys, 2 values, windows of up to 2 samples | DeltaIsOfOneSeries, GateGradesMeasured, StrictSessionDelivers, TrustedIsComparable, SameContractSameValue, ConfidenceIsEarned |
| baseline | 27 summaries, 4 policies, any number of commands | BaselineVouched, MergeKeepsKnowledge, ForceReplaceRebaselines |
| baseline_regression | one policy with regression | merge refuses a passing summary (finding) |
| samples | 5 series of 3 metrics, 4 steps of the exporter, 2 stored scrapes, 11 inputs | TypeOK, DeltaCountsEvents, SelectorsSeeSeries, WindowIsStored |
| ci | 31 steps as written, 6 as generated, 2 sessions, 2 summaries, 2 policies, any number of jobs | GreenIsEarned, GreenIsOfNewestRun, OutputIsOfThisJob, RedIsExplained, DiagnosticsSurvive, JobEnds |
| onboarding | 6 summary files and 22 audit files, 2 paths, one hand-written policy, any number of wizards and commands | DraftAgreesWithInit, DraftWarnsRightly, WizardOverwritesNothing, WizardApprovesPass, WizardEnds |
| pods | 2 sessions, 2 pods, timeouts of 1 tick, MaxAge 4, Limit 1 | LivePodSpared, LeakIsExcused, OutputOfSucceededPod, RunReturns; no deadlock |

Each module has one type invariant, TypeOK (SnapshotTypeOK in StartSnapshot).  It is a
theorem of every component, and *samples* checks it in a run too, where it says which keys
a sample may have.

Why the bounds are enough to be interesting:

* *publish*: three sessions let a process publish twice around the other one's run, so
  that an invalidation meets an older and a newer summary; suffixes 0 to 3 are as many
  as there can be files of one name.
* *snapshot*: four Starts cover a repeated Start, an abandoned session and a complete one,
  with each of the three fetchers; two Ends are the test's own and the hook's.
* *gate*: one SLI varies over every kind of evidence and a second one stands beside it,
  which is what masking needs; tolerance 50 % with values 0, 1, 2 puts changes on, below
  and above the tolerance.
* *engine*: two keys spell one series and a third another one, all of one family, so that
  a selector finds none, one, one in two spellings, or two of them, at each end; values 0
  and 2 make a delta zero, positive or negative, and a ratio's denominator zero.  Every
  fetch may fail or be slow.  Two window SLIs of one mode have all pairs of eight input
  lists, with repetitions that keep a percentile's distribution and others that shift it.
  The percentile ranks are 50 and 75 (`Percentile`) in place of 95 and 99, because in a
  window of at most eight values the latter two are both the maximum; the proofs have any
  ranks.
* *baseline*: three values and both directions, nil, partial and skipped records of one
  ruled and one unruled SLI; the reachable baselines are finite, so the runs' length is
  not bounded at all.
* *pods*: one tick per timeout lets every deadline pass; MaxAge is one more than
  podRunTimeout, the tightest patient sweep; two pods let one session's pod be an orphan
  while the other's is in use.  MaxPods bounds a behaviour: when no pod can be made,
  kubectl run fails.  In this run one session cleans up always and the other never, and
  Limit 1 makes a sweep choose.
* *samples*: one metric has two series of two labels, one has an unlabelled series beside a
  labelled one, and one is a histogram's bucket, which are the three cases of Aggregate;
  four steps let a series appear, restart and count on both sides of a scrape, and two
  stored scrapes let one series have points that another lacks.
* *ci*: every mode in every spelling through each of the two names, with the defaults and
  the empty string; two sessions let the alias hold the older one's summary or none; one
  SLI with one rule gives PASS, FAIL, NO_GRADE and, from the policy with regression, WARN.
  The reachable files are finite, so the number of jobs is not bounded.
* *onboarding*: a PASS, a WARN, a FAIL and no readable summary under the policies there
  are; two paths let the wizard's baseline and another terminal's differ; the hand-written
  policy makes coverage gaps warn.  The reachable files are finite, so nothing bounds a
  behaviour.  recommend-policy may be given an audit file with `--summary`, and the two
  properties of drafts are checked of each: in them a core, a noisy and a foreign SLI vary
  over good, bad, unmeasured and absent while the others are good, beside missing, corrupt
  and failed summaries.

Deadlock is checked for *baseline*, *baseline_regression*, *ci*, *onboarding* and *pods*.
The other models do stop: after MaxRuns sessions, after MaxStarts Starts, after one
evaluation of the gate, when Execute returns, after the end scrape or the range query.

Fairness.  `EndReturns` assumes weak fairness of each process's steps of End: the Go
scheduler and the file system come back from every call.  Starting the next session and
crashing are not fair.  `RunReturns` assumes weak fairness of the clock and of a Run's
own steps: a command returns, a poll is repeated, an expired deadline is noticed, as
context deadlines with exec.CommandContext give.  Nothing is assumed of the cluster: a
pod need never terminate nor vanish.  `WizardEnds` assumes weak fairness of the wizard's
steps: its calls return and its user answers, if only by closing the input.  Nobody else
is fair, and nothing keeps the others from acting between any two turns: a turn that does
not end the wizard leaves a policy, or a baseline at the path the wizard goes on with, and
nobody removes those.  `JobEnds` assumes weak fairness of the job's steps: the command's
file operations and the action's steps come back, successfully or not.  Sessions, new jobs
and cancellation are not fair.

## What is proved

Each theorem holds for all values of the constants under the named assumptions of its
module.  Proofs are in `*_proofs` modules.

* **SummaryPublication_proofs.**  `PublicationTypeCorrect`; `AliasCorrect` for any number
  of processes on one alias.  The invariant adds that the run at the alias either is
  still running past its alias write, or has a verdict that keeps the alias: the alias
  write is the last step of a run before its policies.  `AuditTrailCorrect` and
  `AuditedAliasCorrect` assume `DisjointNames`, and the invariant says that a chosen path
  is still free until its owner writes it: between stat and rename no other process
  produces that base name.  Without the assumption it is false, as the remarks below say.
  `EvidenceRefines` assumes `SequentialTests` (one process) and shows that every step is
  a step of CurrentEvidence or none, for any number of runs: the live run is the newest,
  and past its alias write the alias is its own.  GateJob builds on CurrentEvidence for
  the sessions before a job, so its theorems rest on this one.
* **Fetchers_proofs**, on StartSnapshot.  `SnapshotTypeCorrect`, `EndSampleCorrect`, and
  `StartSampleCorrect` under `OwnRecordingFetcher` (a fetcher per session, of a kind with
  startErr), the latter for the first End of a session, the former for any, both for any
  number of Starts.  The start sample is of a Start of the same session; that it is of the
  latest one is part of the theorem for curlpod only, and false for the other two
  (see below).  The run
  snapshot_k8sobject shows that the second half of the assumption cannot go, and the remark
  on shared fetchers below that the first cannot.  The invariant relates cache, error and
  count of the fetcher to the phase of its session.
* **Fetchers_proofs**, on MetricSamples.  `SamplesTypeCorrect`, `DeltaEventsCorrect`,
  `SelectorsCorrect` and `WindowCorrect`, for any finite set of series, any inputs, label
  orders and numbers of events and scrapes.  Three groups of lemmas carry them.  The first
  says what the helpers compute: a sum over a set takes its elements in any order
  (`SumOnAny`), a map filled from a list that never gives a key two values has each of
  them (`LastWinsOf`), and sorting a set loses and repeats nothing (`InOrderFacts`).  The
  second says what the parsers make of what they are given: a text reads back as the
  exporter's counters without the unreadable lines (`ExpositionReadsBack`), Aggregate adds
  a total where the exporter has none and leaves the rest alone (`AggregateFacts`), and an
  answer reads back as its points (`AnswerReadsBack`).  The third is the invariant
  `SamplesInv`: until a restart each counter is its value at the start scrape plus the
  events since, after one it is at most the events since.  It also says that an exporter
  which has the bare name of a metric always shows it beside the metric's other series
  (`BesideBare`): without that a total would stand for the bare series in one scrape and
  not in the other, and their difference would be no number of events.
* **GateEvaluation_proofs.**  `GateTypeCorrect`, `PassCorrect`, `NotWorseCorrect`,
  `FailCorrect`, `ViolationCorrect` and `RefusalCorrect` for all policies, summaries and
  baselines.  The invariant says, phase by phase, which families' checks the output holds;
  each property then follows from what one check means, and the last one from a second
  invariant that no reason is lost on the way.  `FailCorrect` and `ViolationCorrect` are the
  two directions of one fact: the gate fails exactly when a condition of the promotion list
  is violated, a miss, a gap or a regression between runs that are provably comparable.  `EvaluateIsGrade` says that the steps
  compute the function `Grade`, from which BaselineLifecycle and Onboarding are built.
  Two theorems compare policies: `WeakerPolicyPasses` (a PASS stays one under every
  policy that asks for less, so no family hides what another would find, and the
  promotion list never decides a PASS) and `WiderPromotionFails`.
* **BaselineLifecycle_proofs.**  `LifecycleTypeCorrect`, `VouchedCorrect`, `KnowledgeKept`
  and `ForceReplaceCorrect` for any policies, summaries and number of commands, with
  publications at any moment.  The invariant says that a command under way was accepted
  for the summary it graded, which is the one it writes unless another came in between, and
  that every record which counts in the baseline is in one of the two histories.  What
  holds in spite of a publication in the middle of a command and what does not is part of
  the statements: append-new-only keeps all knowledge whatever it reads the second time,
  review-existing does for the summary it graded.  The rest is about one
  merge: whether an SLI's record and marker come from the one file or the other
  (`MergedRecord`, `MergedMarker`), and that in each of the cases they come from the same
  one or agree (`MergedEvidence`).
  `OwnRunAccepted` joins baseline and gate: the run from which approve or force-replace
  made the baseline is not turned red by enabling regression against it, if its rules'
  results have identities.  Without them it is NO_GRADE, as the code intends.
* **SliEvaluation_proofs.**  `EvaluationTypeCorrect`, `DeltaCorrect`,
  `GradesMeasuredCorrect`, `StrictSessionCorrect`, `TrustedCorrect`, `ConfidenceCorrect`
  and `SameContractCorrect`, for any requests, samples, windows and session limits (finite
  samples are the only assumption beyond types).  The invariant `RunInv` says that the
  results so far are those of the specs in order, that the skipped list holds the ids of
  exactly the results that are skips, and what the collection and evaluation statuses are
  in each phase; a finished run either failed a point fetch and has no results, or has one
  for every spec.  The properties need the second part most: it ties the list that the
  strictness modes read to the values that the gate reads.  GateGradesMeasured holds for
  specs of unique ids, as the gate refuses a file with repeated ones.  `SameContractCorrect`
  needs of `RunInv` only that the results are in order; its work is in what a contract
  leaves out.  A percentile's inputs are reduced by the common factor of their
  multiplicities: a pool with every value d times has the same nearest rank, which is shown
  by matching copies of the one pool with copies of the other (`CoversInProportion`,
  `SamePercentile`) without adding anything up.
* **CurlPods_proofs.**  `CurlPodsTypeCorrect`; `OutputCorrect`; `LeakCorrect` for any
  timeouts, from the invariant that a Run on time still has the logs' timeout and the
  slack ahead of it; `LivePodCorrect` under `DistinctLabels` and `PatientSweeps`, from the
  invariant that the age of a Run's pod and its remaining budget add up to at most
  podRunTimeout, so that no sweep more patient than that ever lists it.
* **GateJob_proofs.**  `JobTypeCorrect`, `GreenCorrect`, `NewestRunCorrect`,
  `OutputCorrect`, `RedCorrect` and `DiagnosticsCorrect`, for any files, spellings, steps
  and numbers of runs.  `TablesAgree` says that the table in Go, the one in shell and the
  one of the documentation refuse the same grades.  The invariant says what each exit code
  stands for (the output file's contents, or a fault), how far the action has got with it,
  and that a job which read the alias read what the newest run left there: a session
  cannot begin while a job is under way, and one that ended has taken an older summary
  away.
* **Onboarding_proofs.**  `OnboardingTypeCorrect`; `NothingOverwritten` and
  `OnlyPassApproved` for any summaries, hand-written policies and paths.  The invariant
  carries what a command decided over to its write: a policy or baseline that is there now
  was written since (`PolicyDecided`, `BaselineDecided`), and the grade is still a PASS
  unless policy or summary were (`GradeDecided`), as approval is offered only where the
  last look saw a PASS, so that the flag for WARN is never given.
  `DraftsAgree` and `DraftsWarn` hold for every summary and follow from
  what a grade means under the two templates, the promotion list being the same in both.

Every invariant and every action property that a passing run checks is also proved; the
refinement of CurrentEvidence is, too.

Induction.  The library's induction theorems take an operator as a parameter, which the
prover cannot instantiate.  Two lemmas that take a set in its place do for sums and ranks:
a nonempty set of naturals has a least element (`LeastExists`), and a collection that has a
subset of a finite set whenever it has what is left of it without any one element has every
subset (`AllSubsets`).  The sums themselves are folds that the community modules define by
a recursive function, and `SolutionExists` and `SolutionsAgree` show that the recursion has
one solution.

Only model-checked: the liveness properties EndReturns, RunReturns, WizardEnds and JobEnds,
as the prover has no ENABLED and so no fairness.  No module that a theorem is about
declares a RECURSIVE operator.

## Where code and documentation differ

`findings` of PROJECT.json has two disagreements with the lines they quote; each is shown
by a run of its own.  In short: a k8sobject fetcher whose PreFetch failed measures a delta
between two post-workload samples and calls it complete; merge is unusable under a policy
with regression.

Remarks without a run:

* A PreFetch that fails leaves an older startCache.  jsonendpoint (fetcher.go:63-70) and
  portforward (fetcher.go:122-129) test it before startErr, so after a second Start whose
  scrape failed End reports Complete over the first Start's snapshot, while StartedAt is the
  second one's.  With these kinds StartSnapshot violates StartSampleIsPreWorkload, which asks
  for the latest Start's; the run *snapshot* has StartSampleIsOfSession, which asks for that
  of curlpod only.
* Two concurrent sessions of one RunID (which is the caller's as it is) whose TestCases are
  the same after SanitizeFilename choose one audit path by stat, and the later rename
  replaces the other's file, although session.go:536 says "never overwritten".  With
  `NamesOf` the same for two processes SummaryPublication violates AuditTrailPreserved; the
  run *publish* has a name per process, and the theorems assume `DisjointNames`.
* baseline approve grades the summary file from one read (baseline_approve.go:41) and copies
  it in another (baseline_approve.go:56), and merge does the like: what a session publishes
  in between is approved without a grade, although the usage text (baseline_approve.go:17)
  says "FAIL and NO_GRADE results are never approved".  BaselineLifecycle has that
  publication, and `slipped` in BaselineVouched is what it lets in.
* session.go:134-137 says that a fetcher may be shared by sessions, but a jsonendpoint
  fetcher counts its fetches for ever (fetcher.go:63), so from the second session on its
  start sample is taken at End.  With `Shared = TRUE` StartSnapshot violates
  StartSampleIsOfSession and StartSampleIsPreWorkload.
* Two concurrent sessions of one RunID also share the label of their curl pods, and a
  cleanup of the one deletes the pod that the other waits for.  LivePodSpared assumes
  distinct labels, as generated run ids give them.
* session.End never clears `started`.  A test that calls End itself and was set up with
  Attach, whose AfterEach calls it again (attach.go:38-52), measures a second time.  Both
  samples of the second report are then post-workload, while session.go:416 guarantees that
  inside End "the first call returns the pre-workload state", and the alias gets that
  report.  StartSampleIsOfSession excepts it (`report.end = 1`); without the exception
  the run *snapshot* finds the violation.  To the directory the second End is one more
  session of the same name, as publish_solo has them.
* main.go:109 calls the default "NEVER — always exit 0", but a result that cannot be
  written exits with 2 under any mode (`CreateFails`, `EncodeFails`).
* Under `if: always()` the action may upload an earlier job's output file, or half of one,
  after an exit with 2 or a cancellation.  DiagnosticsSurvive and OutputIsOfThisJob promise
  nothing then, and RedIsExplained and GreenIsEarned say that the job is red.
* The command takes lower-case modes and blanks around them and the action refuses them,
  and the empty string is NEVER to the one and the default FAIL_OR_NOGRADE to the other,
  although docs/gate-contract.md describes one set of modes.  A step that `ci github-actions
  --exit-on-mode ""` wrote, which validates as NEVER, therefore fails on FAIL and NO_GRADE.
* GreenIsOfNewestRun excepts runs that died or whose End reported that the stale alias could
  not be removed: those leave an older summary at the default path, and the gate takes it.
* aggregate.go:11-14 wants an SLI to mean the same "regardless of which fetcher produced the
  sample", but promrange adds no totals, so that a bare name over labelled series is missing
  from a window.  No property says so.
* A line whose key cannot be read is left out without an error (parse.go:44), so a total or
  sum over its metric is too small and nothing notes it.  DeltaCountsEvents excepts metrics
  with such a line.
* A total hides that one of several exporters behind it restarted, as long as it does not
  fall: DeltaCountsEvents then only has that the delta is at most the events.
* A wizard without `--baseline` suggests docs/baselines/sli-summary.json.  When its user
  approves there and declines the CI step, the next wizard has forgotten the path, offers
  the approval again, and Enter ends it with "already exists; pass --force": it reaches the
  CI step only with `--baseline`, although docs/sli-gate-onboarding-ux.md:517-518 says that
  "the user can always resume by re-running `wizard`".  In Onboarding this is `RunApprove`
  ending with `exit = "exists"` after a `Decline`.
* The wizard's question about `--allow-warn` (wizard.go:182) is never asked: the approval
  is offered only after a PASS.
* recommend-policy makes an active rule of an SLI whose record has no value, because it
  asks whether there is a record (recommend_policy.go:180); its usage text says that what
  was not measured becomes a comment.  DraftWarnsRightly therefore speaks of summaries in
  which every record has a value.
* `--strictness lenient` holds the noisy SLIs back as comments, but the draft requires
  coverage and does not list them as informational, so the gate FAILs a summary that
  measured them.  DraftAgreesWithInit and DraftWarnsRightly leave lenient out for that
  reason.
* From a baseline of zero the regression check looks at the operator alone, so a
  higher-is-better gauge may fall below zero and pass: PassIsNotWorse states that
  exception.
* docs/integration/summary-schema.md:122-126 says that the producer's `warn` and `fail`
  become the gate's WARN and FAIL, while the gate only records them as diagnostics
  (`RecordProducerDiagnostics`): a session's judge never decides a grade.

## What is not modelled

* Of the engine: a nil fetcher (a session always has one), the checks of the selector's
  names and regexps (selectors are taken as well formed), unit, kind and alias in the
  contract, the order of float additions (values are exact fractions here), and a
  Reliability that the caller filled in beforehand.
* Of onboarding: init's RBAC manifest, service discovery and snippet, custom profile
  files, what inspect prints.  Between a command's check for an existing file and its
  write the code (init.go:367) relies on there being one user: WizardOverwritesNothing and
  WizardApprovesPass except what others write there (`late`).
* Of the gate command: dispatch, the printed diagnostics and the text of the step summary.
* Of the Prometheus formats: where a label value ends and how it is escaped (a key is
  readable or not), timestamps and exemplars, the query's URL.
* Parsing of JSON and YAML, formatting, redaction, report rendering, the
  dataplane checks, kubeutil's single commands, configuration discovery: pure functions
  or single I/O calls with no state between steps.
* Values are integers, so NaN and infinite measurements are outside the gate's model.

## Plan

Done, in this order: SummaryPublication with CurrentEvidence; StartSnapshot; GateRules
and GateEvaluation; BaselineLifecycle over GateRules; CurlPods; SliRules and
SliEvaluation over GateRules; Onboarding over GateRules; MetricSamples over SliRules;
GateJob over GateRules and CurrentEvidence; and the proofs of each.

Next: **Session configuration** (discovery.go, the merge in session.go): which of a
configuration file, the environment and the caller a setting comes from.
