------------------------------ MODULE CurlPods ------------------------------
(***************************************************************************)
(* The curl pods of sessions that share a namespace: created, awaited,     *)
(* read and deleted by CurlPod.Run (pkg/slo/fetch/curlpod/curlpod.go and   *)
(* client.go) under nested deadlines, removed by run-id label by           *)
(* Session.Cleanup (pkg/slint/session.go), and swept by other sessions     *)
(* (pkg/slint/sweep.go).  A step is one kubectl command, which may fail or *)
(* be killed when its context expires; pods run and vanish meanwhile.      *)
(***************************************************************************)
EXTENDS Integers, FiniteSets

CONSTANTS
  Sessions,      \* processes, each with its session; a session whose namespace,
                 \* URL or ServiceAccount is refused never reaches kubectl
  LabelOf,       \* a session's slint-run-id label: its run id, sanitized
  ModeOf,        \* its CleanupMode; "" is always or manual by CleanupEnabled
  WaitTimeout, LogsTimeout, Slack,   \* in ticks; the code's slack is 30 s
  MaxAge,        \* OrphanSweepOptions.MaxAge, in ticks; 0 is no age check
  Limit,         \* OrphanSweepOptions.Limit; 0 is unlimited
  MaxPods        \* bound: the number of pods in a behaviour

ASSUME CurlPodsAssumption ==
  /\ Sessions # {}
  /\ {WaitTimeout, LogsTimeout, Slack, MaxPods} \subseteq Nat \ {0}
  /\ {MaxAge, Limit} \subseteq Nat

\* podRunTimeout, the outer deadline of a Run.  (Mutated: the waiting alone.)
PodRunTimeout_Short == WaitTimeout
PodRunTimeout == WaitTimeout + LogsTimeout + Slack

PodIds == 1 .. MaxPods
NoPod == 0

\* Pending and Running are the same to the code.
Phases == {"Running", "Succeeded", "Failed"}
Lives == {"none", "live", "deleting", "gone"}
PCs == {"idle", "clean", "create", "wait", "logs", "delete", "sweep"}

VARIABLES
  made,     \* how many pods were created: 1 .. made
  owner, phase, life, age,   \* of each pod; its label is its owner's
  pc,       \* the session's next command
  cur,      \* the pod of its Run
  budget,   \* ticks until the Run's outer deadline
  left,     \* ticks until the deadline of WaitDone or Logs; those that the
            \* final delete had when it started
  result,   \* of its Run: "ok" if there is output to return, "failed" after
            \* ErrPodFailed; without either the Run returns another error
  targets,  \* the names its sweep still has to delete
  excused   \* history: pods that a failing command or a dead process left

vars == <<made, owner, phase, life, age, pc, cur, budget, left, result,
          targets, excused>>
pods == <<made, owner, phase, life, age>>
clocks == <<budget, left>>

Init ==
  /\ made = 0
  /\ owner = [p \in PodIds |-> CHOOSE s \in Sessions : TRUE]
  /\ phase = [p \in PodIds |-> "Running"]
  /\ life = [p \in PodIds |-> "none"]
  /\ age = [p \in PodIds |-> 0]
  /\ pc = [s \in Sessions |-> "idle"]
  /\ cur = [s \in Sessions |-> NoPod]
  /\ budget = [s \in Sessions |-> 0]
  /\ left = [s \in Sessions |-> 0]
  /\ result = [s \in Sessions |-> "none"]
  /\ targets = [s \in Sessions |-> {}]
  /\ excused = {}

InRun(s) == pc[s] \in {"clean", "create", "wait", "logs", "delete"}
Waiting(s) == pc[s] \in {"wait", "logs"}
Present(p) == life[p] \in {"live", "deleting"}
OwnPods(s) == {p \in PodIds : Present(p) /\ LabelOf[owner[p]] = LabelOf[s]}

\* kubectl delete of the pods S: they terminate in their own time.
MarkDeleting(S) ==
  life' = [p \in PodIds |-> IF p \in S /\ life[p] = "live" THEN "deleting" ELSE life[p]]

Goto(s, l) == pc' = [pc EXCEPT ![s] = l]

-----------------------------------------------------------------------------
(* CurlPod.Run *)

\* PreFetch or Fetch: a Run under a fresh podRunTimeout.
RunBegins(s) ==
  /\ pc[s] = "idle"
  /\ budget' = [budget EXCEPT ![s] = PodRunTimeout]
  /\ Goto(s, "clean")
  /\ UNCHANGED <<pods, cur, left, result, targets, excused>>

\* RunOnce: CleanupByLabel, its error ignored.
CleanOld(s) ==
  /\ pc[s] = "clean"
  /\ \/ budget[s] > 0 /\ MarkDeleting(OwnPods(s))
     \/ UNCHANGED life
  /\ Goto(s, "create")
  /\ UNCHANGED <<made, owner, phase, age, cur, clocks, result, targets, excused>>

\* The API server creates the next pod for s.
NewPod(s) ==
  /\ made < MaxPods
  /\ made' = made + 1
  /\ owner' = [owner EXCEPT ![made + 1] = s]
  /\ life' = [life EXCEPT ![made + 1] = "live"]
  /\ UNCHANGED <<phase, age>>

\* kubectl run succeeds; WaitDone starts under a deadline inside the outer one.
\* A create that used up the slack may leave no time for the cleanup.
Create(s) ==
  /\ pc[s] = "create"
  /\ budget[s] > 0
  /\ NewPod(s)
  /\ cur' = [cur EXCEPT ![s] = made + 1]
  /\ left' = [left EXCEPT ![s] = IF budget[s] < WaitTimeout THEN budget[s] ELSE WaitTimeout]
  /\ excused' = IF PodRunTimeout - budget[s] >= Slack
                THEN excused \cup {made + 1} ELSE excused
  /\ Goto(s, "wait")
  /\ UNCHANGED <<budget, result, targets>>

\* The Run is over, and its result with it.
Returns(s) ==
  /\ result' = [result EXCEPT ![s] = "none"]
  /\ cur' = [cur EXCEPT ![s] = NoPod]
  /\ budget' = [budget EXCEPT ![s] = 0]
  /\ left' = [left EXCEPT ![s] = 0]
  /\ Goto(s, "idle")

\* kubectl run fails or is killed, the pod created or not: Run returns at once.
CreateFails(s) ==
  /\ pc[s] = "create"
  /\ \/ NewPod(s) /\ excused' = excused \cup {made + 1}
     \/ UNCHANGED <<pods, excused>>
  /\ Returns(s)
  /\ UNCHANGED targets

\* WaitDone sees a terminal phase.  After either one the logs are fetched,
\* but those of a failed pod are not a measurement.
\* (Mutated: Succeeded and Failed are the same.)
CheckTerminalPhase_Same(p) == "none"
CheckTerminalPhase(p) == IF phase[p] = "Failed" THEN "failed" ELSE "none"

SeesTerminalPhase(s) ==
  /\ pc[s] = "wait"
  /\ left[s] > 0
  /\ Present(cur[s])
  /\ phase[cur[s]] # "Running"
  /\ result' = [result EXCEPT ![s] = CheckTerminalPhase(cur[s])]
  /\ left' = [left EXCEPT ![s] = IF budget[s] < LogsTimeout THEN budget[s] ELSE LogsTimeout]
  /\ Goto(s, "logs")
  /\ UNCHANGED <<pods, cur, budget, targets, excused>>

\* The Run goes on to cleanupWithLog.
ToDelete(s) ==
  /\ left' = [left EXCEPT ![s] = budget[s]]
  /\ Goto(s, "delete")

WaitFails(s) == ToDelete(s) /\ UNCHANGED <<cur, budget, result>>

\* kubectl get fails: NotFound, or anything else.
CheckPhaseFails(s) ==
  /\ pc[s] = "wait"
  /\ WaitFails(s)
  /\ UNCHANGED <<pods, targets, excused>>

\* Mutated: the deadline of WaitDone is not looked at.
Expired_Never(s) == FALSE
Expired(s) == left[s] = 0

WaitExpires(s) ==
  /\ pc[s] = "wait"
  /\ Expired(s)
  /\ WaitFails(s)
  /\ UNCHANGED <<pods, targets, excused>>

\* kubectl logs, which may fail.
Logs(s) ==
  /\ pc[s] = "logs"
  /\ \/ /\ left[s] > 0
        /\ Present(cur[s])
        /\ result' = [result EXCEPT ![s] = IF @ = "failed" THEN "failed" ELSE "ok"]
     \/ UNCHANGED result
  /\ ToDelete(s)
  /\ UNCHANGED <<pods, cur, budget, targets, excused>>

\* cleanupWithLog, in the outer context.
Delete(s) ==
  /\ pc[s] = "delete"
  /\ budget[s] > 0
  /\ \/ MarkDeleting({cur[s]}) /\ UNCHANGED excused
     \/ excused' = excused \cup {cur[s]} /\ UNCHANGED life
  /\ Returns(s)
  /\ UNCHANGED <<made, owner, phase, age, targets>>

\* The outer deadline has passed: kubectl delete is killed, if it was started
\* in time.
DeleteExpires(s) ==
  /\ pc[s] = "delete"
  /\ budget[s] = 0
  /\ excused' = IF left[s] > 0 THEN excused \cup {cur[s]} ELSE excused
  /\ Returns(s)
  /\ UNCHANGED <<pods, targets>>

-----------------------------------------------------------------------------
(* Session.Cleanup *)

\* shouldRunCleanup: a mode that it does not know is like always.
ShouldRunCleanup(cleanupMode, hasFailed) ==
  /\ cleanupMode # "manual"
  /\ cleanupMode = "on-success" => ~hasFailed
  /\ cleanupMode = "on-failure" => hasFailed

\* The test may have called MarkFailed or not.  A failing command is only
\* reported, and changes nothing.
Cleanup(s) ==
  /\ pc[s] = "idle"
  /\ \E hasFailed \in BOOLEAN : ShouldRunCleanup(ModeOf[s], hasFailed)
  /\ MarkDeleting(OwnPods(s))
  /\ UNCHANGED <<made, owner, phase, age, pc, cur, clocks, result, targets, excused>>

-----------------------------------------------------------------------------
(* SweepOrphansWithResult in mode delete; report-only changes nothing *)

\* The pods of other run ids that are old enough.
\* (Mutated: the age is not looked at.)
Candidates_AnyAge(s) ==
  {p \in PodIds : Present(p) /\ LabelOf[owner[p]] # LabelOf[s]}
Candidates(s) ==
  {p \in PodIds : Present(p) /\ LabelOf[owner[p]] # LabelOf[s] /\ age[p] >= MaxAge}

\* The list comes in an order of the API server's: which candidates come
\* within the limit is open.
SweepList(s) ==
  /\ pc[s] = "idle"
  /\ \E chosen \in SUBSET Candidates(s) :
       /\ chosen # {}
       /\ \/ chosen = Candidates(s) /\ (Limit = 0 \/ Cardinality(chosen) <= Limit)
          \/ Limit > 0 /\ Cardinality(chosen) = Limit
       /\ targets' = [targets EXCEPT ![s] = chosen]
  /\ Goto(s, "sweep")
  /\ UNCHANGED <<pods, cur, clocks, result, excused>>

\* One kubectl delete per name; one failing does not stop the others.
SweepDelete(s) ==
  /\ pc[s] = "sweep"
  /\ \E p \in targets[s] :
       /\ MarkDeleting({p}) \/ UNCHANGED life
       /\ targets' = [targets EXCEPT ![s] = @ \ {p}]
       /\ Goto(s, IF targets[s] = {p} THEN "idle" ELSE "sweep")
  /\ UNCHANGED <<made, owner, phase, age, cur, clocks, result, excused>>

-----------------------------------------------------------------------------
(* The cluster, the clock, and processes that die *)

\* The pod's container exits.
Terminates(p) ==
  /\ Present(p)
  /\ phase[p] = "Running"
  /\ \E ph \in {"Succeeded", "Failed"} : phase' = [phase EXCEPT ![p] = ph]
  /\ UNCHANGED <<made, owner, life, age, pc, cur, clocks, result, targets, excused>>

\* A deleted pod is gone, and with it what no step looks at any more.
Vanishes(p) ==
  /\ life[p] = "deleting"
  /\ life' = [life EXCEPT ![p] = "gone"]
  /\ age' = [age EXCEPT ![p] = 0]
  /\ phase' = IF \E s \in Sessions : cur[s] = p THEN phase
              ELSE [phase EXCEPT ![p] = "Running"]
  /\ excused' = excused \ {p}
  /\ UNCHANGED <<made, owner, pc, cur, clocks, result, targets>>

\* Time passes, but not beyond a deadline somebody has yet to react to.
\* Ages are not told apart beyond MaxAge.
Tick ==
  /\ \A s \in Sessions : InRun(s) => budget[s] > 0
  /\ \A s \in Sessions : Waiting(s) => left[s] > 0
  /\ budget' = [s \in Sessions |-> IF InRun(s) THEN budget[s] - 1 ELSE budget[s]]
  /\ left' = [s \in Sessions |-> IF Waiting(s) THEN left[s] - 1 ELSE left[s]]
  /\ age' = [p \in PodIds |-> IF Present(p) /\ age[p] < MaxAge THEN age[p] + 1 ELSE age[p]]
  /\ UNCHANGED <<made, owner, phase, life, pc, cur, result, targets, excused>>

\* The test process is killed: its pod is left, its next session begins.
Crash(s) ==
  /\ pc[s] # "idle"
  /\ excused' = IF InRun(s) /\ cur[s] # NoPod THEN excused \cup {cur[s]} ELSE excused
  /\ Returns(s)
  /\ targets' = [targets EXCEPT ![s] = {}]
  /\ UNCHANGED pods

\* The steps of a Run that come by themselves: every command returns, the
\* phase is polled, an expired deadline is noticed.
RunStep(s) ==
  \/ CleanOld(s) \/ Create(s) \/ CreateFails(s)
  \/ SeesTerminalPhase(s) \/ WaitExpires(s)
  \/ Logs(s) \/ Delete(s) \/ DeleteExpires(s)

Next ==
  \/ \E s \in Sessions :
       \/ RunBegins(s) \/ RunStep(s) \/ CheckPhaseFails(s)
       \/ Cleanup(s) \/ SweepList(s) \/ SweepDelete(s)
       \/ Crash(s)
  \/ \E p \in PodIds : Terminates(p) \/ Vanishes(p)
  \/ Tick

Spec == Init /\ [][Next]_vars

FairSpec == Spec /\ WF_vars(Tick) /\ \A s \in Sessions : WF_vars(RunStep(s))

-----------------------------------------------------------------------------
(***************************************************************************)
(* Properties                                                              *)
(***************************************************************************)

TypeOK ==
  /\ made \in 0 .. MaxPods
  /\ owner \in [PodIds -> Sessions]
  /\ phase \in [PodIds -> Phases]
  /\ life \in [PodIds -> Lives]
  /\ age \in [PodIds -> 0 .. MaxAge]
  /\ pc \in [Sessions -> PCs]
  /\ cur \in [Sessions -> 0 .. MaxPods]
  /\ budget \in [Sessions -> 0 .. PodRunTimeout]
  /\ left \in [Sessions -> 0 .. PodRunTimeout]
  /\ result \in [Sessions -> {"none", "ok", "failed"}]
  /\ targets \in [Sessions -> SUBSET PodIds]
  /\ excused \subseteq PodIds

\* Sessions of different run ids, none so long that its label is truncated.
DistinctLabels == \A s, t \in Sessions : s # t => LabelOf[s] # LabelOf[t]

\* The sweepers' MaxAge exceeds every Run's outer deadline, as that of
\* DevSweepOptions and CISweepOptions does with the default timeouts.
PatientSweeps == MaxAge > PodRunTimeout

\* Session.Cleanup: "using run-id and namespace as safeguards against overly
\* broad deletes".  Nobody deletes the pod that a Run waits for or reads:
\* not a sweep that listed it long ago, not another session's cleanup.
LivePodSpared == \A s \in Sessions : Waiting(s) => life[cur[s]] = "live"

\* A pod outlives its Run only because a kubectl command failed, the create
\* used up the slack of podRunTimeout, or the process died; timeouts of
\* WaitDone and Logs, failed pods and failed scrapes leave none behind.
LeakIsExcused ==
  \A p \in PodIds :
    life[p] = "live" => p \in excused \/ (InRun(owner[p]) /\ cur[owner[p]] = p)

\* client.go, ErrPodFailed: a Run's output is a measurement only if the pod
\* it created succeeded; the logs of a failed scrape never pass for one.
OutputOfSucceededPod ==
  \A s \in Sessions :
    result[s] = "ok" => cur[s] # NoPod /\ owner[cur[s]] = s /\ phase[cur[s]] = "Succeeded"

\* Every Run returns, also when its pod stays Pending for ever.
RunReturns == \A s \in Sessions : InRun(s) ~> ~InRun(s)

=============================================================================
