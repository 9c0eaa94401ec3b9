--------------------------- MODULE CurlPods_proofs ---------------------------
(***************************************************************************)
(* Proofs about CurlPods, for any number of sessions and pods and any      *)
(* timeouts.                                                               *)
(***************************************************************************)
EXTENDS CurlPods, TLAPS

\* A Run has a pod of its own from its creation to the final delete, and no
\* pod at any other time.
HasPod(s) == pc[s] \in {"wait", "logs", "delete"}
RunHasPod ==
  \A s \in Sessions :
    /\ HasPod(s) => cur[s] \in PodIds /\ life[cur[s]] # "none" /\ owner[cur[s]] = s
    /\ ~HasPod(s) => cur[s] = NoPod

\* Pods that are still to be created.
Uncreated == \A p \in PodIds : p > made <=> life[p] = "none"

Base == TypeOK /\ RunHasPod /\ Uncreated

\* The clock of a Run that created its pod in time: what is left of it covers
\* the deadlines still ahead, and the final delete starts before its end.
OnTime(s) ==
  /\ pc[s] = "wait" => budget[s] > left[s] + LogsTimeout
  /\ pc[s] = "logs" => budget[s] > left[s]
  /\ pc[s] = "delete" => left[s] > 0
LiveRunOnTime ==
  \A s \in Sessions :
    HasPod(s) /\ life[cur[s]] = "live" /\ cur[s] \notin excused => OnTime(s)

\* What the Run knows of its pod's phase.
OutcomeSeen ==
  \A s \in Sessions :
    /\ pc[s] = "logs" /\ result[s] # "failed" => phase[cur[s]] = "Succeeded"
    /\ pc[s] = "logs" => result[s] # "ok"
    /\ pc[s] = "delete" /\ result[s] = "ok" => phase[cur[s]] = "Succeeded"
    /\ pc[s] = "wait" => result[s] = "none"
    /\ ~HasPod(s) => result[s] = "none"

\* A Run's pod is no older than the Run, so no sweep has listed it.
YoungPod ==
  \A s \in Sessions : HasPod(s) => age[cur[s]] + budget[s] <= PodRunTimeout
NewPodsAreYoung == \A p \in PodIds : life[p] = "none" => age[p] = 0
TargetsUnused ==
  \A s, t \in Sessions :
    \A p \in targets[s] : life[p] # "none" /\ cur[t] # p

-----------------------------------------------------------------------------

\* The timeouts are positive, and so is podRunTimeout.
LEMMA Timeouts ==
  /\ WaitTimeout \in Nat /\ WaitTimeout > 0
  /\ LogsTimeout \in Nat /\ LogsTimeout > 0
  /\ Slack \in Nat /\ Slack > 0
  /\ PodRunTimeout \in Nat /\ PodRunTimeout > 0
  /\ MaxPods \in Nat /\ 0 \in 0 .. MaxPods /\ 0 \in 0 .. PodRunTimeout
  /\ \A n \in 0 .. PodRunTimeout :
       /\ (IF n < WaitTimeout THEN n ELSE WaitTimeout) \in 0 .. PodRunTimeout
       /\ (IF n < LogsTimeout THEN n ELSE LogsTimeout) \in 0 .. PodRunTimeout
  BY CurlPodsAssumption DEF PodRunTimeout

\* A created pod has a name of its own and well-typed fields.
LEMMA NewPodType ==
  ASSUME Base, NEW s \in Sessions, NewPod(s)
  PROVE  /\ made' = made + 1
         /\ made' \in PodIds /\ made' \in 0 .. MaxPods
         /\ owner' \in [PodIds -> Sessions]
         /\ life' \in [PodIds -> Lives]
         /\ phase' = phase /\ age' = age
         /\ life[made'] = "none" /\ life'[made'] = "live" /\ owner'[made'] = s
         /\ \A p \in PodIds : p # made' => life'[p] = life[p] /\ owner'[p] = owner[p]
         /\ Uncreated'
<1>1. made + 1 \in PodIds
  BY Timeouts DEF NewPod, Base, TypeOK, PodIds
<1>2. /\ made' = made + 1 /\ made' \in 0 .. MaxPods
      /\ owner' \in [PodIds -> Sessions]
      /\ life' \in [PodIds -> Lives]
      /\ phase' = phase /\ age' = age
      /\ life'[made'] = "live" /\ owner'[made'] = s
      /\ \A p \in PodIds : p # made' => life'[p] = life[p] /\ owner'[p] = owner[p]
  BY <1>1, Timeouts DEF NewPod, Base, TypeOK, PodIds, Lives
<1>3. life[made'] = "none"
  BY <1>1, <1>2 DEF Base, TypeOK, Uncreated
<1>4. Uncreated'
  BY <1>1, <1>2 DEF Base, TypeOK, Uncreated, PodIds
<1> QED
  BY <1>1, <1>2, <1>3, <1>4

\* Deleting pods keeps the types and which of them were created.
LEMMA MarkDeletingType ==
  ASSUME Base, NEW S, MarkDeleting(S) \/ UNCHANGED life, UNCHANGED made
  PROVE  /\ life' \in [PodIds -> Lives]
         /\ Uncreated'
         /\ \A p \in PodIds : life'[p] = "none" <=> life[p] = "none"
         /\ \A p \in PodIds : life'[p] = "live" => life[p] = "live"
  BY DEF MarkDeleting, Base, TypeOK, Uncreated, Lives

\* A returned Run is idle and has no pod.
LEMMA ReturnsType ==
  ASSUME Base, NEW s \in Sessions, Returns(s)
  PROVE  /\ cur' \in [Sessions -> 0 .. MaxPods]
         /\ pc' \in [Sessions -> PCs]
         /\ budget' \in [Sessions -> 0 .. PodRunTimeout]
         /\ left' \in [Sessions -> 0 .. PodRunTimeout]
         /\ result' \in [Sessions -> {"none", "ok", "failed"}]
         /\ pc'[s] = "idle" /\ cur'[s] = NoPod /\ result'[s] = "none"
         /\ \A t \in Sessions : t # s =>
              /\ pc'[t] = pc[t] /\ cur'[t] = cur[t] /\ budget'[t] = budget[t]
              /\ left'[t] = left[t] /\ result'[t] = result[t]
  BY Timeouts DEF Returns, Goto, Base, TypeOK, PCs, NoPod

\* Every variable has its type, and a Run's pod is its own.
LEMMA BaseCorrect == Spec => []Base
<1>1. Init => Base
  BY CurlPodsAssumption, Timeouts
  DEF Init, Base, TypeOK, RunHasPod, Uncreated, HasPod, PodIds, Phases, Lives, PCs, NoPod
<1>2. Base /\ [Next]_vars => Base'
  <2> SUFFICES ASSUME Base, [Next]_vars PROVE Base'
    OBVIOUS
  <2> USE DEF Base
  <2>1. ASSUME NEW s \in Sessions, RunBegins(s) PROVE Base'
    BY <2>1, Timeouts DEF TypeOK, RunHasPod, Uncreated, HasPod, RunBegins, Goto, pods, PCs
  <2>2. ASSUME NEW s \in Sessions, CleanOld(s) PROVE Base'
    <3>1. /\ life' \in [PodIds -> Lives]
          /\ Uncreated'
          /\ \A p \in PodIds : life'[p] = "none" <=> life[p] = "none"
      BY <2>2, MarkDeletingType DEF CleanOld
    <3> QED
      BY <2>2, <3>1 DEF TypeOK, RunHasPod, HasPod, CleanOld, Goto, clocks, PCs
  <2>3. ASSUME NEW s \in Sessions, Create(s) PROVE Base'
    <3>1. NewPod(s)
      BY <2>3 DEF Create
    <3> DEFINE n == made'
    <3>2. /\ n = made + 1 /\ n \in PodIds /\ n \in 0 .. MaxPods
          /\ owner' \in [PodIds -> Sessions]
          /\ life' \in [PodIds -> Lives]
          /\ phase' = phase /\ age' = age
          /\ life'[n] = "live" /\ owner'[n] = s
          /\ \A p \in PodIds : p # n => life'[p] = life[p] /\ owner'[p] = owner[p]
          /\ life[n] = "none"
          /\ Uncreated'
      BY <3>1, NewPodType
    <3>3. TypeOK'
      <4>1. left' \in [Sessions -> 0 .. PodRunTimeout]
        BY <2>3, Timeouts DEF Create, TypeOK
      <4> QED
        BY <2>3, <3>2, <4>1 DEF TypeOK, Create, Goto, PCs
    <3>4. RunHasPod'
      BY <2>3, <3>2 DEF TypeOK, RunHasPod, HasPod, Create, Goto
    <3> QED
      BY <3>2, <3>3, <3>4
  <2>4. ASSUME NEW s \in Sessions, CreateFails(s) PROVE Base'
    <3>1. Returns(s) /\ UNCHANGED targets
      BY <2>4 DEF CreateFails
    <3>2. CASE NewPod(s) /\ excused' = excused \cup {made + 1}
      BY <3>1, <3>2, NewPodType, ReturnsType DEF TypeOK, RunHasPod, HasPod
    <3>3. CASE UNCHANGED <<pods, excused>>
      BY <3>1, <3>3, ReturnsType DEF TypeOK, RunHasPod, HasPod, Uncreated, pods
    <3> QED
      BY <2>4, <3>2, <3>3 DEF CreateFails
  <2>5. ASSUME NEW s \in Sessions, SeesTerminalPhase(s) PROVE Base'
    <3>1. left' \in [Sessions -> 0 .. PodRunTimeout]
      BY <2>5, Timeouts DEF SeesTerminalPhase, TypeOK
    <3> QED
      BY <2>5, <3>1 DEF TypeOK, RunHasPod, HasPod, Uncreated, SeesTerminalPhase,
                        CheckTerminalPhase, Goto, PCs, pods
  <2>6. ASSUME NEW s \in Sessions, WaitExpires(s) \/ CheckPhaseFails(s) PROVE Base'
    BY <2>6 DEF TypeOK, RunHasPod, HasPod, Uncreated, WaitExpires, CheckPhaseFails,
                WaitFails, ToDelete, Goto, PCs, pods
  <2>7. ASSUME NEW s \in Sessions, Logs(s) PROVE Base'
    BY <2>7 DEF TypeOK, RunHasPod, HasPod, Uncreated, Logs, ToDelete, Goto, PCs, pods
  <2>8. ASSUME NEW s \in Sessions, Delete(s) PROVE Base'
    <3>1. cur[s] \in PodIds
      BY <2>8 DEF Delete, RunHasPod, HasPod
    <3>2. Returns(s) /\ UNCHANGED <<made, owner, phase, age, targets>>
      BY <2>8 DEF Delete
    <3>3. /\ life' \in [PodIds -> Lives]
          /\ Uncreated'
          /\ \A p \in PodIds : life'[p] = "none" <=> life[p] = "none"
      BY <2>8, <3>2, MarkDeletingType DEF Delete
    <3>4. excused' \subseteq PodIds
      BY <2>8, <3>1 DEF Delete, TypeOK
    <3> QED
      BY <3>2, <3>3, <3>4, ReturnsType DEF TypeOK, RunHasPod, HasPod
  <2>9. ASSUME NEW s \in Sessions, DeleteExpires(s) \/ Crash(s) PROVE Base'
    <3>1. /\ Returns(s) /\ UNCHANGED pods
          /\ targets' \in [Sessions -> SUBSET PodIds]
      BY <2>9 DEF DeleteExpires, Crash, TypeOK
    <3>2. excused' \subseteq PodIds
      BY <2>9 DEF DeleteExpires, Crash, TypeOK, RunHasPod, HasPod
    <3> QED
      BY <3>1, <3>2, ReturnsType DEF TypeOK, RunHasPod, HasPod, Uncreated, pods
  <2>10. ASSUME NEW s \in Sessions, Cleanup(s) PROVE Base'
    <3>1. /\ life' \in [PodIds -> Lives]
          /\ Uncreated'
          /\ \A p \in PodIds : life'[p] = "none" <=> life[p] = "none"
      BY <2>10, MarkDeletingType DEF Cleanup
    <3> QED
      BY <2>10, <3>1 DEF TypeOK, RunHasPod, HasPod, Cleanup, clocks
  <2>11. ASSUME NEW s \in Sessions, SweepList(s) PROVE Base'
    BY <2>11 DEF TypeOK, RunHasPod, HasPod, Uncreated, SweepList, Candidates, Goto, PCs,
                 pods, clocks
  <2>12. ASSUME NEW s \in Sessions, SweepDelete(s) PROVE Base'
    <3>1. PICK p \in targets[s] :
            /\ MarkDeleting({p}) \/ UNCHANGED life
            /\ targets' = [targets EXCEPT ![s] = @ \ {p}]
            /\ Goto(s, IF targets[s] = {p} THEN "idle" ELSE "sweep")
      BY <2>12 DEF SweepDelete
    <3>2. /\ life' \in [PodIds -> Lives]
          /\ Uncreated'
          /\ \A q \in PodIds : life'[q] = "none" <=> life[q] = "none"
      BY <2>12, <3>1, MarkDeletingType DEF SweepDelete
    <3>3. /\ targets' \in [Sessions -> SUBSET PodIds]
          /\ pc' \in [Sessions -> PCs]
          /\ pc[s] = "sweep" /\ pc'[s] \in {"idle", "sweep"}
          /\ \A t \in Sessions : t # s => pc'[t] = pc[t]
      BY <2>12, <3>1 DEF TypeOK, SweepDelete, Goto, PCs
    <3>4. UNCHANGED <<made, owner, phase, age, cur, clocks, result, excused>>
      BY <2>12 DEF SweepDelete
    <3>5. TypeOK'
      BY <3>2, <3>3, <3>4 DEF TypeOK, clocks
    <3>6. RunHasPod'
      BY <3>2, <3>3, <3>4 DEF TypeOK, RunHasPod, HasPod
    <3> QED
      BY <3>2, <3>5, <3>6
  <2>13. ASSUME NEW p \in PodIds, Terminates(p) \/ Vanishes(p) PROVE Base'
    <3>1. 0 \in 0 .. MaxAge
      BY CurlPodsAssumption
    <3>2. CASE Terminates(p)
      BY <3>2 DEF TypeOK, RunHasPod, HasPod, Uncreated, Terminates, Phases, clocks
    <3>3. CASE Vanishes(p)
      BY <3>1, <3>3 DEF TypeOK, RunHasPod, HasPod, Uncreated, Vanishes, Phases, Lives, clocks
    <3> QED
      BY <2>13, <3>2, <3>3
  <2>14. ASSUME Tick PROVE Base'
    <3>1. TypeOK'
      BY <2>14, Timeouts, CurlPodsAssumption DEF Tick, TypeOK, InRun, Waiting, Present
    <3> QED
      BY <2>14, <3>1 DEF Tick, RunHasPod, HasPod, Uncreated
  <2>15. ASSUME UNCHANGED vars PROVE Base'
    BY <2>15 DEF vars, TypeOK, RunHasPod, HasPod, Uncreated
  <2> QED
    BY <2>1, <2>2, <2>3, <2>4, <2>5, <2>6, <2>7, <2>8, <2>9, <2>10, <2>11, <2>12,
       <2>13, <2>14, <2>15 DEF Next, RunStep
<1> QED
  BY <1>1, <1>2, PTL DEF Spec

\* Each variable keeps its type: no Run's clock leaves 0 .. podRunTimeout, and
\* no command follows another that Run does not have.
THEOREM CurlPodsTypeCorrect == Spec => []TypeOK
<1>1. Base => TypeOK
  BY DEF Base
<1> QED
  BY <1>1, BaseCorrect, PTL

-----------------------------------------------------------------------------

LeakInv == LeakIsExcused /\ LiveRunOnTime

\* A step that creates no pod, leaves every Run where it is and excuses no
\* fewer pods keeps the clocks of live Runs.
LEMMA LeakFrame ==
  ASSUME Base, LeakInv, UNCHANGED <<owner, cur, budget, left, excused>>,
         \A p \in PodIds : life'[p] = "live" => life[p] = "live",
         \A s \in Sessions : pc'[s] = pc[s] \/ (~HasPod(s) /\ pc'[s] \notin {"wait", "logs", "delete"})
  PROVE  LeakInv'
<1>1. LeakIsExcused'
  <2> SUFFICES ASSUME NEW p \in PodIds, life'[p] = "live", p \notin excused'
               PROVE  (InRun(owner[p]) /\ cur[owner[p]] = p)'
    BY DEF LeakIsExcused
  <2>1. /\ owner[p] \in Sessions /\ life[p] = "live" /\ p \notin excused
        /\ InRun(owner[p]) /\ cur[owner[p]] = p
    BY DEF LeakInv, LeakIsExcused, Base, TypeOK
  <2> QED
    BY <2>1 DEF Base, RunHasPod, HasPod, InRun, PodIds, NoPod
<1>2. LiveRunOnTime'
  BY DEF LeakInv, LiveRunOnTime, OnTime, Base, TypeOK, RunHasPod, HasPod
<1> QED
  BY <1>1, <1>2 DEF LeakInv

\* A Run that returns leaves its pod excused or not live.
LEMMA LeakReturns ==
  ASSUME Base, Base', LeakInv, NEW s \in Sessions, Returns(s),
         UNCHANGED owner,
         excused \subseteq excused',
         \A p \in PodIds : life'[p] = "live" => life[p] = "live",
         \A p \in PodIds : life'[p] = "live" /\ cur[s] = p => p \in excused'
  PROVE  LeakInv'
<1>1. LeakIsExcused'
  BY ReturnsType DEF LeakInv, LeakIsExcused, InRun, Base, TypeOK
<1>2. LiveRunOnTime'
  BY ReturnsType DEF LeakInv, LiveRunOnTime, OnTime, Base, TypeOK, RunHasPod, HasPod
<1> QED
  BY <1>1, <1>2 DEF LeakInv

\* curlpod.go and session.go, podRunTimeout: a pod outlives its Run only if a
\* command failed, its create used up the slack, or the process died.
THEOREM LeakCorrect == Spec => []LeakIsExcused
<1>1. Init => LeakInv
  BY DEF Init, LeakInv, LeakIsExcused, LiveRunOnTime, HasPod
<1>2. Base /\ Base' /\ LeakInv /\ [Next]_vars => LeakInv'
  <2> SUFFICES ASSUME Base, Base', LeakInv, [Next]_vars PROVE LeakInv'
    OBVIOUS
  <2>1. ASSUME NEW s \in Sessions, RunBegins(s) PROVE LeakInv'
    <3>1. LeakIsExcused'
      BY <2>1 DEF LeakInv, LeakIsExcused, InRun, Base, TypeOK, RunBegins, Goto, pods
    <3>2. LiveRunOnTime'
      BY <2>1 DEF LeakInv, LiveRunOnTime, OnTime, Base, TypeOK, HasPod, RunBegins, Goto, pods
    <3> QED
      BY <3>1, <3>2 DEF LeakInv
  <2>2. ASSUME NEW s \in Sessions, CleanOld(s) PROVE LeakInv'
    <3>1. \A p \in PodIds : life'[p] = "live" => life[p] = "live"
      BY <2>2, MarkDeletingType DEF CleanOld
    <3>2. \A t \in Sessions :
            pc'[t] = pc[t] \/ (~HasPod(t) /\ pc'[t] \notin {"wait", "logs", "delete"})
      BY <2>2 DEF CleanOld, Goto, HasPod, Base, TypeOK
    <3> QED
      BY <2>2, <3>1, <3>2, LeakFrame DEF CleanOld, clocks
  <2>3. ASSUME NEW s \in Sessions, Create(s) PROVE LeakInv'
    <3> DEFINE n == made'
    <3>1. /\ n = made + 1 /\ n \in PodIds
          /\ life'[n] = "live" /\ owner'[n] = s
          /\ life[n] = "none"
          /\ \A p \in PodIds : p # n => life'[p] = life[p] /\ owner'[p] = owner[p]
      BY <2>3, NewPodType DEF Create
    <3>2. /\ pc[s] = "create" /\ pc'[s] = "wait" /\ cur'[s] = n
          /\ left'[s] = (IF budget[s] < WaitTimeout THEN budget[s] ELSE WaitTimeout)
          /\ excused' = IF PodRunTimeout - budget[s] >= Slack THEN excused \cup {n} ELSE excused
          /\ budget' = budget
          /\ \A t \in Sessions : t # s => pc'[t] = pc[t] /\ cur'[t] = cur[t] /\ left'[t] = left[t]
      BY <2>3, <3>1 DEF Create, Goto, Base, TypeOK
    <3>3. cur[s] = NoPod
      BY <3>2 DEF Base, RunHasPod, HasPod
    <3>4. LeakIsExcused'
      <4> SUFFICES ASSUME NEW p \in PodIds, life'[p] = "live", p \notin excused'
                   PROVE  (InRun(owner[p]) /\ cur[owner[p]] = p)'
        BY DEF LeakIsExcused
      <4>1. CASE p = n
        BY <3>1, <3>2, <4>1 DEF InRun
      <4>2. CASE p # n
        <5>1. /\ owner'[p] = owner[p] /\ owner[p] \in Sessions
              /\ InRun(owner[p]) /\ cur[owner[p]] = p
          BY <3>1, <3>2, <4>2 DEF LeakInv, LeakIsExcused, Base, TypeOK
        <5>2. owner[p] # s
          BY <3>3, <5>1 DEF PodIds, NoPod
        <5> QED
          BY <3>2, <5>1, <5>2 DEF InRun
      <4> QED
        BY <4>1, <4>2
    <3>5. n \notin excused' => budget[s] > left'[s] + LogsTimeout
      BY <3>2, Timeouts DEF Base, TypeOK, PodRunTimeout
    <3>6. LiveRunOnTime'
      <4> SUFFICES ASSUME NEW t \in Sessions,
                          HasPod(t)', life'[cur'[t]] = "live", cur'[t] \notin excused'
                   PROVE  OnTime(t)'
        BY DEF LiveRunOnTime
      <4>1. CASE t = s
        BY <3>2, <3>5, <4>1 DEF OnTime
      <4>2. CASE t # s
        <5>1. HasPod(t) /\ cur[t] # n
          BY <3>1, <3>2, <4>2 DEF HasPod, Base, RunHasPod
        <5>2. cur[t] \in PodIds /\ cur'[t] = cur[t]
          BY <3>2, <4>2, <5>1 DEF Base, RunHasPod
        <5>3. cur[t] \notin excused /\ life[cur[t]] = "live"
          BY <3>1, <3>2, <5>1, <5>2
        <5> QED
          BY <3>2, <4>2, <5>1, <5>3 DEF LeakInv, LiveRunOnTime, OnTime
      <4> QED
        BY <4>1, <4>2
    <3> QED
      BY <3>4, <3>6 DEF LeakInv
  <2>4. ASSUME NEW s \in Sessions, CreateFails(s) PROVE LeakInv'
    <3>1. Returns(s) /\ cur[s] = NoPod /\ pc[s] = "create"
      BY <2>4 DEF CreateFails, Base, RunHasPod, HasPod
    <3>2. CASE NewPod(s) /\ excused' = excused \cup {made + 1}
      <4> DEFINE n == made'
      <4>1. /\ n = made + 1 /\ n \in PodIds /\ owner'[n] = s /\ life[n] = "none"
            /\ \A p \in PodIds : p # n => life'[p] = life[p] /\ owner'[p] = owner[p]
        BY <3>2, NewPodType
      <4>2. LeakIsExcused'
        <5> SUFFICES ASSUME NEW p \in PodIds, life'[p] = "live", p \notin excused'
                     PROVE  (InRun(owner[p]) /\ cur[owner[p]] = p)'
          BY DEF LeakIsExcused
        <5>1. /\ owner'[p] = owner[p] /\ owner[p] \in Sessions
              /\ InRun(owner[p]) /\ cur[owner[p]] = p
          BY <3>2, <4>1 DEF LeakInv, LeakIsExcused, Base, TypeOK
        <5>2. owner[p] # s
          BY <3>1, <5>1 DEF PodIds, NoPod
        <5> QED
          BY <3>1, <5>1, <5>2, ReturnsType DEF InRun
      <4>3. LiveRunOnTime'
        BY <3>1, <3>2, <4>1, ReturnsType
        DEF LeakInv, LiveRunOnTime, OnTime, HasPod, Base, RunHasPod, TypeOK
      <4> QED
        BY <4>2, <4>3 DEF LeakInv
    <3>3. CASE UNCHANGED <<pods, excused>>
      BY <3>1, <3>3, LeakReturns DEF pods, PodIds, NoPod
    <3> QED
      BY <2>4, <3>2, <3>3 DEF CreateFails
  <2>5. ASSUME NEW s \in Sessions, SeesTerminalPhase(s) PROVE LeakInv'
    <3>1. /\ pc[s] = "wait" /\ pc'[s] = "logs" /\ budget' = budget
          /\ left'[s] = (IF budget[s] < LogsTimeout THEN budget[s] ELSE LogsTimeout)
          /\ UNCHANGED <<owner, life, cur, excused>>
          /\ left[s] > 0
          /\ \A t \in Sessions : t # s => pc'[t] = pc[t] /\ left'[t] = left[t]
      BY <2>5 DEF SeesTerminalPhase, Goto, pods, Base, TypeOK
    <3>2. LeakIsExcused'
      <4> SUFFICES ASSUME NEW p \in PodIds, life'[p] = "live", p \notin excused'
                   PROVE  (InRun(owner[p]) /\ cur[owner[p]] = p)'
        BY DEF LeakIsExcused
      <4>1. /\ owner[p] \in Sessions /\ life[p] = "live" /\ p \notin excused
            /\ InRun(owner[p]) /\ cur[owner[p]] = p
        BY <3>1 DEF LeakInv, LeakIsExcused, Base, TypeOK
      <4> QED
        BY <3>1, <4>1 DEF InRun
    <3>3. LiveRunOnTime'
      BY <3>1, Timeouts DEF LeakInv, LiveRunOnTime, OnTime, HasPod, Base, TypeOK
    <3> QED
      BY <3>2, <3>3 DEF LeakInv
  <2>6. ASSUME NEW s \in Sessions, WaitExpires(s) \/ CheckPhaseFails(s) \/ Logs(s) PROVE LeakInv'
    <3>1. /\ pc[s] \in {"wait", "logs"} /\ pc'[s] = "delete" /\ budget' = budget
          /\ left'[s] = budget[s]
          /\ UNCHANGED <<owner, life, cur, excused>>
          /\ \A t \in Sessions : t # s => pc'[t] = pc[t] /\ left'[t] = left[t]
      BY <2>6 DEF WaitExpires, CheckPhaseFails, WaitFails, Logs, ToDelete, Goto, pods, Base, TypeOK
    <3>2. LeakIsExcused'
      <4> SUFFICES ASSUME NEW p \in PodIds, life'[p] = "live", p \notin excused'
                   PROVE  (InRun(owner[p]) /\ cur[owner[p]] = p)'
        BY DEF LeakIsExcused
      <4>1. /\ owner[p] \in Sessions /\ life[p] = "live" /\ p \notin excused
            /\ InRun(owner[p]) /\ cur[owner[p]] = p
        BY <3>1 DEF LeakInv, LeakIsExcused, Base, TypeOK
      <4> QED
        BY <3>1, <4>1 DEF InRun
    <3>3. LiveRunOnTime'
      BY <3>1, Timeouts DEF LeakInv, LiveRunOnTime, OnTime, HasPod, Base, TypeOK
    <3> QED
      BY <3>2, <3>3 DEF LeakInv
  <2>7. ASSUME NEW s \in Sessions, Delete(s) PROVE LeakInv'
    <3>1. /\ Returns(s) /\ UNCHANGED owner /\ excused \subseteq excused'
          /\ UNCHANGED made /\ (MarkDeleting({cur[s]}) \/ UNCHANGED life)
          /\ MarkDeleting({cur[s]}) \/ cur[s] \in excused'
      BY <2>7 DEF Delete
    <3>2. \A p \in PodIds : life'[p] = "live" => life[p] = "live"
      BY <3>1, MarkDeletingType
    <3>3. \A p \in PodIds : life'[p] = "live" /\ cur[s] = p => p \in excused'
      BY <3>1 DEF MarkDeleting
    <3> QED
      BY <3>1, <3>2, <3>3, LeakReturns
  <2>8. ASSUME NEW s \in Sessions, DeleteExpires(s) PROVE LeakInv'
    <3>1. /\ Returns(s) /\ UNCHANGED <<owner, life>> /\ pc[s] = "delete"
          /\ excused' = IF left[s] > 0 THEN excused \cup {cur[s]} ELSE excused
      BY <2>8 DEF DeleteExpires, pods
    <3>2. life[cur[s]] = "live" => cur[s] \in excused'
      BY <3>1 DEF LeakInv, LiveRunOnTime, OnTime, HasPod
    <3> QED
      BY <3>1, <3>2, LeakReturns
  <2>9. ASSUME NEW s \in Sessions, Crash(s) PROVE LeakInv'
    <3>1. /\ Returns(s) /\ UNCHANGED <<owner, life>> /\ excused \subseteq excused'
          /\ \A p \in PodIds : cur[s] = p => p \in excused'
      BY <2>9 DEF Crash, pods, InRun, Base, RunHasPod, HasPod, PodIds, NoPod
    <3> QED
      BY <3>1, LeakReturns
  <2>10. ASSUME NEW s \in Sessions, Cleanup(s) PROVE LeakInv'
    <3>1. \A p \in PodIds : life'[p] = "live" => life[p] = "live"
      BY <2>10, MarkDeletingType DEF Cleanup
    <3> QED
      BY <2>10, <3>1, LeakFrame DEF Cleanup, clocks
  <2>11. ASSUME NEW s \in Sessions, SweepList(s) PROVE LeakInv'
    <3>1. \A t \in Sessions :
            pc'[t] = pc[t] \/ (~HasPod(t) /\ pc'[t] \notin {"wait", "logs", "delete"})
      BY <2>11 DEF SweepList, Goto, HasPod, Base, TypeOK
    <3> QED
      BY <2>11, <3>1, LeakFrame DEF SweepList, clocks, pods
  <2>12. ASSUME NEW s \in Sessions, SweepDelete(s) PROVE LeakInv'
    <3>1. PICK p \in targets[s] :
            /\ MarkDeleting({p}) \/ UNCHANGED life
            /\ Goto(s, IF targets[s] = {p} THEN "idle" ELSE "sweep")
      BY <2>12 DEF SweepDelete
    <3>2. \A q \in PodIds : life'[q] = "live" => life[q] = "live"
      BY <2>12, <3>1, MarkDeletingType DEF SweepDelete
    <3>3. \A t \in Sessions :
            pc'[t] = pc[t] \/ (~HasPod(t) /\ pc'[t] \notin {"wait", "logs", "delete"})
      BY <2>12, <3>1 DEF SweepDelete, Goto, HasPod, Base, TypeOK
    <3> QED
      BY <2>12, <3>2, <3>3, LeakFrame DEF SweepDelete, clocks
  <2>13. ASSUME NEW p \in PodIds, Terminates(p) PROVE LeakInv'
    BY <2>13, LeakFrame DEF Terminates, clocks
  <2>14. ASSUME NEW p \in PodIds, Vanishes(p) PROVE LeakInv'
    <3>1. LeakIsExcused'
      BY <2>14 DEF Vanishes, LeakInv, LeakIsExcused, InRun, Base, TypeOK, clocks
    <3>2. LiveRunOnTime'
      BY <2>14 DEF Vanishes, LeakInv, LiveRunOnTime, OnTime, HasPod, Base, RunHasPod, TypeOK, clocks
    <3> QED
      BY <3>1, <3>2 DEF LeakInv
  <2>15. ASSUME Tick PROVE LeakInv'
    <3>1. LeakIsExcused'
      <4> SUFFICES ASSUME NEW p \in PodIds, life'[p] = "live", p \notin excused'
                   PROVE  (InRun(owner[p]) /\ cur[owner[p]] = p)'
        BY DEF LeakIsExcused
      <4>1. /\ owner[p] \in Sessions /\ life[p] = "live" /\ p \notin excused
            /\ InRun(owner[p]) /\ cur[owner[p]] = p
        BY <2>15 DEF Tick, LeakInv, LeakIsExcused, Base, TypeOK
      <4> QED
        BY <2>15, <4>1 DEF Tick, InRun
    <3>2. LiveRunOnTime'
      BY <2>15, Timeouts
      DEF Tick, LeakInv, LiveRunOnTime, OnTime, HasPod, InRun, Waiting, Base, TypeOK
    <3> QED
      BY <3>1, <3>2 DEF LeakInv
  <2>16. ASSUME UNCHANGED vars PROVE LeakInv'
    BY <2>16, LeakFrame DEF vars
  <2> QED
    BY <2>1, <2>2, <2>3, <2>4, <2>5, <2>6, <2>7, <2>8, <2>9, <2>10, <2>11, <2>12,
       <2>13, <2>14, <2>15, <2>16 DEF Next, RunStep
<1>3. LeakInv => LeakIsExcused
  BY DEF LeakInv
<1> QED
  BY <1>1, <1>2, <1>3, BaseCorrect, PTL DEF Spec

-----------------------------------------------------------------------------

\* A Run that returns forgets its result.
LEMMA OutcomeReturns ==
  ASSUME Base, OutcomeSeen, NEW s \in Sessions, Returns(s), UNCHANGED phase
  PROVE  OutcomeSeen'
  BY ReturnsType DEF OutcomeSeen, HasPod

\* A step that leaves the phases alone and moves no Run that has a pod.
LEMMA OutcomeFrame ==
  ASSUME Base, OutcomeSeen, UNCHANGED <<cur, phase, result>>,
         \A s \in Sessions : pc'[s] = pc[s] \/ (~HasPod(s) /\ pc'[s] \notin {"wait", "logs", "delete"})
  PROVE  OutcomeSeen'
  BY DEF OutcomeSeen, HasPod

\* client.go, ErrPodFailed: the result of a Run is "ok" only with a pod of its
\* own that succeeded.
THEOREM OutputCorrect == Spec => []OutputOfSucceededPod
<1>1. Init => OutcomeSeen
  BY DEF Init, OutcomeSeen, HasPod
<1>2. Base /\ Base' /\ OutcomeSeen /\ [Next]_vars => OutcomeSeen'
  <2> SUFFICES ASSUME Base, Base', OutcomeSeen, [Next]_vars PROVE OutcomeSeen'
    OBVIOUS
  <2>1. ASSUME NEW s \in Sessions, RunBegins(s) \/ CleanOld(s) \/ SweepList(s)
        PROVE  OutcomeSeen'
    <3>1. \A t \in Sessions :
            pc'[t] = pc[t] \/ (~HasPod(t) /\ pc'[t] \notin {"wait", "logs", "delete"})
      BY <2>1 DEF RunBegins, CleanOld, SweepList, Goto, HasPod, Base, TypeOK
    <3> QED
      BY <2>1, <3>1, OutcomeFrame DEF RunBegins, CleanOld, SweepList, pods
  <2>2. ASSUME NEW s \in Sessions, Create(s) PROVE OutcomeSeen'
    BY <2>2 DEF Create, NewPod, Goto, OutcomeSeen, HasPod, Base, TypeOK
  <2>3. ASSUME NEW s \in Sessions,
               CreateFails(s) \/ Delete(s) \/ DeleteExpires(s) \/ Crash(s)
        PROVE  OutcomeSeen'
    BY <2>3, OutcomeReturns DEF CreateFails, NewPod, Delete, DeleteExpires, Crash, pods
  <2>4. ASSUME NEW s \in Sessions, SeesTerminalPhase(s) PROVE OutcomeSeen'
    BY <2>4 DEF SeesTerminalPhase, CheckTerminalPhase, Goto, pods, OutcomeSeen, HasPod,
                Base, TypeOK, RunHasPod, Phases
  <2>5. ASSUME NEW s \in Sessions, WaitExpires(s) \/ CheckPhaseFails(s) PROVE OutcomeSeen'
    BY <2>5 DEF WaitExpires, CheckPhaseFails, WaitFails, ToDelete, Goto, pods, OutcomeSeen,
                HasPod, Base, TypeOK
  <2>6. ASSUME NEW s \in Sessions, Logs(s) PROVE OutcomeSeen'
    BY <2>6 DEF Logs, ToDelete, Goto, pods, OutcomeSeen, HasPod, Base, TypeOK
  <2>7. ASSUME NEW s \in Sessions, Cleanup(s) PROVE OutcomeSeen'
    BY <2>7, OutcomeFrame DEF Cleanup
  <2>8. ASSUME NEW s \in Sessions, SweepDelete(s) PROVE OutcomeSeen'
    <3>1. \A t \in Sessions :
            pc'[t] = pc[t] \/ (~HasPod(t) /\ pc'[t] \notin {"wait", "logs", "delete"})
      BY <2>8 DEF SweepDelete, Goto, HasPod, Base, TypeOK
    <3> QED
      BY <2>8, <3>1, OutcomeFrame DEF SweepDelete
  <2>9. ASSUME NEW p \in PodIds, Terminates(p) PROVE OutcomeSeen'
    BY <2>9 DEF Terminates, OutcomeSeen, HasPod, Base, TypeOK, RunHasPod
  <2>10. ASSUME NEW p \in PodIds, Vanishes(p) PROVE OutcomeSeen'
    BY <2>10 DEF Vanishes, OutcomeSeen, HasPod, Base, TypeOK, RunHasPod
  <2>11. ASSUME Tick \/ UNCHANGED vars PROVE OutcomeSeen'
    BY <2>11, OutcomeFrame DEF Tick, vars
  <2> QED
    BY <2>1, <2>2, <2>3, <2>4, <2>5, <2>6, <2>7, <2>8, <2>9, <2>10, <2>11 DEF Next, RunStep
<1>3. Base /\ OutcomeSeen => OutputOfSucceededPod
  BY DEF Base, RunHasPod, OutcomeSeen, OutputOfSucceededPod, HasPod, TypeOK, PodIds, NoPod, PCs
<1> QED
  BY <1>1, <1>2, <1>3, BaseCorrect, PTL DEF Spec

-----------------------------------------------------------------------------

SparedInv == YoungPod /\ NewPodsAreYoung /\ TargetsUnused /\ LivePodSpared

\* Deleting pods that no Run waits for.
LEMMA SparedDelete ==
  ASSUME Base, SparedInv, NEW S, MarkDeleting(S) \/ UNCHANGED life,
         \A s \in Sessions : Waiting(s) => cur[s] \notin S,
         UNCHANGED <<made, age>>
  PROVE  /\ NewPodsAreYoung'
         /\ \A s \in Sessions : Waiting(s) => life'[cur[s]] = "live"
         /\ \A p \in PodIds : life'[p] = "none" <=> life[p] = "none"
<1>1. \A p \in PodIds : life'[p] = "none" <=> life[p] = "none"
  BY MarkDeletingType
<1>2. NewPodsAreYoung'
  BY <1>1 DEF SparedInv, NewPodsAreYoung
<1>3. \A s \in Sessions : Waiting(s) => life'[cur[s]] = "live"
  BY DEF SparedInv, LivePodSpared, MarkDeleting, Waiting, HasPod, Base, RunHasPod
<1> QED
  BY <1>1, <1>2, <1>3

\* A step that creates no pod, makes none older, and lets no Run have a pod
\* that it did not have.
LEMMA SparedFrame ==
  ASSUME Base, SparedInv, UNCHANGED age,
         \A s \in Sessions : pc'[s] \in {"wait", "logs", "delete"} =>
            HasPod(s) /\ budget'[s] = budget[s] /\ cur'[s] = cur[s],
         \A s \in Sessions : Waiting(s)' => Waiting(s) /\ life'[cur[s]] = "live",
         \A s \in Sessions : cur'[s] = cur[s] \/ cur'[s] = NoPod,
         \A s \in Sessions : targets'[s] \subseteq targets[s],
         \A p \in PodIds : life'[p] = "none" <=> life[p] = "none"
  PROVE  SparedInv'
<1>1. YoungPod'
  BY DEF SparedInv, YoungPod, HasPod
<1>2. NewPodsAreYoung'
  BY DEF SparedInv, NewPodsAreYoung
<1>3. TargetsUnused'
  BY DEF SparedInv, TargetsUnused, Base, TypeOK, PodIds, NoPod
<1>4. LivePodSpared'
  BY DEF LivePodSpared, Waiting
<1> QED
  BY <1>1, <1>2, <1>3, <1>4 DEF SparedInv

\* session.go, Cleanup: with run ids of their own and sweeps more patient than
\* podRunTimeout, nobody deletes the pod that another session waits for.
THEOREM LivePodCorrect ==
  ASSUME DistinctLabels, PatientSweeps
  PROVE  Spec => []LivePodSpared
<1>1. Init => SparedInv
  BY DEF Init, SparedInv, YoungPod, NewPodsAreYoung, TargetsUnused, LivePodSpared, HasPod, Waiting
<1>2. Base /\ Base' /\ SparedInv /\ [Next]_vars => SparedInv'
  <2> SUFFICES ASSUME Base, Base', SparedInv, [Next]_vars PROVE SparedInv'
    OBVIOUS
  <2>1. \A s, t \in Sessions : ~Waiting(s) /\ Waiting(t) => cur[t] \notin OwnPods(s)
    BY DistinctLabels DEF DistinctLabels, OwnPods, Waiting, Base, RunHasPod, HasPod
  <2>2. ASSUME NEW s \in Sessions, RunBegins(s) PROVE SparedInv'
    <3>1. /\ pc[s] = "idle" /\ pc'[s] = "clean" /\ UNCHANGED <<life, age, cur, targets>>
          /\ \A t \in Sessions : t # s => pc'[t] = pc[t] /\ budget'[t] = budget[t]
      BY <2>2 DEF RunBegins, Goto, pods, Base, TypeOK
    <3>2. \A t \in Sessions :
            /\ pc'[t] \in {"wait", "logs", "delete"} =>
                 HasPod(t) /\ budget'[t] = budget[t] /\ cur'[t] = cur[t]
            /\ Waiting(t)' => Waiting(t) /\ life'[cur[t]] = "live"
      BY <3>1 DEF Waiting, HasPod, SparedInv, LivePodSpared
    <3> QED
      BY <3>1, <3>2, SparedFrame
  <2>3. ASSUME NEW s \in Sessions, CleanOld(s) PROVE SparedInv'
    <3>1. /\ \A t \in Sessions : Waiting(t) => life'[cur[t]] = "live"
          /\ \A p \in PodIds : life'[p] = "none" <=> life[p] = "none"
      BY <2>1, <2>3, SparedDelete DEF CleanOld, Waiting
    <3>2. \A t \in Sessions : t # s => pc'[t] = pc[t]
      BY <2>3 DEF CleanOld, Goto, Base, TypeOK
    <3>3. pc'[s] = "create"
      BY <2>3 DEF CleanOld, Goto, Base, TypeOK
    <3> QED
      BY <2>3, <3>1, <3>2, <3>3, SparedFrame DEF CleanOld, clocks, Waiting, HasPod
  <2>4. ASSUME NEW s \in Sessions, Create(s) PROVE SparedInv'
    <3> DEFINE n == made'
    <3>1. /\ n \in PodIds /\ life[n] = "none" /\ life'[n] = "live" /\ age' = age
          /\ \A p \in PodIds : p # n => life'[p] = life[p]
      BY <2>4, NewPodType DEF Create
    <3>2. /\ pc'[s] = "wait" /\ cur'[s] = n
          /\ UNCHANGED <<budget, targets>>
          /\ \A t \in Sessions : t # s => pc'[t] = pc[t] /\ cur'[t] = cur[t]
      BY <2>4, NewPodType DEF Create, Goto, Base, TypeOK
    <3>3. age[n] = 0
      BY <3>1 DEF SparedInv, NewPodsAreYoung
    <3>4. YoungPod'
      BY <3>1, <3>2, <3>3 DEF SparedInv, YoungPod, HasPod, Base, TypeOK
    <3>5. NewPodsAreYoung'
      BY <3>1 DEF SparedInv, NewPodsAreYoung
    <3>6. TargetsUnused'
      BY <3>1, <3>2 DEF SparedInv, TargetsUnused, Base, TypeOK
    <3>7. LivePodSpared'
      BY <3>1, <3>2 DEF SparedInv, LivePodSpared, Waiting, Base, RunHasPod, HasPod
    <3> QED
      BY <3>4, <3>5, <3>6, <3>7 DEF SparedInv
  <2>5. ASSUME NEW s \in Sessions, CreateFails(s) PROVE SparedInv'
    <3>1. Returns(s) /\ UNCHANGED targets
      BY <2>5 DEF CreateFails
    <3>2. CASE NewPod(s)
      <4> DEFINE n == made'
      <4>1. /\ n \in PodIds /\ life[n] = "none" /\ life'[n] = "live" /\ age' = age
            /\ \A p \in PodIds : p # n => life'[p] = life[p]
        BY <3>2, NewPodType
      <4>2. YoungPod'
        BY <3>1, <4>1, ReturnsType DEF SparedInv, YoungPod, HasPod
      <4>3. NewPodsAreYoung'
        BY <4>1 DEF SparedInv, NewPodsAreYoung
      <4>4. TargetsUnused'
        <5> SUFFICES ASSUME NEW t \in Sessions, NEW p \in targets'[t], NEW u \in Sessions
                     PROVE  life'[p] # "none" /\ cur'[u] # p
          BY DEF TargetsUnused
        <5>1. p \in targets[t] /\ p \in PodIds
          BY <3>1 DEF Base, TypeOK
        <5>2. life[p] # "none" /\ cur[u] # p
          BY <5>1 DEF SparedInv, TargetsUnused
        <5>3. cur'[u] = cur[u] \/ cur'[u] = NoPod
          BY <3>1, ReturnsType
        <5> QED
          BY <4>1, <5>1, <5>2, <5>3 DEF PodIds, NoPod
      <4>5. LivePodSpared'
        BY <3>1, <4>1, ReturnsType DEF SparedInv, LivePodSpared, Waiting, Base, RunHasPod, HasPod
      <4> QED
        BY <4>2, <4>3, <4>4, <4>5 DEF SparedInv
    <3>3. CASE UNCHANGED pods
      BY <3>1, <3>3, SparedFrame, ReturnsType
      DEF pods, SparedInv, LivePodSpared, Waiting, HasPod
    <3> QED
      BY <2>5, <3>2, <3>3 DEF CreateFails
  <2>6. ASSUME NEW s \in Sessions,
               SeesTerminalPhase(s) \/ WaitExpires(s) \/ CheckPhaseFails(s) \/ Logs(s)
        PROVE  SparedInv'
    <3>1. /\ Waiting(s) /\ pc'[s] \in {"logs", "delete"} /\ UNCHANGED <<life, age, cur, budget, targets>>
          /\ pc[s] = "logs" => pc'[s] = "delete"
          /\ \A t \in Sessions : t # s => pc'[t] = pc[t]
      BY <2>6 DEF SeesTerminalPhase, WaitExpires, CheckPhaseFails, WaitFails, Logs, ToDelete,
                  Goto, pods, Base, TypeOK, Waiting
    <3> QED
      BY <3>1, SparedFrame DEF Waiting, HasPod, SparedInv, LivePodSpared
  <2>7. ASSUME NEW s \in Sessions, Delete(s) PROVE SparedInv'
    <3>1. /\ Returns(s) /\ UNCHANGED <<made, age, targets>> /\ pc[s] = "delete"
          /\ MarkDeleting({cur[s]}) \/ UNCHANGED life
      BY <2>7 DEF Delete
    <3>2. \A t \in Sessions : Waiting(t) => cur[t] \notin {cur[s]}
      BY <3>1 DEF Waiting, Base, RunHasPod, HasPod
    <3>3. /\ \A t \in Sessions : Waiting(t) => life'[cur[t]] = "live"
          /\ \A p \in PodIds : life'[p] = "none" <=> life[p] = "none"
      BY <3>1, <3>2, SparedDelete
    <3> QED
      BY <3>1, <3>3, SparedFrame, ReturnsType DEF Waiting, HasPod
  <2>8. ASSUME NEW s \in Sessions, DeleteExpires(s) \/ Crash(s) PROVE SparedInv'
    <3>1. /\ Returns(s) /\ UNCHANGED <<life, age>>
          /\ \A t \in Sessions : targets'[t] \subseteq targets[t]
      BY <2>8 DEF DeleteExpires, Crash, pods, Base, TypeOK
    <3> QED
      BY <3>1, SparedFrame, ReturnsType DEF Waiting, HasPod, SparedInv, LivePodSpared
  <2>9. ASSUME NEW s \in Sessions, Cleanup(s) PROVE SparedInv'
    <3>1. /\ \A t \in Sessions : Waiting(t) => life'[cur[t]] = "live"
          /\ \A p \in PodIds : life'[p] = "none" <=> life[p] = "none"
      BY <2>1, <2>9, SparedDelete DEF Cleanup, Waiting
    <3> QED
      BY <2>9, <3>1, SparedFrame DEF Cleanup, clocks, Waiting, HasPod
  <2>10. ASSUME NEW s \in Sessions, SweepList(s) PROVE SparedInv'
    <3>1. PICK chosen \in SUBSET Candidates(s) : targets' = [targets EXCEPT ![s] = chosen]
      BY <2>10 DEF SweepList
    <3>2. /\ UNCHANGED <<life, age, cur, budget>> /\ pc[s] = "idle" /\ pc'[s] = "sweep"
          /\ \A t \in Sessions : t # s => pc'[t] = pc[t]
      BY <2>10 DEF SweepList, Goto, pods, clocks, Base, TypeOK
    <3>3. \A p \in Candidates(s), t \in Sessions : life[p] # "none" /\ cur[t] # p
      <4> SUFFICES ASSUME NEW p \in Candidates(s), NEW t \in Sessions
                   PROVE  life[p] # "none" /\ cur[t] # p
        OBVIOUS
      <4>1. p \in PodIds /\ Present(p) /\ age[p] >= MaxAge
        BY DEF Candidates
      <4>2. HasPod(t) => age[cur[t]] + budget[t] <= PodRunTimeout
        BY DEF SparedInv, YoungPod
      <4>3. HasPod(t) => cur[t] # p
        BY <4>1, <4>2, PatientSweeps, CurlPodsAssumption, Timeouts
        DEF PatientSweeps, Base, TypeOK
      <4> QED
        BY <4>1, <4>3 DEF Present, Base, RunHasPod, PodIds, NoPod
    <3>4. TargetsUnused'
      BY <3>1, <3>2, <3>3 DEF SparedInv, TargetsUnused, Base, TypeOK
    <3> QED
      BY <3>2, <3>4 DEF SparedInv, YoungPod, NewPodsAreYoung, LivePodSpared, Waiting, HasPod
  <2>11. ASSUME NEW s \in Sessions, SweepDelete(s) PROVE SparedInv'
    <3>1. PICK p \in targets[s] :
            /\ MarkDeleting({p}) \/ UNCHANGED life
            /\ targets' = [targets EXCEPT ![s] = @ \ {p}]
            /\ Goto(s, IF targets[s] = {p} THEN "idle" ELSE "sweep")
      BY <2>11 DEF SweepDelete
    <3>2. /\ pc[s] = "sweep" /\ pc'[s] \in {"idle", "sweep"}
          /\ UNCHANGED <<made, age, cur, budget>>
          /\ \A t \in Sessions : t # s => pc'[t] = pc[t]
          /\ \A t \in Sessions : targets'[t] \subseteq targets[t]
      BY <2>11, <3>1 DEF SweepDelete, Goto, clocks, Base, TypeOK
    <3>3. \A t \in Sessions : Waiting(t) => cur[t] \notin {p}
      BY <3>1 DEF SparedInv, TargetsUnused
    <3>4. /\ \A t \in Sessions : Waiting(t) => life'[cur[t]] = "live"
          /\ \A q \in PodIds : life'[q] = "none" <=> life[q] = "none"
      BY <3>1, <3>2, <3>3, SparedDelete
    <3> QED
      BY <3>2, <3>4, SparedFrame DEF Waiting, HasPod
  <2>12. ASSUME NEW p \in PodIds, Terminates(p) PROVE SparedInv'
    BY <2>12, SparedFrame DEF Terminates, clocks, Waiting, HasPod, SparedInv, LivePodSpared
  <2>13. ASSUME NEW p \in PodIds, Vanishes(p) PROVE SparedInv'
    <3>1. /\ life[p] = "deleting" /\ life'[p] = "gone"
          /\ age'[p] = 0
          /\ \A q \in PodIds : q # p => life'[q] = life[q] /\ age'[q] = age[q]
          /\ UNCHANGED <<pc, cur, budget, targets>>
      BY <2>13 DEF Vanishes, clocks, Base, TypeOK
    <3>2. YoungPod'
      BY <3>1 DEF SparedInv, YoungPod, HasPod, Base, TypeOK, RunHasPod
    <3>3. NewPodsAreYoung'
      BY <3>1 DEF SparedInv, NewPodsAreYoung
    <3>4. TargetsUnused'
      BY <3>1 DEF SparedInv, TargetsUnused, Base, TypeOK
    <3>5. LivePodSpared'
      BY <3>1 DEF SparedInv, LivePodSpared, Waiting, Base, RunHasPod, HasPod
    <3> QED
      BY <3>2, <3>3, <3>4, <3>5 DEF SparedInv
  <2>14. ASSUME Tick PROVE SparedInv'
    <3>1. YoungPod'
      <4> SUFFICES ASSUME NEW t \in Sessions, HasPod(t)'
                   PROVE  age'[cur'[t]] + budget'[t] <= PodRunTimeout
        BY DEF YoungPod
      <4>1. HasPod(t) /\ cur'[t] = cur[t] /\ cur[t] \in PodIds
        BY <2>14 DEF Tick, HasPod, Base, RunHasPod
      <4>2. age[cur[t]] + budget[t] <= PodRunTimeout
        BY <4>1 DEF SparedInv, YoungPod
      <4>3. budget[t] \in Nat /\ age[cur[t]] \in Nat /\ PodRunTimeout \in Nat
        BY <4>1, CurlPodsAssumption, Timeouts DEF Base, TypeOK
      <4>4. budget[t] > 0 /\ budget'[t] = budget[t] - 1
        BY <2>14, <4>1 DEF Tick, HasPod, InRun
      <4>5. age'[cur[t]] = age[cur[t]] + 1 \/ age'[cur[t]] = age[cur[t]]
        BY <2>14, <4>1 DEF Tick
      <4> QED
        BY <4>1, <4>2, <4>3, <4>4, <4>5
    <3>2. NewPodsAreYoung'
      BY <2>14 DEF Tick, SparedInv, NewPodsAreYoung, Present
    <3>3. TargetsUnused' /\ LivePodSpared'
      BY <2>14 DEF Tick, SparedInv, TargetsUnused, LivePodSpared, Waiting
    <3> QED
      BY <3>1, <3>2, <3>3 DEF SparedInv
  <2>15. ASSUME UNCHANGED vars PROVE SparedInv'
    BY <2>15, SparedFrame DEF vars, Waiting, HasPod, SparedInv, LivePodSpared
  <2> QED
    BY <2>2, <2>3, <2>4, <2>5, <2>6, <2>7, <2>8, <2>9, <2>10, <2>11, <2>12,
       <2>13, <2>14, <2>15 DEF Next, RunStep
<1>3. SparedInv => LivePodSpared
  BY DEF SparedInv
<1> QED
  BY <1>1, <1>2, <1>3, BaseCorrect, PTL DEF Spec

=============================================================================
