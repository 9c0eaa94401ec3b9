---------------------- MODULE SummaryPublication_proofs ----------------------
(***************************************************************************)
(* Proofs about SummaryPublication, for any number of processes, names and *)
(* runs.  Two arguments: a path found free stays free until its owner      *)
(* renames onto it, because only one process writes paths of that name;    *)
(* and a run reaches the alias only on the way to a verdict that says so.  *)
(***************************************************************************)
EXTENDS SummaryPublication, TLAPS

\* A process between ChoosePath and its rename, with an ArtifactsDir.
Holding(w) == pc[w] \in {"measure", "writeUnique"} /\ dir[w]

\* The path it holds is one of its own names, and nothing is there.
PathReserved ==
  \A w \in Workers : Holding(w) =>
    /\ path[w] \in Paths
    /\ path[w][1] = base[w]
    /\ files[path[w]] = NoSummary

OwnBase == \A w \in Workers : base[w] \in NamesOf[w]

Active(w) == pc[w] # "idle"

\* Runs are numbered as they begin.
LiveRuns == \A w \in Workers : Active(w) => run[w] \in 1 .. runs

\* No two live sessions share a number, a live run has not been reported, and
\* a future one neither.
RunsDistinct ==
  /\ \A w \in Workers : Active(w) => verdict[run[w]] = "running"
  /\ \A v, w \in Workers : Active(v) /\ Active(w) /\ v # w => run[v] # run[w]
  /\ \A r \in RunIds : r > runs => verdict[r] = "running"

\* The summary a session is about to write is its own.
OwnSummary ==
  \A w \in Workers :
    pc[w] \in {"writeUnique", "writeAlias", "check"} => sum[w].run = run[w]

\* A run that a reader finds at the alias is past its alias write.
AliasSettled ==
  alias # NoSummary =>
    /\ alias.run \in 1 .. runs
    /\ \A w \in Workers : Active(w) /\ run[w] = alias.run => pc[w] = "check" /\ dir[w]

\* An evaluated summary on its way to the alias is already in the audit trail.
AuditedFirst ==
  \A w \in Workers :
    /\ pc[w] = "writeAlias"
    /\ dir[w]
    /\ sum[w].collection \in Evaluated
    => \E p \in Paths : files[p] = sum[w]

TypeInv == TypeOK /\ LiveRuns

TrailInv == TypeInv /\ OwnBase /\ PathReserved

AliasInv == TypeInv /\ RunsDistinct /\ OwnSummary /\ AliasSettled /\ AliasOfPublishedRun

AuditInv == TrailInv /\ AuditedFirst /\ AuditedAlias

-----------------------------------------------------------------------------

\* Facts about the values that the steps below compare.
LEMMA SummaryFacts ==
  /\ NoSummary \notin Summaries
  /\ \A s \in Summaries : s.run \in RunIds /\ s.run # NoRun
  /\ NoSummary.run = NoRun
  /\ NoSummary.collection \notin Evaluated
BY PublicationAssumption DEF NoSummary, Summaries, RunIds, NoRun, Evaluated

\* The type invariant holds initially.
LEMMA TypeInit == Init => TypeInv
BY PublicationAssumption
DEF Init, TypeInv, TypeOK, LiveRuns, Active, NoSummary, Summaries, RunIds, NoRun,
    Verdicts, PCs

\* Returning types the verdict and the program counter.
LEMMA ReturnType ==
  ASSUME TypeOK, NEW w \in Workers, NEW v \in Verdicts, Return(w, v)
  PROVE  /\ verdict' \in [RunIds -> Verdicts]
         /\ pc' \in [Workers -> PCs]
         /\ pc' = [pc EXCEPT ![w] = "idle"]
BY DEF TypeOK, Return, PCs

\* Every action preserves the types.
LEMMA TypeStep == TypeInv /\ [Next]_vars => TypeInv'
<1> SUFFICES ASSUME TypeInv, [Next]_vars  PROVE TypeInv'  OBVIOUS
<1> USE PublicationAssumption
    DEF TypeInv, TypeOK, LiveRuns, Active, session, disk, PCs, Verdicts
<1>1. ASSUME NEW w \in Workers, NewSession(w)  PROVE TypeInv'
  BY <1>1, SummaryFacts DEF NewSession
<1>2. ASSUME NEW w \in Workers, Start(w)  PROVE TypeInv'
  BY <1>2 DEF Start
<1>3. ASSUME NEW w \in Workers, EndNotStarted(w)  PROVE TypeInv'
  BY <1>3, ReturnType DEF EndNotStarted
<1>4. ASSUME NEW w \in Workers, ChoosePath(w)  PROVE TypeInv'
  BY <1>4 DEF ChoosePath, Paths
<1>5. ASSUME NEW w \in Workers, ChoosePathFails(w)  PROVE TypeInv'
  BY <1>5 DEF ChoosePathFails
<1>6. ASSUME NEW w \in Workers, ExecuteRejects(w)  PROVE TypeInv'
  BY <1>6 DEF ExecuteRejects
<1>7. ASSUME NEW w \in Workers, Measure(w)  PROVE TypeInv'
  <2>1. run[w] \in RunIds  BY <1>7 DEF Measure, RunIds
  <2>2. QED  BY <1>7, <2>1 DEF Measure, Summaries
<1>8. ASSUME NEW w \in Workers, WriteUnique(w)  PROVE TypeInv'
  BY <1>8 DEF WriteUnique
<1>9. ASSUME NEW w \in Workers, WriteUniqueFails(w)  PROVE TypeInv'
  BY <1>9 DEF WriteUniqueFails, UniqueWriteFailed
<1>10. ASSUME NEW w \in Workers, WriteAlias(w)  PROVE TypeInv'
  BY <1>10 DEF WriteAlias
<1>11. ASSUME NEW w \in Workers, WriteAliasFails(w)  PROVE TypeInv'
  BY <1>11 DEF WriteAliasFails
<1>12. ASSUME NEW w \in Workers, CheckPolicies(w)  PROVE TypeInv'
  BY <1>12, ReturnType DEF CheckPolicies
<1>13. ASSUME NEW w \in Workers, Invalidate(w)  PROVE TypeInv'
  BY <1>13, ReturnType DEF Invalidate
<1>14. ASSUME NEW w \in Workers, InvalidateFails(w)  PROVE TypeInv'
  BY <1>14, ReturnType DEF InvalidateFails
<1>15. ASSUME NEW w \in Workers, Crash(w)  PROVE TypeInv'
  BY <1>15, ReturnType DEF Crash
<1>16. CASE UNCHANGED vars  BY <1>16 DEF vars
<1>17. QED
  BY <1>1, <1>2, <1>3, <1>4, <1>5, <1>6, <1>7, <1>8, <1>9, <1>10, <1>11, <1>12,
     <1>13, <1>14, <1>15, <1>16 DEF Next, End

\* The type invariant, for every constant.
THEOREM PublicationTypeCorrect == Spec => []TypeOK
<1>1. TypeInv => TypeOK  BY DEF TypeInv
<1>2. QED  BY <1>1, TypeInit, TypeStep, PTL DEF Spec

-----------------------------------------------------------------------------
(***************************************************************************)
(* The audit trail                                                         *)
(***************************************************************************)

\* Only the rename in WriteUnique changes an audit file, and only its own.
LEMMA FilesStep ==
  ASSUME TypeInv, [Next]_vars
  PROVE  \/ UNCHANGED files
         \/ \E w \in Workers :
              /\ WriteUnique(w)
              /\ Holding(w)
              /\ files' = [files EXCEPT ![path[w]] = sum[w]]
BY DEF Next, End, vars, disk, NewSession, Start, EndNotStarted, ChoosePath,
       ChoosePathFails, ExecuteRejects, Measure, WriteUnique, WriteUniqueFails,
       WriteAlias, WriteAliasFails, CheckPolicies, Invalidate, InvalidateFails, Crash,
       Holding

\* A process comes to hold a path only by choosing one; while it holds it,
\* its path, base name and directory stay the same.
LEMMA HoldingStep ==
  ASSUME TypeInv, [Next]_vars, NEW w \in Workers, Holding(w)'
  PROVE  \/ ChoosePath(w) /\ dir[w]
         \/ Holding(w) /\ path'[w] = path[w] /\ base'[w] = base[w]
<1> USE DEF Holding, TypeInv, TypeOK
<1>1. CASE UNCHANGED vars  BY <1>1 DEF vars
<1>2. ASSUME NEW v \in Workers, NewSession(v) \/ Start(v) \/ End(v) \/ Crash(v)
      PROVE  \/ ChoosePath(w) /\ dir[w]
             \/ Holding(w) /\ path'[w] = path[w] /\ base'[w] = base[w]
  BY <1>2
  DEF session, End, NewSession, Start, Return, EndNotStarted, ChoosePath,
      ChoosePathFails, ExecuteRejects, Measure, WriteUnique, WriteUniqueFails,
      UniqueWriteFailed, WriteAlias, WriteAliasFails, CheckPolicies, Invalidate,
      InvalidateFails, Crash, Evaluated
<1>3. QED  BY <1>1, <1>2 DEF Next

\* Every action keeps the held paths free.
LEMMA TrailStep == DisjointNames /\ TrailInv /\ [Next]_vars => TrailInv'
<1> SUFFICES ASSUME DisjointNames, TrailInv, [Next]_vars  PROVE TrailInv'
  OBVIOUS
<1> USE DEF TrailInv
<1>1. TypeInv'  BY TypeStep
<1>2. OwnBase'
  BY PublicationAssumption
  DEF OwnBase, TypeInv, TypeOK, Next, End, vars, session, NewSession, Start, EndNotStarted,
      ChoosePath, ChoosePathFails, ExecuteRejects, Measure, WriteUnique, WriteUniqueFails,
      WriteAlias, WriteAliasFails, CheckPolicies, Invalidate, InvalidateFails, Crash
<1>3. ASSUME NEW w \in Workers, Holding(w)'
      PROVE  (path[w] \in Paths /\ path[w][1] = base[w] /\ files[path[w]] = NoSummary)'
  <2>1. CASE ChoosePath(w) /\ dir[w]
    <3>1. PICK i \in Suffixes :
             /\ files[<<base[w], i>>] = NoSummary
             /\ path' = [path EXCEPT ![w] = <<base[w], i>>]
      BY <2>1 DEF ChoosePath, IsNextSuffix
    <3>2. files' = files /\ base' = base  BY <2>1 DEF ChoosePath, disk, session
    <3>3. path'[w] = <<base[w], i>>  BY <3>1 DEF TypeInv, TypeOK
    <3>4. <<base[w], i>> \in Paths  BY DEF Paths, TypeInv, TypeOK
    <3>5. QED  BY <3>1, <3>2, <3>3, <3>4
  <2>2. CASE Holding(w) /\ path'[w] = path[w] /\ base'[w] = base[w]
    <3>1. path[w] \in Paths /\ path[w][1] = base[w] /\ files[path[w]] = NoSummary
      BY <2>2 DEF PathReserved
    <3>2. CASE UNCHANGED files  BY <2>2, <3>1, <3>2
    <3>3. ASSUME NEW v \in Workers, WriteUnique(v), Holding(v),
                 files' = [files EXCEPT ![path[v]] = sum[v]]
          PROVE  files'[path[w]] = NoSummary
      <4>1. v # w  BY <1>3, <3>3 DEF WriteUnique, Holding, TypeInv, TypeOK
      <4>2. base[v] # base[w]  BY <4>1 DEF DisjointNames, OwnBase
      <4>3. path[v] # path[w]  BY <3>1, <3>3, <4>2 DEF PathReserved
      <4>4. QED  BY <3>1, <3>3, <4>3 DEF TypeInv, TypeOK
    <3>4. QED  BY <2>2, <3>1, <3>2, <3>3, FilesStep
  <2>3. QED  BY <1>3, <2>1, <2>2, HoldingStep
<1>4. QED  BY <1>1, <1>2, <1>3 DEF PathReserved

\* Nothing is held and every process has a base name of its own to begin with.
LEMMA TrailInit == Init => TrailInv
BY TypeInit DEF Init, TrailInv, OwnBase, PathReserved, Holding

\* A file that is there is never written again.
LEMMA FilesKept ==
  ASSUME TrailInv, [Next]_vars
  PROVE  \A p \in Paths : files[p] # NoSummary => files'[p] = files[p]
<1>1. CASE UNCHANGED files  BY <1>1
<1>2. ASSUME NEW w \in Workers, Holding(w),
             files' = [files EXCEPT ![path[w]] = sum[w]]
      PROVE  \A p \in Paths : files[p] # NoSummary => files'[p] = files[p]
  BY <1>2 DEF TrailInv, PathReserved, TypeInv, TypeOK
<1>3. QED  BY <1>1, <1>2, FilesStep DEF TrailInv

\* With names of their own, no process ever overwrites an audit file: neither
\* another's nor its own from an earlier run of the same test.
THEOREM AuditTrailCorrect ==
  ASSUME DisjointNames
  PROVE  Spec => AuditTrailPreserved
<1>1. TrailInv /\ [Next]_vars
        => [\A p \in Paths : files[p] # NoSummary => files'[p] = files[p]]_vars
  BY FilesKept
<1>2. TrailInv /\ [Next]_vars => TrailInv'  BY TrailStep
<1>3. QED  BY <1>1, <1>2, TrailInit, PTL DEF Spec, AuditTrailPreserved

-----------------------------------------------------------------------------
(***************************************************************************)
(* The alias                                                               *)
(***************************************************************************)

\* No run has begun.
LEMMA AliasInit == Init => AliasInv
BY TypeInit, PublicationAssumption
DEF Init, AliasInv, RunsDistinct, OwnSummary, AliasSettled, AliasOfPublishedRun, Active

\* A report ends its session: what it says is the only verdict that changes.
LEMMA ReturnRuns ==
  ASSUME TypeInv, RunsDistinct, NEW w \in Workers, Active(w), NEW v \in Verdicts,
         Return(w, v), run' = run, runs' = runs
  PROVE  /\ RunsDistinct'
         /\ run[w] \in RunIds
         /\ verdict'[run[w]] = v
         /\ \A r \in RunIds : r # run[w] => verdict'[r] = verdict[r]
<1> USE DEF TypeInv, TypeOK, LiveRuns, Active, Return
<1>1. run[w] \in 1 .. runs /\ run[w] \in RunIds
  BY PublicationAssumption DEF RunIds
<1>2. verdict'[run[w]] = v /\ \A r \in RunIds : r # run[w] => verdict'[r] = verdict[r]
  BY <1>1
<1>3. \A u \in Workers : Active(u)' => Active(u) /\ u # w  OBVIOUS
<1>4. \A u \in Workers : Active(u)' => run[u] \in RunIds /\ run[u] # run[w]
  BY <1>3, PublicationAssumption DEF RunsDistinct, RunIds
<1>5. (\A u \in Workers : Active(u) => verdict[run[u]] = "running")'
  BY <1>2, <1>3, <1>4 DEF RunsDistinct
<1>6. (\A u, t \in Workers : Active(u) /\ Active(t) /\ u # t => run[u] # run[t])'
  BY <1>3 DEF RunsDistinct
<1>7. (\A r \in RunIds : r > runs => verdict[r] = "running")'
  <2> SUFFICES ASSUME NEW r \in RunIds, r > runs  PROVE verdict'[r] = "running"
    OBVIOUS
  <2>1. r # run[w]  BY <1>1 DEF RunIds
  <2>2. QED  BY <1>2, <2>1 DEF RunsDistinct
<1>8. QED  BY <1>1, <1>2, <1>5, <1>6, <1>7 DEF RunsDistinct

\* A report that the caller can reconcile with the alias, or that empties it.
LEMMA ReturnAlias ==
  ASSUME AliasInv, TypeInv', NEW w \in Workers, Active(w), NEW v \in Verdicts,
         Return(w, v), run' = run, runs' = runs, sum' = sum, dir' = dir,
         \/ alias' = NoSummary
         \/ alias' = alias /\ (v \in {"ok", "policy", "crashed"} \/ ~(pc[w] = "check" /\ dir[w]))
  PROVE  AliasInv'
<1> USE DEF AliasInv
<1>1. /\ RunsDistinct'
      /\ run[w] \in RunIds
      /\ verdict'[run[w]] = v
      /\ \A r \in RunIds : r # run[w] => verdict'[r] = verdict[r]
  BY ReturnRuns
<1>2. pc' = [pc EXCEPT ![w] = "idle"]  BY DEF Return
<1>3. OwnSummary'  BY <1>2 DEF OwnSummary, TypeInv, TypeOK
<1>4. AliasSettled'  BY <1>2 DEF AliasSettled, Active, TypeInv, TypeOK
<1>5. AliasOfPublishedRun'
  <2> SUFFICES ASSUME alias' # NoSummary
               PROVE  verdict'[alias'.run] \in {"running", "ok", "policy", "crashed"}
    BY DEF AliasOfPublishedRun
  <2>1. alias' = alias /\ (v \in {"ok", "policy", "crashed"} \/ ~(pc[w] = "check" /\ dir[w]))
    OBVIOUS
  <2>2. alias.run \in RunIds  BY <2>1, SummaryFacts DEF TypeInv, TypeOK
  <2>3. CASE alias.run = run[w]
    BY <1>1, <2>1, <2>3 DEF AliasSettled
  <2>4. CASE alias.run # run[w]
    BY <1>1, <2>1, <2>2, <2>4 DEF AliasOfPublishedRun
  <2>5. QED  BY <2>3, <2>4
<1>6. QED  BY <1>1, <1>3, <1>4, <1>5

\* Every action keeps the alias that of a run still unreported or published.
LEMMA AliasStep == AliasInv /\ [Next]_vars => AliasInv'
<1> SUFFICES ASSUME AliasInv, [Next]_vars  PROVE AliasInv'  OBVIOUS
<1> USE DEF AliasInv
<1>0. TypeInv'  BY TypeStep
<1>1. ASSUME NEW w \in Workers, NewSession(w)  PROVE AliasInv'
  <2> USE <1>1 DEF NewSession, disk, Active, TypeInv, TypeOK, LiveRuns
  <2>1. /\ runs \in Nat /\ runs' = runs + 1 /\ runs' \in RunIds
        /\ run' = [run EXCEPT ![w] = runs']
        /\ pc' = [pc EXCEPT ![w] = "new"]
        /\ pc[w] = "idle"
        /\ verdict' = verdict /\ alias' = alias
        /\ \A u \in Workers : u # w => sum'[u] = sum[u] /\ dir'[u] = dir[u]
    BY PublicationAssumption DEF RunIds
  <2>2. \A u \in Workers : u # w /\ Active(u) => run[u] \in RunIds /\ run[u] # runs'
    BY <2>1, PublicationAssumption DEF RunIds
  <2>3. verdict[runs'] = "running"  BY <2>1 DEF RunsDistinct
  <2>4. RunsDistinct'
    <3>1. (\A u \in Workers : Active(u) => verdict[run[u]] = "running")'
      BY <2>1, <2>2, <2>3 DEF RunsDistinct
    <3>2. (\A u, t \in Workers : Active(u) /\ Active(t) /\ u # t => run[u] # run[t])'
      BY <2>1, <2>2 DEF RunsDistinct
    <3>3. (\A r \in RunIds : r > runs => verdict[r] = "running")'
      BY <2>1 DEF RunsDistinct, RunIds
    <3>4. QED  BY <3>1, <3>2, <3>3 DEF RunsDistinct
  <2>5. OwnSummary'  BY <2>1 DEF OwnSummary
  <2>6. AliasSettled'  BY <2>1 DEF AliasSettled
  <2>7. AliasOfPublishedRun'  BY <2>1 DEF AliasOfPublishedRun
  <2>8. QED  BY <1>0, <2>4, <2>5, <2>6, <2>7
<1>2. ASSUME NEW w \in Workers,
             pc[w] \in {"new", "started", "measure", "writeUnique", "writeAlias"},
             NEW q \in {"started", "measure", "writeUnique", "writeAlias", "invalidate"},
             pc' = [pc EXCEPT ![w] = q],
             alias' = alias, runs' = runs, verdict' = verdict, run' = run, dir' = dir,
             \/ /\ sum' = sum
                /\ q = "writeAlias" => pc[w] = "writeUnique"
                /\ q # "writeUnique"
             \/ sum'[w].run = run[w] /\ \A u \in Workers : u # w => sum'[u] = sum[u]
      PROVE  AliasInv'
  <2>1. RunsDistinct'  BY <1>2 DEF RunsDistinct, Active, TypeInv, TypeOK
  <2>2. OwnSummary'  BY <1>2 DEF OwnSummary, TypeInv, TypeOK
  <2>3. AliasSettled'  BY <1>2 DEF AliasSettled, Active, TypeInv, TypeOK
  <2>4. AliasOfPublishedRun'  BY <1>2 DEF AliasOfPublishedRun
  <2>5. QED  BY <1>0, <2>1, <2>2, <2>3, <2>4
<1>3. ASSUME NEW w \in Workers,
             \/ Start(w) \/ ChoosePath(w) \/ ChoosePathFails(w) \/ ExecuteRejects(w)
             \/ WriteUnique(w) \/ WriteUniqueFails(w) \/ WriteAliasFails(w)
      PROVE  AliasInv'
  BY <1>2, <1>3
  DEF Start, ChoosePath, ChoosePathFails, ExecuteRejects, WriteUnique, WriteUniqueFails,
      UniqueWriteFailed, WriteAliasFails, session, disk
<1>4. ASSUME NEW w \in Workers, Measure(w)  PROVE AliasInv'
  <2>1. sum'[w].run = run[w] /\ \A u \in Workers : u # w => sum'[u] = sum[u]
    BY <1>4 DEF Measure, TypeInv, TypeOK
  <2>2. QED  BY <1>2, <1>4, <2>1 DEF Measure, session, disk
<1>5. ASSUME NEW w \in Workers, WriteAlias(w)  PROVE AliasInv'
  <2> USE <1>5 DEF WriteAlias, session
  <2>1. /\ pc' = [pc EXCEPT ![w] = "check"] /\ pc[w] = "writeAlias"
        /\ runs' = runs /\ verdict' = verdict /\ run' = run /\ sum' = sum /\ dir' = dir
        /\ alias' = IF dir[w] THEN sum[w] ELSE alias
    OBVIOUS
  <2>2. /\ sum[w].run = run[w] /\ run[w] \in 1 .. runs
        /\ verdict[run[w]] = "running"
    BY <2>1 DEF OwnSummary, RunsDistinct, TypeInv, LiveRuns, Active
  <2>3. RunsDistinct'  BY <2>1 DEF RunsDistinct, Active, TypeInv, TypeOK
  <2>4. OwnSummary'  BY <2>1 DEF OwnSummary, TypeInv, TypeOK
  <2>5. AliasSettled'
    BY <2>1, <2>2 DEF AliasSettled, RunsDistinct, Active, TypeInv, TypeOK
  <2>6. AliasOfPublishedRun'  BY <2>1, <2>2 DEF AliasOfPublishedRun
  <2>7. QED  BY <1>0, <2>3, <2>4, <2>5, <2>6
<1>6. ASSUME NEW w \in Workers, NEW v \in Verdicts, Active(w), Return(w, v),
             run' = run, runs' = runs, sum' = sum, dir' = dir,
             \/ alias' = NoSummary
             \/ alias' = alias /\ (v \in {"ok", "policy", "crashed"} \/ ~(pc[w] = "check" /\ dir[w]))
      PROVE  AliasInv'
  BY <1>0, <1>6, ReturnAlias
<1>7. ASSUME NEW w \in Workers, EndNotStarted(w)  PROVE AliasInv'
  BY <1>6, <1>7 DEF EndNotStarted, session, disk, Active, Verdicts
<1>8. ASSUME NEW w \in Workers, CheckPolicies(w)  PROVE AliasInv'
  <2>1. CASE dir[w]
    BY <1>6, <1>8, <2>1 DEF CheckPolicies, session, disk, Active, Verdicts
  <2>2. CASE ~dir[w]
    BY <1>6, <1>8, <2>2 DEF CheckPolicies, session, disk, Active, Verdicts
  <2>3. QED  BY <2>1, <2>2
<1>9. ASSUME NEW w \in Workers, Invalidate(w)  PROVE AliasInv'
  BY <1>6, <1>9 DEF Invalidate, session, Active, Verdicts
<1>10. ASSUME NEW w \in Workers, InvalidateFails(w)  PROVE AliasInv'
  BY <1>6, <1>10 DEF InvalidateFails, session, disk, Active, Verdicts
<1>11. ASSUME NEW w \in Workers, Crash(w)  PROVE AliasInv'
  BY <1>6, <1>11 DEF Crash, session, disk, Active, Verdicts
<1>12. CASE UNCHANGED vars
  BY <1>0, <1>12
  DEF vars, RunsDistinct, OwnSummary, AliasSettled, AliasOfPublishedRun, Active
<1>13. QED
  BY <1>1, <1>3, <1>4, <1>5, <1>7, <1>8, <1>9, <1>10, <1>11, <1>12 DEF Next, End

\* The gate's default input never shows a run reported as unpublished.
THEOREM AliasCorrect == Spec => []AliasOfPublishedRun
<1>1. AliasInv => AliasOfPublishedRun  BY DEF AliasInv
<1>2. QED  BY <1>1, AliasInit, AliasStep, PTL DEF Spec

-----------------------------------------------------------------------------
(***************************************************************************)
(* The alias against the audit trail                                       *)
(***************************************************************************)

\* A session gets to its alias write only from its audit write, done or failed.
LEMMA AliasWriteStep ==
  ASSUME TypeInv, [Next]_vars, NEW w \in Workers, pc'[w] = "writeAlias"
  PROVE  /\ sum'[w] = sum[w] /\ dir'[w] = dir[w]
         /\ pc[w] = "writeAlias" \/ WriteUnique(w) \/ sum[w].collection \notin Evaluated
<1> USE DEF TypeInv, TypeOK
<1>1. CASE UNCHANGED vars  BY <1>1 DEF vars
<1>2. ASSUME NEW v \in Workers, NewSession(v) \/ Start(v) \/ End(v) \/ Crash(v)
      PROVE  /\ sum'[w] = sum[w] /\ dir'[w] = dir[w]
             /\ pc[w] = "writeAlias" \/ WriteUnique(w) \/ sum[w].collection \notin Evaluated
  BY <1>2
  DEF session, End, NewSession, Start, Return, EndNotStarted, ChoosePath,
      ChoosePathFails, ExecuteRejects, Measure, WriteUnique, WriteUniqueFails,
      UniqueWriteFailed, WriteAlias, WriteAliasFails, CheckPolicies, Invalidate,
      InvalidateFails, Crash, Evaluated
<1>3. QED  BY <1>1, <1>2 DEF Next

\* The alias stays, is removed, or becomes the summary of an alias write.
LEMMA AliasValueStep ==
  ASSUME [Next]_vars
  PROVE  \/ alias' = alias
         \/ alias' = NoSummary
         \/ \E w \in Workers :
              /\ pc[w] = "writeAlias" /\ dir[w]
              /\ alias' = sum[w] /\ files' = files
BY DEF Next, End, vars, disk, NewSession, Start, EndNotStarted, ChoosePath,
       ChoosePathFails, ExecuteRejects, Measure, WriteUnique, WriteUniqueFails,
       WriteAlias, WriteAliasFails, CheckPolicies, Invalidate, InvalidateFails, Crash

\* Every action keeps the audit file of an evaluated summary at the alias.
LEMMA AuditStep == DisjointNames /\ AuditInv /\ [Next]_vars => AuditInv'
<1> SUFFICES ASSUME DisjointNames, AuditInv, [Next]_vars  PROVE AuditInv'
  OBVIOUS
<1> USE DEF AuditInv
<1>1. TrailInv'  BY TrailStep
<1>2. TypeInv  BY DEF TrailInv
<1>3. ASSUME NEW s, s # NoSummary, \E p \in Paths : files[p] = s
      PROVE  \E p \in Paths : files'[p] = s
  BY <1>3, FilesKept
<1>4. ASSUME NEW w \in Workers, pc'[w] = "writeAlias", dir'[w],
             sum'[w].collection \in Evaluated
      PROVE  \E p \in Paths : files'[p] = sum'[w]
  <2>1. /\ sum'[w] = sum[w] /\ dir[w]
        /\ pc[w] = "writeAlias" \/ WriteUnique(w)
    BY <1>2, <1>4, AliasWriteStep
  <2>2. CASE pc[w] = "writeAlias"
    <3>1. sum[w] # NoSummary  BY <1>4, <2>1, SummaryFacts
    <3>2. \E p \in Paths : files[p] = sum[w]
      BY <1>4, <2>1, <2>2 DEF AuditedFirst
    <3>3. QED  BY <1>3, <2>1, <3>1, <3>2
  <2>3. CASE WriteUnique(w)
    <3>1. path[w] \in Paths
      BY <2>1, <2>3 DEF TrailInv, PathReserved, Holding, WriteUnique
    <3>2. files'[path[w]] = sum[w]
      BY <1>2, <2>1, <2>3, <3>1 DEF WriteUnique, TypeInv, TypeOK
    <3>3. QED  BY <2>1, <3>1, <3>2
  <2>4. QED  BY <2>1, <2>2, <2>3
<1>5. AuditedFirst'  BY <1>4 DEF AuditedFirst
<1>6. AuditedAlias'
  <2> SUFFICES ASSUME alias'.collection \in Evaluated
               PROVE  \E p \in Paths : files'[p] = alias'
    BY DEF AuditedAlias
  <2>1. alias' # NoSummary  BY SummaryFacts
  <2>2. CASE alias' = alias
    BY <1>3, <2>1, <2>2 DEF AuditedAlias
  <2>3. ASSUME NEW w \in Workers, pc[w] = "writeAlias", dir[w],
               alias' = sum[w], files' = files
        PROVE  \E p \in Paths : files'[p] = alias'
    BY <2>3 DEF AuditedFirst
  <2>4. QED  BY <2>1, <2>2, <2>3, AliasValueStep
<1>7. QED  BY <1>1, <1>5, <1>6

\* There is no alias to begin with.
LEMMA AuditInit == Init => AuditInv
BY TrailInit, SummaryFacts DEF Init, AuditInv, AuditedFirst, AuditedAlias

\* With names of their own, an evaluated summary at the alias is always in the
\* audit trail too.
THEOREM AuditedAliasCorrect ==
  ASSUME DisjointNames
  PROVE  Spec => []AuditedAlias
<1>1. AuditInv => AuditedAlias  BY DEF AuditInv
<1>2. AuditInv /\ [Next]_vars => AuditInv'  BY AuditStep
<1>3. QED  BY <1>1, <1>2, AuditInit, PTL DEF Spec

-----------------------------------------------------------------------------
(***************************************************************************)
(* The refinement of CurrentEvidence by sequential sessions                *)
(***************************************************************************)

\* With one process the live run is the newest, and once it has passed its
\* alias write the alias is its own.
NewestIsLive ==
  \A w \in Workers : Active(w) =>
    /\ run[w] = runs
    /\ pc[w] = "check" /\ dir[w] => alias.run = runs

SoloInv == AliasInv /\ NewestIsLive

told == IF runs = 0 THEN "nothing" ELSE Told(verdict[runs])

\* No run has begun.
LEMMA SoloInit == Init => SoloInv /\ CE!Init
<1>1. Init => AliasInv  BY AliasInit
<1>2. Init => NewestIsLive  BY DEF Init, NewestIsLive, Active
<1>3. Init => CE!Init  BY DEF Init, CE!Init, NoSummary, NoRun
<1>4. QED  BY <1>1, <1>2, <1>3 DEF SoloInv

\* With one process every action keeps the live run the newest.
LEMMA SoloStep == SequentialTests /\ SoloInv /\ [Next]_vars => SoloInv'
<1> SUFFICES ASSUME SequentialTests, SoloInv, [Next]_vars  PROVE SoloInv'
  OBVIOUS
<1>1. AliasInv /\ AliasInv'  BY AliasStep DEF SoloInv
<1>2. TypeInv /\ TypeInv' /\ OwnSummary  BY <1>1 DEF AliasInv
<1>3. ASSUME NEW w \in Workers, Active(w)'
      PROVE  (run[w] = runs /\ (pc[w] = "check" /\ dir[w] => alias.run = runs))'
  <2> USE <1>2, <1>3 DEF TypeInv, TypeOK, Active
  <2>1. CASE UNCHANGED vars
    BY <2>1 DEF vars, SoloInv, NewestIsLive
  <2>2. CASE NewSession(w)
    BY <2>2 DEF NewSession
  <2>3. CASE WriteAlias(w)
    <3>1. sum[w].run = run[w] /\ run[w] = runs
      BY <2>3 DEF WriteAlias, OwnSummary, SoloInv, NewestIsLive
    <3>2. QED  BY <2>3, <3>1 DEF WriteAlias, session
  <2>4. CASE Start(w) \/ ChoosePath(w) \/ ChoosePathFails(w) \/ ExecuteRejects(w)
             \/ Measure(w) \/ WriteUnique(w) \/ WriteUniqueFails(w) \/ WriteAliasFails(w)
    BY <2>4
    DEF SoloInv, NewestIsLive, session, Start, ChoosePath, ChoosePathFails, ExecuteRejects,
        Measure, WriteUnique, WriteUniqueFails, UniqueWriteFailed, WriteAliasFails
  <2>5. CASE EndNotStarted(w) \/ CheckPolicies(w) \/ Invalidate(w) \/ InvalidateFails(w)
             \/ Crash(w)
    BY <2>5 DEF EndNotStarted, CheckPolicies, Invalidate, InvalidateFails, Crash, Return
  <2>6. QED
    BY <2>1, <2>2, <2>3, <2>4, <2>5 DEF Next, End, SequentialTests
<1>4. QED  BY <1>1, <1>3 DEF SoloInv, NewestIsLive

\* A report of the live run is a report of the newest run.
LEMMA ReportStep ==
  ASSUME SoloInv, NEW w \in Workers, Active(w), NEW v \in Verdicts \ {"running"},
         Return(w, v), runs' = runs,
         \/ v \in {"ok", "policy"} /\ alias' = alias /\ pc[w] = "check" /\ dir[w]
         \/ v = "failed" /\ alias' = NoSummary
         \/ v \notin {"ok", "policy", "failed"} /\ alias' = alias
  PROVE  CE!Report
<1> USE DEF SoloInv, AliasInv, TypeInv, TypeOK
<1>1. run[w] = runs /\ runs \in RunIds /\ runs # 0 /\ verdict[runs] = "running"
  BY PublicationAssumption DEF NewestIsLive, RunsDistinct, LiveRuns, Active, RunIds
<1>2. verdict'[runs] = v  BY <1>1 DEF Return
<1>3. told = "nothing" /\ told' = Told(v)
  BY <1>1, <1>2 DEF told, Told
<1>4. \/ Told(v) = "published" /\ alias.run = runs /\ alias' = alias
      \/ Told(v) = "withdrawn" /\ alias'.run = 0
      \/ Told(v) = "noPromise" /\ alias' = alias
  <2>1. CASE v \in {"ok", "policy"}
    BY <2>1 DEF Told, NewestIsLive, Active
  <2>2. CASE v = "failed"  BY <2>2 DEF Told, NoSummary, NoRun
  <2>3. CASE v \notin {"running", "ok", "policy", "failed"}  BY <2>3 DEF Told
  <2>4. QED  BY <2>1, <2>2, <2>3
<1>5. QED  BY <1>1, <1>3, <1>4 DEF CE!Report, told

\* Every step of sequential sessions is a step of CurrentEvidence or none.
LEMMA EvidenceStep ==
  SequentialTests /\ SoloInv /\ [Next]_vars => [CE!Next]_(CE!evidence)
<1> SUFFICES ASSUME SequentialTests, SoloInv, [Next]_vars
             PROVE  [CE!Next]_(CE!evidence)
  OBVIOUS
<1> USE DEF SoloInv, AliasInv, TypeInv, TypeOK
<1>1. ASSUME UNCHANGED <<alias, runs, verdict>>  PROVE UNCHANGED CE!evidence
  BY <1>1 DEF CE!evidence
<1>2. ASSUME NEW w \in Workers, NewSession(w)  PROVE CE!Begin
  <2>1. runs' = runs + 1 /\ runs' \in RunIds /\ alias' = alias /\ verdict' = verdict
    BY <1>2, PublicationAssumption DEF NewSession, disk, RunIds
  <2>2. verdict[runs'] = "running"  BY <2>1 DEF RunsDistinct
  <2>3. told' = "nothing"  BY <2>1, <2>2 DEF told, Told
  <2>4. QED  BY <2>1, <2>3 DEF CE!Begin, told
<1>3. ASSUME NEW w \in Workers, WriteAlias(w)  PROVE CE!Publish \/ UNCHANGED CE!evidence
  <2>1. runs' = runs /\ verdict' = verdict /\ alias' = IF dir[w] THEN sum[w] ELSE alias
    BY <1>3 DEF WriteAlias
  <2>2. CASE ~dir[w]  BY <1>1, <2>1, <2>2
  <2>3. CASE dir[w]
    <3>1. /\ run[w] = runs /\ runs # 0 /\ runs \in Nat
          /\ verdict[runs] = "running"
          /\ sum[w].run = runs
      BY <1>3, PublicationAssumption
      DEF WriteAlias, NewestIsLive, RunsDistinct, LiveRuns, OwnSummary, Active
    <3>2. told = "nothing" /\ told' = told  BY <2>1, <3>1 DEF told, Told
    <3>3. QED  BY <2>1, <2>3, <3>1, <3>2 DEF CE!Publish, told
  <2>4. QED  BY <2>2, <2>3
<1>4. ASSUME NEW w \in Workers, EndNotStarted(w)  PROVE CE!Report
  BY <1>4, ReportStep DEF EndNotStarted, Active, Verdicts, disk
<1>5. ASSUME NEW w \in Workers, CheckPolicies(w)  PROVE CE!Report
  <2>1. PICK v \in {"ok", "policy"} : Return(w, IF dir[w] THEN v ELSE "unpublished")
    BY <1>5 DEF CheckPolicies
  <2>2. pc[w] = "check" /\ Active(w) /\ runs' = runs /\ alias' = alias
    BY <1>5 DEF CheckPolicies, Active, disk
  <2>3. CASE dir[w]  BY <2>1, <2>2, <2>3, ReportStep DEF Verdicts
  <2>4. CASE ~dir[w]
    <3>1. Return(w, "unpublished")  BY <2>1, <2>4
    <3>2. QED  BY <2>2, <3>1, ReportStep DEF Verdicts
  <2>5. QED  BY <2>3, <2>4
<1>6. ASSUME NEW w \in Workers, Invalidate(w)  PROVE CE!Report
  <2>1. CASE dir[w]  BY <1>6, <2>1, ReportStep DEF Invalidate, Active, Verdicts
  <2>2. CASE ~dir[w]  BY <1>6, <2>2, ReportStep DEF Invalidate, Active, Verdicts
  <2>3. QED  BY <2>1, <2>2
<1>7. ASSUME NEW w \in Workers, InvalidateFails(w)  PROVE CE!Report
  BY <1>7, ReportStep DEF InvalidateFails, Active, Verdicts, disk
<1>8. ASSUME NEW w \in Workers, Crash(w)  PROVE CE!Report
  BY <1>8, ReportStep DEF Crash, Active, Verdicts, disk
<1>9. ASSUME NEW w \in Workers,
             \/ Start(w) \/ ChoosePath(w) \/ ChoosePathFails(w) \/ ExecuteRejects(w)
             \/ Measure(w) \/ WriteUnique(w) \/ WriteUniqueFails(w) \/ WriteAliasFails(w)
      PROVE  UNCHANGED <<alias, runs, verdict>>
  BY <1>9
  DEF Start, ChoosePath, ChoosePathFails, ExecuteRejects, Measure, WriteUnique,
      WriteUniqueFails, WriteAliasFails, disk
<1>10. CASE UNCHANGED vars  BY <1>1, <1>10 DEF vars
<1>11. QED
  BY <1>1, <1>2, <1>3, <1>4, <1>5, <1>6, <1>7, <1>8, <1>9, <1>10
  DEF Next, End, CE!Next

\* When one process runs its tests one after another, whatever fails in
\* between, the default gate input is the newest run's own or absent after
\* every report that does not say otherwise: sessions refine CurrentEvidence.
THEOREM EvidenceRefines ==
  ASSUME SequentialTests
  PROVE  Spec => EvidenceIsCurrent
<1>1. SoloInv /\ [Next]_vars => [CE!Next]_(CE!evidence)  BY EvidenceStep
<1>2. SoloInv /\ [Next]_vars => SoloInv'  BY SoloStep
<1>3. QED  BY <1>1, <1>2, SoloInit, PTL DEF Spec, EvidenceIsCurrent, CE!Spec

=============================================================================
