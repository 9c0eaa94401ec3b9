------------------------- MODULE SummaryPublication -------------------------
(***************************************************************************)
(* How Session.End publishes a run's summary (pkg/slint/session.go with    *)
(* pkg/slo/engine/engine.go and pkg/slo/summary/writer.go).                *)
(*                                                                         *)
(* Several test processes share one ArtifactsDir.  Each runs one session   *)
(* after another.  End chooses a unique audit path by stat, measures for   *)
(* minutes, renames the summary onto the unique path, renames a copy onto  *)
(* the static alias "sli-summary.json" that slint-gate reads by default,   *)
(* and only then applies strictness and gating.  Any failure to publish    *)
(* removes the alias.  A step of this module is the code between two       *)
(* points where the file system may be touched by another process.         *)
(***************************************************************************)
EXTENDS Naturals

CONSTANTS
  Workers,    \* the test processes that share one ArtifactsDir
  Names,      \* unique base names, "sli-summary.<run id>.<test case>.json"
  NamesOf,    \* the base names a process's sessions produce
  MaxRuns     \* bound: the number of sessions in a behaviour

ASSUME PublicationAssumption ==
  /\ MaxRuns \in Nat \ {0}
  /\ NamesOf \in [Workers -> SUBSET Names]
  /\ \A w \in Workers : NamesOf[w] # {}

RunIds == 1 .. MaxRuns
NoRun == 0

\* An audit path is a base name and the -<n> suffix; 0 is no suffix.
Suffixes == 0 .. MaxRuns
Paths == Names \X Suffixes

\* What a reader of a summary file can tell apart: whose run it is and
\* whether and where its collection failed.  NoSummary stands for an absent file and
\* for the nil *Summary of an Execute that returned an error.
Collections == {"Complete", "PointFailed", "WindowFailed"}
Summaries == [run : RunIds, collection : Collections]
NoSummary == [run |-> NoRun, collection |-> "none"]

\* The path "" of a session without an ArtifactsDir: Write("") is a no-op.
NoPath == <<"none", 0>>

\* What End told its caller about a run.  "ok" and "policy" (a strictness or
\* gating error) come with the summary published; "failed" is an error after
\* which the alias was removed, "unremovable" one that says it could not be.
Verdicts == {"running", "ok", "policy", "failed", "unremovable",
             "notStarted", "unpublished", "crashed"}

VARIABLES
  files,    \* the audit files of the ArtifactsDir: files[p] or NoSummary
  alias,    \* the file sli-summary.json, or NoSummary
  runs,     \* how many sessions were created
  verdict,  \* what End returned, per run
  pc,       \* where each process is
  run,      \* the process's current run
  base,     \* its sanitized unique filename
  dir,      \* does its session have an ArtifactsDir
  path,     \* uniquePath, chosen by NextSummaryPath
  sum       \* the summary End holds

vars == <<files, alias, runs, verdict, pc, run, base, dir, path, sum>>
session == <<run, base, dir>>
disk == <<files, alias>>

PCs == {"idle", "new", "started", "measure", "writeUnique", "writeAlias",
        "check", "invalidate"}

Init ==
  /\ files = [p \in Paths |-> NoSummary]
  /\ alias = NoSummary
  /\ runs = 0
  /\ verdict = [r \in RunIds |-> "running"]
  /\ pc = [w \in Workers |-> "idle"]
  /\ run = [w \in Workers |-> NoRun]
  /\ base \in {f \in [Workers -> Names] : \A w \in Workers : f[w] \in NamesOf[w]}
  /\ dir = [w \in Workers |-> TRUE]
  /\ path = [w \in Workers |-> NoPath]
  /\ sum = [w \in Workers |-> NoSummary]

-----------------------------------------------------------------------------

\* NewSession: a test's BeforeEach builds a session.
NewSession(w) ==
  /\ pc[w] = "idle"
  /\ runs < MaxRuns
  /\ runs' = runs + 1
  /\ run' = [run EXCEPT ![w] = runs + 1]
  /\ \E n \in NamesOf[w], d \in BOOLEAN :
       /\ base' = [base EXCEPT ![w] = n]
       /\ dir' = [dir EXCEPT ![w] = d]
  /\ path' = [path EXCEPT ![w] = NoPath]
  /\ sum' = [sum EXCEPT ![w] = NoSummary]
  /\ pc' = [pc EXCEPT ![w] = "new"]
  /\ UNCHANGED <<disk, verdict>>

Start(w) ==
  /\ pc[w] = "new"
  /\ pc' = [pc EXCEPT ![w] = "started"]
  /\ UNCHANGED <<disk, runs, verdict, session, path, sum>>

\* End returns: the caller learns v and the process moves to its next test.
Return(w, v) ==
  /\ verdict' = [verdict EXCEPT ![run[w]] = v]
  /\ pc' = [pc EXCEPT ![w] = "idle"]

\* End without Start is an error before the alias path is even computed.
EndNotStarted(w) ==
  /\ pc[w] = "new"
  /\ Return(w, "notStarted")
  /\ UNCHANGED <<disk, runs, session, path, sum>>

\* NextSummaryPath walks base, base-1, base-2, ... and returns the first one
\* that stat does not find.  Audit files are never removed, so the walk's
\* result is the least free suffix at the moment of its last stat.
\* (Mutated: the base name, whatever is there.)
IsNextSuffix_NoStat(n, i) == i = 0
IsNextSuffix(n, i) ==
  /\ files[<<n, i>>] = NoSummary
  /\ \A j \in 0 .. i - 1 : files[<<n, j>>] # NoSummary

ChoosePath(w) ==
  /\ pc[w] = "started"
  /\ IF dir[w]
     THEN \E i \in Suffixes :
            /\ IsNextSuffix(base[w], i)
            /\ path' = [path EXCEPT ![w] = <<base[w], i>>]
     ELSE UNCHANGED path
  /\ pc' = [pc EXCEPT ![w] = "measure"]
  /\ UNCHANGED <<disk, runs, verdict, session, sum>>

\* os.Stat fails with something else than IsNotExist (ENAMETOOLONG, EACCES).
ChoosePathFails(w) ==
  /\ pc[w] = "started"
  /\ dir[w]
  /\ pc' = [pc EXCEPT ![w] = "invalidate"]
  /\ UNCHANGED <<disk, runs, verdict, session, path, sum>>

\* Execute rejects the run before any fetch: incomplete TrustContract,
\* duplicate protected spec ID, malformed selector.  No summary exists.
ExecuteRejects(w) ==
  /\ pc[w] = "measure"
  /\ pc' = [pc EXCEPT ![w] = "invalidate"]
  /\ UNCHANGED <<disk, runs, verdict, session, path, sum>>

\* The fetches, which take as long as the cluster does.
Measure(w) ==
  /\ pc[w] = "measure"
  /\ \E c \in Collections :
       sum' = [sum EXCEPT ![w] = [run |-> run[w], collection |-> c]]
  /\ pc' = [pc EXCEPT ![w] = "writeUnique"]
  /\ UNCHANGED <<disk, runs, verdict, session, path>>

\* writeJSONAtomic: a temporary file renamed onto the target, whatever is there.
WriteUnique(w) ==
  /\ pc[w] = "writeUnique"
  /\ files' = IF dir[w] THEN [files EXCEPT ![path[w]] = sum[w]] ELSE files
  /\ pc' = [pc EXCEPT ![w] = "writeAlias"]
  /\ UNCHANGED <<alias, runs, verdict, session, path, sum>>

\* Mutated: every write error is dropped; the run is measured again.
UniqueWriteFailed_Dropped(w) == "writeAlias"
UniqueWriteFailed_Retried(w) == "measure"
\* Execute returns the write error, also that of a summary whose window fetch
\* failed; only pointFetchFailure drops it.
UniqueWriteFailed(w) ==
  IF sum[w].collection = "PointFailed" THEN "writeAlias" ELSE "invalidate"

WriteUniqueFails(w) ==
  /\ pc[w] = "writeUnique"
  /\ dir[w]
  /\ pc' = [pc EXCEPT ![w] = UniqueWriteFailed(w)]
  /\ UNCHANGED <<disk, runs, verdict, session, path, sum>>

\* Mutated: the alias is written and the run then reported as unpublished.
WriteAlias_ThenFail(w) ==
  /\ pc[w] = "writeAlias"
  /\ alias' = IF dir[w] THEN sum[w] ELSE alias
  /\ pc' = [pc EXCEPT ![w] = "invalidate"]
  /\ UNCHANGED <<files, runs, verdict, session, path, sum>>

\* The rename onto the shared alias is last-writer-wins.
WriteAlias(w) ==
  /\ pc[w] = "writeAlias"
  /\ alias' = IF dir[w] THEN sum[w] ELSE alias
  /\ pc' = [pc EXCEPT ![w] = "check"]
  /\ UNCHANGED <<files, runs, verdict, session, path, sum>>

\* Mutated: a failed alias write is not noticed.
WriteAliasFails_Ignored(w) ==
  /\ pc[w] = "writeAlias"
  /\ dir[w]
  /\ pc' = [pc EXCEPT ![w] = "check"]
  /\ UNCHANGED <<disk, runs, verdict, session, path, sum>>

WriteAliasFails(w) ==
  /\ pc[w] = "writeAlias"
  /\ dir[w]
  /\ pc' = [pc EXCEPT ![w] = "invalidate"]
  /\ UNCHANGED <<disk, runs, verdict, session, path, sum>>

\* CheckStrictness, then CheckGating: the published alias stays either way.
CheckPolicies(w) ==
  /\ pc[w] = "check"
  /\ \E v \in {"ok", "policy"} : Return(w, IF dir[w] THEN v ELSE "unpublished")
  /\ UNCHANGED <<disk, runs, session, path, sum>>

\* invalidateStaleStaticAlias with staticPath = "": nothing to remove.
\* Otherwise os.Remove succeeds or finds no file.
Invalidate(w) ==
  /\ pc[w] = "invalidate"
  /\ alias' = IF dir[w] THEN NoSummary ELSE alias
  /\ Return(w, IF dir[w] THEN "failed" ELSE "unpublished")
  /\ UNCHANGED <<files, runs, session, path, sum>>

\* The file is there and cannot be removed: the error says so.
InvalidateFails(w) ==
  /\ pc[w] = "invalidate"
  /\ dir[w]
  /\ alias # NoSummary
  /\ Return(w, "unremovable")
  /\ UNCHANGED <<disk, runs, session, path, sum>>

\* The test process is killed; the directory stays as it is and the next
\* session of this process is a fresh one.
Crash(w) ==
  /\ pc[w] # "idle"
  /\ Return(w, "crashed")
  /\ UNCHANGED <<disk, runs, session, path, sum>>

-----------------------------------------------------------------------------

\* The steps the Go scheduler and the file system always get to.
End(w) ==
  \/ EndNotStarted(w)
  \/ ChoosePath(w) \/ ChoosePathFails(w)
  \/ ExecuteRejects(w) \/ Measure(w)
  \/ WriteUnique(w) \/ WriteUniqueFails(w)
  \/ WriteAlias(w) \/ WriteAliasFails(w)
  \/ CheckPolicies(w)
  \/ Invalidate(w) \/ InvalidateFails(w)

Next == \E w \in Workers : NewSession(w) \/ Start(w) \/ End(w) \/ Crash(w)

Spec == Init /\ [][Next]_vars

FairSpec == Spec /\ \A w \in Workers : WF_vars(End(w))

-----------------------------------------------------------------------------
(***************************************************************************)
(* Properties                                                              *)
(***************************************************************************)

TypeOK ==
  /\ files \in [Paths -> Summaries \cup {NoSummary}]
  /\ alias \in Summaries \cup {NoSummary}
  /\ runs \in 0 .. MaxRuns
  /\ verdict \in [RunIds -> Verdicts]
  /\ pc \in [Workers -> PCs]
  /\ run \in [Workers -> 0 .. MaxRuns]
  /\ base \in [Workers -> Names]
  /\ dir \in [Workers -> BOOLEAN]
  /\ path \in [Workers -> Paths \cup {NoPath}]
  /\ sum \in [Workers -> Summaries \cup {NoSummary}]

\* Two processes never produce the same sanitized unique filename: run ids
\* are generated, or the processes' run ids and test cases differ.
DisjointNames ==
  \A v, w \in Workers : v # w => NamesOf[v] \cap NamesOf[w] = {}

\* Session.End: "uniquePath: a unique file for the audit trail (never
\* overwritten)".  Between the stat that found the path free and the rename
\* lies the whole measurement.
AuditTrailPreserved ==
  [][\A p \in Paths : files[p] # NoSummary => files'[p] = files[p]]_vars

\* Complete or with a failed window fetch: all that Execute itself writes.
Evaluated == {"Complete", "WindowFailed"}

\* An evaluated summary that a gate can read at the alias is also in the audit
\* trail, byte for byte, whichever process published it and whatever failed
\* since.  (A summary without points may lack its audit file: pointFetchFailure
\* drops the write error.)
AuditedAlias ==
  alias.collection \in Evaluated => \E p \in Paths : files[p] = alias

\* The default gate input never shows a run whose End told its caller that
\* nothing was published, with any number of processes sharing the alias.
AliasOfPublishedRun ==
  alias # NoSummary => verdict[alias.run] \in {"running", "ok", "policy", "crashed"}

\* Once started, a session's End returns (or its process dies): no failure of
\* a stat, a write or a remove leaves it waiting.
EndReturns == \A w \in Workers : (pc[w] = "started") ~> (pc[w] = "idle")

-----------------------------------------------------------------------------
(***************************************************************************)
(* Sessions that follow each other                                         *)
(***************************************************************************)

\* One process runs its tests one after another.
SequentialTests == \A v, w \in Workers : v = w

\* What a report means for the evidence in the slot a gate reads.
Told(v) ==
  CASE v = "running"           -> "nothing"
    [] v \in {"ok", "policy"}  -> "published"
    [] v = "failed"            -> "withdrawn"
    [] OTHER                   -> "noPromise"

CE == INSTANCE CurrentEvidence WITH
        slot   <- alias.run,
        newest <- runs,
        told   <- IF runs = 0 THEN "nothing" ELSE Told(verdict[runs])

\* Sequential sessions implement CurrentEvidence: after a run is reported, the
\* default gate input holds that run's summary or is absent, except where the
\* report itself says that it may be stale (invalidateStaleStaticAlias).
EvidenceIsCurrent == CE!Spec

=============================================================================
