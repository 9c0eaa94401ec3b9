---------------------------- MODULE StartSnapshot ----------------------------
(***************************************************************************)
(* The start-of-window snapshot.  A live fetcher ignores the instant it is *)
(* asked for, so a delta needs its first sample taken when Session.Start   *)
(* runs: PreFetch caches it and the first Fetch inside End serves it.      *)
(* The four snapshot fetchers keep that protocol in their own fields       *)
(* (startCache, startErr, fetchCount); this module runs sessions one after *)
(* another over one of them:                                               *)
(*   curlpod       pkg/slint/fetcher_curlpod.go                            *)
(*   portforward   pkg/slo/fetch/portforward/fetcher.go                    *)
(*   jsonendpoint  pkg/slo/fetch/jsonendpoint/fetcher.go                   *)
(*   k8sobject     pkg/slo/fetch/k8sobject/fetcher.go                      *)
(***************************************************************************)
EXTENDS Naturals

CONSTANTS
  Kinds,        \* the fetcher kinds a behaviour may use
  Shared,       \* is one caller-supplied fetcher used by successive sessions
  MaxStarts,    \* bound: the number of calls to Start in a behaviour
  MaxEnds       \* bound: the number of calls to End on one session

AllKinds == {"curlpod", "portforward", "jsonendpoint", "k8sobject"}

ASSUME SnapshotAssumption ==
  /\ Kinds \subseteq AllKinds
  /\ Shared \in BOOLEAN
  /\ MaxStarts \in Nat \ {0}
  /\ MaxEnds \in Nat \ {0}

\* A sample is what the endpoint showed at some moment: within the k-th call
\* of Start ("pre"), or after it returned and the workload was let go ("post").
Samples == [start : 0 .. MaxStarts, phase : {"pre", "post"}]
NoSample == [start |-> 0, phase |-> "pre"]

Fetchers ==
  [cache : Samples,          \* startCache; NoSample for nil
   err   : BOOLEAN,          \* startErr # nil
   count : Nat,              \* fetchCount
   port  : BOOLEAN,          \* portforward: localPort # 0
   alive : BOOLEAN]          \* portforward: kubectl is forwarding
FreshFetcher ==
  [cache |-> NoSample, err |-> FALSE, count |-> 0, port |-> FALSE, alive |-> FALSE]

\* What the end-th End of a session reported of its latest Start: the samples
\* its deltas came from.  opening is the number of the session's first Start.
NoReport ==
  [opening |-> 0, of |-> 0, end |-> 0, collection |-> "none",
   first |-> NoSample, second |-> NoSample]
Reports ==
  [opening : 0 .. MaxStarts, of : 0 .. MaxStarts, end : 0 .. MaxEnds,
   collection : {"none", "Complete", "Failed"}, first : Samples, second : Samples]

VARIABLES
  kind,     \* which fetcher this behaviour uses
  fetcher,  \* its fields
  phase,    \* of the current session
  starts,   \* calls of Start so far
  opening,  \* the number of the current session's first Start
  ends,     \* calls of End on the current session
  first,    \* the sample the engine's first Fetch returned
  report    \* the last End's report

snapshotVars == <<kind, fetcher, phase, starts, opening, ends, first, report>>

Phases == {"idle", "new", "measuring", "fetchedStart", "ended"}

SnapshotInit ==
  /\ kind \in Kinds
  /\ fetcher = FreshFetcher
  /\ phase = "idle"
  /\ starts = 0
  /\ opening = 0
  /\ ends = 0
  /\ first = NoSample
  /\ report = NoReport

-----------------------------------------------------------------------------

\* NewSession: the session's own fetcher is a new one, a caller-supplied one
\* arrives as the previous session left it.
NewSession ==
  /\ phase \in {"idle", "ended"}
  /\ fetcher' = IF Shared THEN fetcher ELSE FreshFetcher
  /\ phase' = "new"
  /\ ends' = 0
  /\ UNCHANGED <<kind, starts, opening, first, report>>

\* PreFetch obtained a snapshot.
Cached(f, sample) == [f EXCEPT !.cache = sample, !.err = FALSE]

\* PreFetch failed: startErr is set, startCache stays as it was.  The
\* k8sobject fetcher has no startErr.  (Mutated: no fetcher has.)
Missed_Unrecorded(f) == f
Missed(f) == [f EXCEPT !.err = (kind # "k8sobject")]

\* portforward.Start: localPort is assigned before kubectl runs and is kept
\* when it does not become ready; its error is not recorded in startErr.
Forwarding(f) == [f EXCEPT !.port = TRUE, !.alive = TRUE]
NotForwarding(f) == [f EXCEPT !.port = TRUE, !.alive = FALSE]

\* What PreFetch may leave behind when the endpoint shows sample.
PreFetch(f, sample) ==
  IF kind # "portforward"
  THEN {Cached(f, sample), Missed(f)}
  ELSE IF f.port
       THEN {Missed(f)} \cup (IF f.alive THEN {Cached(f, sample)} ELSE {})
       ELSE {f, NotForwarding(f),
             Missed(Forwarding(f)), Cached(Forwarding(f), sample)}

\* Session.Start: PreFetch's failure is only a warning.  Nothing stops a test
\* from calling Start again, before or after an End.
Start ==
  /\ phase \in {"new", "measuring", "ended"}
  /\ starts < MaxStarts
  /\ starts' = starts + 1
  /\ opening' = IF phase = "new" THEN starts + 1 ELSE opening
  /\ fetcher' \in PreFetch(fetcher, [start |-> starts + 1, phase |-> "pre"])
  /\ phase' = "measuring"
  /\ UNCHANGED <<kind, ends, first, report>>

\* The session is dropped without End, as when a test is killed by hand.
Abandon ==
  /\ phase = "measuring"
  /\ phase' = "idle"
  /\ UNCHANGED <<kind, fetcher, starts, opening, ends, first, report>>

\* The first Fetch is the one that finds fetchCount = 0.  curlpod looks at
\* startErr before startCache, portforward and jsonendpoint after it.
ServesError(f) ==
  /\ f.count = 0
  /\ f.err
  /\ kind # "curlpod" => f.cache = NoSample

\* Mutated: the cache is served for ever.
ServesCache_Always(f) == f.cache # NoSample /\ ~ServesError(f)
ServesCache(f) ==
  /\ f.count = 0
  /\ f.cache # NoSample
  /\ ~ServesError(f)

Fetched(f) == [f EXCEPT !.count = f.count + 1]

\* Can a live scrape answer at all?
Reachable(f) == kind = "portforward" => f.port /\ f.alive

Now == [start |-> starts, phase |-> "post"]

\* The samples a Fetch may return; the empty set is an error.
Answers(f) ==
  IF ServesError(f) THEN {}
  ELSE IF ServesCache(f) THEN {f.cache}
  ELSE IF Reachable(f) THEN {Now}
  ELSE {}

\* A live Fetch may fail at any time; the cached answers cannot.
MayFail(f) == ~ServesCache(f)

\* End never clears started: Attach's hook calls it again after a test that
\* has called it itself, on the same fetcher.
MayEnd == phase \in {"measuring", "ended"} /\ ends < MaxEnds

\* End, fetchPointSamples: Fetch(StartedAt).
FetchStart ==
  /\ MayEnd
  /\ \E s \in Answers(fetcher) : first' = s
  /\ fetcher' = Fetched(fetcher)
  /\ phase' = "fetchedStart"
  /\ ends' = ends + 1
  /\ UNCHANGED <<kind, starts, opening, report>>

\* End, fetchPointSamples: Fetch(FinishedAt), and the report of both.
FetchEnd ==
  /\ phase = "fetchedStart"
  /\ \E s \in Answers(fetcher) :
       report' = [opening |-> opening, of |-> starts, end |-> ends,
                  collection |-> "Complete", first |-> first, second |-> s]
  /\ fetcher' = Fetched(fetcher)
  /\ phase' = "ended"
  /\ UNCHANGED <<kind, starts, opening, ends, first>>

\* Either Fetch fails: the report is a failed collection, not an error.
FetchFails ==
  /\ phase = "fetchedStart" \/ MayEnd
  /\ MayFail(fetcher)
  /\ ends' = IF phase = "fetchedStart" THEN ends ELSE ends + 1
  /\ report' = [opening |-> opening, of |-> starts, end |-> ends',
                collection |-> "Failed", first |-> NoSample, second |-> NoSample]
  /\ fetcher' = Fetched(fetcher)
  /\ phase' = "ended"
  /\ UNCHANGED <<kind, starts, opening, first>>

SnapshotNext == NewSession \/ Start \/ Abandon \/ FetchStart \/ FetchEnd \/ FetchFails

SnapshotSpec == SnapshotInit /\ [][SnapshotNext]_snapshotVars

-----------------------------------------------------------------------------
(***************************************************************************)
(* Properties                                                              *)
(***************************************************************************)

SnapshotTypeOK ==
  /\ kind \in Kinds
  /\ fetcher \in Fetchers
  /\ phase \in Phases
  /\ starts \in 0 .. MaxStarts
  /\ opening \in 0 .. MaxStarts
  /\ ends \in 0 .. MaxEnds
  /\ first \in Samples
  /\ report \in Reports

PreSample(k) == [start |-> k, phase |-> "pre"]

\* The complete report of a session's first End starts from a snapshot that a
\* Start of this very session took before it let the workload go: never from
\* a sample scraped after the workload, whatever PreFetch did, and never from
\* what another session left behind.  A curlpod report starts from the latest
\* Start's snapshot; the other fetchers look at the cache before startErr, so
\* theirs may be an earlier Start's when a later PreFetch failed.  A second
\* End of a session is excepted, because the snapshot is served once.
StartSampleIsOfSession ==
  report.collection = "Complete" /\ report.end = 1 =>
    \E k \in report.opening .. report.of :
      /\ report.first = PreSample(k)
      /\ kind = "curlpod" => k = report.of

\* Session.Start: it "pre-captures a start-time snapshot.  This guarantees
\* that when engine.Execute() calls Fetch() twice inside End(), the first call
\* returns the pre-workload state."  Read of every Start and every fetcher: a
\* complete report starts from the snapshot of the Start it measures from.
StartSampleIsPreWorkload ==
  report.collection = "Complete" /\ report.end = 1 =>
    report.first = PreSample(report.of)

\* The end sample of a complete report was scraped by End itself: the cached
\* snapshot is served once, so a delta never compares it with itself.
EndSampleIsLive ==
  report.collection = "Complete" =>
    report.second = [start |-> report.of, phase |-> "post"]

=============================================================================
