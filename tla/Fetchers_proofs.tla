---------------------------- MODULE Fetchers_proofs ----------------------------
(***************************************************************************)
(* Proofs about the samples that an SLI is computed from: which moments    *)
(* they come from (StartSnapshot), and what they say of the exporter's     *)
(* events (MetricSamples).                                                 *)
(*                                                                         *)
(* StartSnapshot, for every number of sessions and calls of Start, also    *)
(* repeated ones: what a report's start sample is needs a fetcher per      *)
(* session and a fetcher that remembers a failed PreFetch, which           *)
(* snapshot_k8sobject.cfg shows; with Shared a later session starts with a *)
(* fetcher that has been used.  What its end sample is needs neither.      *)
(*                                                                         *)
(* MetricSamples, for every set of series, number of events and scrapes:   *)
(* lemmas about sums over a set and about maps filled from a list, then    *)
(* what the parsers make of a text and of an answer, then the invariant.   *)
(***************************************************************************)
EXTENDS StartSnapshot, MetricSamples, FiniteSetTheorems, WellFoundedInduction, TLAPS

\* A fetcher belongs to one session and remembers startErr.  How often the
\* session calls Start is left open.
OwnRecordingFetcher ==
  /\ ~Shared
  /\ "k8sobject" \notin Kinds

\* The snapshots of the Starts that the current session has made.
OwnPreSamples == {PreSample(k) : k \in opening .. starts}

\* What a fetcher may hold between Start and the first Fetch.
ReadyFetcher ==
  /\ fetcher.count = 0
  /\ starts > 0
  /\ fetcher.cache \in {NoSample} \cup OwnPreSamples
  /\ kind = "curlpod" /\ ~fetcher.err /\ fetcher.cache # NoSample
       => fetcher.cache = PreSample(starts)
  /\ fetcher.cache = NoSample /\ ~fetcher.err
       => kind = "portforward" /\ ~fetcher.alive

\* What the first Fetch of a first End may have returned.
OwnFirst(s) ==
  /\ s \in OwnPreSamples
  /\ kind = "curlpod" => s = PreSample(starts)

\* The inductive strengthening of StartSampleIsOfSession.
SnapshotInv ==
  /\ SnapshotTypeOK
  /\ phase = "new" => fetcher = FreshFetcher /\ ends = 0
  /\ phase \in {"measuring", "fetchedStart", "ended"} => opening \in 1 .. starts
  /\ phase = "ended" => ends > 0
  /\ phase = "measuring" /\ ends = 0 => ReadyFetcher
  /\ phase = "fetchedStart" =>
       /\ fetcher.count > 0
       /\ ends > 0
       /\ ends = 1 => OwnFirst(first)
  /\ StartSampleIsOfSession

\* The inductive strengthening of EndSampleIsLive: a second Fetch finds a
\* fetcher that has been asked before.
LiveInv ==
  /\ SnapshotTypeOK
  /\ phase = "fetchedStart" => fetcher.count > 0
  /\ EndSampleIsLive

-----------------------------------------------------------------------------

\* The fields of a fetcher after PreFetch have their types.
LEMMA PreFetchType ==
  ASSUME kind \in Kinds, NEW f \in Fetchers, NEW s \in Samples, NEW g \in PreFetch(f, s)
  PROVE  g \in Fetchers
<1> USE SnapshotAssumption DEF Fetchers, AllKinds
<1>1. Cached(f, s) \in Fetchers  BY DEF Cached
<1>2. Missed(f) \in Fetchers  BY DEF Missed
<1>3. /\ Forwarding(f) \in Fetchers
      /\ NotForwarding(f) \in Fetchers
  BY DEF Forwarding, NotForwarding
<1>4. /\ Missed(Forwarding(f)) \in Fetchers
      /\ Cached(Forwarding(f), s) \in Fetchers
  BY <1>3 DEF Missed, Cached
<1>5. QED  BY <1>1, <1>2, <1>3, <1>4 DEF PreFetch

\* A fetch answers with the cache, a live sample, or nothing.
LEMMA AnswersType ==
  ASSUME SnapshotTypeOK, NEW s \in Answers(fetcher)
  PROVE  s \in Samples
BY SnapshotAssumption DEF SnapshotTypeOK, Answers, Now, Samples, Fetchers

\* Every action preserves the types.
LEMMA SnapshotTypeStep == SnapshotTypeOK /\ [SnapshotNext]_snapshotVars => SnapshotTypeOK'
<1> SUFFICES ASSUME SnapshotTypeOK, [SnapshotNext]_snapshotVars  PROVE SnapshotTypeOK'  OBVIOUS
<1> USE SnapshotAssumption DEF SnapshotTypeOK, Phases
<1>1. CASE NewSession
  BY <1>1 DEF NewSession, FreshFetcher, Fetchers, Samples, NoSample
<1>2. CASE Start
  <2>1. starts + 1 \in 0 .. MaxStarts /\ opening' \in 0 .. MaxStarts  BY <1>2 DEF Start
  <2>2. [start |-> starts + 1, phase |-> "pre"] \in Samples  BY <2>1 DEF Samples
  <2>3. fetcher' \in Fetchers  BY <1>2, <2>2, PreFetchType DEF Start
  <2>4. QED  BY <1>2, <2>1, <2>3 DEF Start
<1>3. CASE Abandon  BY <1>3 DEF Abandon
<1>4. Fetched(fetcher) \in Fetchers  BY DEF Fetched, Fetchers
<1>5. NoSample \in Samples  BY DEF NoSample, Samples
<1>6. CASE FetchStart
  <2>1. ends' \in 0 .. MaxEnds  BY <1>6 DEF FetchStart, MayEnd
  <2>2. QED  BY <1>6, <2>1, <1>4, AnswersType DEF FetchStart
<1>7. CASE FetchEnd
  BY <1>7, <1>4, AnswersType DEF FetchEnd, Reports
<1>8. CASE FetchFails
  <2>1. ends' \in 0 .. MaxEnds  BY <1>8 DEF FetchFails, MayEnd
  <2>2. QED  BY <1>8, <2>1, <1>4, <1>5 DEF FetchFails, Reports
<1>9. CASE UNCHANGED snapshotVars  BY <1>9 DEF snapshotVars
<1>10. QED  BY <1>1, <1>2, <1>3, <1>6, <1>7, <1>8, <1>9 DEF SnapshotNext

\* The type invariant, for every constant.
THEOREM SnapshotTypeCorrect == SnapshotSpec => []SnapshotTypeOK
<1>1. SnapshotInit => SnapshotTypeOK
  BY SnapshotAssumption
  DEF SnapshotInit, SnapshotTypeOK, Fetchers, FreshFetcher, Samples, NoSample, Phases, Reports, NoReport
<1>2. QED  BY <1>1, SnapshotTypeStep, PTL DEF SnapshotSpec

-----------------------------------------------------------------------------

\* The snapshot of a new Start joins those of the session.
LEMMA OwnGrow ==
  ASSUME SnapshotInv, Start
  PROVE  /\ opening' \in 1 .. starts'
         /\ PreSample(starts + 1) \in OwnPreSamples'
         /\ phase # "new" => OwnPreSamples \subseteq OwnPreSamples'
BY DEF SnapshotInv, SnapshotTypeOK, Start, OwnPreSamples

\* Start leaves a session's own fetcher ready: with a snapshot of this session,
\* with the memory of a failure, or unable to answer at all.
LEMMA StartPrepares ==
  ASSUME OwnRecordingFetcher, SnapshotInv, Start, SnapshotTypeOK', ends = 0
  PROVE  ReadyFetcher'
<1> DEFINE s == PreSample(starts + 1)
           Held == {NoSample} \cup OwnPreSamples'
<1> USE SnapshotAssumption DEF AllKinds
<1>1. /\ starts \in Nat
      /\ starts' = starts + 1
      /\ kind' = kind
      /\ kind \in {"curlpod", "portforward", "jsonendpoint"}
      /\ fetcher \in Fetchers
      /\ fetcher' \in PreFetch(fetcher, s)
  BY DEF Start, SnapshotInv, SnapshotTypeOK, OwnRecordingFetcher, PreSample
<1>2. s # NoSample /\ s = PreSample(starts')  BY <1>1 DEF PreSample, NoSample
<1>3. fetcher.count = 0
  BY DEF Start, SnapshotInv, FreshFetcher, ReadyFetcher
<1>4. s \in Held  BY OwnGrow
<1>5. fetcher.cache \in Held
  <2>1. CASE phase = "new"  BY <2>1 DEF SnapshotInv, FreshFetcher
  <2>2. CASE phase # "new"
    <3>1. ReadyFetcher  BY <2>2 DEF Start, SnapshotInv
    <3>2. QED  BY <2>2, <3>1, OwnGrow DEF ReadyFetcher
  <2>3. QED  BY <2>1, <2>2
<1>6. phase # "new" => ReadyFetcher  BY DEF Start, SnapshotInv
<1>7. phase = "new" => fetcher = FreshFetcher  BY DEF SnapshotInv
<1> HIDE DEF Held
<1>8. SUFFICES /\ fetcher'.count = 0
               /\ fetcher'.cache \in Held
               /\ kind = "curlpod" /\ ~fetcher'.err /\ fetcher'.cache # NoSample
                    => fetcher'.cache = s
               /\ fetcher'.cache = NoSample /\ ~fetcher'.err
                    => kind = "portforward" /\ ~fetcher'.alive
  BY <1>1, <1>2 DEF ReadyFetcher, Held
<1>9. CASE fetcher' = Cached(fetcher, s) \/ fetcher' = Cached(Forwarding(fetcher), s)
  BY <1>1, <1>2, <1>3, <1>4, <1>9 DEF Cached, Forwarding, Fetchers
<1>10. CASE fetcher' = Missed(fetcher) \/ fetcher' = Missed(Forwarding(fetcher))
  BY <1>1, <1>3, <1>5, <1>10 DEF Missed, Forwarding, Fetchers
<1>11. CASE kind = "portforward" /\ fetcher' = NotForwarding(fetcher)
  BY <1>1, <1>3, <1>5, <1>11 DEF NotForwarding, Fetchers
<1>12. CASE kind = "portforward" /\ fetcher' = fetcher
  <2>1. fetcher.cache = NoSample /\ ~fetcher.err => ~fetcher.alive
    BY <1>6, <1>7 DEF ReadyFetcher, FreshFetcher
  <2>2. QED  BY <1>3, <1>5, <1>12, <2>1
<1>13. QED  BY <1>1, <1>9, <1>10, <1>11, <1>12 DEF PreFetch

\* From a ready fetcher the first Fetch can only answer with a snapshot of
\* this session, the curlpod fetcher with that of its latest Start.
LEMMA FirstAnswer ==
  ASSUME SnapshotTypeOK, ReadyFetcher, OwnRecordingFetcher, NEW s \in Answers(fetcher)
  PROVE  OwnFirst(s)
<1> USE DEF ReadyFetcher, OwnFirst
<1>1. ~ServesError(fetcher)  BY DEF Answers
<1>2. CASE fetcher.cache = NoSample
  <2>1. ~fetcher.err  BY <1>1, <1>2 DEF ServesError
  <2>2. ~Reachable(fetcher)  BY <1>2, <2>1 DEF Reachable
  <2>3. QED  BY <1>1, <1>2, <2>2 DEF Answers, ServesCache
<1>3. CASE fetcher.cache # NoSample
  <2>1. s = fetcher.cache  BY <1>1, <1>3 DEF Answers, ServesCache
  <2>2. kind = "curlpod" => ~fetcher.err
    BY <1>1, <1>3 DEF ServesError, SnapshotTypeOK, Fetchers
  <2>3. QED  BY <1>3, <2>1, <2>2
<1>4. QED  BY <1>2, <1>3

\* Every action preserves SnapshotInv: only Start fills the fetcher of a new
\* session, only the first Fetch reads what it left there.
LEMMA SnapshotStep ==
  OwnRecordingFetcher /\ SnapshotInv /\ [SnapshotNext]_snapshotVars => SnapshotInv'
<1> SUFFICES ASSUME OwnRecordingFetcher, SnapshotInv, [SnapshotNext]_snapshotVars
             PROVE  SnapshotInv'
  OBVIOUS
<1> USE DEF SnapshotInv
<1>0. SnapshotTypeOK'  BY SnapshotTypeStep
<1>1. CASE NewSession
  BY <1>0, <1>1 DEF NewSession, OwnRecordingFetcher, StartSampleIsOfSession
<1>2. CASE Start
  <2>1. ends' = 0 => ReadyFetcher'  BY <1>0, <1>2, StartPrepares DEF Start
  <2>2. opening' \in 1 .. starts'  BY <1>2, OwnGrow
  <2>3. QED
    BY <1>0, <1>2, <2>1, <2>2 DEF Start, StartSampleIsOfSession
<1>3. CASE Abandon
  BY <1>0, <1>3 DEF Abandon, StartSampleIsOfSession
<1>4. CASE FetchStart
  <2>1. PICK s \in Answers(fetcher) : first' = s  BY <1>4 DEF FetchStart
  <2>2. ends \in Nat /\ ends' = ends + 1  BY <1>4 DEF FetchStart, SnapshotTypeOK
  <2>3. ends' = 1 => OwnFirst(first')
    <3>1. SUFFICES ASSUME ends = 0  PROVE OwnFirst(first')  BY <2>2
    <3>2. ReadyFetcher  BY <1>4, <3>1 DEF FetchStart, MayEnd
    <3>3. QED  BY <2>1, <3>2, FirstAnswer
  <2>4. fetcher'.count > 0
    BY <1>4 DEF FetchStart, Fetched, SnapshotTypeOK, Fetchers
  <2>5. /\ phase' = "fetchedStart"
        /\ opening' \in 1 .. starts'
        /\ UNCHANGED <<kind, starts, opening, report>>
    BY <1>4 DEF FetchStart, MayEnd
  <2>6. StartSampleIsOfSession'  BY <2>5 DEF StartSampleIsOfSession
  <2>7. (ends = 1 => OwnFirst(first))'
    BY <2>3, <2>5 DEF OwnFirst, OwnPreSamples
  <2>8. QED
    BY <1>0, <2>2, <2>4, <2>5, <2>6, <2>7
<1>5. CASE FetchEnd
  <2>1. /\ report'.opening = opening
        /\ report'.of = starts
        /\ report'.end = ends
        /\ report'.first = first
        /\ kind' = kind
    BY <1>5 DEF FetchEnd
  <2>2. /\ ends > 0
        /\ ends = 1 => OwnFirst(first)
        /\ opening' \in 1 .. starts'
    BY <1>5 DEF FetchEnd
  <2>3. StartSampleIsOfSession'
    <3>1. SUFFICES ASSUME ends = 1
                   PROVE  \E k \in opening .. starts :
                            /\ first = PreSample(k)
                            /\ kind = "curlpod" => k = starts
      BY <2>1 DEF StartSampleIsOfSession
    <3>2. /\ first \in OwnPreSamples
          /\ kind = "curlpod" => first = PreSample(starts)
      BY <2>2, <3>1 DEF OwnFirst
    <3>3. PICK k \in opening .. starts : first = PreSample(k)
      BY <3>2 DEF OwnPreSamples
    <3>4. kind = "curlpod" => k = starts  BY <3>2, <3>3 DEF PreSample
    <3>5. QED  BY <3>3, <3>4
  <2>4. QED  BY <1>0, <1>5, <2>2, <2>3 DEF FetchEnd
<1>6. CASE FetchFails
  <2>1. ends \in Nat  BY DEF SnapshotTypeOK
  <2>2. ends' > 0 /\ phase' = "ended" /\ opening' \in 1 .. starts'
    BY <1>6, <2>1 DEF FetchFails, MayEnd
  <2>3. report'.collection = "Failed"  BY <1>6 DEF FetchFails
  <2>4. StartSampleIsOfSession'  BY <2>3 DEF StartSampleIsOfSession
  <2>5. QED  BY <1>0, <2>2, <2>4
<1>7. CASE UNCHANGED snapshotVars
  BY <1>0, <1>7
  DEF snapshotVars, ReadyFetcher, OwnFirst, OwnPreSamples, StartSampleIsOfSession
<1>8. QED  BY <1>1, <1>2, <1>3, <1>4, <1>5, <1>6, <1>7 DEF SnapshotNext

\* Every action preserves LiveInv, whoever owns the fetcher and of whatever
\* kind it is.
LEMMA LiveStep == LiveInv /\ [SnapshotNext]_snapshotVars => LiveInv'
<1> SUFFICES ASSUME LiveInv, [SnapshotNext]_snapshotVars  PROVE LiveInv'  OBVIOUS
<1> USE DEF LiveInv, EndSampleIsLive
<1>0. SnapshotTypeOK'  BY SnapshotTypeStep
<1>1. CASE NewSession  BY <1>0, <1>1 DEF NewSession
<1>2. CASE Start  BY <1>0, <1>2 DEF Start
<1>3. CASE Abandon  BY <1>0, <1>3 DEF Abandon
<1>4. CASE FetchStart
  <2>1. fetcher'.count > 0
    BY <1>4 DEF FetchStart, Fetched, SnapshotTypeOK, Fetchers
  <2>2. QED  BY <1>0, <1>4, <2>1 DEF FetchStart
<1>5. CASE FetchEnd
  <2>1. PICK s \in Answers(fetcher) :
          report' = [opening |-> opening, of |-> starts, end |-> ends,
                     collection |-> "Complete", first |-> first, second |-> s]
    BY <1>5 DEF FetchEnd
  <2>2. fetcher.count > 0  BY <1>5 DEF FetchEnd
  <2>3. s = Now  BY <2>1, <2>2 DEF Answers, ServesError, ServesCache
  <2>4. QED  BY <1>0, <1>5, <2>1, <2>3 DEF FetchEnd, Now
<1>6. CASE FetchFails  BY <1>0, <1>6 DEF FetchFails
<1>7. CASE UNCHANGED snapshotVars  BY <1>0, <1>7 DEF snapshotVars
<1>8. QED  BY <1>1, <1>2, <1>3, <1>4, <1>5, <1>6, <1>7 DEF SnapshotNext

\* Both invariants hold initially: nothing has been started or reported.
LEMMA SnapshotInvInit == SnapshotInit => SnapshotInv /\ LiveInv
<1>1. SnapshotInit => SnapshotTypeOK
  BY SnapshotAssumption
  DEF SnapshotInit, SnapshotTypeOK, Fetchers, FreshFetcher, Samples, NoSample, Phases, Reports, NoReport
<1>2. QED
  BY <1>1
  DEF SnapshotInit, SnapshotInv, LiveInv, NoReport, StartSampleIsOfSession, EndSampleIsLive

\* A complete report was computed from a snapshot that a Start of its own
\* session took, in the first End of a session that owns a fetcher which
\* remembers that PreFetch failed.  The session may call Start repeatedly.
THEOREM StartSampleCorrect ==
  ASSUME OwnRecordingFetcher
  PROVE  SnapshotSpec => []StartSampleIsOfSession
<1>1. SnapshotInv /\ [SnapshotNext]_snapshotVars => SnapshotInv'  BY SnapshotStep
<1>2. SnapshotInv => StartSampleIsOfSession  BY DEF SnapshotInv
<1>3. QED  BY <1>1, <1>2, SnapshotInvInit, PTL DEF SnapshotSpec

\* The end sample of a complete report was scraped by End, also by a later
\* one, for every kind of fetcher and for one that sessions share.
THEOREM EndSampleCorrect == SnapshotSpec => []EndSampleIsLive
<1>1. LiveInv => EndSampleIsLive  BY DEF LiveInv
<1>2. QED  BY <1>1, LiveStep, SnapshotInvInit, PTL DEF SnapshotSpec

-----------------------------------------------------------------------------
\* A nonempty set of naturals has a least element.
LEMMA LeastExists ==
  ASSUME NEW S \in SUBSET Nat, S # {}
  PROVE  \E m \in S : \A k \in S : m <= k
<1>1. PICK m \in S : \A k \in S : <<k, m>> \notin OpToRel(<, Nat)
  BY WFMin, NatLessThanWellFounded, Zenon
<1>2. \A k \in S : ~(k < m)
  <2>1. SUFFICES ASSUME NEW k \in S, k < m  PROVE <<k, m>> \in {p \in Nat \X Nat : p[1] < p[2]}
    BY <1>1, Zenon DEF OpToRel
  <2>2. QED  BY <2>1
<1>3. QED  BY <1>2

\* The subsets of a finite set are all good when a set is good that becomes
\* good by taking any of its elements away: a smallest bad one would not be.
LEMMA AllSubsets ==
  ASSUME NEW S, IsFiniteSet(S), NEW G,
         \A T \in SUBSET S : (\A x \in T : T \ {x} \in G) => T \in G
  PROVE  SUBSET S \subseteq G
<1> DEFINE Bad == (SUBSET S) \ G
           sizes == {Cardinality(T) : T \in Bad}
<1>1. \A T \in SUBSET S : IsFiniteSet(T) /\ Cardinality(T) \in Nat
  BY FS_Subset, FS_CardinalityType
<1>2. SUFFICES ASSUME Bad # {}  PROVE FALSE  OBVIOUS
<1>3. sizes \in SUBSET Nat /\ sizes # {}  BY <1>1, <1>2
<1>4. PICK m \in sizes : \A k \in sizes : m <= k
  <2> HIDE DEF sizes
  <2>1. QED  BY <1>3, LeastExists
<1>5. PICK T \in Bad : Cardinality(T) = m  BY <1>4
<1>6. \A x \in T : T \ {x} \in G
  <2>1. SUFFICES ASSUME NEW x \in T, T \ {x} \notin G  PROVE FALSE  OBVIOUS
  <2>2. T \ {x} \in Bad  BY <1>5, <2>1
  <2>3. m <= Cardinality(T \ {x})  BY <1>4, <2>2
  <2>4. Cardinality(T \ {x}) = Cardinality(T) - 1  BY <1>1, <1>5, FS_RemoveElement
  <2>5. QED  BY <1>1, <1>5, <2>3, <2>4
<1>7. QED  BY <1>5, <1>6

-----------------------------------------------------------------------------
\* The recursion that SumOn unfolds to, and the element it takes first.
Some(S) == CHOOSE x \in S : TRUE
Unfolds(h, f, S) ==
  h = [s \in SUBSET S |-> IF s = {} THEN 0 ELSE f[Some(s)] + h[s \ {Some(s)}]]
Partial(f, S) == CHOOSE h : Unfolds(h, f, S)

\* SumOn is the solution of the recursion that MapThenSumSet defines it by.
LEMMA SumOnUnfolds ==
  ASSUME NEW f, NEW S
  PROVE  SumOn(f, S) = Partial(f, S)[S]
BY DEF SumOn, MapThenSumSet, MapThenFoldSet, Partial, Unfolds, Some

\* Two solutions of the recursion, one on fewer sets, agree there.
LEMMA SolutionsAgree ==
  ASSUME NEW f, NEW S, IsFiniteSet(S), NEW T \in SUBSET S, NEW h, NEW g,
         Unfolds(h, f, S), Unfolds(g, f, T)
  PROVE  \A U \in SUBSET T : h[U] = g[U]
<1> DEFINE G == {U \in SUBSET T : h[U] = g[U]}
<1>1. ASSUME NEW U \in SUBSET T, \A x \in U : U \ {x} \in G  PROVE U \in G
  <2>1. CASE U = {}  BY <2>1 DEF Unfolds
  <2>2. CASE U # {}
    <3>1. Some(U) \in U  BY <2>2 DEF Some
    <3>2. h[U \ {Some(U)}] = g[U \ {Some(U)}]  BY <1>1, <3>1
    <3>3. h[U] = f[Some(U)] + h[U \ {Some(U)}]  BY <2>2 DEF Unfolds
    <3>4. g[U] = f[Some(U)] + g[U \ {Some(U)}]  BY <2>2 DEF Unfolds
    <3>5. QED  BY <3>2, <3>3, <3>4
  <2>3. QED  BY <2>1, <2>2
<1>2. IsFiniteSet(T)  BY FS_Subset
<1>3. SUBSET T \subseteq G
  <2> HIDE DEF G
  <2>1. QED  BY <1>1, <1>2, AllSubsets
<1>4. QED  BY <1>3

\* The recursion has a solution on every finite set.
LEMMA SolutionExists ==
  ASSUME NEW f, NEW S, IsFiniteSet(S)
  PROVE  Unfolds(Partial(f, S), f, S)
<1> DEFINE G == {T \in SUBSET S : \A U \in SUBSET T : Unfolds(Partial(f, U), f, U)}
<1>1. ASSUME NEW T \in SUBSET S, \A x \in T : T \ {x} \in G  PROVE T \in G
  <2> DEFINE V(r) == Partial(f, r)[r]
             h == [s \in SUBSET T |-> IF s = {} THEN 0 ELSE f[Some(s)] + V(s \ {Some(s)})]
  <2>1. \A r \in SUBSET T : r # T => Unfolds(Partial(f, r), f, r)
    <3>1. SUFFICES ASSUME NEW r \in SUBSET T, r # T  PROVE Unfolds(Partial(f, r), f, r)
      OBVIOUS
    <3>2. PICK x \in T : x \notin r  BY <3>1
    <3>3. r \in SUBSET (T \ {x})  BY <3>2
    <3>4. QED  BY <1>1, <3>2, <3>3
  <2>2. \A r \in SUBSET T : r # T => h[r] = V(r)
    <3>1. SUFFICES ASSUME NEW r \in SUBSET T, r # T  PROVE h[r] = V(r)  OBVIOUS
    <3>2. Unfolds(Partial(f, r), f, r)  BY <2>1, <3>1
    <3>3. CASE r = {}  BY <3>2, <3>3 DEF Unfolds
    <3>4. CASE r # {}
      <4> DEFINE q == r \ {Some(r)}
      <4>1. Some(r) \in r  BY <3>4 DEF Some
      <4>2. V(r) = f[Some(r)] + Partial(f, r)[q]  BY <3>2, <3>4 DEF Unfolds
      <4>3. q \in SUBSET r /\ q \in SUBSET T /\ q # T  BY <3>1, <4>1
      <4>4. Unfolds(Partial(f, q), f, q)  BY <2>1, <4>3
      <4>5. IsFiniteSet(r)  BY FS_Subset
      <4>6. Partial(f, r)[q] = V(q)
        <5> HIDE DEF q
        <5>1. QED  BY <3>2, <4>3, <4>4, <4>5, SolutionsAgree
      <4>7. h[r] = f[Some(r)] + V(q)  BY <3>4
      <4>8. QED  BY <4>2, <4>6, <4>7
    <3>5. QED  BY <3>3, <3>4
  <2>3. Unfolds(h, f, T)
    <3>1. \A s \in SUBSET T : s # {} => h[s \ {Some(s)}] = V(s \ {Some(s)})
      <4>1. SUFFICES ASSUME NEW s \in SUBSET T, s # {}
                     PROVE  s \ {Some(s)} \in SUBSET T /\ s \ {Some(s)} # T
        BY <2>2
      <4>2. Some(s) \in s  BY <4>1 DEF Some
      <4>3. QED  BY <4>2
    <3>2. QED  BY <3>1 DEF Unfolds
  <2>4. Unfolds(Partial(f, T), f, T)
    <3> HIDE DEF h
    <3>1. QED  BY <2>3 DEF Partial
  <2>5. QED  BY <2>1, <2>4
<1>2. SUBSET S \subseteq G
  <2> HIDE DEF G
  <2>1. QED  BY <1>1, AllSubsets
<1>3. QED  BY <1>2

\* A sum takes its elements one by one, in an order that CHOOSE fixes.
LEMMA SumOnStep ==
  ASSUME NEW f
  PROVE  /\ SumOn(f, {}) = 0
         /\ \A S : IsFiniteSet(S) /\ S # {} =>
              SumOn(f, S) = f[Some(S)] + SumOn(f, S \ {Some(S)})
<1>1. SumOn(f, {}) = 0
  <2>1. Unfolds(Partial(f, {}), f, {})  BY SolutionExists, FS_EmptySet
  <2>2. Partial(f, {})[{}] = 0  BY <2>1 DEF Unfolds
  <2>3. QED  BY <2>2, SumOnUnfolds
<1>2. SUFFICES ASSUME NEW S, IsFiniteSet(S), S # {}
               PROVE  SumOn(f, S) = f[Some(S)] + SumOn(f, S \ {Some(S)})
  BY <1>1
<1> DEFINE T == S \ {Some(S)}
<1>3. IsFiniteSet(T) /\ T \in SUBSET S /\ T \in SUBSET T  BY <1>2, FS_Subset
<1>4. Unfolds(Partial(f, S), f, S) /\ Unfolds(Partial(f, T), f, T)
  BY <1>2, <1>3, SolutionExists
<1>5. Partial(f, S)[S] = f[Some(S)] + Partial(f, S)[T]  BY <1>2, <1>4 DEF Unfolds
<1>6. Partial(f, S)[T] = Partial(f, T)[T]
  <2> HIDE DEF T
  <2>1. QED  BY <1>2, <1>3, <1>4, SolutionsAgree
<1>7. QED  BY <1>5, <1>6, SumOnUnfolds

\* Sums of integers are integers, those of naturals naturals, and the order
\* in which the elements are taken does not matter.
LEMMA SumOnType ==
  ASSUME NEW f, NEW S, IsFiniteSet(S), \A x \in S : f[x] \in Int
  PROVE  /\ \A T \in SUBSET S : SumOn(f, T) \in Int
         /\ (\A x \in S : f[x] >= 0) => SumOn(f, S) >= 0
<1> DEFINE G == {T \in SUBSET S : /\ SumOn(f, T) \in Int
                                  /\ (\A x \in S : f[x] >= 0) => SumOn(f, T) >= 0}
<1>1. ASSUME NEW T \in SUBSET S, \A x \in T : T \ {x} \in G  PROVE T \in G
  <2>1. CASE T = {}  BY <2>1, SumOnStep
  <2>2. CASE T # {}
    <3>1. Some(T) \in T  BY <2>2 DEF Some
    <3>2. T \ {Some(T)} \in G  BY <1>1, <3>1
    <3>3. IsFiniteSet(T)  BY FS_Subset
    <3>4. SumOn(f, T) = f[Some(T)] + SumOn(f, T \ {Some(T)})  BY <2>2, <3>3, SumOnStep
    <3>5. f[Some(T)] \in Int  BY <3>1
    <3>6. SumOn(f, T) \in Int  BY <3>2, <3>4, <3>5
    <3>7. ASSUME \A x \in S : f[x] >= 0  PROVE SumOn(f, T) >= 0
      <4>1. f[Some(T)] >= 0  BY <3>1, <3>7
      <4>2. SumOn(f, T \ {Some(T)}) \in Int /\ SumOn(f, T \ {Some(T)}) >= 0  BY <3>2, <3>7
      <4>3. QED  BY <3>4, <3>5, <4>1, <4>2
    <3>8. QED  BY <3>6, <3>7
  <2>3. QED  BY <2>1, <2>2
<1>2. SUBSET S \subseteq G
  <2> HIDE DEF G
  <2>1. QED  BY <1>1, AllSubsets
<1>3. S \in G  BY <1>2
<1>4. \A T \in SUBSET S : SumOn(f, T) \in Int  BY <1>2
<1>5. QED  BY <1>3, <1>4

\* Any element can be taken out first.
LEMMA SumOnAny ==
  ASSUME NEW f, NEW S, IsFiniteSet(S), \A x \in S : f[x] \in Int, NEW x \in S
  PROVE  SumOn(f, S) = f[x] + SumOn(f, S \ {x})
<1> DEFINE G == {T \in SUBSET S : \A y \in T : SumOn(f, T) = f[y] + SumOn(f, T \ {y})}
<1>1. ASSUME NEW T \in SUBSET S, \A y \in T : T \ {y} \in G  PROVE T \in G
  <2>1. SUFFICES ASSUME NEW y \in T  PROVE SumOn(f, T) = f[y] + SumOn(f, T \ {y})
    OBVIOUS
  <2> DEFINE c == Some(T)
             R == T \ {c, y}
  <2>2. c \in T  BY DEF Some
  <2>3. IsFiniteSet(T)  BY FS_Subset
  <2>4. SumOn(f, T) = f[c] + SumOn(f, T \ {c})  BY <2>1, <2>3, SumOnStep
  <2>5. CASE c = y  BY <2>4, <2>5
  <2>6. CASE c # y
    <3> HIDE DEF c
    <3>1. T \ {c} \in G /\ T \ {y} \in G  BY <1>1, <2>1, <2>2
    <3>2. y \in T \ {c} /\ c \in T \ {y}  BY <2>1, <2>2, <2>6
    <3>3. (T \ {c}) \ {y} = R /\ (T \ {y}) \ {c} = R  OBVIOUS
    <3>4. SumOn(f, T \ {c}) = f[y] + SumOn(f, R)  BY <3>1, <3>2, <3>3
    <3>5. SumOn(f, T \ {y}) = f[c] + SumOn(f, R)  BY <3>1, <3>2, <3>3
    <3>6. f[c] \in Int /\ f[y] \in Int  BY <2>1, <2>2
    <3>7. R \in SUBSET S  OBVIOUS
    <3>8. SumOn(f, R) \in Int
      <4> HIDE DEF R
      <4>1. QED  BY <3>7, SumOnType
    <3>9. QED  BY <2>4, <3>4, <3>5, <3>6, <3>8
  <2>7. QED  BY <2>5, <2>6
<1>2. SUBSET S \subseteq G
  <2> HIDE DEF G
  <2>1. QED  BY <1>1, AllSubsets
<1>3. QED  BY <1>2

\* What a map says of a key, and its sum over the keys of a set that it has.
At(c, k) == IF k \in DOMAIN c THEN c[k] ELSE 0
SumIn(c, M) == SumOn(c, M \cap DOMAIN c)

\* An element of the set adds what the map says of it.
LEMMA SumInStep ==
  ASSUME NEW c, NEW M, IsFiniteSet(M), \A k \in M : At(c, k) \in Int, NEW x \in M
  PROVE  SumIn(c, M) = At(c, x) + SumIn(c, M \ {x})
<1> DEFINE E == M \cap DOMAIN c
<1>1. IsFiniteSet(E) /\ \A k \in E : c[k] \in Int /\ c[k] = At(c, k)
  <2>1. IsFiniteSet(E)  BY FS_Subset
  <2>2. QED  BY <2>1 DEF At
<1>2. CASE x \in DOMAIN c
  <2>1. (M \ {x}) \cap DOMAIN c = E \ {x} /\ x \in E  BY <1>2
  <2>2. SumOn(c, E) = c[x] + SumOn(c, E \ {x})
    <3> HIDE DEF E
    <3>1. QED  BY <1>1, <2>1, SumOnAny
  <2>3. QED  BY <1>1, <2>1, <2>2 DEF SumIn
<1>3. CASE x \notin DOMAIN c
  <2>1. (M \ {x}) \cap DOMAIN c = E  BY <1>3
  <2>2. SumOn(c, E) \in Int
    <3> HIDE DEF E
    <3>1. QED  BY <1>1, SumOnType
  <2>3. At(c, x) = 0  BY <1>3 DEF At
  <2>4. QED  BY <2>1, <2>2, <2>3 DEF SumIn
<1>4. QED  BY <1>2, <1>3

\* Such a sum is an integer.
LEMMA SumInType ==
  ASSUME NEW c, NEW M, IsFiniteSet(M), \A k \in M : At(c, k) \in Int
  PROVE  SumIn(c, M) \in Int /\ SumIn(c, {}) = 0
<1> DEFINE E == M \cap DOMAIN c
<1>1. IsFiniteSet(E) /\ \A k \in E : c[k] \in Int
  <2>1. IsFiniteSet(E)  BY FS_Subset
  <2>2. QED  BY <2>1 DEF At
<1>2. SumOn(c, E) \in Int
  <2> HIDE DEF E
  <2>1. QED  BY <1>1, SumOnType
<1>3. {} \cap DOMAIN c = {}  OBVIOUS
<1>4. QED  BY <1>2, <1>3, SumOnStep DEF SumIn

\* If each key of a set went up by some amount, or by at most that amount, so
\* did the sum over the set.
LEMMA SumsCompare ==
  ASSUME NEW M, IsFiniteSet(M), NEW e, NEW s, NEW g,
         \A k \in M : At(e, k) \in Int /\ At(s, k) \in Int /\ At(g, k) \in Int
  PROVE  /\ (\A k \in M : At(e, k) - At(s, k) = At(g, k)) =>
              SumIn(e, M) - SumIn(s, M) = SumIn(g, M)
         /\ (\A k \in M : At(e, k) - At(s, k) <= At(g, k)) =>
              SumIn(e, M) - SumIn(s, M) <= SumIn(g, M)
<1> DEFINE Same(T) == SumIn(e, T) - SumIn(s, T) = SumIn(g, T)
           Less(T) == SumIn(e, T) - SumIn(s, T) <= SumIn(g, T)
           allSame == \A k \in M : At(e, k) - At(s, k) = At(g, k)
           allLess == \A k \in M : At(e, k) - At(s, k) <= At(g, k)
           G == {T \in SUBSET M : (allSame => Same(T)) /\ (allLess => Less(T))}
<1>1. \A T \in SUBSET M : SumIn(e, T) \in Int /\ SumIn(s, T) \in Int /\ SumIn(g, T) \in Int
  <2>1. SUFFICES ASSUME NEW T \in SUBSET M
                 PROVE  SumIn(e, T) \in Int /\ SumIn(s, T) \in Int /\ SumIn(g, T) \in Int
    OBVIOUS
  <2>2. IsFiniteSet(T)  BY FS_Subset
  <2>3. QED  BY <2>2, SumInType
<1>2. ASSUME NEW T \in SUBSET M, \A x \in T : T \ {x} \in G  PROVE T \in G
  <2>1. CASE T = {}
    <3>1. SumIn(e, {}) = 0 /\ SumIn(s, {}) = 0 /\ SumIn(g, {}) = 0  BY SumInType
    <3>2. QED  BY <2>1, <3>1
  <2>2. CASE T # {}
    <3>1. PICK x \in T : TRUE  BY <2>2
    <3>2. IsFiniteSet(T)  BY FS_Subset
    <3> DEFINE U == T \ {x}
    <3>3. /\ SumIn(e, T) = At(e, x) + SumIn(e, U)
          /\ SumIn(s, T) = At(s, x) + SumIn(s, U)
          /\ SumIn(g, T) = At(g, x) + SumIn(g, U)
      BY <3>2, SumInStep
    <3>4. U \in SUBSET M /\ (allSame => Same(U)) /\ (allLess => Less(U))  BY <1>2, <3>1
    <3>5. /\ SumIn(e, U) \in Int /\ SumIn(s, U) \in Int /\ SumIn(g, U) \in Int
          /\ At(e, x) \in Int /\ At(s, x) \in Int /\ At(g, x) \in Int
      <4> HIDE DEF U
      <4>1. QED  BY <1>1, <3>1, <3>4
    <3> HIDE DEF U
    <3>6. ASSUME allSame  PROVE Same(T)
      <4>1. At(e, x) - At(s, x) = At(g, x)  BY <3>1, <3>6
      <4>2. QED  BY <3>3, <3>4, <3>5, <3>6, <4>1
    <3>7. ASSUME allLess  PROVE Less(T)
      <4>1. At(e, x) - At(s, x) <= At(g, x)  BY <3>1, <3>7
      <4>2. QED  BY <3>3, <3>4, <3>5, <3>7, <4>1
    <3>8. QED  BY <3>6, <3>7
  <2>3. QED  BY <2>1, <2>2
<1>3. SUBSET M \subseteq G
  <2> HIDE DEF G
  <2>1. QED  BY <1>2, AllSubsets
<1>4. M \in G  BY <1>3
<1>5. QED  BY <1>4

-----------------------------------------------------------------------------
\* A nonempty finite set of integers has its maximum.
LEMMA MaxIn ==
  ASSUME NEW S \in SUBSET Int, IsFiniteSet(S), S # {}
  PROVE  Max(S) \in S
<1> DEFINE G == {T \in SUBSET S : T # {} => \E m \in T : \A y \in T : m >= y}
<1>1. ASSUME NEW T \in SUBSET S, \A x \in T : T \ {x} \in G  PROVE T \in G
  <2>1. SUFFICES ASSUME NEW x \in T  PROVE \E m \in T : \A y \in T : m >= y  OBVIOUS
  <2>2. CASE T \ {x} = {}
    <3>1. T = {x}  BY <2>2
    <3>2. QED  BY <3>1
  <2>3. CASE T \ {x} # {}
    <3>1. PICK m \in T \ {x} : \A y \in T \ {x} : m >= y  BY <1>1, <2>3
    <3>2. CASE x >= m  BY <3>1, <3>2
    <3>3. CASE ~(x >= m)  BY <3>1, <3>3
    <3>4. QED  BY <3>2, <3>3
  <2>4. QED  BY <2>2, <2>3
<1>2. SUBSET S \subseteq G
  <2> HIDE DEF G
  <2>1. QED  BY <1>1, AllSubsets
<1>3. \E m \in S : \A y \in S : m >= y  BY <1>2
<1>4. QED  BY <1>3 DEF Max

\* A list that never gives a key two values makes the map of those values.
LEMMA LastWinsOf ==
  ASSUME NEW list, IsFiniteSet(DOMAIN list), DOMAIN list \subseteq Int,
         \A i, j \in DOMAIN list : list[i][1] = list[j][1] => list[i][2] = list[j][2]
  PROVE  /\ LastWins(list) = [x \in DOMAIN LastWins(list) |-> LastWins(list)[x]]
         /\ DOMAIN LastWins(list) = {list[i][1] : i \in DOMAIN list}
         /\ \A i \in DOMAIN list : LastWins(list)[list[i][1]] = list[i][2]
<1>1. ASSUME NEW k \in DOMAIN list
      PROVE  list[Max({i \in DOMAIN list : list[i][1] = list[k][1]})][2] = list[k][2]
  <2> DEFINE S == {i \in DOMAIN list : list[i][1] = list[k][1]}
  <2>1. S \in SUBSET Int /\ S # {} /\ IsFiniteSet(S)
    <3>1. IsFiniteSet(S)  BY FS_Subset
    <3>2. QED  BY <3>1
  <2>2. Max(S) \in S
    <3> HIDE DEF S
    <3>1. QED  BY <2>1, MaxIn
  <2>3. QED  BY <2>2
<1>2. QED  BY <1>1 DEF LastWins

\* SetToSeq lists each element of a finite set once.
LEMMA SetToSeqLists ==
  ASSUME NEW S, IsFiniteSet(S)
  PROVE  /\ Cardinality(S) \in Nat
         /\ SetToSeq(S) \in [1 .. Cardinality(S) -> S]
         /\ \A x \in S : \E i \in 1 .. Cardinality(S) : SetToSeq(S)[i] = x
<1> DEFINE n == Cardinality(S)
           f == SetToSeq(S)
<1>1. n \in Nat /\ ExistsBijection(1 .. n, S)  BY FS_CardinalityType
<1>2. \E h \in [1 .. n -> S] : IsInjective(h)
  <2>1. PICK h : h \in Bijection(1 .. n, S)  BY <1>1 DEF ExistsBijection
  <2>2. h \in [1 .. n -> S] /\ \A a, b \in 1 .. n : h[a] = h[b] => a = b
    BY <2>1 DEF Bijection, Injection, IsInjective
  <2>3. QED  BY <2>2 DEF IsInjective
<1>3. f \in [1 .. n -> S] /\ IsInjective(f)
  <2>1. f = CHOOSE h \in [1 .. n -> S] : IsInjective(h)  BY DEF SetToSeq
  <2>2. QED  BY <1>2, <2>1, Zenon
<1>4. f \in Injection(1 .. n, S)  BY <1>3 DEF Injection
<1>5. Cardinality(1 .. n) = n  BY <1>1, FS_Interval
<1>6. f \in Surjection(1 .. n, S)
  <2> HIDE DEF f
  <2>1. QED  BY <1>4, <1>5, FS_Injection
<1>7. QED  BY <1>1, <1>3, <1>6 DEF Surjection

-----------------------------------------------------------------------------
\* Whatever order its labels are written in, a key that is read is the key
\* that was written.
LEMMA LineReadsBack ==
  ASSUME NEW k \in Series, NEW order \in LabelOrders, NEW form
  PROVE  Canonicalize(Line(k, order, form).token) = k
<1> DEFINE places == {j \in DOMAIN order : order[j] \in DOMAIN k.labels}
           pairs == [i \in places |-> <<order[i], k.labels[order[i]]>>]
<1>1. IsKey(k) /\ DOMAIN k.labels \subseteq Range(order)
  BY MetricSamplesAssumption
<1>2. IsFiniteSet(places) /\ places \subseteq Int
  <2>1. IsFiniteSet(DOMAIN order) /\ DOMAIN order \subseteq Nat  BY MetricSamplesAssumption
  <2>2. IsFiniteSet(places)  BY <2>1, FS_Subset
  <2>3. QED  BY <2>1, <2>2
<1>3. \A i, j \in DOMAIN pairs : pairs[i][1] = pairs[j][1] => pairs[i][2] = pairs[j][2]
  OBVIOUS
<1>4. DOMAIN k.labels = {pairs[i][1] : i \in DOMAIN pairs}  BY <1>1 DEF Range
<1>5. LastWins(pairs) = [x \in DOMAIN k.labels |-> k.labels[x]]
  <2>1. IsFiniteSet(DOMAIN pairs) /\ DOMAIN pairs \subseteq Int  BY <1>2
  <2>2. \A i \in DOMAIN pairs : pairs[i][2] = k.labels[pairs[i][1]]  OBVIOUS
  <2> HIDE DEF pairs
  <2>3. /\ LastWins(pairs) = [x \in DOMAIN LastWins(pairs) |-> LastWins(pairs)[x]]
        /\ DOMAIN LastWins(pairs) = DOMAIN k.labels
        /\ \A i \in DOMAIN pairs : LastWins(pairs)[pairs[i][1]] = k.labels[pairs[i][1]]
    <3>1. /\ LastWins(pairs) = [x \in DOMAIN LastWins(pairs) |-> LastWins(pairs)[x]]
          /\ DOMAIN LastWins(pairs) = {pairs[i][1] : i \in DOMAIN pairs}
          /\ \A i \in DOMAIN pairs : LastWins(pairs)[pairs[i][1]] = pairs[i][2]
      BY <1>3, <2>1, LastWinsOf
    <3>2. QED  BY <1>4, <2>2, <3>1
  <2>4. \A x \in DOMAIN k.labels : LastWins(pairs)[x] = k.labels[x]  BY <1>4, <2>3
  <2>5. QED  BY <2>3, <2>4
<1>6. Line(k, order, form).token = [name |-> k.name, pairs |-> pairs]  BY DEF Line
<1>7. Canonicalize(Line(k, order, form).token) = [name |-> k.name, labels |-> LastWins(pairs)]
  <2> HIDE DEF pairs
  <2>1. QED  BY <1>6 DEF Canonicalize
<1>8. QED  BY <1>1, <1>5, <1>7 DEF IsKey

-----------------------------------------------------------------------------
\* The series that a text shows, and those of a sample that Aggregate adds up.
Seen(c, holes) == [k \in DOMAIN c \ holes |-> c[k]]
Summed(m) == {k \in DOMAIN m : Additive(k) /\ Bare(k.name) \notin DOMAIN m}

\* A text that can be read to its end gives the exporter's own series back,
\* but for the lines that have no readable key.
LEMMA ExpositionReadsBack ==
  ASSUME IsCounters(counter), NEW order \in LabelOrders, NEW holes,
         NEW form \in {"malformed", "badValue"},
         NEW text, text = Exposition(order, holes, form)
  PROVE  /\ ParseText(text).ok \in BOOLEAN
         /\ ParseText(text).sample =
              IF ParseText(text).ok THEN Seen(counter, text.holes) ELSE <<>>
<1> DEFINE keys == SetToSeq(DOMAIN counter)
           n == Cardinality(DOMAIN counter)
           read == {i \in DOMAIN text.lines : text.lines[i].form = "sample"}
           list == [i \in read |-> <<Canonicalize(text.lines[i].token), text.lines[i].value>>]
           bad == text.broken \/ \E i \in DOMAIN text.lines : text.lines[i].form = "badValue"
<1>1. DOMAIN counter \subseteq Series /\ IsFiniteSet(DOMAIN counter)
  <2>1. DOMAIN counter \in SUBSET Series /\ IsFiniteSet(Series)
    BY MetricSamplesAssumption DEF IsCounters
  <2>2. QED  BY <2>1, FS_Subset
<1>2. /\ n \in Nat
      /\ keys \in [1 .. n -> DOMAIN counter]
      /\ \A x \in DOMAIN counter : \E i \in 1 .. n : keys[i] = x
  BY <1>1, SetToSeqLists
<1> HIDE DEF keys, n
<1>3. /\ text.broken = FALSE
      /\ text.holes = IF form = "malformed" THEN holes ELSE {}
      /\ DOMAIN text.lines = 1 .. n
      /\ \A i \in 1 .. n :
           text.lines[i] = Line(keys[i], order, IF keys[i] \in holes THEN form ELSE "sample")
  BY <1>2 DEF Exposition, keys
<1>4. \A i \in 1 .. n :
        /\ text.lines[i].form = IF keys[i] \in holes THEN form ELSE "sample"
        /\ text.lines[i].value = counter[keys[i]]
        /\ Canonicalize(text.lines[i].token) = keys[i]
  <2>1. SUFFICES ASSUME NEW i \in 1 .. n
                 PROVE  /\ text.lines[i].form = IF keys[i] \in holes THEN form ELSE "sample"
                        /\ text.lines[i].value = counter[keys[i]]
                        /\ Canonicalize(text.lines[i].token) = keys[i]
    OBVIOUS
  <2> DEFINE f == IF keys[i] \in holes THEN form ELSE "sample"
  <2>2. text.lines[i] = Line(keys[i], order, f)  BY <1>3
  <2>3. keys[i] \in Series  BY <1>1, <1>2
  <2> HIDE DEF f
  <2>4. Canonicalize(text.lines[i].token) = keys[i]  BY <2>2, <2>3, LineReadsBack
  <2>5. text.lines[i].form = f /\ text.lines[i].value = counter[keys[i]]  BY <2>2 DEF Line
  <2>6. QED  BY <2>4, <2>5 DEF f
<1>5. CASE bad
  <2>1. ParseText(text) = [ok |-> FALSE, sample |-> <<>>]  BY <1>5 DEF ParseText
  <2>2. QED  BY <2>1
<1>6. CASE ~bad
  <2>1. \A i \in 1 .. n : i \in read <=> keys[i] \notin text.holes  BY <1>3, <1>4, <1>6
  <2>2. read \subseteq 1 .. n /\ DOMAIN list = read  BY <1>3
  <2>3. \A i \in read : list[i][1] = keys[i] /\ list[i][2] = counter[keys[i]]
    BY <1>4, <2>2
  <2>4. ParseText(text) = [ok |-> TRUE, sample |-> LastWins(list)]  BY <1>6 DEF ParseText
  <2>5. IsFiniteSet(read) /\ read \subseteq Int
    <3>1. IsFiniteSet(1 .. n)  BY <1>2, FS_Interval
    <3>2. IsFiniteSet(read)
      <4> HIDE DEF read
      <4>1. QED  BY <2>2, <3>1, FS_Subset
    <3>3. QED  BY <1>2, <2>2, <3>2
  <2> HIDE DEF list, read
  <2>6. \A i, j \in DOMAIN list : list[i][1] = list[j][1] => list[i][2] = list[j][2]
    <3>1. SUFFICES ASSUME NEW i \in read, NEW j \in read, list[i][1] = list[j][1]
                   PROVE  list[i][2] = list[j][2]
      BY <2>2
    <3>2. keys[i] = keys[j]  BY <2>3, <3>1
    <3>3. list[i][2] = counter[keys[i]] /\ list[j][2] = counter[keys[j]]  BY <2>3
    <3>4. QED  BY <3>2, <3>3
  <2>7. /\ LastWins(list) = [x \in DOMAIN LastWins(list) |-> LastWins(list)[x]]
        /\ DOMAIN LastWins(list) = {list[i][1] : i \in DOMAIN list}
        /\ \A i \in DOMAIN list : LastWins(list)[list[i][1]] = list[i][2]
    BY <2>2, <2>5, <2>6, LastWinsOf
  <2>8. {list[i][1] : i \in DOMAIN list} = DOMAIN counter \ text.holes
    <3>1. ASSUME NEW x \in DOMAIN counter \ text.holes
          PROVE  \E i \in DOMAIN list : list[i][1] = x
      <4>1. PICK i \in 1 .. n : keys[i] = x  BY <1>2
      <4>2. QED  BY <2>1, <2>2, <2>3, <4>1
    <3>2. \A i \in DOMAIN list : list[i][1] \in DOMAIN counter \ text.holes
      BY <1>2, <2>1, <2>2, <2>3
    <3>3. QED  BY <3>1, <3>2
  <2>9. \A x \in DOMAIN counter \ text.holes : LastWins(list)[x] = counter[x]
    BY <2>2, <2>3, <2>7, <2>8
  <2>10. LastWins(list) = Seen(counter, text.holes)  BY <2>7, <2>8, <2>9 DEF Seen
  <2>11. QED  BY <2>4, <2>10
<1>7. QED  BY <1>5, <1>6

\* What Aggregate keeps, and what it adds.
LEMMA AggregateFacts ==
  ASSUME NEW m
  PROVE  /\ DOMAIN Aggregate(m) = DOMAIN m \cup {Bare(k.name) : k \in Summed(m)}
         /\ \A k \in DOMAIN m : Aggregate(m)[k] = m[k]
         /\ \A k \in Summed(m) :
              Aggregate(m)[Bare(k.name)] = SumOn(m, {s \in Summed(m) : s.name = k.name})
<1> DEFINE summed == {k \in DOMAIN m : Additive(k) /\ Bare(k.name) \notin DOMAIN m}
           totals == {Bare(k.name) : k \in summed}
<1>1. Summed(m) = summed  BY DEF Summed
<1>2. \A k \in DOMAIN m : k \notin totals  OBVIOUS
<1>3. \A k : Bare(k.name).name = k.name  BY DEF Bare
<1>4. Aggregate(m) =
        [k \in DOMAIN m \cup totals |->
           IF k \in totals THEN SumOn(m, {s \in summed : s.name = k.name}) ELSE m[k]]
  BY DEF Aggregate, WithTotals
<1> HIDE DEF summed
<1>5. DOMAIN Aggregate(m) = DOMAIN m \cup totals  BY <1>4
<1>6. \A k \in DOMAIN m : Aggregate(m)[k] = m[k]  BY <1>2, <1>4
<1>7. ASSUME NEW k \in summed
      PROVE  Aggregate(m)[Bare(k.name)] = SumOn(m, {s \in summed : s.name = k.name})
  BY <1>3, <1>4
<1>8. QED  BY <1>1, <1>5, <1>6, <1>7

\* Counters make a sample of the keys and values that a sample may have.
LEMMA AggregateType ==
  ASSUME NEW m, DOMAIN m \subseteq Series, \A k \in DOMAIN m : m[k] \in Nat
  PROVE  /\ DOMAIN Aggregate(m) \subseteq SampleKeys
         /\ \A k \in DOMAIN Aggregate(m) : Aggregate(m)[k] \in Nat
<1>1. \A k \in Summed(m) : k \in Series /\ Additive(k)  BY DEF Summed
<1>2. /\ DOMAIN Aggregate(m) = DOMAIN m \cup {Bare(k.name) : k \in Summed(m)}
      /\ \A k \in DOMAIN m : Aggregate(m)[k] = m[k]
  BY AggregateFacts
<1>3. ASSUME NEW k \in Summed(m)  PROVE Aggregate(m)[Bare(k.name)] \in Nat
  <2> DEFINE M == {s \in Summed(m) : s.name = k.name}
  <2>1. M \in SUBSET Series /\ \A s \in M : m[s] \in Int /\ m[s] >= 0  BY DEF Summed
  <2>2. IsFiniteSet(M)
    <3> HIDE DEF M
    <3>1. QED  BY <2>1, MetricSamplesAssumption, FS_Subset
  <2>3. SumOn(m, M) \in Int /\ SumOn(m, M) >= 0
    <3> HIDE DEF M
    <3>1. QED  BY <2>1, <2>2, SumOnType
  <2>4. Aggregate(m)[Bare(k.name)] = SumOn(m, M)  BY AggregateFacts
  <2>5. QED  BY <2>3, <2>4
<1>4. DOMAIN Aggregate(m) \subseteq SampleKeys
  <2>1. ASSUME NEW k \in Summed(m)  PROVE Bare(k.name) \in SampleKeys  BY <1>1 DEF SampleKeys
  <2>2. DOMAIN m \subseteq SampleKeys  BY DEF SampleKeys
  <2>3. QED  BY <1>2, <2>1, <2>2
<1>5. QED  BY <1>2, <1>3, <1>4

-----------------------------------------------------------------------------
\* A labelled series never stands without the unlabelled one, if there is one.
BesideBare(c) == \A k \in DOMAIN c : Bare(k.name) \in Series => Bare(k.name) \in DOMAIN c

\* What a scrape returned is the exporter's series and their totals.
ScrapeInv(s) ==
  /\ IsScrape(s)
  /\ s.ok => s.taken
  /\ BesideBare(s.of)
  /\ s.ok => s.sample = Aggregate(Exposed(s))

\* A scrape reads what the exporter has.
LEMMA ScrapeReads ==
  ASSUME IsCounters(counter), BesideBare(counter), NEW text \in Texts
  PROVE  /\ ScrapeInv(Scraped(text))
         /\ Scraped(text).of = counter
         /\ Scraped(text).taken
<1> DEFINE got == ParseText(text)
           seen == IF got.ok THEN Seen(counter, text.holes) ELSE <<>>
           s == Scraped(text)
<1>1. got.ok \in BOOLEAN /\ got.sample = seen /\ text.holes \subseteq Series
  <2>1. CASE text = Broken
    <3>1. got = [ok |-> FALSE, sample |-> <<>>]  BY <2>1 DEF ParseText, Broken
    <3>2. text.holes = {}  BY <2>1 DEF Broken
    <3>3. QED  BY <3>1, <3>2
  <2>2. CASE text # Broken
    <3>1. PICK order \in LabelOrders, holes \in {{}} \cup {{k} : k \in DOMAIN counter},
               form \in {"malformed", "badValue"} : text = Exposition(order, holes, form)
      BY <2>2 DEF Texts
    <3>2. text.holes \subseteq holes  BY <3>1 DEF Exposition
    <3>3. holes \subseteq Series  BY <3>1 DEF IsCounters
    <3>4. got.ok \in BOOLEAN /\ got.sample = seen  BY <3>1, ExpositionReadsBack
    <3>5. QED  BY <3>2, <3>3, <3>4
  <2>3. QED  BY <2>1, <2>2
<1>2. s = [ok |-> got.ok, sample |-> Aggregate(got.sample), of |-> counter,
           holes |-> text.holes, taken |-> TRUE]
  <2>1. got = [ok |-> got.ok, sample |-> got.sample]  BY DEF ParseText
  <2>2. ParseWithAggregates(text) = [got EXCEPT !.sample = Aggregate(got.sample)]
    BY DEF ParseWithAggregates
  <2>3. /\ ParseWithAggregates(text).ok = got.ok
        /\ ParseWithAggregates(text).sample = Aggregate(got.sample)
    BY <2>1, <2>2
  <2>4. QED  BY <2>3 DEF Scraped
<1> HIDE DEF got, s
<1>3. /\ s.ok = got.ok /\ s.sample = Aggregate(seen) /\ s.of = counter
      /\ s.holes = text.holes /\ s.taken = TRUE
  BY <1>1, <1>2
<1>4. DOMAIN seen \subseteq Series /\ \A k \in DOMAIN seen : seen[k] \in Nat
  BY MetricSamplesAssumption DEF Seen, IsCounters
<1>5. /\ DOMAIN Aggregate(seen) \subseteq SampleKeys
      /\ \A k \in DOMAIN Aggregate(seen) : Aggregate(seen)[k] \in Nat
  <2> HIDE DEF seen
  <2>1. QED  BY <1>4, AggregateType
<1>6. s.ok => Exposed(s) = seen  BY <1>3 DEF Exposed, Seen
<1> HIDE DEF seen
<1>7. ScrapeInv(s)
  BY <1>1, <1>3, <1>5, <1>6 DEF ScrapeInv, IsScrape
<1>8. QED  BY <1>3, <1>7 DEF s

-----------------------------------------------------------------------------
\* The keys of a readable sample: those of the exporter's series, and bare
\* names that have an additive series but none of their own.
LEMMA SampleFacts ==
  ASSUME NEW s, ScrapeInv(s), s.ok
  PROVE  /\ DOMAIN Exposed(s) \subseteq Series
         /\ DOMAIN Exposed(s) = DOMAIN s.of \ s.holes
         /\ \A k \in DOMAIN Exposed(s) : Exposed(s)[k] = s.of[k] /\ s.of[k] \in Nat
         /\ DOMAIN s.sample = DOMAIN Exposed(s) \cup {Bare(k.name) : k \in Summed(Exposed(s))}
         /\ \A k \in DOMAIN Exposed(s) : s.sample[k] = Exposed(s)[k]
         /\ \A k \in Summed(Exposed(s)) :
              s.sample[Bare(k.name)] =
                SumOn(Exposed(s), {x \in Summed(Exposed(s)) : x.name = k.name})
<1> DEFINE m == Exposed(s)
<1>1. /\ DOMAIN m = DOMAIN s.of \ s.holes
      /\ \A k \in DOMAIN m : m[k] = s.of[k]
  BY DEF Exposed
<1>2. DOMAIN m \subseteq Series /\ \A k \in DOMAIN m : s.of[k] \in Nat
  BY <1>1, MetricSamplesAssumption DEF ScrapeInv, IsScrape, IsCounters
<1>3. s.sample = Aggregate(m)  BY DEF ScrapeInv
<1> HIDE DEF m
<1>4. /\ DOMAIN Aggregate(m) = DOMAIN m \cup {Bare(k.name) : k \in Summed(m)}
      /\ \A k \in DOMAIN m : Aggregate(m)[k] = m[k]
      /\ \A k \in Summed(m) :
           Aggregate(m)[Bare(k.name)] = SumOn(m, {x \in Summed(m) : x.name = k.name})
  BY AggregateFacts
<1>5. QED  BY <1>1, <1>2, <1>3, <1>4 DEF m

\* A bare key, and a total's key.
LEMMA BareFacts ==
  /\ \A n : Bare(n).name = n /\ IsBare(Bare(n))
  /\ \A k : Additive(k) => ~IsBare(k)
  /\ \A k \in Series : /\ Family[k] = k.name /\ Canonical[k] = k /\ k \in Keys
                       /\ Bare(k.name) \in Keys
                       /\ Family[Bare(k.name)] = k.name
                       /\ Canonical[Bare(k.name)] = Bare(k.name)
<1>1. \A n : Bare(n).name = n /\ IsBare(Bare(n))
  <2>1. SUFFICES ASSUME NEW n  PROVE Bare(n).name = n /\ DOMAIN Bare(n).labels = {}
    BY DEF IsBare
  <2>2. Bare(n).name = n /\ Bare(n).labels = <<>>  BY DEF Bare
  <2>3. QED  BY <2>2
<1>2. \A k : Additive(k) => ~IsBare(k)  BY DEF Additive
<1>3. ASSUME NEW k \in Series
      PROVE  /\ Family[k] = k.name /\ Canonical[k] = k /\ k \in Keys
             /\ Bare(k.name) \in Keys
             /\ Family[Bare(k.name)] = k.name
             /\ Canonical[Bare(k.name)] = Bare(k.name)
  <2>1. k \in Keys /\ Bare(k.name) \in Keys  BY MetricSamplesAssumption
  <2>2. QED  BY <1>1, <2>1, MetricSamplesAssumption
<1>4. QED  BY <1>1, <1>2, <1>3

\* A total is nothing to a selector.
LEMMA SelectorSees ==
  ASSUME NEW s, ScrapeInv(s), s.ok, NEW in \in Inputs, IsSelector(in)
  PROVE  /\ Matched(in, s.sample) = Matched(in, Exposed(s))
         /\ Resolves(in, s.sample) <=> Resolves(in, Exposed(s))
<1> DEFINE m == Exposed(s)
           totals == {Bare(k.name) : k \in Summed(m)}
<1>1. DOMAIN m \subseteq Series /\ DOMAIN s.sample = DOMAIN m \cup totals
  BY SampleFacts
<1>2. \A k \in in.match : ~IsBare(k)  BY MetricSamplesAssumption
<1>3. \A k \in Summed(m) : k \in DOMAIN m /\ k \in Series  BY <1>1 DEF Summed
<1>4. \A k \in Summed(m) : /\ Canonical[Bare(k.name)] = Bare(k.name)
                           /\ Family[Bare(k.name)] = Family[k]
                           /\ IsBare(Bare(k.name))
  BY <1>3, BareFacts
<1>5. \A k \in totals : Canonical[k] \notin in.match  BY <1>2, <1>4
<1>6. Matched(in, s.sample) = Matched(in, m)  BY <1>1, <1>5 DEF Matched, OfFamily
<1>7. OfFamily(in, s.sample) = {} <=> OfFamily(in, m) = {}
  <2>1. ASSUME NEW x \in OfFamily(in, s.sample)  PROVE OfFamily(in, m) # {}
    <3>1. x \in DOMAIN m \cup totals /\ Family[x] = in.metric  BY <1>1, <2>1 DEF OfFamily
    <3>2. CASE x \in DOMAIN m  BY <3>1, <3>2 DEF OfFamily
    <3>3. CASE x \in totals
      <4>1. PICK k \in Summed(m) : x = Bare(k.name)  BY <3>3
      <4>2. k \in OfFamily(in, m)  BY <1>3, <1>4, <3>1, <4>1 DEF OfFamily
      <4>3. QED  BY <4>2
    <3>4. QED  BY <3>1, <3>2, <3>3
  <2>2. OfFamily(in, m) \subseteq OfFamily(in, s.sample)  BY <1>1 DEF OfFamily
  <2>3. QED  BY <2>1, <2>2
<1> HIDE DEF m
<1>8. Resolves(in, s.sample) <=> Resolves(in, m)  BY <1>6, <1>7 DEF Resolves
<1>9. QED  BY <1>6, <1>8 DEF m

-----------------------------------------------------------------------------
\* The value of an input is the sum of what the exporter counted in the series
\* that it means.
LEMMA InputCounts ==
  ASSUME NEW s, ScrapeInv(s), s.ok, NEW in \in Inputs,
         \A k \in s.holes : k.name # NameOf(in),
         ~IsSelector(in) => in.key \in DOMAIN s.sample
  PROVE  \E c : /\ InputValue(in, s.sample) = SumIn(c, Meant(in))
                /\ \A k \in Meant(in) : At(c, k) = At(s.of, k)
<1> DEFINE m == Exposed(s)
           M == Meant(in)
<1>1. /\ DOMAIN m \subseteq Series
      /\ DOMAIN m = DOMAIN s.of \ s.holes
      /\ \A k \in DOMAIN m : m[k] = s.of[k] /\ s.of[k] \in Nat
      /\ DOMAIN s.sample = DOMAIN m \cup {Bare(k.name) : k \in Summed(m)}
      /\ \A k \in DOMAIN m : s.sample[k] = m[k]
      /\ \A k \in Summed(m) :
           s.sample[Bare(k.name)] = SumOn(m, {x \in Summed(m) : x.name = k.name})
  BY SampleFacts
<1>2. DOMAIN s.of \subseteq Series /\ BesideBare(s.of)
  BY DEF ScrapeInv, IsScrape, IsCounters
<1>3. \A k \in Summed(m) : k \in DOMAIN m /\ k \in Series /\ Additive(k)  BY <1>1 DEF Summed
<1>4. \A k : k.name = NameOf(in) => At(m, k) = At(s.of, k)  BY <1>1 DEF At
<1> HIDE DEF m
<1>5. CASE IsSelector(in)
  <2>1. M = {k \in Series : k.name = in.metric /\ k \in in.match} /\ NameOf(in) = in.metric
    BY <1>5 DEF Meant, NameOf
  <2>2. \A k \in M : ~IsBare(k)  BY <1>5, <2>1, MetricSamplesAssumption
  <2>3. Matched(in, m) = M \cap DOMAIN m
    <3>1. \A k \in DOMAIN m : Family[k] = k.name /\ Canonical[k] = k  BY <1>1, BareFacts
    <3>2. QED  BY <1>1, <2>1, <3>1 DEF Matched, OfFamily
  <2>4. M \cap DOMAIN s.sample = M \cap DOMAIN m
    <3>1. \A k \in Summed(m) : Bare(k.name) \notin M  BY <2>2, BareFacts
    <3>2. QED  BY <1>1, <3>1
  <2>5. Matched(in, s.sample) = Matched(in, m)  BY <1>5, SelectorSees DEF m
  <2>6. InputValue(in, s.sample) = SumIn(s.sample, M)
    BY <1>5, <2>3, <2>4, <2>5 DEF InputValue, SelectedValue, SumIn
  <2>7. \A k \in M : At(s.sample, k) = At(s.of, k)
    BY <1>1, <1>4, <2>1, <2>4 DEF At
  <2>8. QED  BY <2>6, <2>7
<1>6. CASE ~IsSelector(in) /\ in.key \in Series
  <2>1. M = {in.key} /\ NameOf(in) = in.key.name  BY <1>6 DEF Meant, NameOf
  <2>2. in.key \in DOMAIN m
    <3>1. CASE in.key \in DOMAIN m  BY <3>1
    <3>2. CASE in.key \notin DOMAIN m
      <4>1. PICK k \in Summed(m) : in.key = Bare(k.name)  BY <1>1, <1>6, <3>2
      <4>2. k \in DOMAIN s.of  BY <1>1, <1>3
      <4>3. in.key \in DOMAIN s.of  BY <1>2, <1>6, <4>1, <4>2 DEF BesideBare
      <4>4. QED  BY <1>1, <2>1, <4>3
    <3>3. QED  BY <3>1, <3>2
  <2>3. At(s.sample, in.key) = s.sample[in.key] /\ s.sample[in.key] = m[in.key]
    BY <1>1, <2>2 DEF At
  <2>4. SumIn(s.sample, {in.key}) = s.sample[in.key]
    <3> DEFINE c == s.sample
               x == in.key
               X == {x}
    <3>1. IsFiniteSet(X) /\ x \in X /\ X \ {x} = {}  BY FS_Singleton
    <3>2. c[x] = At(c, x) /\ c[x] \in Int  BY <1>1, <2>2, <2>3
    <3>3. \A y \in X : At(c, y) \in Int  BY <3>2
    <3> HIDE DEF c, x, X
    <3>4. SumIn(c, X) = At(c, x) + SumIn(c, {})  BY <3>1, <3>3, SumInStep
    <3>5. SumIn(c, {}) = 0  BY <3>1, <3>3, SumInType
    <3>6. SumIn(c, X) = c[x]  BY <3>2, <3>4, <3>5
    <3>7. QED  BY <3>6 DEF c, x, X
  <2>5. InputValue(in, s.sample) = SumIn(s.sample, M)  BY <1>6, <2>1, <2>4 DEF InputValue
  <2>6. \A k \in M : At(s.sample, k) = At(s.of, k)
    <3>1. At(m, in.key) = m[in.key] /\ At(m, in.key) = At(s.of, in.key)
      BY <1>4, <2>1, <2>2 DEF At
    <3>2. QED  BY <2>1, <2>3, <3>1
  <2>7. QED  BY <2>5, <2>6
<1>7. CASE ~IsSelector(in) /\ in.key \notin Series
  <2>1. PICK k0 \in Summed(m) : in.key = Bare(k0.name)  BY <1>1, <1>7
  <2>2. in.key.name = k0.name /\ NameOf(in) = k0.name  BY <1>7, <2>1, BareFacts DEF NameOf
  <2>3. \A k : Bare(k.name) = in.key <=> k.name = k0.name
    <3>1. SUFFICES ASSUME NEW k  PROVE Bare(k.name) = in.key <=> k.name = k0.name  OBVIOUS
    <3>2. Bare(k.name).name = k.name  BY BareFacts
    <3>3. k.name = k0.name => Bare(k.name) = Bare(k0.name)  BY Zenon
    <3>4. QED  BY <2>1, <2>2, <3>2, <3>3
  <2>4. M = {k \in Series : k.name = k0.name /\ Additive(k)}
    BY <1>7, <2>3 DEF Meant
  <2>5. in.key \notin DOMAIN m  BY <1>1, <1>7
  <2>6. {x \in Summed(m) : x.name = k0.name} = M \cap DOMAIN m
    <3>1. ASSUME NEW x \in DOMAIN m, x.name = k0.name, Additive(x)  PROVE x \in Summed(m)
      <4>1. Bare(x.name) = in.key  BY <2>3, <3>1
      <4>2. QED  BY <2>5, <3>1, <4>1 DEF Summed
    <3>2. QED  BY <1>3, <2>4, <3>1
  <2>7. s.sample[in.key] = SumOn(m, M \cap DOMAIN m)  BY <1>1, <2>1, <2>6
  <2>8. InputValue(in, s.sample) = SumIn(m, M)  BY <1>7, <2>7 DEF InputValue, SumIn
  <2>9. \A k \in M : At(m, k) = At(s.of, k)  BY <1>4, <2>2, <2>4
  <2>10. QED  BY <2>8, <2>9
<1>8. QED  BY <1>5, <1>6, <1>7

\* What the counters of the series say since some counters were read.
Kept(c, since) ==
  \A k \in Series : IF restarted THEN At(c, k) <= grown[k] ELSE At(c, k) = At(since, k) + grown[k]

\* A delta is the number of events, or less.
LEMMA DeltaCounts ==
  ASSUME grown \in [Series -> Nat], ScrapeInv(start), ScrapeInv(end), Kept(end.of, start.of),
         start.ok, end.ok, NEW in \in Inputs,
         \A k \in start.holes \cup end.holes : k.name # NameOf(in),
         ~IsSelector(in) => in.key \in DOMAIN start.sample \cap DOMAIN end.sample
  PROVE  LET delta == InputValue(in, end.sample) - InputValue(in, start.sample)
             events == SumOn(grown, Meant(in))
         IN  delta <= events /\ (~restarted => delta = events)
<1> DEFINE M == Meant(in)
<1>1. M \subseteq Series /\ IsFiniteSet(M)
  <2>1. M \in SUBSET Series /\ IsFiniteSet(Series)  BY MetricSamplesAssumption DEF Meant
  <2>2. QED  BY <2>1, FS_Subset
<1>2. PICK s : /\ InputValue(in, start.sample) = SumIn(s, M)
               /\ \A k \in M : At(s, k) = At(start.of, k)
  BY InputCounts
<1>3. PICK e : /\ InputValue(in, end.sample) = SumIn(e, M)
               /\ \A k \in M : At(e, k) = At(end.of, k)
  BY InputCounts
<1> HIDE DEF M
<1>4. SumOn(grown, M) = SumIn(grown, M) /\ \A k \in M : At(grown, k) = grown[k]
  <2>1. M \cap DOMAIN grown = M  BY <1>1
  <2>2. QED  BY <1>1, <2>1 DEF SumIn, At
<1>5. \A k \in M : At(start.of, k) \in Nat /\ At(end.of, k) \in Nat /\ grown[k] \in Nat
  BY <1>1, MetricSamplesAssumption DEF ScrapeInv, IsScrape, IsCounters, At
<1>6. \A k \in M : At(e, k) \in Int /\ At(s, k) \in Int /\ At(grown, k) \in Int
  BY <1>2, <1>3, <1>4, <1>5
<1>7. \A k \in M : At(e, k) - At(s, k) <= At(grown, k)
  BY <1>1, <1>2, <1>3, <1>4, <1>5 DEF Kept
<1>8. ~restarted => \A k \in M : At(e, k) - At(s, k) = At(grown, k)
  BY <1>1, <1>2, <1>3, <1>4, <1>5 DEF Kept
<1>9. /\ SumIn(e, M) - SumIn(s, M) <= SumIn(grown, M)
      /\ ~restarted => SumIn(e, M) - SumIn(s, M) = SumIn(grown, M)
  BY <1>1, <1>6, <1>7, <1>8, SumsCompare
<1>10. QED  BY <1>2, <1>3, <1>4, <1>9 DEF M

-----------------------------------------------------------------------------
\* The numbers of a set up to one of them; how many there are is its rank.
UpTo(S, x) == {y \in S : y <= x}

\* The ranks of a finite set of numbers begin at 1 and grow with the numbers.
LEMMA RankGrows ==
  ASSUME NEW S \in SUBSET Int, IsFiniteSet(S), NEW x \in S, NEW z \in S
  PROVE  /\ Cardinality(UpTo(S, x)) \in 1 .. Cardinality(S)
         /\ x < z => Cardinality(UpTo(S, x)) < Cardinality(UpTo(S, z))
<1> DEFINE A == UpTo(S, x)
           B == UpTo(S, z)
<1>1. A \in SUBSET S /\ B \in SUBSET S /\ x \in A  BY DEF UpTo
<1>2. ASSUME x < z  PROVE A \in SUBSET B /\ z \in B /\ z \notin A
  <2>1. \A y \in S : y <= x => y <= z  BY <1>2
  <2>2. z <= z /\ ~(z <= x)  BY <1>2
  <2>3. QED  BY <2>1, <2>2 DEF UpTo
<1> HIDE DEF A, B
<1>3. /\ IsFiniteSet(A) /\ Cardinality(A) \in Nat /\ Cardinality(A) <= Cardinality(S)
      /\ IsFiniteSet(B) /\ Cardinality(B) \in Nat /\ Cardinality(S) \in Nat
  BY <1>1, FS_Subset, FS_CardinalityType
<1>4. Cardinality(A) # 0  BY <1>1, <1>3, FS_EmptySet
<1>5. ASSUME x < z  PROVE Cardinality(A) < Cardinality(B)
  <2>1. A \in SUBSET B /\ A # B  BY <1>2, <1>5
  <2>2. Cardinality(A) <= Cardinality(B) /\ (Cardinality(B) = Cardinality(A) => B = A)
    BY <1>3, <2>1, FS_Subset
  <2>3. QED  BY <1>3, <2>1, <2>2
<1>6. QED  BY <1>3, <1>4, <1>5 DEF A, B

\* InOrder has each number of a set, once and in ascending order.
LEMMA InOrderFacts ==
  ASSUME NEW S \in SUBSET Int, IsFiniteSet(S)
  PROVE  /\ Cardinality(S) \in Nat
         /\ InOrder(S) \in [1 .. Cardinality(S) -> S]
         /\ \A x \in S : \E n \in 1 .. Cardinality(S) : InOrder(S)[n] = x
         /\ \A m, n \in 1 .. Cardinality(S) : m < n => InOrder(S)[m] < InOrder(S)[n]
<1> DEFINE c == Cardinality(S)
           rank == [x \in S |-> Cardinality(UpTo(S, x))]
           o == InOrder(S)
<1>1. c \in Nat  BY FS_CardinalityType
<1>2. \A x \in S : rank[x] \in 1 .. c  BY RankGrows
<1>3. \A x, z \in S : x < z => rank[x] < rank[z]  BY RankGrows
<1>4. o = [n \in 1 .. c |-> CHOOSE x \in S : rank[x] = n]
  <2>1. \A n \in 1 .. c : (CHOOSE x \in S : rank[x] = n) =
                          (CHOOSE x \in S : Cardinality({y \in S : y <= x}) = n)
    BY Zenon DEF UpTo
  <2>2. QED  BY <2>1 DEF InOrder
<1> HIDE DEF o
<1>5. rank \in [S -> 1 .. c]  BY <1>2
<1> HIDE DEF rank
<1>6. \A x, z \in S : rank[x] = rank[z] => x = z
  <2>1. SUFFICES ASSUME NEW x \in S, NEW z \in S, x # z  PROVE rank[x] # rank[z]  OBVIOUS
  <2>2. rank[x] \in Int /\ rank[z] \in Int  BY <1>1, <1>2
  <2>3. x < z \/ z < x  BY <2>1
  <2>4. QED  BY <1>3, <2>2, <2>3
<1>7. rank \in Injection(S, 1 .. c)  BY <1>5, <1>6 DEF Injection, IsInjective
<1>8. IsFiniteSet(1 .. c) /\ Cardinality(1 .. c) = c  BY <1>1, FS_Interval
<1>9. rank \in Surjection(S, 1 .. c)  BY <1>7, <1>8, FS_Injection
<1>10. \A n \in 1 .. c : \E x \in S : rank[x] = n  BY <1>9 DEF Surjection
<1>11. \A n \in 1 .. c : o[n] \in S /\ rank[o[n]] = n
  <2>1. SUFFICES ASSUME NEW n \in 1 .. c  PROVE o[n] \in S /\ rank[o[n]] = n  OBVIOUS
  <2>2. o[n] = CHOOSE x \in S : rank[x] = n  BY <1>4
  <2>3. \E x \in S : rank[x] = n  BY <1>10
  <2>4. QED  BY <2>2, <2>3, Zenon
<1>12. o \in [1 .. c -> S]  BY <1>4, <1>11
<1>13. ASSUME NEW x \in S  PROVE \E n \in 1 .. c : o[n] = x
  <2>1. rank[x] \in 1 .. c  BY <1>2
  <2>2. o[rank[x]] = x  BY <1>6, <1>11, <2>1
  <2>3. QED  BY <2>1, <2>2
<1>14. ASSUME NEW m \in 1 .. c, NEW n \in 1 .. c, m < n  PROVE o[m] < o[n]
  <2>1. o[m] \in S /\ o[n] \in S /\ rank[o[m]] = m /\ rank[o[n]] = n  BY <1>11
  <2>2. o[n] < o[m] => n < m  BY <1>3, <2>1
  <2>3. o[n] # o[m]  BY <1>1, <1>14, <2>1
  <2>4. o[m] \in Int /\ o[n] \in Int  BY <2>1
  <2>5. QED  BY <1>1, <1>14, <2>2, <2>3, <2>4
<1>15. QED  BY <1>1, <1>12, <1>13, <1>14 DEF o

-----------------------------------------------------------------------------
\* Series that do not contradict each other all have their point in the sample
\* of its time.
LEMMA SampleAtFacts ==
  ASSUME NEW result, NEW query, NEW t, IsFiniteSet(DOMAIN result), DOMAIN result \subseteq Int,
         NEW here \in SUBSET DOMAIN result,
         \A j \in DOMAIN result : j \in here <=> t \in DOMAIN Points(result[j]),
         \A i, j \in here :
           SeriesKey(result[i].metric, query) = SeriesKey(result[j].metric, query)
             => Points(result[i])[t] = Points(result[j])[t]
  PROVE  /\ \A x \in DOMAIN SampleAt(result, query, t) :
              \E i \in here : x = SeriesKey(result[i].metric, query)
         /\ \A i \in here :
              SeriesKey(result[i].metric, query) \in DOMAIN SampleAt(result, query, t)
         /\ \A i \in here : SampleAt(result, query, t)[SeriesKey(result[i].metric, query)]
                              = Points(result[i])[t]
<1> DEFINE list == [i \in here |-> <<SeriesKey(result[i].metric, query), Points(result[i])[t]>>]
<1>1. SampleAt(result, query, t) = LastWins(list)
  <2>1. here = {j \in DOMAIN result : t \in DOMAIN Points(result[j])}  OBVIOUS
  <2>2. QED  BY <2>1, Zenon DEF SampleAt
<1>2. IsFiniteSet(here) /\ here \subseteq Int  BY FS_Subset
<1>3. /\ DOMAIN list = here
      /\ \A i \in here : /\ list[i][1] = SeriesKey(result[i].metric, query)
                         /\ list[i][2] = Points(result[i])[t]
  OBVIOUS
<1> HIDE DEF list
<1>4. \A i, j \in DOMAIN list : list[i][1] = list[j][1] => list[i][2] = list[j][2]
  BY <1>3
<1>5. /\ LastWins(list) = [x \in DOMAIN LastWins(list) |-> LastWins(list)[x]]
      /\ DOMAIN LastWins(list) = {list[i][1] : i \in DOMAIN list}
      /\ \A i \in DOMAIN list : LastWins(list)[list[i][1]] = list[i][2]
  BY <1>2, <1>3, <1>4, LastWinsOf
<1>6. QED  BY <1>1, <1>3, <1>5

\* The window has a sample for each time of a point, in ascending order.
LEMMA ParseRangeFacts ==
  ASSUME NEW answer, NEW query, answer.matrix,
         NEW U \in SUBSET Int, IsFiniteSet(U),
         \A t \in U : \E i \in DOMAIN answer.result : t \in DOMAIN Points(answer.result[i]),
         \A i \in DOMAIN answer.result : DOMAIN Points(answer.result[i]) \subseteq U,
         NEW w, w = ParseRange(answer, query).samples
  PROVE  /\ DOMAIN w \subseteq Int
         /\ \A n \in DOMAIN w : /\ w[n].at \in U
                                /\ w[n].values = SampleAt(answer.result, query, w[n].at)
         /\ \A t \in U : \E n \in DOMAIN w : w[n].at = t
         /\ \A m, n \in DOMAIN w : m < n => w[m].at < w[n].at
<1> DEFINE times == InOrder(U)
           c == Cardinality(U)
<1>1. /\ c \in Nat
      /\ times \in [1 .. c -> U]
      /\ \A x \in U : \E n \in 1 .. c : times[n] = x
      /\ \A m, n \in 1 .. c : m < n => times[m] < times[n]
  BY InOrderFacts
<1>2. ParseRange(answer, query) =
        [ok |-> TRUE, samples |-> [n \in DOMAIN times |->
           [at |-> times[n], values |-> SampleAt(answer.result, query, times[n])]]]
  <2>1. U = UNION {DOMAIN Points(answer.result[i]) : i \in DOMAIN answer.result}  OBVIOUS
  <2>2. QED  BY <2>1, Zenon DEF ParseRange
<1> HIDE DEF times, c
<1>3. /\ DOMAIN w = 1 .. c
      /\ \A n \in 1 .. c : /\ w[n].at = times[n]
                           /\ w[n].values = SampleAt(answer.result, query, times[n])
  BY <1>1, <1>2
<1>4. \A n \in 1 .. c : w[n].at \in U  BY <1>1, <1>3
<1>5. \A t \in U : \E n \in DOMAIN w : w[n].at = t  BY <1>1, <1>3
<1>6. \A m, n \in DOMAIN w : m < n => w[m].at < w[n].at  BY <1>1, <1>3
<1>7. DOMAIN w \subseteq Int  BY <1>1, <1>3
<1>8. QED  BY <1>3, <1>4, <1>5, <1>6, <1>7

-----------------------------------------------------------------------------
\* The key that stands for a series in the answer to a query, and back.
Named(query, key) ==
  IF query = Expression THEN [name |-> Queried, labels |-> key.labels] ELSE key

InAnswer(k, query) ==
  SeriesKey([name |-> IF query = Expression THEN "" ELSE k.name, labels |-> k.labels], query)

\* A series of the queried metric can be told from its key in the answer.
LEMMA KeyNamesSeries ==
  ASSUME NEW k \in Series, k.name = Queried, NEW query \in {Queried, Expression}
  PROVE  Named(query, InAnswer(k, query)) = k
<1> DEFINE metric == [name |-> IF query = Expression THEN "" ELSE k.name, labels |-> k.labels]
<1>1. InAnswer(k, query) = SeriesKey(metric, query)  BY DEF InAnswer
<1>2. k = [name |-> k.name, labels |-> k.labels]
  <2>1. IsKey(k)  BY MetricSamplesAssumption
  <2> DEFINE l == [x \in DOMAIN k.labels |-> k.labels[x]]
  <2>2. k = [name |-> k.name, labels |-> l]  BY <2>1 DEF IsKey
  <2> HIDE DEF l
  <2>3. [name |-> k.name, labels |-> l].labels = l  OBVIOUS
  <2>4. k.labels = l  BY <2>2, <2>3, Zenon
  <2>5. QED  BY <2>2, <2>4, Zenon
<1>3. metric.labels = k.labels /\ metric.name = IF query = Expression THEN "" ELSE k.name
  OBVIOUS
<1> HIDE DEF metric
<1>4. InAnswer(k, query).labels = k.labels
  <2>1. SeriesKey(metric, query).labels = k.labels  BY <1>3 DEF SeriesKey
  <2>2. QED  BY <1>1, <2>1
<1>5. CASE query = Expression  BY <1>2, <1>4, <1>5 DEF Named
<1>6. CASE query # Expression
  <2>1. metric.name = k.name /\ query = k.name  BY <1>3, <1>6
  <2>2. InAnswer(k, query) = [name |-> k.name, labels |-> k.labels]
    BY <1>1, <1>3, <2>1 DEF SeriesKey
  <2>3. QED  BY <1>2, <1>6, <2>2 DEF Named
<1>7. QED  BY <1>5, <1>6

\* A series of an answer has the points that Prometheus stored of it.
Unspoilt(k, from, garbled) == {t \in TimesOf(k, from) : <<t, k>> \notin garbled}

\* The times at which a series was stored are finitely many numbers.
LEMMA TimesOfFinite ==
  ASSUME DOMAIN stored \subseteq 0 .. MaxTime, NEW k, NEW from
  PROVE  TimesOf(k, from) \in SUBSET Int /\ IsFiniteSet(TimesOf(k, from))
<1>1. TimesOf(k, from) \in SUBSET (0 .. MaxTime)  BY DEF TimesOf
<1>2. IsFiniteSet(0 .. MaxTime)  BY MetricSamplesAssumption, FS_Interval
<1>3. IsFiniteSet(TimesOf(k, from))  BY <1>1, <1>2, FS_Subset
<1>4. QED  BY <1>1, <1>3

\* A pair carries its time and what was stored then.
LEMMA PairFacts ==
  ASSUME NEW k, NEW t, NEW garbled
  PROVE  /\ Pair(k, t, garbled).form = "pair" <=> <<t, k>> \notin garbled
         /\ Pair(k, t, garbled).at = t
         /\ Pair(k, t, garbled).value = stored[t][k]
BY DEF Pair

\* The points of an answered series are those that were not garbled.
LEMMA AnsweredPoints ==
  ASSUME DOMAIN stored \subseteq 0 .. MaxTime,
         NEW k, NEW from, NEW query, NEW garbled, NEW r, r = Answered(k, from, query, garbled)
  PROVE  /\ DOMAIN Points(r) = Unspoilt(k, from, garbled)
         /\ \A t \in Unspoilt(k, from, garbled) : Points(r)[t] = stored[t][k]
<1> DEFINE T == TimesOf(k, from)
           times == InOrder(T)
           c == Cardinality(T)
<1>1. T \in SUBSET Int /\ IsFiniteSet(T)  BY TimesOfFinite
<1>2. /\ c \in Nat
      /\ times \in [1 .. c -> T]
      /\ \A x \in T : \E n \in 1 .. c : times[n] = x
  <2> HIDE DEF T
  <2>1. QED  BY <1>1, InOrderFacts
<1>3. r.values = [j \in DOMAIN times |-> Pair(k, times[j], garbled)]
  <2> DEFINE a == Answered(k, from, query, garbled)
             v == [j \in DOMAIN times |-> Pair(k, times[j], garbled)]
  <2>1. a.values = v  BY Zenon DEF Answered
  <2>2. r = a  OBVIOUS
  <2> HIDE DEF v, a
  <2>3. r.values = v  BY <2>1, <2>2
  <2>4. QED  BY <2>3 DEF v
<1>4. Unspoilt(k, from, garbled) = {t \in T : <<t, k>> \notin garbled}  BY DEF Unspoilt
<1> HIDE DEF times, T, c
<1>5. /\ DOMAIN r.values = 1 .. c
      /\ \A j \in 1 .. c :
           /\ r.values[j].form = "pair" <=> <<times[j], k>> \notin garbled
           /\ r.values[j].at = times[j]
           /\ r.values[j].value = stored[times[j]][k]
  <2>1. DOMAIN times = 1 .. c  BY <1>2
  <2>2. DOMAIN r.values = 1 .. c /\ \A j \in 1 .. c : r.values[j] = Pair(k, times[j], garbled)
    BY <1>3, <2>1
  <2>3. ASSUME NEW j \in 1 .. c
        PROVE  /\ r.values[j].form = "pair" <=> <<times[j], k>> \notin garbled
               /\ r.values[j].at = times[j]
               /\ r.values[j].value = stored[times[j]][k]
    <3> DEFINE p == Pair(k, times[j], garbled)
               v == r.values[j]
    <3>1. /\ p.form = "pair" <=> <<times[j], k>> \notin garbled
          /\ p.at = times[j]
          /\ p.value = stored[times[j]][k]
      BY PairFacts
    <3>2. v = p  BY <2>2
    <3> HIDE DEF p, v
    <3>3. /\ v.form = "pair" <=> <<times[j], k>> \notin garbled
          /\ v.at = times[j]
          /\ v.value = stored[times[j]][k]
      BY <3>1, <3>2
    <3>4. QED  BY <3>3 DEF v
  <2>4. QED  BY <2>2, <2>3
<1> DEFINE good == {j \in DOMAIN r.values : r.values[j].form = "pair"}
           list == [j \in good |-> <<r.values[j].at, r.values[j].value>>]
<1>6. Points(r) = LastWins(list)  BY DEF Points
<1>7. IsFiniteSet(good) /\ good \subseteq Int
  <2>1. good \in SUBSET (1 .. c)  BY <1>5
  <2>2. IsFiniteSet(1 .. c)  BY <1>2, FS_Interval
  <2> HIDE DEF good
  <2>3. IsFiniteSet(good)  BY <2>1, <2>2, FS_Subset
  <2>4. QED  BY <1>2, <2>1, <2>3
<1>8. /\ DOMAIN list = good
      /\ \A j \in good : /\ j \in 1 .. c /\ <<times[j], k>> \notin garbled
                         /\ list[j][1] = times[j] /\ list[j][2] = stored[times[j]][k]
  BY <1>5
<1>9. \A j \in 1 .. c : <<times[j], k>> \notin garbled => j \in good  BY <1>5
<1> HIDE DEF good, list
<1>10. \A m, n \in DOMAIN list : list[m][1] = list[n][1] => list[m][2] = list[n][2]
  <2>1. SUFFICES ASSUME NEW m \in DOMAIN list, NEW n \in DOMAIN list, list[m][1] = list[n][1]
                 PROVE  list[m][2] = list[n][2]
    OBVIOUS
  <2>2. m \in good /\ n \in good  BY <1>8, <2>1
  <2>3. times[m] = times[n]  BY <1>8, <2>1, <2>2
  <2>4. /\ list[m][2] = stored[times[m]][k]
        /\ list[n][2] = stored[times[n]][k]
    BY <1>8, <2>2, Zenon
  <2>5. QED  BY <2>3, <2>4, Zenon
<1>11. /\ LastWins(list) = [x \in DOMAIN LastWins(list) |-> LastWins(list)[x]]
       /\ DOMAIN LastWins(list) = {list[n][1] : n \in DOMAIN list}
       /\ \A n \in DOMAIN list : LastWins(list)[list[n][1]] = list[n][2]
  BY <1>7, <1>8, <1>10, LastWinsOf
<1>12. {list[n][1] : n \in DOMAIN list} = Unspoilt(k, from, garbled)
  <2>1. ASSUME NEW t \in Unspoilt(k, from, garbled)
        PROVE  \E n \in DOMAIN list : list[n][1] = t
    <3>1. PICK n \in 1 .. c : times[n] = t  BY <1>2, <1>4
    <3>2. QED  BY <1>4, <1>8, <1>9, <3>1
  <2>2. \A n \in DOMAIN list : list[n][1] \in Unspoilt(k, from, garbled)
    BY <1>2, <1>4, <1>8
  <2>3. QED  BY <2>1, <2>2
<1>13. \A t \in Unspoilt(k, from, garbled) : Points(r)[t] = stored[t][k]
  <2>1. SUFFICES ASSUME NEW t \in Unspoilt(k, from, garbled)
                 PROVE  Points(r)[t] = stored[t][k]
    OBVIOUS
  <2>2. PICK n \in DOMAIN list : list[n][1] = t  BY <1>12
  <2>3. LastWins(list)[t] = list[n][2]  BY <1>11, <2>2
  <2>4. list[n][2] = stored[t][k]  BY <1>8, <2>2
  <2>5. QED  BY <1>6, <2>3, <2>4
<1>14. QED  BY <1>6, <1>11, <1>12, <1>13

-----------------------------------------------------------------------------
\* An order of a finite set has each of its members.
LEMMA OrderFacts ==
  ASSUME NEW S, IsFiniteSet(S), NEW order \in SetToSeqs(S)
  PROVE  /\ Cardinality(S) \in Nat
         /\ order \in [1 .. Cardinality(S) -> S]
         /\ \A k \in S : \E i \in 1 .. Cardinality(S) : order[i] = k
<1> DEFINE c == Cardinality(S)
<1>1. c \in Nat  BY FS_CardinalityType
<1>2. order \in [1 .. c -> S] /\ \A i, j \in 1 .. c : i # j => order[i] # order[j]
  BY DEF SetToSeqs
<1>3. order \in Injection(1 .. c, S)  BY <1>2 DEF Injection, IsInjective
<1>4. IsFiniteSet(1 .. c) /\ Cardinality(1 .. c) = c  BY <1>1, FS_Interval
<1>5. order \in Surjection(1 .. c, S)  BY <1>3, <1>4, FS_Injection
<1>6. QED  BY <1>1, <1>2, <1>5 DEF Surjection

\* An answer to a query that is a matrix.
IsAnswer(answer, order, from, query, garbled) ==
  /\ answer.matrix
  /\ DOMAIN answer.result = DOMAIN order
  /\ \A i \in DOMAIN order : answer.result[i] = Answered(order[i], from, query, garbled)

\* The samples, by time, that have each of its points, and no other.
IsWindowOf(w, from, query, garbled) ==
  /\ DOMAIN w \subseteq Int
  /\ \A n \in DOMAIN w : w[n].at \in 0 .. MaxTime
  /\ \A m, n \in DOMAIN w : m < n => w[m].at < w[n].at
  /\ \A n \in DOMAIN w : \A key \in DOMAIN w[n].values :
       \E k \in Found(from) :
         /\ w[n].at \in Unspoilt(k, from, garbled) /\ key = InAnswer(k, query)
         /\ w[n].values[key] = stored[w[n].at][k]
  /\ \A k \in Found(from) : \A t \in Unspoilt(k, from, garbled) :
       \E n \in DOMAIN w : w[n].at = t /\ InAnswer(k, query) \in DOMAIN w[n].values

\* What the window makes of an answer: each point of it that is one, and no other.
LEMMA AnswerReadsBack ==
  ASSUME DOMAIN stored \subseteq 0 .. MaxTime,
         NEW from, NEW query \in {Queried, Expression}, NEW garbled,
         NEW order \in SetToSeqs(Found(from)),
         NEW answer, IsAnswer(answer, order, from, query, garbled),
         NEW w, w = ParseRange(answer, query).samples
  PROVE  IsWindowOf(w, from, query, garbled)
<1> DEFINE S == Found(from)
           c == Cardinality(S)
           result == answer.result
           key(i) == SeriesKey(result[i].metric, query)
           U == UNION {DOMAIN Points(result[i]) : i \in DOMAIN result}
<1>1. S \in SUBSET Series  BY DEF Found
<1>2. IsFiniteSet(S)  BY <1>1, MetricSamplesAssumption, FS_Subset
<1>3. /\ c \in Nat
      /\ order \in [1 .. c -> S]
      /\ \A k \in S : \E i \in 1 .. c : order[i] = k
  <2>1. order \in SetToSeqs(S)  OBVIOUS
  <2> HIDE DEF S
  <2>2. QED  BY <1>2, <2>1, OrderFacts
<1>4. /\ DOMAIN result = 1 .. c
      /\ \A i \in 1 .. c : result[i] = Answered(order[i], from, query, garbled)
  <2>1. DOMAIN order = 1 .. c  BY <1>3
  <2> HIDE DEF c, S
  <2>2. QED  BY <2>1 DEF IsAnswer
<1> HIDE DEF result, S, c
<1>5. ASSUME NEW i \in 1 .. c
      PROVE  /\ DOMAIN Points(result[i]) = Unspoilt(order[i], from, garbled)
             /\ \A t \in Unspoilt(order[i], from, garbled) :
                  Points(result[i])[t] = stored[t][order[i]]
             /\ key(i) = InAnswer(order[i], query)
  <2> DEFINE k == order[i]
             r == result[i]
             metric == [name |-> IF query = Expression THEN "" ELSE k.name, labels |-> k.labels]
             answered == Answered(k, from, query, garbled)
  <2>1. r = answered  BY <1>4
  <2>2. answered.metric = metric  BY Zenon DEF Answered
  <2>3. SeriesKey(r.metric, query) = InAnswer(k, query)
    <3> HIDE DEF answered, r
    <3>1. r.metric = metric  BY <2>1, <2>2
    <3>2. QED  BY <3>1 DEF InAnswer
  <2> HIDE DEF k, r
  <2>4. /\ DOMAIN Points(r) = Unspoilt(k, from, garbled)
        /\ \A t \in Unspoilt(k, from, garbled) : Points(r)[t] = stored[t][k]
    BY <2>1, AnsweredPoints
  <2>5. QED  BY <2>3, <2>4 DEF k, r
<1>6. \A i \in 1 .. c : Named(query, InAnswer(order[i], query)) = order[i]
  <2>1. SUFFICES ASSUME NEW i \in 1 .. c
                 PROVE  Named(query, InAnswer(order[i], query)) = order[i]
    OBVIOUS
  <2>2. order[i] \in Series /\ order[i].name = Queried  BY <1>3 DEF S, Found
  <2>3. QED  BY <2>2, KeyNamesSeries
<1>7. U \in SUBSET (0 .. MaxTime)
  <2>1. \A i \in 1 .. c : Unspoilt(order[i], from, garbled) \in SUBSET (0 .. MaxTime)
    BY DEF Unspoilt, TimesOf
  <2>2. QED  BY <1>4, <1>5, <2>1
<1>8. IsFiniteSet(U) /\ U \in SUBSET Int
  <2> HIDE DEF U
  <2>1. IsFiniteSet(0 .. MaxTime)  BY MetricSamplesAssumption, FS_Interval
  <2>2. IsFiniteSet(U)  BY <1>7, <2>1, FS_Subset
  <2>3. QED  BY <1>7, <2>2
<1>9. /\ DOMAIN w \subseteq Int
      /\ \A n \in DOMAIN w : /\ w[n].at \in U
                             /\ w[n].values = SampleAt(answer.result, query, w[n].at)
      /\ \A t \in U : \E n \in DOMAIN w : w[n].at = t
      /\ \A m, n \in DOMAIN w : m < n => w[m].at < w[n].at
  <2>1. /\ \A t \in U : \E i \in DOMAIN answer.result : t \in DOMAIN Points(answer.result[i])
        /\ \A i \in DOMAIN answer.result : DOMAIN Points(answer.result[i]) \subseteq U
    BY DEF result
  <2>2. answer.matrix  BY DEF IsAnswer
  <2> HIDE DEF U
  <2>3. QED  BY <1>8, <2>1, <2>2, ParseRangeFacts, SMTT(60)
<1>10. ASSUME NEW t
       PROVE  /\ \A x \in DOMAIN SampleAt(result, query, t) :
                   \E i \in 1 .. c : /\ t \in Unspoilt(order[i], from, garbled)
                                    /\ x = InAnswer(order[i], query)
              /\ \A i \in 1 .. c : t \in Unspoilt(order[i], from, garbled) =>
                   /\ InAnswer(order[i], query) \in DOMAIN SampleAt(result, query, t)
                   /\ SampleAt(result, query, t)[InAnswer(order[i], query)] = stored[t][order[i]]
  <2> DEFINE here == {j \in 1 .. c : t \in Unspoilt(order[j], from, garbled)}
  <2>1. /\ here \in SUBSET DOMAIN result
        /\ \A j \in DOMAIN result : j \in here <=> t \in DOMAIN Points(result[j])
    BY <1>4, <1>5
  <2>2. \A i \in here : /\ i \in 1 .. c
                        /\ key(i) = InAnswer(order[i], query)
                        /\ Points(result[i])[t] = stored[t][order[i]]
    BY <1>5
  <2>3. IsFiniteSet(DOMAIN result) /\ DOMAIN result \subseteq Int  BY <1>3, <1>4, FS_Interval
  <2> HIDE DEF here
  <2>4. \A i, j \in here : key(i) = key(j) => Points(result[i])[t] = Points(result[j])[t]
    <3>1. SUFFICES ASSUME NEW i \in here, NEW j \in here, key(i) = key(j)
                   PROVE  Points(result[i])[t] = Points(result[j])[t]
      OBVIOUS
    <3>2. InAnswer(order[i], query) = InAnswer(order[j], query)  BY <2>2, <3>1
    <3>3. order[i] = order[j]  BY <1>6, <2>2, <3>2
    <3>4. QED  BY <2>2, <3>3
  <2>5. /\ \A x \in DOMAIN SampleAt(result, query, t) : \E i \in here : x = key(i)
        /\ \A i \in here : key(i) \in DOMAIN SampleAt(result, query, t)
        /\ \A i \in here : SampleAt(result, query, t)[key(i)] = Points(result[i])[t]
    BY <2>1, <2>3, <2>4, SampleAtFacts
  <2>6. \A i \in here : t \in Unspoilt(order[i], from, garbled)  BY DEF here
  <2>7. \A i \in 1 .. c : t \in Unspoilt(order[i], from, garbled) => i \in here  BY DEF here
  <2> HIDE DEF key
  <2>8. QED  BY <2>2, <2>5, <2>6, <2>7
<1>11. ASSUME NEW n \in DOMAIN w, NEW x \in DOMAIN w[n].values
       PROVE  \E k \in S :
                /\ w[n].at \in Unspoilt(k, from, garbled) /\ x = InAnswer(k, query)
                /\ w[n].values[x] = stored[w[n].at][k]
  <2> DEFINE t == w[n].at
             v == w[n].values
  <2>1. v = SampleAt(result, query, t)  BY <1>9 DEF result
  <2> HIDE DEF t, v
  <2>2. x \in DOMAIN v  BY <1>11 DEF v
  <2>3. PICK i \in 1 .. c : /\ t \in Unspoilt(order[i], from, garbled)
                            /\ x = InAnswer(order[i], query)
    BY <1>10, <2>1, <2>2
  <2>4. v[x] = stored[t][order[i]]  BY <1>10, <2>1, <2>3
  <2>5. order[i] \in S  BY <1>3
  <2>6. QED  BY <2>3, <2>4, <2>5 DEF t, v
<1>12. ASSUME NEW k \in S, NEW t \in Unspoilt(k, from, garbled)
       PROVE  \E n \in DOMAIN w : w[n].at = t /\ InAnswer(k, query) \in DOMAIN w[n].values
  <2>1. PICK i \in 1 .. c : order[i] = k  BY <1>3
  <2>2. t \in DOMAIN Points(result[i])  BY <1>5, <2>1
  <2>3. t \in U  BY <1>4, <2>2
  <2> HIDE DEF U
  <2>4. PICK n \in DOMAIN w : w[n].at = t  BY <1>9, <2>3
  <2>5. w[n].values = SampleAt(result, query, t)  BY <1>9, <2>4 DEF result
  <2>6. InAnswer(k, query) \in DOMAIN SampleAt(result, query, t)  BY <1>10, <2>1
  <2>7. QED  BY <2>4, <2>5, <2>6
<1>13. \A n \in DOMAIN w : w[n].at \in 0 .. MaxTime
  <2> HIDE DEF U
  <2>1. QED  BY <1>7, <1>9
<1>14. QED  BY <1>9, <1>11, <1>12, <1>13 DEF S, IsWindowOf

-----------------------------------------------------------------------------
\* Whatever order, garbled point or failure Prometheus answers with, FetchRange
\* leaves a window that has exactly what was stored.
LEMMA FetchedWindow ==
  ASSUME DOMAIN stored \subseteq 0 .. MaxTime,
         NEW from, NEW query \in {Queried, Expression}, FetchRange(from, query)
  PROVE  /\ window'.ok \in BOOLEAN /\ window'.query # "none"
         /\ \A n \in DOMAIN window'.samples : window'.samples[n].at \in 0 .. MaxTime
         /\ WindowIsStored'
<1> DEFINE S == Found(from)
           points == UNION {{<<t, k>> : t \in TimesOf(k, from)} : k \in S}
<1>1. PICK garbled \in {{}} \cup {{p} : p \in points}, order \in SetToSeqs(S),
           matrix \in BOOLEAN :
        window' = Window(order, from, query, garbled, matrix)
  BY Zenon DEF FetchRange
<1> HIDE DEF points
<1>2. stored' = stored  BY DEF FetchRange
<1>3. query # "none"  BY MetricSamplesAssumption
<1> DEFINE answer == Answer(order, from, query, garbled, matrix)
           got == ParseRange(answer, query)
           w == got.samples
<1>4. /\ answer.matrix = matrix
      /\ DOMAIN answer.result = DOMAIN order
      /\ \A i \in DOMAIN order : answer.result[i] = Answered(order[i], from, query, garbled)
  BY DEF Answer
<1> HIDE DEF answer
<1>5. /\ window'.ok = got.ok /\ window'.samples = w
      /\ window'.query = query /\ window'.lost = garbled /\ window'.from = from
  <2>1. window' = [ok |-> got.ok, samples |-> got.samples, query |-> query,
                   lost |-> garbled, from |-> from]
    BY <1>1, Zenon DEF answer, Window
  <2> HIDE DEF got
  <2>2. QED  BY <2>1
<1>6. CASE ~matrix
  <2>1. got = [ok |-> FALSE, samples |-> <<>>]  BY <1>4, <1>6 DEF ParseRange
  <2>2. window'.ok = FALSE /\ window'.samples = <<>>  BY <1>5, <2>1
  <2>3. DOMAIN window'.samples = {}
    <3>1. DOMAIN <<>> = {}  OBVIOUS
    <3>2. QED  BY <2>2, <3>1, Zenon
  <2>4. ~window'.ok /\ window'.ok \in BOOLEAN  BY <2>2
  <2>5. WindowIsStored'  BY <2>4, Zenon DEF WindowIsStored
  <2>6. QED  BY <1>3, <1>5, <2>3, <2>4, <2>5
<1>7. CASE matrix
  <2>1. got.ok = TRUE  BY <1>4, <1>7 DEF ParseRange
  <2>2. IsAnswer(answer, order, from, query, garbled)  BY <1>4, <1>7 DEF IsAnswer
  <2>3. w = ParseRange(answer, query).samples  OBVIOUS
  <2>4. order \in SetToSeqs(Found(from))  OBVIOUS
  <2> HIDE DEF w, got
  <2>5. IsWindowOf(w, from, query, garbled)  BY <2>2, <2>3, <2>4, AnswerReadsBack
  <2>6. \A k \in S : k \in Series /\ k.name = Queried /\ Named(query, InAnswer(k, query)) = k
    BY KeyNamesSeries DEF Found
  <2> DEFINE fetched == UNION {{<<w[n].at, Named(query, key)>> :
                                key \in DOMAIN w[n].values} : n \in DOMAIN w}
             answered == {p \in (DOMAIN stored) \X Series :
                            /\ p[1] >= from /\ p[2] \in DOMAIN stored[p[1]]
                            /\ p[2].name = Queried}
  <2>7. ASSUME NEW k \in Series, NEW t \in DOMAIN stored
        PROVE  (k \in S /\ t \in Unspoilt(k, from, garbled)) <=> <<t, k>> \in answered \ garbled
    <3>1. <<t, k>> \in answered <=> t >= from /\ k \in DOMAIN stored[t] /\ k.name = Queried
      OBVIOUS
    <3>2. t \in TimesOf(k, from) <=> t >= from /\ k \in DOMAIN stored[t]  BY DEF TimesOf
    <3>3. k \in S <=> k.name = Queried /\ TimesOf(k, from) # {}  BY DEF Found
    <3>4. t \in Unspoilt(k, from, garbled) <=> t \in TimesOf(k, from) /\ <<t, k>> \notin garbled
      BY DEF Unspoilt
    <3> HIDE DEF answered, S
    <3>5. QED  BY <3>1, <3>2, <3>3, <3>4
  <2>8. fetched \subseteq answered \ garbled
    <3>1. SUFFICES ASSUME NEW n \in DOMAIN w, NEW key \in DOMAIN w[n].values
                   PROVE  <<w[n].at, Named(query, key)>> \in answered \ garbled
      OBVIOUS
    <3> DEFINE t == w[n].at
    <3> HIDE DEF answered
    <3>2. PICK k \in S : t \in Unspoilt(k, from, garbled) /\ key = InAnswer(k, query)
      BY <2>5 DEF IsWindowOf
    <3>3. Named(query, key) = k /\ k \in Series  BY <2>6, <3>2
    <3>4. t \in DOMAIN stored  BY <3>2 DEF Unspoilt, TimesOf
    <3>5. <<t, k>> \in answered \ garbled  BY <2>7, <3>2, <3>3, <3>4
    <3>6. QED  BY <3>3, <3>5
  <2>9. answered \ garbled \subseteq fetched
    <3>1. SUFFICES ASSUME NEW t \in DOMAIN stored, NEW k \in Series,
                          <<t, k>> \in answered \ garbled
                   PROVE  <<t, k>> \in fetched
      OBVIOUS
    <3>2. k \in S /\ t \in Unspoilt(k, from, garbled)  BY <2>7, <3>1
    <3>3. PICK n \in DOMAIN w : w[n].at = t /\ InAnswer(k, query) \in DOMAIN w[n].values
      BY <2>5, <3>2 DEF IsWindowOf
    <3>4. Named(query, InAnswer(k, query)) = k  BY <2>6, <3>2
    <3>5. QED  BY <3>3, <3>4
  <2>10. ASSUME NEW n \in DOMAIN w, NEW key \in DOMAIN w[n].values
         PROVE  w[n].values[key] = stored[w[n].at][Named(query, key)]
    <3>1. PICK k \in S : key = InAnswer(k, query) /\ w[n].values[key] = stored[w[n].at][k]
      BY <2>5 DEF IsWindowOf
    <3>2. QED  BY <2>6, <3>1
  <2>11. \A key : SeriesOf(key)' = Named(query, key)  BY <1>5 DEF SeriesOf, Named
  <2>12. WindowIsStored'
    <3> HIDE DEF fetched, answered
    <3>1. fetched = answered \ garbled  BY <2>8, <2>9
    <3>2. UNION {{<<window'.samples[n].at, SeriesOf(k)'>> :
                   k \in DOMAIN window'.samples[n].values} : n \in DOMAIN window'.samples} = fetched
      BY <1>5, <2>11 DEF fetched
    <3>3. {p \in (DOMAIN stored') \X Series :
             /\ p[1] >= window'.from /\ p[2] \in DOMAIN stored'[p[1]]
             /\ p[2].name = Queried} = answered
      BY <1>2, <1>5, Zenon DEF answered
    <3>4. \A n \in DOMAIN window'.samples, k \in Series :
            \A key \in DOMAIN window'.samples[n].values :
              SeriesOf(key)' = k =>
                window'.samples[n].values[key] = stored'[window'.samples[n].at][k]
      BY <1>2, <1>5, <2>10, <2>11
    <3>5. \A m, n \in DOMAIN window'.samples :
            m < n => window'.samples[m].at < window'.samples[n].at
      BY <1>5, <2>5 DEF IsWindowOf
    <3>6. QED  BY <1>5, <3>1, <3>2, <3>3, <3>4, <3>5, Zenon DEF WindowIsStored
  <2>13. QED  BY <1>3, <1>5, <2>1, <2>5, <2>12 DEF IsWindowOf
<1>8. QED  BY <1>6, <1>7

-----------------------------------------------------------------------------
\* What the scrapes say of the events between them.
EventsInv ==
  /\ IF start.taken THEN Kept(counter, start.of)
     ELSE ~restarted /\ \A k \in Series : grown[k] = 0
  /\ end.taken => start.taken /\ Kept(end.of, start.of)

\* The invariant: beside the types, an exporter that has the bare name of a
\* series shows it, a scrape returned what it saw, and the counters have moved
\* by the events since the start scrape, unless a restart lost some.
SamplesInv ==
  /\ TypeOK
  /\ BesideBare(counter)
  /\ \A k \in DOMAIN counter : counter[k] <= now
  /\ \A k \in Series : grown[k] <= now
  /\ ScrapeInv(start) /\ ScrapeInv(end)
  /\ EventsInv
  /\ window.ok => window.query # "none" /\ WindowIsStored

\* The invariant holds before the exporter counts anything.
LEMMA SamplesInit == Init => SamplesInv
<1> SUFFICES ASSUME Init  PROVE SamplesInv  OBVIOUS
<1>1. MaxTime \in Nat  BY MetricSamplesAssumption
<1>2. DOMAIN <<>> = {}  OBVIOUS
<1>3. /\ now = 0 /\ DOMAIN counter = {} /\ DOMAIN stored = {}
      /\ grown = [k \in Series |-> 0] /\ restarted = FALSE
      /\ route \in {"points", "range"}
  BY <1>2 DEF Init
<1>4. /\ start = Nothing /\ end = Nothing /\ window = NoWindow  BY DEF Init
<1>5. /\ Nothing.ok = FALSE /\ Nothing.taken = FALSE
      /\ DOMAIN Nothing.of = {} /\ DOMAIN Nothing.sample = {} /\ Nothing.holes = {}
  BY <1>2 DEF Nothing
<1>6. NoWindow.ok = FALSE /\ DOMAIN NoWindow.samples = {}  BY <1>2 DEF NoWindow
<1>7. ScrapeInv(Nothing)
  BY <1>5 DEF ScrapeInv, IsScrape, IsCounters, BesideBare
<1>8. TypeOK
  <2>1. IsScrape(start) /\ IsScrape(end)  BY <1>4, <1>7 DEF ScrapeInv
  <2>2. window.ok \in BOOLEAN /\ DOMAIN window.samples = {}  BY <1>4, <1>6
  <2>3. now \in 0 .. MaxTime /\ grown \in [Series -> 0 .. MaxTime]  BY <1>1, <1>3
  <2>4. QED  BY <1>3, <2>1, <2>2, <2>3 DEF TypeOK, IsCounters
<1>9. QED  BY <1>3, <1>4, <1>5, <1>6, <1>7, <1>8 DEF SamplesInv, EventsInv, BesideBare

-----------------------------------------------------------------------------
\* A window stays right while neither it nor the stored scrapes change.
LEMMA SamePoints ==
  ASSUME window' = window, stored' = stored, WindowIsStored
  PROVE  WindowIsStored'
BY DEF WindowIsStored, SeriesOf

\* A series that appears has no events yet.
LEMMA AppearedFacts ==
  ASSUME SamplesInv, NEW k \in Series
  PROVE  /\ DOMAIN Appeared(k) = DOMAIN counter \cup Counted(k)
         /\ DOMAIN Appeared(k) \subseteq Series
         /\ \A s \in DOMAIN Appeared(k) :
              Appeared(k)[s] = At(counter, s) /\ At(counter, s) \in 0 .. now
         /\ BesideBare(Appeared(k))
<1> DEFINE a == Appeared(k)
<1>1. /\ DOMAIN counter \subseteq Series /\ now \in 0 .. MaxTime /\ MaxTime \in Nat
      /\ \A s \in DOMAIN counter : counter[s] \in 0 .. now
  BY MetricSamplesAssumption DEF SamplesInv, TypeOK, IsCounters
<1>2. DOMAIN a = DOMAIN counter \cup Counted(k)  BY DEF Appeared
<1>3. \A s \in DOMAIN a : a[s] = At(counter, s)  BY DEF Appeared, At
<1>4. Counted(k) \subseteq Series /\ k \in Counted(k)
      /\ (Bare(k.name) \in Series => Bare(k.name) \in Counted(k))
      /\ \A s \in Counted(k) : s = k \/ s = Bare(k.name)
  BY DEF Counted
<1>5. \A s : At(counter, s) \in 0 .. now  BY <1>1 DEF At
<1>6. BesideBare(a)
  <2>1. SUFFICES ASSUME NEW s \in DOMAIN a, Bare(s.name) \in Series
                 PROVE  Bare(s.name) \in DOMAIN a
    BY DEF BesideBare
  <2>2. CASE s \in DOMAIN counter  BY <1>2, <2>1, <2>2 DEF SamplesInv, BesideBare
  <2>3. CASE s \in Counted(k)
    <3>1. s.name = k.name  BY <1>4, <2>3, BareFacts
    <3>2. QED  BY <1>2, <1>4, <2>1, <3>1
  <2>4. QED  BY <1>2, <2>2, <2>3
<1> HIDE DEF a
<1>7. QED  BY <1>1, <1>2, <1>3, <1>4, <1>5, <1>6 DEF a

\* An event counts in the exporter and in the history alike.
LEMMA EventKeeps ==
  ASSUME SamplesInv, NEW k \in Series, Event(k)
  PROVE  SamplesInv'
<1> DEFINE new(s) == IF s \in Counted(k) THEN 1 ELSE 0
<1>1. /\ DOMAIN Appeared(k) = DOMAIN counter \cup Counted(k)
      /\ DOMAIN Appeared(k) \subseteq Series
      /\ \A s \in DOMAIN Appeared(k) :
           Appeared(k)[s] = At(counter, s) /\ At(counter, s) \in 0 .. now
      /\ BesideBare(Appeared(k))
  BY AppearedFacts
<1>2. /\ now \in 0 .. MaxTime /\ now < MaxTime /\ now' = now + 1 /\ MaxTime \in Nat
      /\ ~Asked /\ now' \in 0 .. MaxTime
  BY MetricSamplesAssumption DEF SamplesInv, TypeOK, Event, Tick
<1>3. /\ DOMAIN counter' = DOMAIN Appeared(k)
      /\ \A s \in DOMAIN counter' : counter'[s] = At(counter, s) + new(s)
  BY <1>1 DEF Event
<1>4. UNCHANGED <<route, start, end, restarted, stored, window>>  BY DEF Event
<1>5. \A s : At(counter', s) = At(counter, s) + new(s)
  <2>1. SUFFICES ASSUME NEW s  PROVE At(counter', s) = At(counter, s) + new(s)  OBVIOUS
  <2>2. CASE s \in DOMAIN counter'  BY <1>3, <2>2 DEF At
  <2>3. CASE s \notin DOMAIN counter'
    <3>1. s \notin DOMAIN counter /\ s \notin Counted(k)  BY <1>1, <1>3, <2>3
    <3>2. QED  BY <2>3, <3>1 DEF At
  <2>4. QED  BY <2>2, <2>3
<1>6. IF start.taken THEN \A s \in Series : grown'[s] = grown[s] + new(s)
      ELSE \A s \in Series : grown'[s] = grown[s]
  BY DEF Event, SinceStart
<1>7. /\ grown' \in [Series -> 0 .. MaxTime]
      /\ \A s \in Series : grown'[s] <= now'
  <2>1. grown \in [Series -> 0 .. MaxTime] /\ \A s \in Series : grown[s] \in 0 .. now
    BY <1>2 DEF SamplesInv, TypeOK
  <2>2. \A s \in Series : grown'[s] \in 0 .. now'  BY <1>2, <1>6, <2>1
  <2>3. grown' = [s \in Series |-> grown'[s]]  BY <2>1 DEF Event, SinceStart
  <2>4. \A s \in Series : grown'[s] \in 0 .. MaxTime  BY <1>2, <2>2
  <2>5. QED  BY <1>2, <2>2, <2>3, <2>4
<1>8. /\ IsCounters(counter)' /\ BesideBare(counter)'
      /\ \A s \in DOMAIN counter' : counter'[s] <= now'
  <2>1. \A s \in DOMAIN counter' : counter'[s] \in 0 .. now'  BY <1>1, <1>2, <1>3
  <2>2. \A s \in DOMAIN counter' : counter'[s] \in 0 .. MaxTime  BY <1>2, <2>1
  <2>3. QED  BY <1>1, <1>2, <1>3, <2>1, <2>2 DEF IsCounters, BesideBare
<1>9. \A s : At(counter, s) \in Int  BY <1>1, <1>2 DEF SamplesInv, TypeOK, IsCounters, At
<1>10. EventsInv'
  <2>1. ~end.taken  BY <1>2 DEF Asked
  <2>2. CASE start.taken
    <3>1. Kept(counter, start.of)  BY <2>2 DEF SamplesInv, EventsInv
    <3>2. ASSUME NEW s \in Series
          PROVE  IF restarted' THEN At(counter', s) <= grown'[s]
                 ELSE At(counter', s) = At(start'.of, s) + grown'[s]
      <4>1. IF restarted THEN At(counter, s) <= grown[s]
            ELSE At(counter, s) = At(start.of, s) + grown[s]
        BY <3>1 DEF Kept
      <4>2. grown[s] \in Int /\ At(start.of, s) \in Int /\ At(counter, s) \in Int
        BY <1>9 DEF SamplesInv, TypeOK, IsScrape, IsCounters, At
      <4>3. At(counter', s) = At(counter, s) + new(s) /\ grown'[s] = grown[s] + new(s)
            /\ new(s) \in Int
        BY <1>5, <1>6, <2>2
      <4> HIDE DEF new
      <4>4. QED  BY <1>4, <4>1, <4>2, <4>3
    <3>3. Kept(counter, start.of)'  BY <3>2 DEF Kept, At
    <3>4. QED  BY <1>4, <2>1, <2>2, <3>3 DEF EventsInv
  <2>3. CASE ~start.taken
    <3>1. ~restarted /\ \A s \in Series : grown[s] = 0  BY <2>3 DEF SamplesInv, EventsInv
    <3>2. QED  BY <1>4, <1>6, <2>1, <2>3, <3>1 DEF EventsInv
  <2>4. QED  BY <2>2, <2>3
<1>11. ScrapeInv(start)' /\ ScrapeInv(end)'
  BY <1>4 DEF SamplesInv
<1>12. window'.ok => window'.query # "none" /\ WindowIsStored'
  BY <1>4, SamePoints DEF SamplesInv
<1>13. TypeOK'
  BY <1>2, <1>4, <1>7, <1>8, <1>11 DEF SamplesInv, TypeOK, ScrapeInv, IsCounters
<1>14. QED  BY <1>7, <1>8, <1>10, <1>11, <1>12, <1>13 DEF SamplesInv

-----------------------------------------------------------------------------
\* A series that appears with 0 is as good as one that is absent.
LEMMA RegisterKeeps ==
  ASSUME SamplesInv, NEW k \in Series, Register(k)
  PROVE  SamplesInv'
<1>1. /\ DOMAIN Appeared(k) = DOMAIN counter \cup Counted(k)
      /\ DOMAIN Appeared(k) \subseteq Series
      /\ \A s \in DOMAIN Appeared(k) :
           Appeared(k)[s] = At(counter, s) /\ At(counter, s) \in 0 .. now
      /\ BesideBare(Appeared(k))
  BY AppearedFacts
<1>2. /\ now \in 0 .. MaxTime /\ now < MaxTime /\ now' = now + 1 /\ MaxTime \in Nat
      /\ ~Asked /\ now' \in 0 .. MaxTime
  BY MetricSamplesAssumption DEF SamplesInv, TypeOK, Register, Tick
<1>3. UNCHANGED <<route, start, end, grown, restarted, stored, window>>  BY DEF Register
<1>4. counter' = Appeared(k)  BY DEF Register
<1>5. \A s : At(counter', s) = At(counter, s)
  <2>1. SUFFICES ASSUME NEW s  PROVE At(counter', s) = At(counter, s)  OBVIOUS
  <2>2. CASE s \in DOMAIN counter'  BY <1>1, <1>4, <2>2 DEF At
  <2>3. CASE s \notin DOMAIN counter'
    <3>1. s \notin DOMAIN counter  BY <1>1, <1>4, <2>3
    <3>2. QED  BY <2>3, <3>1 DEF At
  <2>4. QED  BY <2>2, <2>3
<1>6. /\ IsCounters(counter)' /\ BesideBare(counter)'
      /\ \A s \in DOMAIN counter' : counter'[s] <= now'
  <2>1. \A s \in DOMAIN counter' : counter'[s] \in 0 .. now'  BY <1>1, <1>2, <1>4
  <2>2. \A s \in DOMAIN counter' : counter'[s] \in 0 .. MaxTime  BY <1>2, <2>1
  <2>3. QED  BY <1>1, <1>2, <1>4, <2>1, <2>2 DEF IsCounters, BesideBare
<1>7. \A s \in Series : grown'[s] <= now'
  <2>1. \A s \in Series : grown[s] \in 0 .. MaxTime /\ grown[s] <= now
    BY DEF SamplesInv, TypeOK
  <2>2. QED  BY <1>2, <1>3, <2>1
<1>8. EventsInv'
  <2>1. ~end.taken  BY <1>2 DEF Asked
  <2>2. CASE start.taken
    <3>1. Kept(counter, start.of)  BY <2>2 DEF SamplesInv, EventsInv
    <3>2. \A s \in Series : IF restarted' THEN At(counter', s) <= grown'[s]
                            ELSE At(counter', s) = At(start'.of, s) + grown'[s]
      BY <1>3, <1>5, <3>1 DEF Kept
    <3>3. Kept(counter, start.of)'  BY <3>2 DEF Kept, At
    <3>4. QED  BY <1>3, <2>1, <2>2, <3>3 DEF EventsInv
  <2>3. CASE ~start.taken
    <3>1. ~restarted /\ \A s \in Series : grown[s] = 0  BY <2>3 DEF SamplesInv, EventsInv
    <3>2. QED  BY <1>3, <2>1, <2>3, <3>1 DEF EventsInv
  <2>4. QED  BY <2>2, <2>3
<1>9. ScrapeInv(start)' /\ ScrapeInv(end)'  BY <1>3 DEF SamplesInv
<1>10. window'.ok => window'.query # "none" /\ WindowIsStored'
  BY <1>3, SamePoints DEF SamplesInv
<1>11. TypeOK'
  BY <1>2, <1>3, <1>6, <1>9 DEF SamplesInv, TypeOK, ScrapeInv, IsCounters
<1>12. QED  BY <1>6, <1>7, <1>8, <1>9, <1>10, <1>11 DEF SamplesInv

\* A restart loses counts: what is left is no more than the events.
LEMMA RestartKeeps ==
  ASSUME SamplesInv, Restart
  PROVE  SamplesInv'
<1>1. /\ now \in 0 .. MaxTime /\ now < MaxTime /\ now' = now + 1 /\ MaxTime \in Nat
      /\ ~Asked /\ now' \in 0 .. MaxTime
  BY MetricSamplesAssumption DEF SamplesInv, TypeOK, Restart, Tick
<1>2. /\ UNCHANGED <<route, start, end, grown, stored, window>>
      /\ restarted' = (restarted \/ start.taken)
  BY DEF Restart
<1>3. DOMAIN counter' = {}
  <2>1. DOMAIN <<>> = {}  OBVIOUS
  <2>2. QED  BY <2>1, Zenon DEF Restart
<1>4. \A s \in Series : grown[s] \in 0 .. MaxTime /\ grown[s] <= now
  BY DEF SamplesInv, TypeOK
<1>5. \A s \in Series : grown'[s] <= now'  BY <1>1, <1>2, <1>4
<1>6. restarted \in BOOLEAN /\ restarted' \in BOOLEAN
  <2>1. restarted \in BOOLEAN /\ start.taken \in BOOLEAN
    BY DEF SamplesInv, TypeOK, IsScrape
  <2>2. QED  BY <1>2, <2>1
<1>7. EventsInv'
  <2>1. ~end.taken  BY <1>1 DEF Asked
  <2>2. CASE start.taken
    <3>1. restarted'  BY <1>2, <2>2
    <3>2. \A s \in Series : At(counter', s) <= grown'[s]  BY <1>2, <1>3, <1>4 DEF At
    <3>3. Kept(counter, start.of)'  BY <3>1, <3>2 DEF Kept, At
    <3>4. QED  BY <1>2, <2>1, <2>2, <3>3 DEF EventsInv
  <2>3. CASE ~start.taken
    <3>1. ~restarted /\ \A s \in Series : grown[s] = 0  BY <2>3 DEF SamplesInv, EventsInv
    <3>2. ~restarted'  BY <1>2, <2>3, <3>1
    <3>3. QED  BY <1>2, <2>1, <2>3, <3>1, <3>2 DEF EventsInv
  <2>4. QED  BY <2>2, <2>3
<1>8. ScrapeInv(start)' /\ ScrapeInv(end)'  BY <1>2 DEF SamplesInv
<1>9. window'.ok => window'.query # "none" /\ WindowIsStored'
  BY <1>2, SamePoints DEF SamplesInv
<1>10. TypeOK'
  BY <1>1, <1>2, <1>3, <1>6, <1>8 DEF SamplesInv, TypeOK, ScrapeInv, IsCounters
<1>11. QED  BY <1>3, <1>5, <1>7, <1>8, <1>9, <1>10 DEF SamplesInv, BesideBare

\* The start scrape reads the exporter as it is; the history begins there.
LEMMA ScrapeStartKeeps ==
  ASSUME SamplesInv, ScrapeStart
  PROVE  SamplesInv'
<1>1. PICK text \in Texts : start' = Scraped(text)  BY Zenon DEF ScrapeStart
<1>2. ~start.taken /\ UNCHANGED <<route, now, counter, end, grown, restarted, stored, window>>
  BY DEF ScrapeStart
<1>3. IsCounters(counter) /\ BesideBare(counter)  BY DEF SamplesInv, TypeOK
<1>4. ScrapeInv(start') /\ start'.of = counter /\ start'.taken
  BY <1>1, <1>3, ScrapeReads
<1>5. EventsInv'
  <2>1. ~end.taken /\ ~restarted /\ \A s \in Series : grown[s] = 0
    BY <1>2 DEF SamplesInv, EventsInv
  <2>2. \A s \in Series : At(counter, s) \in Int  BY <1>3 DEF IsCounters, At
  <2>3. \A s \in Series : At(counter', s) = At(start'.of, s) + grown'[s]
    BY <1>2, <1>4, <2>1, <2>2
  <2>4. Kept(counter, start.of)'  BY <1>2, <2>1, <2>3 DEF Kept, At
  <2>5. QED  BY <1>2, <1>4, <2>1, <2>4 DEF EventsInv
<1>6. ScrapeInv(end)' /\ ScrapeInv(start)'  BY <1>2, <1>4 DEF SamplesInv
<1>7. window'.ok => window'.query # "none" /\ WindowIsStored'
  BY <1>2, SamePoints DEF SamplesInv
<1>8. TypeOK'  BY <1>2, <1>6 DEF SamplesInv, TypeOK, ScrapeInv
<1>9. QED  BY <1>2, <1>5, <1>6, <1>7, <1>8 DEF SamplesInv, BesideBare

\* The end scrape reads the exporter as it is; the history ends there.
LEMMA ScrapeEndKeeps ==
  ASSUME SamplesInv, ScrapeEnd
  PROVE  SamplesInv'
<1>1. PICK text \in Texts : end' = Scraped(text)  BY Zenon DEF ScrapeEnd
<1>2. /\ start.taken
      /\ UNCHANGED <<route, now, counter, start, grown, restarted, stored, window>>
  BY DEF ScrapeEnd
<1>3. IsCounters(counter) /\ BesideBare(counter)  BY DEF SamplesInv, TypeOK
<1>4. ScrapeInv(end') /\ end'.of = counter /\ end'.taken
  BY <1>1, <1>3, ScrapeReads
<1>5. EventsInv'
  <2>1. Kept(counter, start.of)  BY <1>2 DEF SamplesInv, EventsInv
  <2>2. Kept(counter, start.of)'  BY <1>2, <2>1 DEF Kept, At
  <2>3. Kept(end.of, start.of)'  BY <1>2, <1>4, <2>1 DEF Kept, At
  <2>4. QED  BY <1>2, <2>2, <2>3 DEF EventsInv
<1>6. ScrapeInv(end)' /\ ScrapeInv(start)'  BY <1>2, <1>4 DEF SamplesInv
<1>7. window'.ok => window'.query # "none" /\ WindowIsStored'
  BY <1>2, SamePoints DEF SamplesInv
<1>8. TypeOK'  BY <1>2, <1>6 DEF SamplesInv, TypeOK, ScrapeInv
<1>9. QED  BY <1>2, <1>5, <1>6, <1>7, <1>8 DEF SamplesInv, BesideBare

\* The steps that leave the exporter and its scrapes alone.
LEMMA ScrapesKept ==
  ASSUME SamplesInv, UNCHANGED <<now, counter, start, end, grown, restarted>>
  PROVE  /\ BesideBare(counter)' /\ ScrapeInv(start)' /\ ScrapeInv(end)' /\ EventsInv'
         /\ \A k \in DOMAIN counter' : counter'[k] <= now'
         /\ \A k \in Series : grown'[k] <= now'
<1>1. ScrapeInv(start)' /\ ScrapeInv(end)'  BY DEF SamplesInv
<1>2. Kept(counter, start.of) => Kept(counter, start.of)'  BY DEF Kept, At
<1>3. Kept(end.of, start.of) => Kept(end.of, start.of)'  BY DEF Kept, At
<1>4. EventsInv'  BY <1>2, <1>3 DEF SamplesInv, EventsInv
<1>5. QED  BY <1>1, <1>4 DEF SamplesInv, BesideBare

\* A scrape of Prometheus comes before any window.
LEMMA StoreKeeps ==
  ASSUME SamplesInv, Store
  PROVE  SamplesInv'
<1>1. UNCHANGED <<route, now, counter, start, end, grown, restarted, window>> /\ ~Asked
  BY DEF Store
<1>2. /\ DOMAIN stored' = DOMAIN stored \cup {now}
      /\ stored'[now] = counter
      /\ \A t \in DOMAIN stored : t # now => stored'[t] = stored[t]
  BY DEF Store
<1>3. /\ DOMAIN stored' \subseteq 0 .. MaxTime
      /\ \A t \in DOMAIN stored' : IsCounters(stored'[t])
  BY <1>2 DEF SamplesInv, TypeOK
<1>4. window'.ok => window'.query # "none" /\ WindowIsStored'
  <2>1. ~window.ok  BY <1>1 DEF SamplesInv, Asked
  <2>2. QED  BY <1>1, <2>1
<1>5. TypeOK'  BY <1>1, <1>3 DEF SamplesInv, TypeOK
<1>6. QED  BY <1>1, <1>4, <1>5, ScrapesKept DEF SamplesInv

\* A window is asked for, and nothing else changes.
LEMMA FetchRangeKeeps ==
  ASSUME SamplesInv, NEW from \in DOMAIN stored, NEW query \in {Queried, Expression},
         FetchRange(from, query)
  PROVE  SamplesInv'
<1>1. UNCHANGED <<route, now, counter, start, end, grown, restarted, stored>>
  BY DEF FetchRange
<1>2. DOMAIN stored \subseteq 0 .. MaxTime  BY DEF SamplesInv, TypeOK
<1>3. /\ window'.ok \in BOOLEAN /\ window'.query # "none"
      /\ \A n \in DOMAIN window'.samples : window'.samples[n].at \in 0 .. MaxTime
      /\ WindowIsStored'
  BY <1>2, FetchedWindow
<1>4. TypeOK'  BY <1>1, <1>3 DEF SamplesInv, TypeOK
<1>5. QED  BY <1>1, <1>3, <1>4, ScrapesKept DEF SamplesInv

\* Every step preserves the invariant.
LEMMA SamplesNext == SamplesInv /\ [Next]_vars => SamplesInv'
<1> SUFFICES ASSUME SamplesInv, [Next]_vars  PROVE SamplesInv'  OBVIOUS
<1>1. CASE \E k \in Series : Event(k)  BY <1>1, EventKeeps
<1>2. CASE \E k \in Series : Register(k)  BY <1>2, RegisterKeeps
<1>3. CASE Restart  BY <1>3, RestartKeeps
<1>4. CASE ScrapeStart  BY <1>4, ScrapeStartKeeps
<1>5. CASE ScrapeEnd  BY <1>5, ScrapeEndKeeps
<1>6. CASE Store  BY <1>6, StoreKeeps
<1>7. CASE \E from \in DOMAIN stored, query \in {Queried, Expression} : FetchRange(from, query)
  BY <1>7, FetchRangeKeeps
<1>8. CASE UNCHANGED vars
  <2>1. UNCHANGED <<route, now, counter, start, end, grown, restarted, stored, window>>
    BY <1>8 DEF vars
  <2>2. TypeOK'  BY <2>1 DEF SamplesInv, TypeOK
  <2>3. window'.ok => window'.query # "none" /\ WindowIsStored'
    BY <2>1, SamePoints DEF SamplesInv
  <2>4. QED  BY <2>1, <2>2, <2>3, ScrapesKept DEF SamplesInv
<1>9. QED  BY <1>1, <1>2, <1>3, <1>4, <1>5, <1>6, <1>7, <1>8 DEF Next

\* The inductive invariant of MetricSamples.
THEOREM SamplesInvariant == Spec => []SamplesInv
BY SamplesInit, SamplesNext, PTL DEF Spec

\* The type invariant, for every set of series and label orders.
THEOREM SamplesTypeCorrect == Spec => []TypeOK
<1>1. SamplesInv => TypeOK  BY DEF SamplesInv
<1>2. QED  BY <1>1, SamplesInvariant, PTL

\* promrange: the window has each point that Prometheus answered with exactly
\* once, at its time, under its series and in the order of time, whatever the
\* order of the series and for an expression as well as for a metric.
THEOREM WindowCorrect == Spec => []WindowIsStored
<1>1. SamplesInv => WindowIsStored  BY DEF SamplesInv, WindowIsStored
<1>2. QED  BY <1>1, SamplesInvariant, PTL

\* promkey, selector.go: to a selector a sample with totals is the exposition
\* without them, whatever the exporter exposes.
THEOREM SelectorsCorrect == Spec => []SelectorsSeeSeries
<1>1. SamplesInv => SelectorsSeeSeries
  <2>1. SUFFICES ASSUME SamplesInv, NEW in \in Inputs, NEW s \in {start, end},
                        IsSelector(in), s.ok
                 PROVE  /\ Matched(in, s.sample) = Matched(in, Exposed(s))
                        /\ Resolves(in, s.sample) <=> Resolves(in, Exposed(s))
    BY DEF SelectorsSeeSeries
  <2>2. ScrapeInv(s)  BY <2>1 DEF SamplesInv
  <2>3. QED  BY <2>1, <2>2, SelectorSees
<1>2. QED  BY <1>1, SamplesInvariant, PTL

\* aggregate.go: a delta by a bare name, a key or a selector is the number of
\* events in the series that its author means, and never more, even after a
\* restart of the exporter.
THEOREM DeltaEventsCorrect == Spec => []DeltaCountsEvents
<1>1. SamplesInv => DeltaCountsEvents
  <2>1. SUFFICES ASSUME SamplesInv, NEW in \in Inputs, start.ok, end.ok,
                        InputResolves(in, "delta", start.sample, end.sample),
                        \A k \in start.holes \cup end.holes : k.name # NameOf(in)
                 PROVE  LET delta == InputValue(in, end.sample) - InputValue(in, start.sample)
                            events == SumOn(grown, Meant(in))
                        IN  delta <= events /\ (~restarted => delta = events)
    BY DEF DeltaCountsEvents
  <2>2. ScrapeInv(start) /\ ScrapeInv(end)  BY <2>1 DEF SamplesInv
  <2>3. end.taken  BY <2>1, <2>2 DEF ScrapeInv
  <2>4. Kept(end.of, start.of)  BY <2>1, <2>3 DEF SamplesInv, EventsInv
  <2>5. grown \in [Series -> Nat]  BY <2>1 DEF SamplesInv, TypeOK
  <2>6. ~IsSelector(in) => in.key \in DOMAIN start.sample \cap DOMAIN end.sample
    BY <2>1 DEF InputResolves
  <2>7. QED  BY <2>1, <2>2, <2>4, <2>5, <2>6, DeltaCounts
<1>2. QED  BY <1>1, SamplesInvariant, PTL

===============================================================================
