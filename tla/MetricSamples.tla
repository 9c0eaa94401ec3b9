----------------------------- MODULE MetricSamples -----------------------------
(***************************************************************************)
(* Where the numbers of a sample come from.  An exporter counts events; a  *)
(* point fetcher reads its exposition text twice (promtext, promkey); a    *)
(* window fetcher asks Prometheus, which has scraped the same exporter,    *)
(* for a range (promrange).  SliRules reads the samples.                   *)
(*                                                                         *)
(* A key is a metric name with a function from label names to values,      *)
(* which is what promkey.Format writes in one way only; a token is a name  *)
(* with label pairs in the order that the exporter happens to write.       *)
(***************************************************************************)
EXTENDS SliRules, SequencesExt

CONSTANTS
  Series,      \* the keys that the exporter may expose
  Inputs,      \* the inputs of delta SLIs
  LabelOrders, \* the orders in which a scrape may write labels
  Queried,     \* the metric that the range query selects
  Expression,  \* a query that drops the metric name
  MaxTime,     \* bound: steps of the exporter
  MaxStored    \* bound: scrapes of Prometheus

Bare(name) == [name |-> name, labels |-> <<>>]
IsBare(k) == DOMAIN k.labels = {}
IsKey(k) ==
  k = [name |-> k.name, labels |-> [l \in DOMAIN k.labels |-> k.labels[l]]]

ASSUME MetricSamplesAssumption ==
  /\ Series \subseteq Keys /\ IsFiniteSet(Series)
  /\ \A k \in Series : Bare(k.name) \in Keys
  /\ \A k \in Keys : IsKey(k) /\ Family[k] = k.name /\ Canonical[k] = k
  \* Validate: a selector has a matcher, and a matcher wants its label present.
  /\ \A in \in Inputs :
       IF IsSelector(in) THEN \A k \in in.match : ~IsBare(k) ELSE in.key \in Keys
  \* A scrape writes every label of a series.
  /\ \A order \in LabelOrders :
       /\ IsFiniteSet(DOMAIN order) /\ DOMAIN order \subseteq Nat
       /\ \A k \in Series : DOMAIN k.labels \subseteq Range(order)
  /\ "none" \notin {Queried, Expression}
  /\ MaxTime \in Nat /\ MaxStored \in Nat

VARIABLES
  route,     \* "points" or "range"
  now,       \* the steps of the exporter so far
  counter,   \* the series that the exporter exposes
  start, end,\* the scrapes: what a fetch returned, and of what
  grown,     \* history: the events of each series since the start scrape
  restarted, \* history: the exporter restarted since
  stored,    \* what Prometheus has scraped, by time
  window     \* what FetchRange returned, and which points were garbled

vars == <<route, now, counter, start, end, grown, restarted, stored, window>>

Nothing == [ok |-> FALSE, sample |-> <<>>, of |-> <<>>, holes |-> {}, taken |-> FALSE]
NoWindow == [ok |-> FALSE, samples |-> <<>>, query |-> "none", lost |-> {}, from |-> 0]

\* A map filled from a list of key and value, some of whose places were left
\* out: what is written last stays.
LastWins(list) ==
  [x \in {list[i][1] : i \in DOMAIN list} |->
     list[Max({i \in DOMAIN list : list[i][1] = x})][2]]

-----------------------------------------------------------------------------
(* promkey.go, parse.go, aggregate.go *)

\* Canonicalize: Parse fills a map of labels, Format sorts it.
Canonicalize(token) == [name |-> token.name, labels |-> LastWins(token.pairs)]

\* ParseTextToMap: a line without a readable key or without a value is left
\* out; a value that is no number fails the whole text, as does a reader that
\* fails or a line that is too long.
ParseText(text) ==
  LET read == {i \in DOMAIN text.lines : text.lines[i].form = "sample"}
  IN  IF text.broken \/ \E i \in DOMAIN text.lines : text.lines[i].form = "badValue"
      THEN [ok |-> FALSE, sample |-> <<>>]
      ELSE [ok |-> TRUE,
            sample |-> LastWins([i \in read |->
              <<Canonicalize(text.lines[i].token), text.lines[i].value>>])]

\* Buckets and quantiles do not add up.
Additive(k) == ~IsBare(k) /\ DOMAIN k.labels \cap {"le", "quantile"} = {}

\* The bare name of each metric for the sum of those of its series.
WithTotals(m, kept, summed) ==
  LET totals == {Bare(k.name) : k \in summed}
  IN  [k \in kept \cup totals |->
         IF k \in totals THEN SumOn(m, {s \in summed : s.name = k.name})
         ELSE m[k]]

\* Aggregate: a total, unless the exporter has a series of that name.
\* (Mutated: the exporter's own series is overwritten.)
Aggregate_Overwrites(m) == WithTotals(m, DOMAIN m, {k \in DOMAIN m : Additive(k)})
\* (Mutated: buckets are summed too.)
Aggregate_SumsBuckets(m) ==
  WithTotals(m, DOMAIN m, {k \in DOMAIN m : ~IsBare(k) /\ Bare(k.name) \notin DOMAIN m})
\* (Mutated: the total takes the place of the labelled series.)
Aggregate_Replaces(m) ==
  LET summed == {k \in DOMAIN m : Additive(k) /\ Bare(k.name) \notin DOMAIN m}
  IN  WithTotals(m, (DOMAIN m) \ summed, summed)
Aggregate(m) ==
  WithTotals(m, DOMAIN m, {k \in DOMAIN m : Additive(k) /\ Bare(k.name) \notin DOMAIN m})

\* ParseTextToMapWithAggregates
ParseWithAggregates(text) ==
  LET parsed == ParseText(text)
  IN  [parsed EXCEPT !.sample = Aggregate(parsed.sample)]

-----------------------------------------------------------------------------
(* promrange/fetcher.go *)

\* seriesKey: an expression has no name, and the query stands for it.
SeriesKey(metric, query) ==
  [name |-> IF metric.name = "" THEN query ELSE metric.name, labels |-> metric.labels]

\* The numbers of a set in ascending order.
InOrder(S) ==
  [n \in 1 .. Cardinality(S) |-> CHOOSE x \in S : Cardinality({y \in S : y <= x}) = n]

\* The points of a series, by time; a pair that is none is left out.
Points(series) ==
  LastWins([j \in {i \in DOMAIN series.values : series.values[i].form = "pair"} |->
              <<series.values[j].at, series.values[j].value>>])

\* The sample of a time has each series that has a point then.
\* (Mutated: each series starts the samples of its times anew.)
SampleAt_StartsAnew(result, query, t) ==
  LET last == Max({i \in DOMAIN result : t \in DOMAIN Points(result[i])})
  IN  [k \in {SeriesKey(result[last].metric, query)} |-> Points(result[last])[t]]
SampleAt(result, query, t) ==
  LastWins([i \in {j \in DOMAIN result : t \in DOMAIN Points(result[j])} |->
              <<SeriesKey(result[i].metric, query), Points(result[i])[t]>>])

\* FetchRange and parseResponse: an answer that is no matrix is an error, and
\* the series are regrouped by time.
ParseRange(answer, query) ==
  LET times == InOrder(UNION {DOMAIN Points(answer.result[i]) : i \in DOMAIN answer.result})
  IN  IF ~answer.matrix THEN [ok |-> FALSE, samples |-> <<>>]
      ELSE [ok |-> TRUE, samples |-> [n \in DOMAIN times |->
              [at |-> times[n], values |-> SampleAt(answer.result, query, times[n])]]]

-----------------------------------------------------------------------------
(* The exporter, which is not part of the program *)

\* The series that an event on k counts: an exporter that has an unlabelled
\* series beside labelled ones counts the event in both.
Counted(k) == {k} \cup (Series \cap {Bare(k.name)})

\* Nobody asks what happens after the end scrape or the range query.
Asked == end.taken \/ window.query # "none"
Tick == now < MaxTime /\ ~Asked /\ now' = now + 1
SinceStart(events) ==
  grown' = IF start.taken THEN [s \in Series |-> grown[s] + (IF s \in events THEN 1 ELSE 0)]
           ELSE grown

\* A series appears with its first event, or with 0 before that.
Appeared(k) ==
  [s \in DOMAIN counter \cup Counted(k) |-> IF s \in DOMAIN counter THEN counter[s] ELSE 0]

Event(k) ==
  /\ Tick
  /\ counter' = [s \in DOMAIN Appeared(k) |->
                   Appeared(k)[s] + (IF s \in Counted(k) THEN 1 ELSE 0)]
  /\ SinceStart(Counted(k))
  /\ UNCHANGED <<route, start, end, restarted, stored, window>>

Register(k) ==
  /\ Tick
  /\ k \notin DOMAIN counter
  /\ counter' = Appeared(k)
  /\ UNCHANGED <<route, start, end, grown, restarted, stored, window>>

Restart ==
  /\ Tick
  /\ counter # <<>>
  /\ counter' = <<>>
  /\ restarted' = (restarted \/ start.taken)
  /\ UNCHANGED <<route, start, end, grown, stored, window>>

Line(k, order, form) ==
  [form |-> form, value |-> counter[k],
   token |-> [name |-> k.name,
              pairs |-> [i \in {j \in DOMAIN order : order[j] \in DOMAIN k.labels} |->
                           <<order[i], k.labels[order[i]]>>]]]

\* Every series once, but for one perhaps that is not written well; or a text
\* that cannot be read to its end.
Exposition(order, holes, form) ==
  LET keys == SetToSeq(DOMAIN counter)
  IN  [broken |-> FALSE, holes |-> IF form = "malformed" THEN holes ELSE {},
       lines |-> [i \in DOMAIN keys |->
         Line(keys[i], order, IF keys[i] \in holes THEN form ELSE "sample")]]
Broken == [broken |-> TRUE, holes |-> {}, lines |-> <<>>]
Texts ==
  {Broken} \cup
  {Exposition(order, holes, form) : order \in LabelOrders,
     holes \in {{}} \cup {{k} : k \in DOMAIN counter}, form \in {"malformed", "badValue"}}

Scraped(text) ==
  LET got == ParseWithAggregates(text)
  IN  [ok |-> got.ok, sample |-> got.sample, of |-> counter, holes |-> text.holes, taken |-> TRUE]

ScrapeStart ==
  /\ route = "points" /\ ~start.taken
  /\ \E text \in Texts : start' = Scraped(text)
  /\ UNCHANGED <<route, now, counter, end, grown, restarted, stored, window>>

ScrapeEnd ==
  /\ start.taken /\ ~end.taken
  /\ \E text \in Texts : end' = Scraped(text)
  /\ UNCHANGED <<route, now, counter, start, grown, restarted, stored, window>>

-----------------------------------------------------------------------------
(* Prometheus, which is not part of the program *)

Store ==
  /\ route = "range" /\ ~Asked
  /\ now \notin DOMAIN stored /\ Cardinality(DOMAIN stored) < MaxStored
  /\ stored' = [t \in DOMAIN stored \cup {now} |-> IF t = now THEN counter ELSE stored[t]]
  /\ UNCHANGED <<route, now, counter, start, end, grown, restarted, window>>

TimesOf(k, from) == {t \in DOMAIN stored : t >= from /\ k \in DOMAIN stored[t]}

Pair(k, t, garbled) ==
  [form |-> IF <<t, k>> \in garbled THEN "garbled" ELSE "pair", at |-> t, value |-> stored[t][k]]

\* The series of the queried metric since a time, in any order, one point of
\* one of them perhaps garbled.
Answered(k, from, query, garbled) ==
  LET times == InOrder(TimesOf(k, from))
  IN  [metric |-> [name |-> IF query = Expression THEN "" ELSE k.name, labels |-> k.labels],
       values |-> [j \in DOMAIN times |-> Pair(k, times[j], garbled)]]
Answer(keys, from, query, garbled, matrix) ==
  [matrix |-> matrix, result |-> [i \in DOMAIN keys |-> Answered(keys[i], from, query, garbled)]]

Found(from) == {k \in Series : k.name = Queried /\ TimesOf(k, from) # {}}
Window(keys, from, query, garbled, matrix) ==
  LET got == ParseRange(Answer(keys, from, query, garbled, matrix), query)
  IN  [ok |-> got.ok, samples |-> got.samples, query |-> query, lost |-> garbled, from |-> from]

FetchRange(from, query) ==
  LET points == UNION {{<<t, k>> : t \in TimesOf(k, from)} : k \in Found(from)}
  IN  /\ route = "range" /\ ~Asked
      /\ \E garbled \in {{}} \cup {{p} : p \in points}, keys \in SetToSeqs(Found(from)),
            matrix \in BOOLEAN :
           window' = Window(keys, from, query, garbled, matrix)
      /\ UNCHANGED <<route, now, counter, start, end, grown, restarted, stored>>

-----------------------------------------------------------------------------
Init ==
  /\ route \in {"points", "range"}
  /\ now = 0 /\ counter = <<>>
  /\ start = Nothing /\ end = Nothing
  /\ grown = [k \in Series |-> 0] /\ restarted = FALSE
  /\ stored = <<>> /\ window = NoWindow

Next ==
  \/ \E k \in Series : Event(k) \/ Register(k)
  \/ Restart
  \/ ScrapeStart \/ ScrapeEnd
  \/ Store
  \/ \E from \in DOMAIN stored, query \in {Queried, Expression} : FetchRange(from, query)

Spec == Init /\ [][Next]_vars

-----------------------------------------------------------------------------
(***************************************************************************)
(* Properties                                                              *)
(***************************************************************************)

NameOf(in) == IF IsSelector(in) THEN in.metric ELSE in.key.name

\* The series that the author of an SLI means by an input; by a bare name, all
\* that add up, unless the exporter has a series of that name.
Meant(in) ==
  {k \in Series :
     IF IsSelector(in) THEN k.name = in.metric /\ k \in in.match
     ELSE \/ k = in.key
          \/ in.key \notin Series /\ Bare(k.name) = in.key /\ Additive(k)}

IsCounters(c) == DOMAIN c \subseteq Series /\ \A k \in DOMAIN c : c[k] \in 0..MaxTime

\* The keys a sample may have: exposed series and the totals of some.
SampleKeys == Series \cup {Bare(k.name) : k \in {s \in Series : Additive(s)}}
IsScrape(scrape) ==
  /\ {scrape.ok, scrape.taken} \subseteq BOOLEAN
  /\ IsCounters(scrape.of)
  /\ scrape.holes \subseteq Series
  /\ DOMAIN scrape.sample \subseteq SampleKeys
  /\ \A k \in DOMAIN scrape.sample : scrape.sample[k] \in Nat

TypeOK ==
  /\ route \in {"points", "range"}
  /\ now \in 0..MaxTime
  /\ IsCounters(counter)
  /\ IsScrape(start) /\ IsScrape(end)
  /\ grown \in [Series -> 0..MaxTime]
  /\ restarted \in BOOLEAN
  /\ DOMAIN stored \subseteq 0..MaxTime
  /\ \A t \in DOMAIN stored : IsCounters(stored[t])
  /\ window.ok \in BOOLEAN
  /\ \A n \in DOMAIN window.samples : window.samples[n].at \in 0..MaxTime

\* engine.go (delta) on aggregate.go: the value of a delta SLI, whichever way
\* it names its series, is never more than the events that the exporter
\* counted in them between the scrapes, and is that number unless the exporter
\* restarted.  A total counts no event twice and no bucket at all, a selector
\* no total.  (A scrape that silently misses a line of the metric is excepted;
\* a value that cannot be read fails the scrape instead.)
DeltaCountsEvents ==
  \A in \in Inputs :
    /\ start.ok /\ end.ok
    /\ InputResolves(in, "delta", start.sample, end.sample)
    /\ \A k \in start.holes \cup end.holes : k.name # NameOf(in)
    => LET delta == InputValue(in, end.sample) - InputValue(in, start.sample)
           events == SumOn(grown, Meant(in))
       IN  delta <= events /\ (~restarted => delta = events)

\* selector.go: "an unlabeled (e.g. promtext.Aggregate synthesized) series can
\* never be selected".  To a selector a sample with totals is the exporter's
\* exposition without them, its absent families included.
Exposed(scrape) == [k \in DOMAIN scrape.of \ scrape.holes |-> scrape.of[k]]
SelectorsSeeSeries ==
  \A in \in Inputs, scrape \in {start, end} : IsSelector(in) /\ scrape.ok =>
    /\ Matched(in, scrape.sample) = Matched(in, Exposed(scrape))
    /\ Resolves(in, scrape.sample) <=> Resolves(in, Exposed(scrape))

\* fetcher.go (promrange): the window has each point that Prometheus answered
\* with exactly once, at its time and under the key that the exposition text
\* has for the series too, and its samples are in the order of time.
SeriesOf(key) ==
  IF window.query = Expression THEN [name |-> Queried, labels |-> key.labels] ELSE key
WindowIsStored ==
  window.ok =>
    LET points == UNION {{<<window.samples[n].at, SeriesOf(k)>> :
                            k \in DOMAIN window.samples[n].values} : n \in DOMAIN window.samples}
        answered == {p \in (DOMAIN stored) \X Series :
                       /\ p[1] >= window.from /\ p[2] \in DOMAIN stored[p[1]]
                       /\ p[2].name = Queried}
    IN  /\ points = answered \ window.lost
        /\ \A n \in DOMAIN window.samples, k \in Series :
             LET sample == window.samples[n]
             IN  \A key \in DOMAIN sample.values :
                   SeriesOf(key) = k => sample.values[key] = stored[sample.at][k]
        /\ \A m, n \in DOMAIN window.samples :
             m < n => window.samples[m].at < window.samples[n].at

=============================================================================
