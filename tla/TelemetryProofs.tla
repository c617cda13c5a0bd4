--------------------------- MODULE TelemetryProofs ---------------------------
(***************************************************************************)
(* The recorder and its scrapes for any number of tasks, scrapers and      *)
(* calls: the order in which a scrape reads the series does not matter.    *)
(***************************************************************************)
EXTENDS Telemetry, FiniteSetTheorems, TLAPS

\* A scrape has read nothing that is not there, and of each series it is done
\* with at least what was there when it began.
ReadsBounded ==
    \A p \in Scraper :
        /\ p \notin gathering => pending[p] = {}
        /\ \A s \in Series :
            /\ floor[p][s] <= total[s] /\ sample[p][s] <= total[s]
            /\ s \notin pending[p] => floor[p][s] <= sample[p][s]

ScrapeInv == TelemetryTypeOK /\ ReadsBounded

\* Every latency belongs to a request that was counted before it.
TimedCounted == timed <= Requests

-----------------------------------------------------------------------------
(* Scrapes.                                                                *)

\* Counting one more keeps the types and every bound of a scrape.
LEMMA CountKeepsScrapes ==
    ASSUME ScrapeInv, NEW series \in Series, UNCHANGED scrapes,
           total' = [total EXCEPT ![series] = @ + 1]
    PROVE  total' \in [Series -> Nat] /\ ReadsBounded'
  <1>1. total' \in [Series -> Nat] /\ \A s \in Series : total[s] \in Nat /\ total[s] <= total'[s]
    BY DEF ScrapeInv, TelemetryTypeOK
  <1>2. \A p \in Scraper, s \in Series : floor[p][s] \in Nat /\ sample[p][s] \in Nat
    BY DEF ScrapeInv, TelemetryTypeOK
  <1>3. \A p \in Scraper, s \in Series : floor[p][s] <= total'[s] /\ sample[p][s] <= total'[s]
    BY <1>1, <1>2 DEF ScrapeInv, ReadsBounded
  <1> QED BY <1>1, <1>3 DEF ScrapeInv, ReadsBounded, scrapes

\* A recording task keeps the bounds of every scrape that is under way.
LEMMA RecordingKeepsScrapes ==
    ASSUME ScrapeInv, NEW w \in Worker,
           \/ \E success, hasLatency \in BOOLEAN : RecordRequestEnd(w, success, hasLatency)
           \/ Observe(w)
           \/ RecordError(w)
    PROVE  ScrapeInv'
  <1>1. PICK series \in Series : total' = [total EXCEPT ![series] = @ + 1]
    BY DEF RecordRequestEnd, Observe, RecordError, Series
  <1>2. UNCHANGED scrapes
    BY DEF RecordRequestEnd, Observe, RecordError
  <1>3. observing' \subseteq Worker /\ timed' \in Nat
    BY DEF RecordRequestEnd, Observe, RecordError, ScrapeInv, TelemetryTypeOK
  <1>4. total' \in [Series -> Nat] /\ ReadsBounded'
    BY <1>1, <1>2, CountKeepsScrapes
  <1> QED BY <1>2, <1>3, <1>4 DEF ScrapeInv, TelemetryTypeOK, scrapes

\* A scrape begins with all series to read, and with the totals as its floor.
LEMMA BeginKeepsScrapes ==
    ASSUME ScrapeInv, NEW p \in Scraper, BeginScrape(p)
    PROVE  ScrapeInv'
  <1>1. Zero \in [Series -> Nat] /\ \A s \in Series : Zero[s] = 0
    BY DEF Zero
  <1>2. TelemetryTypeOK'
    BY <1>1 DEF BeginScrape, ScrapeInv, TelemetryTypeOK, recorder
  <1>3. /\ total' = total /\ gathering' = gathering \cup {p}
        /\ pending'[p] = Series /\ sample'[p] = Zero /\ floor'[p] = total
        /\ \A q \in Scraper \ {p} : /\ pending'[q] = pending[q] /\ sample'[q] = sample[q]
                                    /\ floor'[q] = floor[q]
    BY DEF BeginScrape, ScrapeInv, TelemetryTypeOK, recorder
  <1>4. \A s \in Series : total[s] \in Nat
    BY DEF ScrapeInv, TelemetryTypeOK
  <1> QED BY <1>1, <1>2, <1>3, <1>4 DEF ScrapeInv, ReadsBounded

\* A series that is read shows its total, which is not below the floor.
LEMMA ReadKeepsScrapes ==
    ASSUME ScrapeInv, NEW p \in Scraper, NEW s \in Series, ReadSeries(p, s)
    PROVE  ScrapeInv'
  <1>1. TelemetryTypeOK'
    BY DEF ReadSeries, ScrapeInv, TelemetryTypeOK, recorder
  <1>2. /\ UNCHANGED <<total, gathering, floor>>
        /\ pending'[p] = pending[p] \ {s} /\ p \in gathering
        /\ sample'[p][s] = total[s]
        /\ \A t \in Series \ {s} : sample'[p][t] = sample[p][t]
        /\ \A q \in Scraper \ {p} : pending'[q] = pending[q] /\ sample'[q] = sample[q]
    BY DEF ReadSeries, ScrapeInv, TelemetryTypeOK, ReadsBounded, recorder
  <1>3. \A t \in Series : total[t] \in Nat
    BY DEF ScrapeInv, TelemetryTypeOK
  <1> QED BY <1>1, <1>2, <1>3 DEF ScrapeInv, ReadsBounded

\* The bounds hold for every number of tasks, scrapers and calls.
THEOREM ScrapeInvariant == Spec => []ScrapeInv
  <1>1. Init => ScrapeInv
    BY DEF Init, Zero, ScrapeInv, TelemetryTypeOK, ReadsBounded
  <1>2. ScrapeInv /\ [Next]_vars => ScrapeInv'
    <2> SUFFICES ASSUME ScrapeInv, [Next]_vars
                 PROVE  ScrapeInv'
      OBVIOUS
    <2>1. ASSUME NEW p \in Scraper, Respond(p)
          PROVE  ScrapeInv'
      BY <2>1 DEF Respond, ScrapeInv, TelemetryTypeOK, ReadsBounded, recorder
    <2>2. CASE Next
      BY <2>1, <2>2, RecordingKeepsScrapes, BeginKeepsScrapes, ReadKeepsScrapes DEF Next
    <2>3. CASE UNCHANGED vars
      BY <2>3 DEF vars, recorder, scrapes, ScrapeInv, TelemetryTypeOK, ReadsBounded
    <2> QED BY <2>2, <2>3
  <1> QED BY <1>1, <1>2, PTL DEF Spec

\* Every variable has its type.
THEOREM TelemetryTypeCorrect == Spec => []TelemetryTypeOK
  <1>1. ScrapeInv => TelemetryTypeOK
    BY DEF ScrapeInv
  <1> QED BY <1>1, ScrapeInvariant, PTL

\* What a scrape answers lies between what was recorded when it began and
\* what is recorded by its end, in whatever order it read the series.
THEOREM ScrapesAlwaysBounded == Spec => []ScrapeWithinBounds
  <1>1. ScrapeInv => ScrapeWithinBounds
    BY DEF ScrapeInv, ReadsBounded, ScrapeWithinBounds
  <1> QED BY <1>1, ScrapeInvariant, PTL

-----------------------------------------------------------------------------
(* Latencies.                                                              *)

\* Each series is one of the four.
LEMMA SeriesTyped ==
    ASSUME TelemetryTypeOK
    PROVE  /\ total["requests_success"] \in Nat /\ total["requests_failure"] \in Nat
           /\ total["latency"] \in Nat /\ total["errors"] \in Nat /\ Requests \in Nat
  <1>1. /\ "requests_success" \in Series /\ "requests_failure" \in Series
        /\ "latency" \in Series /\ "errors" \in Series
    BY DEF Series
  <1>2. \A s \in Series : total[s] \in Nat
    BY DEF TelemetryTypeOK
  <1>3. /\ total["requests_success"] \in Nat /\ total["requests_failure"] \in Nat
        /\ total["latency"] \in Nat /\ total["errors"] \in Nat
    BY <1>1, <1>2
  <1> QED BY <1>3 DEF Requests

\* What counting a request, an error or a latency does to the counts.
LEMMA CountsAfter ==
    ASSUME TelemetryTypeOK
    PROVE  /\ total' = [total EXCEPT !["requests_success"] = @ + 1] =>
                  Requests' = Requests + 1 /\ total'["latency"] = total["latency"]
           /\ total' = [total EXCEPT !["requests_failure"] = @ + 1] =>
                  Requests' = Requests + 1 /\ total'["latency"] = total["latency"]
           /\ total' = [total EXCEPT !["errors"] = @ + 1] =>
                  Requests' = Requests /\ total'["latency"] = total["latency"]
           /\ total' = [total EXCEPT !["latency"] = @ + 1] =>
                  Requests' = Requests /\ total'["latency"] = total["latency"] + 1
  <1>1. /\ "requests_success" \in Series /\ "requests_failure" \in Series
        /\ "latency" \in Series /\ "errors" \in Series
    BY DEF Series
  <1>2. total \in [Series -> Nat]
    BY DEF TelemetryTypeOK
  <1> QED BY <1>1, <1>2, SeriesTyped DEF Requests

\* A call leaves a latency behind that is due, or none.
LEMMA RequestKeepsLatencies ==
    ASSUME TelemetryTypeOK, LatencyAccounted, TimedCounted, NEW w \in Worker,
           NEW success \in BOOLEAN, NEW hasLatency \in BOOLEAN,
           RecordRequestEnd(w, success, hasLatency)
    PROVE  LatencyAccounted' /\ TimedCounted'
  <1>1. timed \in Nat /\ IsFiniteSet(observing) /\ Cardinality(observing) \in Nat
    BY TelemetryAssumption, FS_Subset, FS_CardinalityType DEF TelemetryTypeOK
  <1>2. total'["latency"] = total["latency"] /\ Requests' = Requests + 1
    <2>1. CASE success
      <3>1. total' = [total EXCEPT !["requests_success"] = @ + 1]
        BY <2>1 DEF RecordRequestEnd
      <3> QED BY <3>1, CountsAfter
    <2>2. CASE ~success
      <3>1. total' = [total EXCEPT !["requests_failure"] = @ + 1]
        BY <2>2 DEF RecordRequestEnd
      <3> QED BY <3>1, CountsAfter
    <2> QED BY <2>1, <2>2
  <1>3. /\ timed' = IF hasLatency THEN timed + 1 ELSE timed
        /\ Cardinality(observing') = IF hasLatency THEN Cardinality(observing) + 1
                                     ELSE Cardinality(observing)
    BY <1>1, FS_AddElement DEF RecordRequestEnd, MayCall
  <1> QED BY <1>1, <1>2, <1>3, SeriesTyped DEF LatencyAccounted, TimedCounted

\* A latency that was due is in the histogram.
LEMMA ObserveKeepsLatencies ==
    ASSUME TelemetryTypeOK, LatencyAccounted, TimedCounted, NEW w \in Worker, Observe(w)
    PROVE  LatencyAccounted' /\ TimedCounted'
  <1>1. timed \in Nat /\ IsFiniteSet(observing) /\ Cardinality(observing) \in Nat
    BY TelemetryAssumption, FS_Subset, FS_CardinalityType DEF TelemetryTypeOK
  <1>2. /\ total'["latency"] = total["latency"] + 1 /\ Requests' = Requests
        /\ timed' = timed
    BY CountsAfter DEF Observe
  <1>3. Cardinality(observing') = Cardinality(observing) - 1
    BY <1>1, FS_RemoveElement DEF Observe
  <1>4. Cardinality(observing') \in Nat
    BY <1>1, FS_RemoveElement, FS_CardinalityType DEF Observe
  <1>5. total["latency"] < timed
    <2>1. Cardinality(observing) # 0
      BY <1>1, FS_EmptySet DEF Observe
    <2> QED BY <1>1, <2>1, SeriesTyped DEF LatencyAccounted
  <1> QED BY <1>1, <1>2, <1>3, <1>4, <1>5, SeriesTyped DEF LatencyAccounted, TimedCounted

\* No latency is lost or counted twice, and none is ahead of its request.
THEOREM LatencyAlwaysAccounted == Spec => []LatencyAccounted
  <1> DEFINE Inv == TelemetryTypeOK /\ LatencyAccounted /\ TimedCounted
  <1>1. Init => LatencyAccounted /\ TimedCounted
    BY FS_EmptySet DEF Init, Zero, LatencyAccounted, TimedCounted, Requests, Series
  <1>2. Inv /\ [Next]_vars => LatencyAccounted' /\ TimedCounted'
    <2> SUFFICES ASSUME Inv, [Next]_vars
                 PROVE  LatencyAccounted' /\ TimedCounted'
      OBVIOUS
    <2>1. ASSUME NEW w \in Worker, RecordError(w)
          PROVE  LatencyAccounted' /\ TimedCounted'
      BY <2>1 DEF RecordError, TelemetryTypeOK, LatencyAccounted, TimedCounted,
                  Requests, Series
    <2>2. CASE \E p \in Scraper : BeginScrape(p) \/ Respond(p)
                                  \/ \E s \in Series : ReadSeries(p, s)
      BY <2>2 DEF BeginScrape, Respond, ReadSeries, recorder, LatencyAccounted,
                  TimedCounted, Requests
    <2>3. CASE Next
      BY <2>1, <2>2, <2>3, RequestKeepsLatencies, ObserveKeepsLatencies DEF Next
    <2>4. CASE UNCHANGED vars
      BY <2>4 DEF vars, recorder, LatencyAccounted, TimedCounted, Requests
    <2> QED BY <2>3, <2>4
  <1>3. Spec => []Inv
    <2>1. Spec => []TelemetryTypeOK
      BY TelemetryTypeCorrect
    <2> QED BY <1>1, <1>2, <2>1, PTL DEF Spec
  <1> QED BY <1>3, PTL
=============================================================================
