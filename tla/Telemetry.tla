------------------------------ MODULE Telemetry ------------------------------
(***************************************************************************)
(* PrometheusMetricsRecorder of crate labman-telemetry, and the /metrics   *)
(* handler of crate labman-server that reads it.  Tasks record requests    *)
(* and errors while scrapes go on; no lock spans two time series.          *)
(*                                                                         *)
(* A series stands for all label values that are recorded alike.  The      *)
(* gauge is left out: nothing in the program calls set_active_requests.    *)
(***************************************************************************)
EXTENDS Naturals, FiniteSets

CONSTANTS
    Worker,     \* tasks that record
    Scraper,    \* connections that GET /metrics
    MaxCalls    \* bound on the calls of the recorder

ASSUME TelemetryAssumption == IsFiniteSet(Worker) /\ MaxCalls \in Nat

Series == {"requests_success", "requests_failure", "latency", "errors"}

VARIABLES
    total,      \* per series: its value (of the histogram, the count)
    observing,  \* workers between the counter and the histogram
    timed,      \* history: calls of record_request_end with a latency
    gathering,  \* scrapers whose request is being answered
    pending,    \* per scraper: the series gather has yet to read
    sample,     \* per scraper: the values of its last scrape
    floor       \* history, per scraper: total when that scrape began

recorder == <<total, observing, timed>>
scrapes == <<gathering, pending, sample, floor>>
vars == <<recorder, scrapes>>

Zero == [s \in Series |-> 0]

Init ==
    /\ total = Zero
    /\ observing = {}
    /\ timed = 0
    /\ gathering = {}
    /\ pending = [p \in Scraper |-> {}]
    /\ sample = [p \in Scraper |-> Zero]
    /\ floor = [p \in Scraper |-> Zero]

-----------------------------------------------------------------------------
(* Recording.                                                              *)

Requests == total["requests_success"] + total["requests_failure"]

\* Bounds the run; a call of record_request_end or record_error.
MayCall(w) ==
    /\ w \notin observing
    /\ Requests + total["errors"] < MaxCalls

\* record_request_end counts the request by its outcome, and goes on to the
\* histogram if there is a latency.
RecordRequestEnd(w, success, hasLatency) ==
    /\ MayCall(w)
    /\ LET series == IF success THEN "requests_success" ELSE "requests_failure"
       IN  total' = [total EXCEPT ![series] = @ + 1]
    /\ observing' = IF hasLatency THEN observing \cup {w} ELSE observing
    /\ timed' = IF hasLatency THEN timed + 1 ELSE timed
    /\ UNCHANGED scrapes

\* Mutant of Observe: the histogram is not the one that is registered.
ObserveElsewhere(w) ==
    /\ w \in observing
    /\ observing' = observing \ {w}
    /\ UNCHANGED <<total, timed, scrapes>>

Observe(w) ==
    /\ w \in observing
    /\ total' = [total EXCEPT !["latency"] = @ + 1]
    /\ observing' = observing \ {w}
    /\ UNCHANGED <<timed, scrapes>>

RecordError(w) ==
    /\ MayCall(w)
    /\ total' = [total EXCEPT !["errors"] = @ + 1]
    /\ UNCHANGED <<observing, timed, scrapes>>

-----------------------------------------------------------------------------
(* GET /metrics.                                                           *)

\* Mutant of BeginScrape: series appear with their first read only.
BeginScrapeEmpty(p) ==
    /\ p \notin gathering
    /\ gathering' = gathering \cup {p}
    /\ pending' = [pending EXCEPT ![p] = Series]
    /\ sample' = [sample EXCEPT ![p] = <<>>]
    /\ floor' = [floor EXCEPT ![p] = total]
    /\ UNCHANGED recorder

\* prometheus_http_response calls gather.
BeginScrape(p) ==
    /\ p \notin gathering
    /\ gathering' = gathering \cup {p}
    /\ pending' = [pending EXCEPT ![p] = Series]
    /\ sample' = [sample EXCEPT ![p] = Zero]
    /\ floor' = [floor EXCEPT ![p] = total]
    /\ UNCHANGED recorder

\* Mutant of ReadSeries: the handler gathers the registry of a recorder of
\* its own.
ReadOwnSeries(p, s) ==
    /\ s \in pending[p]
    /\ pending' = [pending EXCEPT ![p] = @ \ {s}]
    /\ UNCHANGED <<recorder, gathering, sample, floor>>

\* gather reads one series after the other, in no particular order.
ReadSeries(p, s) ==
    /\ s \in pending[p]
    /\ pending' = [pending EXCEPT ![p] = @ \ {s}]
    /\ sample' = [sample EXCEPT ![p][s] = total[s]]
    /\ UNCHANGED <<recorder, gathering, floor>>

\* The families are encoded and sent.
Respond(p) ==
    /\ p \in gathering
    /\ pending[p] = {}
    /\ gathering' = gathering \ {p}
    /\ UNCHANGED <<recorder, pending, sample, floor>>

Next ==
    \/ \E w \in Worker :
        \/ \E success, hasLatency \in BOOLEAN : RecordRequestEnd(w, success, hasLatency)
        \/ Observe(w) \/ RecordError(w)
    \/ \E p \in Scraper :
        \/ BeginScrape(p) \/ Respond(p)
        \/ \E s \in Series : ReadSeries(p, s)

Spec == Init /\ [][Next]_vars

-----------------------------------------------------------------------------
(* Properties.                                                             *)

\* Every variable has its type.
TelemetryTypeOK ==
    /\ total \in [Series -> Nat]
    /\ observing \subseteq Worker
    /\ timed \in Nat
    /\ gathering \subseteq Scraper
    /\ pending \in [Scraper -> SUBSET Series]
    /\ sample \in [Scraper -> [Series -> Nat]]
    /\ floor \in [Scraper -> [Series -> Nat]]

\* Although a scrape reads one series at a time while others record, its
\* answer shows, of every series, all that was recorded before it began and
\* nothing that was not recorded by its end.  So a scrape that begins after
\* another has ended never shows less, which rate() and increase() rest on.
ScrapeWithinBounds ==
    \A p \in Scraper, s \in Series :
        p \notin gathering => floor[p][s] <= sample[p][s] /\ sample[p][s] <= total[s]

\* No latency is lost or counted twice, whichever tasks record at once: all
\* but those of the calls that are between their two steps are in the
\* histogram, which never runs ahead of the requests.
LatencyAccounted ==
    /\ total["latency"] + Cardinality(observing) = timed
    /\ total["latency"] <= Requests
=============================================================================
