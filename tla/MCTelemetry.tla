----------------------------- MODULE MCTelemetry -----------------------------
(* Three tasks that record, and one connection that scrapes again and      *)
(* again: scrapes only read, so two of them do not influence each other.   *)
EXTENDS Telemetry, TLC

CONSTANTS w1, w2, w3, p1

MCWorker == {w1, w2, w3}
MCScraper == {p1}
WorkerSymmetry == Permutations(MCWorker)
=============================================================================
