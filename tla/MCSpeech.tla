------------------------------ MODULE MCSpeech ------------------------------
(* Instances of SpeechPipeline for TLC. *)
EXTENDS SpeechPipeline

CONSTANTS p1, p2, w1, w2

OneSpeech == {p1}
TwoSpeeches == {p1, p2}
OneWorker == {w1}
TwoWorkers == {w1, w2}
OnLocal == {"local"}
AnyBackend == {"local", "s3"}

NoFailure == [s \in Speeches |-> {"ok"}]
Outage == [s \in Speeches |-> {"error"}]

\* The first speech meets everything a provider does (a worker is not given next
\* to no text); the second is failed by its request's provider, not by the worker's.
AnyThenOutage == [s \in Speeches |-> IF s = p1 THEN Outcomes ELSE {"error"}]
AnyThenRecovery == [s \in Speeches |-> IF s = p1 THEN Outcomes \ {"short"} ELSE {"ok"}]

OneOrThree == [s \in Speeches |-> IF s = p1 THEN 1 ELSE 3]
Thrice == [s \in Speeches |-> 3]
=============================================================================
