-------------------------------- MODULE MCEvents --------------------------------
(* Events for two threads that emit twice each. *)
EXTENDS Events

CONSTANTS t1, t2

TwoThreads == {t1, t2}

\* Every event that a thread began to emit is queued, lost or handed on, and counted as that once;
\* and a status that says it is the last tells the parent exactly what became of all of them.
AllReckoned == EveryAttemptCounted /\ Reckoned
=============================================================================
