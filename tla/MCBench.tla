------------------------------ MODULE MCBench -------------------------------
(* The report profile with two requests at a time, on one executor.          *)
EXTENDS Bench

ReportProfile == [name |-> "report", requests |-> 2, concurrency |-> 2, maxTokens |-> 2]
OneExecutor == <<"e1">>

=============================================================================
