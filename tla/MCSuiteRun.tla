---- MODULE MCSuiteRun ----
(* Suites for TLC.  Durable hand-overs may be resumed anywhere; a buffer is
   safe only behind a stage that replays its source in every session (a stage
   that resumes skips what only the lost buffer held); the buffer's own reader
   resumes. *)
EXTENDS SuiteRun

DurableSuite == [medium |-> <<"keyed", "keyed", "keyed">>, resumes |-> 1..3]
ReplayedSuite == [medium |-> <<"memory", "keyed", "keyed">>, resumes |-> {2, 3}]

SafeSuites == {DurableSuite, ReplayedSuite}
====
