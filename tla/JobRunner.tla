------------------------------ MODULE JobRunner ------------------------------
(***************************************************************************)
(* What the queue of trigger jobs and its runner promise together          *)
(* (docs/FOR_DEVELOPERS.md, ddosdetector.cpp): jobs run in the order in    *)
(* which they were pushed, each once, all of them unless the daemon stops. *)
(***************************************************************************)
EXTENDS Naturals, Sequences

CONSTANTS
  Job,     \* jobs: an action and its text
  MaxJobs  \* bound: jobs pushed

VARIABLES
  pushed,   \* all jobs so far
  done,     \* the jobs that ran
  stopped   \* the runner has ended

vars == <<pushed, done, stopped>>

Init == pushed = <<>> /\ done = <<>> /\ stopped = FALSE

Push(j) ==
  /\ Len(pushed) < MaxJobs
  /\ pushed' = Append(pushed, j)
  /\ UNCHANGED <<done, stopped>>

RunNext ==
  /\ ~stopped
  /\ Len(done) < Len(pushed)
  /\ done' = Append(done, pushed[Len(done) + 1])
  /\ UNCHANGED <<pushed, stopped>>

\* The daemon stops; jobs that have not run never will.
Stop ==
  /\ ~stopped
  /\ stopped' = TRUE
  /\ UNCHANGED <<pushed, done>>

Next == (\E j \in Job : Push(j)) \/ RunNext \/ Stop

Spec == Init /\ [][Next]_vars /\ WF_vars(RunNext)
SafeSpec == Init /\ [][Next]_vars
=============================================================================
