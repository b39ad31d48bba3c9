------------------------------- MODULE TsQueue -------------------------------
(***************************************************************************)
(* The queue of trigger jobs (lib/queue.hpp) between the watcher, which    *)
(* pushes, and task_runner (ddosdetector.cpp), which waits, pops and runs. *)
(* What a thread does while it holds the queue's mutex is one step; the    *)
(* condition variable keeps a notification only for a thread that waits.   *)
(* pushed and done are history variables.                                  *)
(***************************************************************************)
EXTENDS Naturals, Sequences

CONSTANTS
  Job,     \* jobs: an action and its text
  NoJob,   \* what cur_job holds before the first job
  MaxJobs  \* bound: jobs pushed

ASSUME NoJobAssumption == NoJob \notin Job
ASSUME MaxJobsAssumption == MaxJobs \in Nat

VARIABLES
  queue,      \* data_queue
  at,         \* where task_runner is
  cur_job,    \* the job it popped last
  notified,   \* a notification has reached the waiting runner
  interrupt,  \* the runner's interruption was requested
  pushed, done

vars == <<queue, at, cur_job, notified, interrupt, pushed, done>>

TypeOK ==
  /\ queue \in Seq(Job)
  /\ at \in {"loop", "waiting", "running", "ended"}
  /\ cur_job \in Job \cup {NoJob}
  /\ notified \in BOOLEAN /\ interrupt \in BOOLEAN
  /\ pushed \in Seq(Job) /\ done \in Seq(Job)

Init ==
  /\ queue = <<>> /\ at = "loop" /\ cur_job = NoJob
  /\ notified = FALSE /\ interrupt = FALSE
  /\ pushed = <<>> /\ done = <<>>

\* Faulty variants: the job goes to the front; an empty job is pushed.
PushFront(j) ==
  /\ Len(pushed) < MaxJobs
  /\ queue' = <<j>> \o queue
  /\ notified' = (at = "waiting")
  /\ pushed' = Append(pushed, j)
  /\ UNCHANGED <<at, cur_job, interrupt, done>>

PushEmpty(j) ==
  /\ Len(pushed) < MaxJobs
  /\ queue' = Append(queue, NoJob)
  /\ notified' = (at = "waiting")
  /\ pushed' = Append(pushed, j)
  /\ UNCHANGED <<at, cur_job, interrupt, done>>

\* push: the notification is lost when nobody waits.
Push(j) ==
  /\ Len(pushed) < MaxJobs
  /\ queue' = Append(queue, j)
  /\ notified' = (at = "waiting")
  /\ pushed' = Append(pushed, j)
  /\ UNCHANGED <<at, cur_job, interrupt, done>>

\* interruption_point lets the runner pass, and wait_and_pop waits first,
\* whatever the queue holds.
Wait ==
  /\ at = "loop" /\ ~interrupt
  /\ at' = "waiting"
  /\ notified' = FALSE
  /\ UNCHANGED <<queue, cur_job, interrupt, pushed, done>>

\* Faulty variant: the wait has no timeout.
WakeOnNotify ==
  /\ at = "waiting" /\ notified
  /\ notified' = FALSE
  /\ IF queue = <<>>
     THEN at' = "loop" /\ UNCHANGED <<queue, cur_job>>
     ELSE at' = "running" /\ cur_job' = Head(queue) /\ queue' = Tail(queue)
  /\ UNCHANGED <<interrupt, pushed, done>>

\* The wait ends, by a notification, after its second or for no reason, and
\* one job is popped if there is one.
Wake ==
  /\ at = "waiting"
  /\ notified' = FALSE
  /\ IF queue = <<>>
     THEN at' = "loop" /\ UNCHANGED <<queue, cur_job>>
     ELSE at' = "running" /\ cur_job' = Head(queue) /\ queue' = Tail(queue)
  /\ UNCHANGED <<interrupt, pushed, done>>

\* cur_job.run()
Run ==
  /\ at = "running"
  /\ done' = Append(done, cur_job)
  /\ at' = "loop"
  /\ UNCHANGED <<queue, cur_job, notified, interrupt, pushed>>

\* threads.interrupt_all()
Interrupt ==
  /\ ~interrupt
  /\ interrupt' = TRUE
  /\ UNCHANGED <<queue, at, cur_job, notified, pushed, done>>

\* interruption_point throws; what is queued is never run.
End ==
  /\ at = "loop" /\ interrupt
  /\ at' = "ended"
  /\ UNCHANGED <<queue, cur_job, notified, interrupt, pushed, done>>

RunnerStep == Wait \/ Wake \/ Run \/ End

Next == (\E j \in Job : Push(j)) \/ RunnerStep \/ Interrupt

Spec == Init /\ [][Next]_vars

-----------------------------------------------------------------------------
Held == IF at = "running" THEN <<cur_job>> ELSE <<>>

\* Every job pushed is in one place, in the order of the pushes: run by
\* task_runner, being run, or queued (lib/queue.hpp loses and repeats none).
Accounted == pushed = done \o Held \o queue

\* The queue and its runner keep the promise of JobRunner: jobs run in the
\* order of the pushes, each once, and each unless the daemon stops.
Promise == INSTANCE JobRunner WITH stopped <- at = "ended"

\* interrupt_all ends the runner: its wait is no interruption point, but it
\* times out.
Stops == interrupt ~> at = "ended"
=============================================================================
