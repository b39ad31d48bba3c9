----------------------------- MODULE DaemonProofs -----------------------------
(***************************************************************************)
(* The daemon, for every set of jobs, any number of SIGHUPs and versions   *)
(* of the rules file: its queue is TsQueue's and keeps JobRunner's         *)
(* promise, the lists are of one version whenever nobody reloads, threads  *)
(* are stopped for a cause, and a start that fails leaves only receivers.  *)
(***************************************************************************)
EXTENDS Daemon, SequenceTheorems, TLAPS

-----------------------------------------------------------------------------
(* The queue and its runner, whoever pushes and whoever interrupts.        *)

RunnerHolds == at = "running" => cur_job \in Job

IInv == TypeOK /\ RunnerHolds /\ Accounted

\* The first element of a sequence moves to the one before it.
LEMMA MoveHead ==
  ASSUME NEW S, NEW a \in Seq(S), NEW b \in Seq(S), b # <<>>
  PROVE  /\ Head(b) \in S /\ Tail(b) \in Seq(S)
         /\ a \o b = (a \o <<Head(b)>>) \o Tail(b)
<1>1. Head(b) \in S /\ Tail(b) \in Seq(S) /\ b = <<Head(b)>> \o Tail(b)
  BY HeadTailProperties, ConcatProperties, EmptySeq
<1>2. <<Head(b)>> \in Seq(S)
  BY <1>1
<1> QED BY <1>1, <1>2, ConcatAssociative

\* A new last element joins the last part.
LEMMA AppendLast ==
  \A a, b \in Seq(Job), e \in Job : Append(a \o b, e) = a \o Append(b, e)
<1> SUFFICES ASSUME NEW a \in Seq(Job), NEW b \in Seq(Job), NEW e \in Job
             PROVE  Append(a \o b, e) = a \o Append(b, e)
  OBVIOUS
<1>1. <<e>> \in Seq(Job) /\ a \o b \in Seq(Job)
  BY ConcatProperties
<1>2. \A s \in Seq(Job) : Append(s, e) = s \o <<e>>
  BY AppendIsConcat
<1>3. (a \o b) \o <<e>> = a \o (b \o <<e>>)
  BY <1>1, ConcatAssociative
<1> QED BY <1>1, <1>2, <1>3

LEMMA InitInv == Init => IInv
<1> SUFFICES ASSUME Init PROVE IInv
  OBVIOUS
<1>1. <<>> \in Seq(Job)
  OBVIOUS
<1>2. Held = <<>> /\ done = <<>> /\ queue = <<>> /\ pushed = <<>>
  BY DEF Init, Held
<1>3. Accounted
  BY <1>1, <1>2, ConcatEmptySeq DEF Accounted
<1> QED BY <1>1, <1>3 DEF Init, IInv, TypeOK, RunnerHolds

LEMMA NextInv == IInv /\ [Next]_vars => IInv'
<1> SUFFICES ASSUME IInv, [Next]_vars PROVE IInv'
  OBVIOUS
<1> USE DEF IInv, TypeOK, RunnerHolds
<1>1. Held \in Seq(Job) /\ done \o Held \in Seq(Job) /\ queue \in Seq(Job)
  BY DEF Held
<1>2. ASSUME NEW j \in Job, Push(j) PROVE IInv'
  <2>1. TypeOK' /\ RunnerHolds' /\ Held' = Held
    BY <1>2 DEF Push, Held
  <2> DEFINE first == done \o Held
  <2>2. first \in Seq(Job) /\ queue \in Seq(Job)
    BY <1>1
  <2> HIDE DEF first
  <2>3. Append(first \o queue, j) = first \o Append(queue, j)
    BY <1>2, <2>2, AppendLast
  <2>4. /\ pushed = first \o queue /\ pushed' = Append(pushed, j)
        /\ done' \o Held' = first /\ queue' = Append(queue, j)
    BY <1>2, <2>1 DEF Push, Accounted, first
  <2> QED BY <2>1, <2>3, <2>4 DEF Accounted
<1>3. CASE Wait
  BY <1>3 DEF Wait, Accounted, Held
<1>4. CASE Wake
  <2>1. CASE queue = <<>>
    BY <1>4, <2>1 DEF Wake, Accounted, Held
  <2>2. CASE queue # <<>>
    <3>1. /\ Head(queue) \in Job /\ Tail(queue) \in Seq(Job)
          /\ done \o queue = (done \o <<Head(queue)>>) \o Tail(queue)
      BY <2>2, MoveHead
    <3>2. Held = <<>> /\ Held' = <<Head(queue)>> /\ done \o <<>> = done
      BY <1>4, <2>2 DEF Wake, Held
    <3> QED BY <1>4, <2>2, <3>1, <3>2 DEF Wake, Accounted
  <2> QED BY <2>1, <2>2
<1>5. CASE Run
  <2>1. Held = <<cur_job>> /\ Held' = <<>> /\ cur_job \in Job
    BY <1>5 DEF Run, Held
  <2>2. done' = done \o <<cur_job>> /\ done' \in Seq(Job) /\ done' \o <<>> = done'
    BY <1>5, <2>1 DEF Run
  <2> QED BY <1>5, <2>1, <2>2 DEF Run, Accounted
<1>6. CASE End
  BY <1>6 DEF End, Accounted, Held
<1>7. CASE Interrupt
  BY <1>7 DEF Interrupt, Accounted, Held
<1>8. CASE UNCHANGED vars
  BY <1>8 DEF vars, Accounted, Held
<1> QED BY <1>2, <1>3, <1>4, <1>5, <1>6, <1>7, <1>8 DEF Next, RunnerStep

\* lib/queue.hpp: the variables keep their types.
THEOREM QueueTypes == Spec => []TypeOK
<1>1. IInv => TypeOK
  BY DEF IInv
<1> QED BY <1>1, InitInv, NextInv, PTL DEF Spec

\* lib/queue.hpp:25-42: every job pushed is run, being run or queued, once
\* and in the order of the pushes.
THEOREM QueueAccounts == Spec => []Accounted
<1>1. IInv => Accounted
  BY DEF IInv
<1> QED BY <1>1, InitInv, NextInv, PTL DEF Spec

-----------------------------------------------------------------------------
\* While a job is run it is the next one in the order of the pushes.
LEMMA RunsNext ==
  ASSUME IInv, at = "running"
  PROVE  Len(done) < Len(pushed) /\ pushed[Len(done) + 1] = cur_job
<1>1. /\ done \in Seq(Job) /\ queue \in Seq(Job) /\ <<cur_job>> \in Seq(Job)
      /\ pushed = (done \o <<cur_job>>) \o queue
  BY DEF IInv, TypeOK, RunnerHolds, Accounted, Held
<1>2. /\ Len(done) \in Nat /\ Len(queue) \in Nat
      /\ Len(done \o <<cur_job>>) = Len(done) + 1
      /\ (done \o <<cur_job>>)[Len(done) + 1] = cur_job
      /\ done \o <<cur_job>> \in Seq(Job)
  BY <1>1
<1>3. Len(pushed) = Len(done) + 1 + Len(queue)
  BY <1>1, <1>2
<1>4. pushed[Len(done) + 1] = (done \o <<cur_job>>)[Len(done) + 1]
  BY <1>1, <1>2, ConcatProperties
<1> QED BY <1>2, <1>3, <1>4

LEMMA StepPromise == IInv /\ [Next]_vars => [Promise!Next]_(Promise!vars)
<1> SUFFICES ASSUME IInv, [Next]_vars PROVE [Promise!Next]_(Promise!vars)
  OBVIOUS
<1> USE DEF Promise!vars
<1>1. ASSUME NEW j \in Job, Push(j) PROVE Promise!Push(j)
  BY <1>1 DEF Push, Promise!Push
<1>2. CASE Wait
  BY <1>2 DEF Wait
<1>3. CASE Wake
  BY <1>3 DEF Wake
<1>4. CASE Run
  <2>1. Promise!RunNext
    BY <1>4, RunsNext DEF Run, Promise!RunNext
  <2> QED BY <2>1 DEF Promise!Next
<1>5. CASE End
  <2>1. Promise!Stop
    BY <1>5 DEF End, Promise!Stop
  <2> QED BY <2>1 DEF Promise!Next
<1>6. CASE Interrupt
  BY <1>6 DEF Interrupt
<1>7. CASE UNCHANGED vars
  BY <1>7 DEF vars
<1> QED BY <1>1, <1>2, <1>3, <1>4, <1>5, <1>6, <1>7 DEF Next, RunnerStep, Promise!Next

\* The queue with its runner implements JobRunner, but for its fairness.
THEOREM QueueImplementsRunner == Spec => Promise!SafeSpec
<1>1. Init => Promise!Init
  BY DEF Init, Promise!Init
<1> QED BY <1>1, InitInv, NextInv, StepPromise, PTL DEF Spec, Promise!SafeSpec

-----------------------------------------------------------------------------
(* The daemon.                                                             *)

\* All lists are of one version.
Whole == \A t, u \in Type : lists[t] = lists[u]

\* What is left to assign, and what has been assigned.
Remaining(ver, todo) ==
  \/ todo = <<"TCP", "UDP", "ICMP">>
  \/ todo = <<"UDP", "ICMP">> /\ lists["TCP"] = ver
  \/ todo = <<"ICMP">> /\ lists["TCP"] = ver /\ lists["UDP"] = ver
  \/ todo = <<>> /\ Whole

\* A thread in reload_config is the only one, since sig_hook does not wait
\* for the signal meanwhile, and the lists are whole when nobody is in it.
LoadInv ==
  /\ \A h \in Io : io[h] = "load" =>
       /\ hook = "running"
       /\ \A g \in Io : io[g] = "load" => g = h
       /\ Remaining(load[h].ver, load[h].todo)
  /\ LoadedWhole

\* Why main is out of run().
CauseInv ==
  /\ stopped => asked
  /\ io["main"] = "out" => stopped \/ hook = "lost"
  /\ StoppedWithCause

\* The control thread runs handlers only when main has started it.
StartInv == io["control"] # "off" => started > 2

Core == LoadInv /\ CauseInv /\ StartInv

\* Before the watcher is started, main is in its start, receivers are the
\* only other threads, and neither the queue nor the io_service is in use.
EarlyInv ==
  started < 2 =>
    /\ io["main"] = "start" /\ io["control"] = "off"
    /\ \A w \in Worker : worker[w] # "off" => w = "receiver"
    /\ at = "loop" /\ pushed = <<>>
    /\ ~stopped /\ hook \in {"none", "armed"}

\* A start fails at the loader or in nm_recv.start().
FailsEarly == proc = "failed" => started < 2

\* No thread is started before the loader.
LoaderFirst == hook = "none" => started = 0

DInv == DTypeOK /\ Core /\ EarlyInv /\ FailsEarly /\ LoaderFirst

LEMMA TypesAre ==
  /\ Types = <<"TCP", "UDP", "ICMP">>
  /\ Type = {"TCP", "UDP", "ICMP"}
  /\ Types \in Seq(Type) /\ <<>> \in Seq(Type)
<1>1. Types = <<"TCP", "UDP", "ICMP">>
  BY DEF Types
<1>2. DOMAIN Types = {1, 2, 3}
  BY <1>1
<1>3. Type = {"TCP", "UDP", "ICMP"}
  BY <1>1, <1>2 DEF Type
<1> QED BY <1>1, <1>3

\* The receiver is the first thread and the control thread the third, once;
\* the runner comes after the receiver.
LEMMA ThreadsAre ==
  /\ Len(Threads) \in {4, 5}
  /\ Threads[1] = "receiver"
  /\ \A i \in 1 .. Len(Threads) : Threads[i] = "receiver" <=> i = 1
  /\ \A i \in 1 .. Len(Threads) : Threads[i] = "control" <=> i = 3
<1> DEFINE Names == {"receiver", "watcher", "control", "runner", "monitor"}
           first == <<"receiver", "watcher", "control", "runner">>
           last == IF InfluxEnabled THEN <<"monitor">> ELSE <<>>
<1>1. /\ first \in Seq(Names) /\ Len(first) = 4
      /\ first[1] = "receiver" /\ first[2] = "watcher"
      /\ first[3] = "control" /\ first[4] = "runner"
  OBVIOUS
<1>2. CASE InfluxEnabled
  <2>1. last \in Seq(Names) /\ Len(last) = 1 /\ last[1] = "monitor"
    BY <1>2
  <2> HIDE DEF first, last, Names
  <2>2. first \in Seq(Names) /\ last \in Seq(Names)
    BY <1>1, <2>1
  <2>3. /\ Len(first \o last) = Len(first) + Len(last)
        /\ \A i \in 1 .. Len(first) + Len(last) :
             (first \o last)[i] = IF i <= Len(first) THEN first[i] ELSE last[i - Len(first)]
    BY <2>2, ConcatProperties
  <2>4. Threads = first \o last
    BY DEF Threads, first, last
  <2>5. \A i \in 1 .. 5 : i = 1 \/ i = 2 \/ i = 3 \/ i = 4 \/ i = 5
    OBVIOUS
  <2>6. /\ Len(Threads) = 5 /\ Threads[1] = "receiver" /\ Threads[2] = "watcher"
        /\ Threads[3] = "control" /\ Threads[4] = "runner" /\ Threads[5] = "monitor"
    BY <1>1, <2>1, <2>3, <2>4
  <2> QED BY <2>5, <2>6
<1>3. CASE ~InfluxEnabled
  <2>1. last = <<>> /\ last \in Seq(Names) /\ Len(last) = 0
    BY <1>3
  <2>2. Threads = first \o <<>>
    BY <1>3 DEF Threads
  <2> HIDE DEF first, last, Names
  <2>3. Threads = first
    BY <1>1, <2>2, ConcatEmptySeq
  <2>4. \A i \in 1 .. 4 : i = 1 \/ i = 2 \/ i = 3 \/ i = 4
    OBVIOUS
  <2> QED BY <1>1, <2>3, <2>4
<1> QED BY <1>2, <1>3

LEMMA DInitInv == DInit => DInv
<1> SUFFICES ASSUME DInit PROVE DInv
  OBVIOUS
<1> USE DaemonBoundsAssumption
<1>1. DTypeOK
  <2>1. NoLoad \in [ver : 0 .. MaxVersions, todo : Seq(Type)]
    BY TypesAre DEF NoLoad
  <2>2. file \in [ver : 0 .. MaxVersions, state : FileState]
    BY DEF DInit
  <2>3. load \in [Io -> [ver : 0 .. MaxVersions, todo : Seq(Type)]]
    BY <2>1 DEF DInit
  <2>4. started \in 0 .. Len(Threads)
    BY ThreadsAre DEF DInit
  <2>5. /\ io \in [Io -> {"off", "start", "run", "load", "out"}]
        /\ worker \in [Worker -> {"off", "on", "ended"}]
        /\ lists \in [Type -> 0 .. MaxVersions] /\ hups \in 0 .. MaxHups
    BY DEF DInit, Io
  <2> QED BY <2>2, <2>3, <2>4, <2>5 DEF DInit, DTypeOK
<1>2. LoadInv
  BY DEF DInit, LoadInv, LoadedWhole, Io
<1>3. CauseInv /\ StartInv
  BY DEF DInit, Init, CauseInv, StoppedWithCause, StartInv, Io
<1>4. EarlyInv /\ FailsEarly /\ LoaderFirst
  BY DEF DInit, Init, EarlyInv, FailsEarly, LoaderFirst, Io, Worker
<1> QED BY <1>1, <1>2, <1>3, <1>4 DEF DInv, Core

-----------------------------------------------------------------------------
(* The steps that Core is about, and what the others leave alone.          *)

Watched == <<started, io, hook, load, lists, stopped, asked, interrupt>>

LEMMA KeepsWatched == Core /\ UNCHANGED Watched => Core'
BY DEF Watched, Core, LoadInv, CauseInv, StartInv, LoadedWhole, StoppedWithCause,
       Remaining, Whole

IoTyped == io \in [Io -> {"off", "start", "run", "load", "out"}]

LEMMA StepStartLoader == ASSUME DInv, StartLoader PROVE Core'
<1> USE DEF DInv, Core
<1>1. CASE file.state = "bad"
  <2>1. UNCHANGED Watched
    BY <1>1 DEF StartLoader, Fail, loader, signals, vars, Watched
  <2> QED BY <2>1, KeepsWatched
<1>2. CASE file.state # "bad"
  <2>1. /\ hook = "none" /\ hook' = "armed"
        /\ UNCHANGED <<started, io, stopped, asked, interrupt>>
        /\ lists' = [t \in Type |-> file.ver] \/ lists' = lists
    BY <1>2 DEF StartLoader, signals, vars
  <2>2. \A h \in Io : io[h] # "load"
    BY <2>1 DEF LoadInv
  <2>3. LoadInv'
    BY <2>1, <2>2 DEF LoadInv, LoadedWhole
  <2>4. CauseInv' /\ StartInv'
    BY <2>1 DEF CauseInv, StoppedWithCause, StartInv
  <2> QED BY <2>3, <2>4
<1> QED BY <1>1, <1>2

\* A thread that is not in reload_config goes elsewhere, for a cause if it
\* leaves run().
LEMMA StepElsewhere ==
  ASSUME DInv, NEW h \in Io, NEW v \in {"run", "out"},
         io' = [io EXCEPT ![h] = v], io[h] # "load",
         h = "main" /\ v = "out" => stopped,
         h = "control" => started' > 2, started' \in {started, started + 1},
         UNCHANGED <<hook, load, lists, stopped, asked, interrupt>>
  PROVE  Core'
<1> USE DEF DInv, Core
<1>1. IoTyped /\ started \in Nat
  BY ThreadsAre DEF DTypeOK, IoTyped
<1>2. \A g \in Io : io'[g] = (IF g = h THEN v ELSE io[g])
  BY <1>1 DEF IoTyped
<1>3. LoadInv'
  BY <1>2 DEF LoadInv, LoadedWhole, Remaining, Whole
<1>4. io'["main"] = "out" => stopped \/ hook = "lost"
  BY <1>2 DEF CauseInv, Io
<1>5. StartInv'
  <2>1. CASE h = "control"
    BY <2>1 DEF StartInv
  <2>2. CASE h # "control"
    <3>1. io'["control"] = io["control"]
      BY <1>2, <2>2 DEF Io
    <3>2. CASE io["control"] = "off"
      BY <3>1, <3>2 DEF StartInv
    <3>3. CASE io["control"] # "off"
      <4>1. started > 2
        BY <3>3 DEF StartInv
      <4> QED BY <1>1, <4>1 DEF StartInv
    <3> QED BY <3>2, <3>3
  <2> QED BY <2>1, <2>2
<1> QED BY <1>3, <1>4, <1>5 DEF CauseInv, StoppedWithCause

LEMMA StepStartThread == ASSUME DInv, StartThread PROVE Core'
<1> USE DEF DInv, Core
<1>1. /\ UNCHANGED <<hook, load, lists, stopped, asked, interrupt>>
      /\ started' = started + 1 /\ started < Len(Threads)
  BY DEF StartThread, loader, signals, vars
<1>2. started \in Nat /\ started + 1 \in 1 .. Len(Threads) /\ started' \in Nat
  BY <1>1, ThreadsAre DEF DTypeOK
<1>3. CASE Threads[started + 1] = "control"
  <2>1. started = 2 /\ started' = 3
    BY <1>1, <1>2, <1>3, ThreadsAre
  <2>2. io["control"] = "off" /\ "control" \in Io
    BY <2>1 DEF StartInv, Io
  <2>3. io' = [io EXCEPT !["control"] = "run"] \/ io' = [io EXCEPT !["control"] = "out"]
    BY <1>3 DEF StartThread
  <2> QED BY <1>1, <2>1, <2>2, <2>3, StepElsewhere
<1>4. CASE Threads[started + 1] # "control"
  <2>1. io' = io
    BY <1>4 DEF StartThread
  <2>2. LoadInv' /\ CauseInv'
    BY <1>1, <2>1 DEF LoadInv, CauseInv, LoadedWhole, StoppedWithCause, Remaining, Whole
  <2>3. StartInv'
    BY <1>1, <1>2, <2>1 DEF StartInv
  <2> QED BY <2>2, <2>3
<1> QED BY <1>3, <1>4

LEMMA StepReadFile == ASSUME DInv, NEW h \in Io, ReadFile(h) PROVE Core'
<1> USE DEF DInv, Core
<1>1. /\ io[h] = "run" /\ ~stopped /\ hook = "armed"
      /\ UNCHANGED <<started, lists, stopped, asked, interrupt>>
      /\ IoTyped
      /\ load \in [Io -> [ver : 0 .. MaxVersions, todo : Seq(Type)]]
  BY DEF ReadFile, Idle, DTypeOK, IoTyped, vars
<1>2. Whole /\ \A g \in Io : io[g] # "load"
  BY <1>1 DEF LoadInv, LoadedWhole, Whole
<1>3. Whole'
  BY <1>1, <1>2 DEF Whole
<1>4. io["main"] # "out" /\ (interrupt => asked)
  BY <1>1 DEF CauseInv, StoppedWithCause
<1>5. CASE file.state = "bad"
  <2>1. hook' = "lost" /\ io' = [io EXCEPT ![h] = "out"]
    BY <1>5 DEF ReadFile, Throw
  <2>2. \A g \in Io : io'[g] = (IF g = h THEN "out" ELSE io[g])
    BY <1>1, <2>1 DEF IoTyped
  <2>3. LoadInv'
    BY <1>2, <1>3, <2>2 DEF LoadInv, LoadedWhole, Whole
  <2>4. StartInv'
    BY <1>1, <2>2 DEF StartInv, Io
  <2> QED BY <1>1, <2>1, <2>3, <2>4 DEF CauseInv, StoppedWithCause
<1>6. CASE file.state # "bad"
  <2> DEFINE todo == IF file.state = "good" THEN Types ELSE <<>>
  <2>1. /\ hook' = "running" /\ io' = [io EXCEPT ![h] = "load"]
        /\ load' = [load EXCEPT ![h] = [ver |-> file.ver, todo |-> todo]]
    BY <1>6 DEF ReadFile
  <2>2. \A g \in Io : io'[g] = (IF g = h THEN "load" ELSE io[g])
    BY <1>1, <2>1 DEF IoTyped
  <2>3. load'[h].todo = todo
    BY <1>1, <2>1
  <2>4. Remaining(load[h].ver, load[h].todo)'
    BY <2>3, <1>3, TypesAre DEF Remaining
  <2>5. LoadInv'
    BY <1>2, <2>1, <2>2, <2>4 DEF LoadInv, LoadedWhole
  <2>6. StartInv' /\ io'["main"] # "out"
    BY <1>1, <1>4, <2>2 DEF StartInv, Io
  <2> QED BY <1>1, <1>4, <2>5, <2>6 DEF CauseInv, StoppedWithCause
<1> QED BY <1>5, <1>6

LEMMA StepAssignList == ASSUME DInv, NEW h \in Io, AssignList(h) PROVE Core'
<1> USE DEF DInv, Core
<1> DEFINE ver == load[h].ver
           todo == load[h].todo
<1>1. /\ io[h] = "load" /\ todo # <<>>
      /\ UNCHANGED <<started, io, hook, stopped, asked, interrupt>>
      /\ lists' = [lists EXCEPT ![Head(todo)] = ver]
      /\ load' = [load EXCEPT ![h].todo = Tail(@)]
      /\ load \in [Io -> [ver : 0 .. MaxVersions, todo : Seq(Type)]]
      /\ lists \in [Type -> 0 .. MaxVersions]
  BY DEF AssignList, DTypeOK, signals, vars
<1>2. load'[h].ver = ver /\ load'[h].todo = Tail(todo)
  BY <1>1
<1>3. hook = "running" /\ (\A g \in Io : io[g] = "load" => g = h) /\ Remaining(ver, todo)
  BY <1>1 DEF LoadInv
<1>4. Remaining(load[h].ver, load[h].todo)'
  <2>1. CASE todo = <<"TCP", "UDP", "ICMP">>
    <3>1. Head(todo) = "TCP" /\ Tail(todo) = <<"UDP", "ICMP">>
      BY <2>1
    <3>2. lists'["TCP"] = ver
      BY <1>1, <3>1, TypesAre
    <3> QED BY <1>2, <3>1, <3>2 DEF Remaining
  <2>2. CASE todo = <<"UDP", "ICMP">> /\ lists["TCP"] = ver
    <3>1. Head(todo) = "UDP" /\ Tail(todo) = <<"ICMP">>
      BY <2>2
    <3>2. lists'["TCP"] = ver /\ lists'["UDP"] = ver
      BY <1>1, <2>2, <3>1, TypesAre
    <3> QED BY <1>2, <3>1, <3>2 DEF Remaining
  <2>3. CASE todo = <<"ICMP">> /\ lists["TCP"] = ver /\ lists["UDP"] = ver
    <3>1. Head(todo) = "ICMP" /\ Tail(todo) = <<>>
      BY <2>3
    <3>2. lists'["TCP"] = ver /\ lists'["UDP"] = ver /\ lists'["ICMP"] = ver
      BY <1>1, <2>3, <3>1, TypesAre
    <3>3. Whole'
      BY <3>2, TypesAre DEF Whole
    <3> QED BY <1>2, <3>1, <3>3 DEF Remaining
  <2> QED BY <1>1, <1>3, <2>1, <2>2, <2>3 DEF Remaining
<1>5. LoadInv'
  BY <1>1, <1>3, <1>4 DEF LoadInv, LoadedWhole
<1> QED BY <1>1, <1>5 DEF CauseInv, StoppedWithCause, StartInv

LEMMA StepFinishLoad == ASSUME DInv, NEW h \in Io, FinishLoad(h) PROVE Core'
<1> USE DEF DInv, Core
<1>1. /\ io[h] = "load" /\ load[h].todo = <<>>
      /\ io' = [io EXCEPT ![h] = "run"]
      /\ UNCHANGED <<started, lists, stopped, asked, interrupt>>
      /\ IoTyped
  BY DEF FinishLoad, DTypeOK, IoTyped, signals, vars
<1>2. /\ hook = "running" /\ (\A g \in Io : io[g] = "load" => g = h)
      /\ Remaining(load[h].ver, <<>>)
  BY <1>1 DEF LoadInv
<1>3. Whole
  BY <1>2 DEF Remaining
<1>4. \A g \in Io : io'[g] = (IF g = h THEN "run" ELSE io[g])
  BY <1>1 DEF IoTyped
<1>5. LoadInv'
  BY <1>1, <1>2, <1>3, <1>4 DEF LoadInv, LoadedWhole, Whole
<1>6. StartInv' /\ (io'["main"] = "out" => io["main"] = "out")
  BY <1>1, <1>4 DEF Io, StartInv
<1> QED BY <1>1, <1>2, <1>5, <1>6 DEF CauseInv, StoppedWithCause

LEMMA StepInterruptAll == ASSUME DInv, InterruptAll PROVE Core'
<1>1. UNCHANGED <<started, io, hook, load, lists, stopped, asked>> /\ io["main"] = "out"
  BY DEF InterruptAll, daemon, loader, signals
<1> QED BY <1>1 DEF DInv, Core, LoadInv, CauseInv, StartInv, LoadedWhole,
                    StoppedWithCause, Remaining, Whole

\* Steps that change why the daemon stops, or nothing of Core.
LEMMA StepRunMain == ASSUME DInv, RunMain PROVE Core'
<1>1. /\ "main" \in Io /\ io["main"] = "start"
      /\ io' = [io EXCEPT !["main"] = "run"] /\ started' = started
      /\ UNCHANGED <<hook, load, lists, stopped, asked, interrupt>>
  BY DEF RunMain, Io, loader, signals, vars
<1> QED BY <1>1, StepElsewhere

LEMMA StepRunReturns == ASSUME DInv, NEW h \in Io, RunReturns(h) PROVE Core'
<1>1. /\ io[h] = "run" /\ stopped
      /\ io' = [io EXCEPT ![h] = "out"] /\ started' = started
      /\ UNCHANGED <<hook, load, lists, stopped, asked, interrupt>>
  BY DEF RunReturns, loader, signals, vars
<1>2. h = "control" => started > 2
  BY <1>1 DEF DInv, Core, StartInv
<1> QED BY <1>1, <1>2, StepElsewhere

LEMMA StepTerm == ASSUME DInv, Term PROVE Core'
<1>1. /\ asked' = TRUE
      /\ UNCHANGED <<started, io, hook, load, lists, stopped, interrupt>>
  BY DEF Term, loader, signals, vars
<1> QED BY <1>1 DEF DInv, Core, LoadInv, CauseInv, StartInv, LoadedWhole,
                    StoppedWithCause, Remaining, Whole

LEMMA StepStop == ASSUME DInv, NEW h \in Io, StopHandler(h) PROVE Core'
<1>1. /\ asked /\ stopped' = TRUE
      /\ UNCHANGED <<started, io, hook, load, lists, asked, interrupt>>
  BY DEF StopHandler, loader, signals, vars
<1> QED BY <1>1 DEF DInv, Core, LoadInv, CauseInv, StartInv, LoadedWhole,
                    StoppedWithCause, Remaining, Whole

QuietStep ==
  \/ StartFails \/ JoinAll \/ Hup \/ EditFile \/ Alert \/ Runner
  \/ \E h \in Io : ReloadCommand(h) \/ AcceptAborted(h)
  \/ \E w \in Worker : WorkerEnds(w)

LEMMA StepQuiet == QuietStep => UNCHANGED Watched
<1> USE DEF Watched
<1>1. CASE StartFails \/ JoinAll
  BY <1>1 DEF StartFails, Fail, JoinAll, loader, signals, vars
<1>2. CASE Hup
  BY <1>2 DEF Hup, loader, vars
<1>3. CASE EditFile
  BY <1>3 DEF EditFile, signals, vars
<1>4. CASE Alert
  BY <1>4 DEF Alert, Push, daemon, loader, signals
<1>5. CASE Runner
  BY <1>5 DEF Runner, RunnerStep, Wait, Wake, Run, End, daemon, loader, signals
<1>6. ASSUME NEW h \in Io, ReloadCommand(h) PROVE UNCHANGED Watched
  BY <1>6 DEF ReloadCommand, loader, vars
<1>7. ASSUME NEW h \in Io, AcceptAborted(h) PROVE UNCHANGED Watched
  BY <1>7 DEF AcceptAborted, loader, signals, vars
<1>8. ASSUME NEW w \in Worker, WorkerEnds(w) PROVE UNCHANGED Watched
  BY <1>8 DEF WorkerEnds, loader, signals, vars
<1> QED BY <1>1, <1>2, <1>3, <1>4, <1>5, <1>6, <1>7, <1>8 DEF QuietStep

LEMMA CoreNext == DInv /\ [DNext]_dvars => Core'
<1> SUFFICES ASSUME DInv, [DNext]_dvars PROVE Core'
  OBVIOUS
<1>1. CASE QuietStep
  BY <1>1, StepQuiet, KeepsWatched DEF DInv
<1>2. CASE StartLoader
  BY <1>2, StepStartLoader
<1>3. CASE StartThread
  BY <1>3, StepStartThread
<1>4. CASE RunMain
  BY <1>4, StepRunMain
<1>5. CASE InterruptAll
  BY <1>5, StepInterruptAll
<1>6. CASE Term
  BY <1>6, StepTerm
<1>7. ASSUME NEW h \in Io, StopHandler(h) \/ ReadFile(h) PROVE Core'
  BY <1>7, StepStop, StepReadFile
<1>8. ASSUME NEW h \in Io, GoOn(h) PROVE Core'
  BY <1>8, StepAssignList, StepFinishLoad, StepRunReturns DEF GoOn
<1>9. CASE UNCHANGED dvars
  <2>1. UNCHANGED Watched
    BY <1>9 DEF dvars, daemon, loader, signals, vars, Watched
  <2> QED BY <2>1, KeepsWatched DEF DInv
<1> QED BY <1>1, <1>2, <1>3, <1>4, <1>5, <1>6, <1>7, <1>8, <1>9
           DEF DNext, MainStep, Environment, Take, QuietStep

-----------------------------------------------------------------------------
(* Types.                                                                  *)

LEMMA DTypesNext == DTypeOK /\ [DNext]_dvars => DTypeOK'
<1> SUFFICES ASSUME DTypeOK, [DNext]_dvars PROVE DTypeOK'
  OBVIOUS
<1> USE DaemonBoundsAssumption DEF loader, signals
<1>1. CASE StartLoader
  <2>1. CASE file.state = "bad"
    BY <1>1, <2>1 DEF StartLoader, Fail, DTypeOK
  <2>2. CASE file.state # "bad"
    <3>1. file.ver \in 0 .. MaxVersions
      BY DEF DTypeOK
    <3>2. lists' \in [Type -> 0 .. MaxVersions]
      BY <1>1, <2>2, <3>1 DEF StartLoader, DTypeOK
    <3> QED BY <1>1, <2>2, <3>2 DEF StartLoader, DTypeOK
  <2> QED BY <2>1, <2>2
<1>2. CASE StartThread
  <2>1. started + 1 \in 0 .. Len(Threads)
    BY <1>2, ThreadsAre DEF StartThread, DTypeOK
  <2>2. worker' \in [Worker -> {"off", "on", "ended"}]
    BY <1>2 DEF StartThread, DTypeOK
  <2>3. io' \in [Io -> {"off", "start", "run", "load", "out"}]
    BY <1>2 DEF StartThread, DTypeOK
  <2>4. accept' \in {"none", "armed", "aborted"}
    BY <1>2 DEF StartThread, DTypeOK
  <2> QED BY <1>2, <2>1, <2>2, <2>3, <2>4 DEF StartThread, DTypeOK
<1>3. CASE StartFails
  BY <1>3 DEF StartFails, Fail, DTypeOK
<1>4. CASE RunMain
  BY <1>4 DEF RunMain, DTypeOK
<1>5. CASE InterruptAll
  BY <1>5 DEF InterruptAll, daemon, DTypeOK
<1>6. CASE JoinAll
  BY <1>6 DEF JoinAll, DTypeOK
<1>7. CASE Hup
  <2>1. hups' \in 0 .. MaxHups
    BY <1>7 DEF Hup, DTypeOK
  <2>2. worker' \in [Worker -> {"off", "on", "ended"}]
    BY <1>7 DEF Hup, Hits, DTypeOK
  <2> QED BY <1>7, <2>1, <2>2 DEF Hup, DTypeOK
<1>8. CASE Term
  <2>1. worker' \in [Worker -> {"off", "on", "ended"}]
    BY <1>8 DEF Term, Hits, DTypeOK
  <2> QED BY <1>8, <2>1 DEF Term, DTypeOK
<1>9. CASE EditFile
  <2>1. file.ver + 1 \in 0 .. MaxVersions
    BY <1>9 DEF EditFile, DTypeOK
  <2>2. file' \in [ver : 0 .. MaxVersions, state : FileState]
    BY <1>9, <2>1 DEF EditFile
  <2> QED BY <1>9, <2>2 DEF EditFile, DTypeOK
<1>10. ASSUME NEW h \in Io, ReloadCommand(h) PROVE DTypeOK'
  BY <1>10 DEF ReloadCommand, DTypeOK
<1>11. ASSUME NEW h \in Io, StopHandler(h) PROVE DTypeOK'
  BY <1>11 DEF StopHandler, DTypeOK
<1>12. ASSUME NEW h \in Io, ReadFile(h) PROVE DTypeOK'
  <2>1. hups' \in 0 .. MaxHups
    BY <1>12 DEF ReadFile, DTypeOK
  <2>2. CASE file.state = "bad"
    BY <1>12, <2>1, <2>2 DEF ReadFile, Throw, DTypeOK
  <2>3. CASE file.state # "bad"
    <3> DEFINE new == [ver |-> file.ver, todo |-> IF file.state = "good" THEN Types ELSE <<>>]
    <3>1. file.ver \in 0 .. MaxVersions
      BY DEF DTypeOK
    <3>2. new \in [ver : 0 .. MaxVersions, todo : Seq(Type)]
      BY <3>1, TypesAre
    <3>3. load' = [load EXCEPT ![h] = new]
      BY <1>12, <2>3 DEF ReadFile
    <3> HIDE DEF new
    <3>4. load' \in [Io -> [ver : 0 .. MaxVersions, todo : Seq(Type)]]
      BY <3>2, <3>3 DEF DTypeOK
    <3> QED BY <1>12, <2>1, <2>3, <3>4 DEF ReadFile, DTypeOK
  <2> QED BY <2>2, <2>3
<1>13. ASSUME NEW h \in Io, AcceptAborted(h) PROVE DTypeOK'
  BY <1>13 DEF AcceptAborted, DTypeOK
<1>14. ASSUME NEW h \in Io, AssignList(h) PROVE DTypeOK'
  <2>1. load[h] \in [ver : 0 .. MaxVersions, todo : Seq(Type)] /\ load[h].todo # <<>>
    BY <1>14 DEF AssignList, DTypeOK
  <2>2. Tail(load[h].todo) \in Seq(Type) /\ load[h].ver \in 0 .. MaxVersions
    BY <2>1
  <2>3. load' \in [Io -> [ver : 0 .. MaxVersions, todo : Seq(Type)]]
    BY <1>14, <2>2 DEF AssignList, DTypeOK
  <2>4. lists' \in [Type -> 0 .. MaxVersions]
    BY <1>14, <2>2 DEF AssignList, DTypeOK
  <2> QED BY <1>14, <2>3, <2>4 DEF AssignList, DTypeOK
<1>15. ASSUME NEW h \in Io, FinishLoad(h) PROVE DTypeOK'
  <2>1. NoLoad \in [ver : 0 .. MaxVersions, todo : Seq(Type)]
    BY TypesAre DEF NoLoad
  <2> QED BY <1>15, <2>1 DEF FinishLoad, DTypeOK
<1>16. ASSUME NEW h \in Io, RunReturns(h) PROVE DTypeOK'
  BY <1>16 DEF RunReturns, DTypeOK
<1>17. ASSUME NEW w \in Worker, WorkerEnds(w) PROVE DTypeOK'
  BY <1>17 DEF WorkerEnds, DTypeOK
<1>18. CASE Alert \/ Runner
  BY <1>18 DEF Alert, Runner, daemon, DTypeOK
<1>19. CASE UNCHANGED dvars
  BY <1>19 DEF dvars, daemon, DTypeOK
<1> QED BY <1>1, <1>2, <1>3, <1>4, <1>5, <1>6, <1>7, <1>8, <1>9, <1>10, <1>11, <1>12,
           <1>13, <1>14, <1>15, <1>16, <1>17, <1>18, <1>19
        DEF DNext, MainStep, Environment, Take, GoOn

\* Only the start of the loader and the threads goes on with the start, or
\* fails.
EndsNot == started' = started /\ proc' # "failed" /\ (hook' = "none" => hook = "none")

LEMMA OthersEndNot ==
  ASSUME DNext, ~StartLoader, ~StartThread, ~StartFails
  PROVE  EndsNot
<1> USE DEF EndsNot
<1>1. proc = "up"
  BY DEF DNext
<1>2. CASE RunMain \/ InterruptAll \/ JoinAll
  BY <1>1, <1>2 DEF RunMain, InterruptAll, JoinAll, daemon, loader
<1>3. CASE Environment
  BY <1>1, <1>3 DEF Environment, Hup, Term, EditFile, ReloadCommand, loader
<1>4. ASSUME NEW h \in Io, GoOn(h) PROVE EndsNot
  BY <1>1, <1>4 DEF GoOn, AssignList, FinishLoad, RunReturns, loader
<1>5. ASSUME NEW h \in Io, NEW r \in Ready, Take(h, r) PROVE EndsNot
  <2>1. CASE StopHandler(h) \/ AcceptAborted(h)
    BY <1>1, <2>1 DEF StopHandler, AcceptAborted, loader
  <2>2. CASE ReadFile(h)
    BY <1>1, <2>2 DEF ReadFile, Throw
  <2> QED BY <1>5, <2>1, <2>2 DEF Take
<1>6. ASSUME NEW w \in Worker, WorkerEnds(w) PROVE EndsNot
  BY <1>1, <1>6 DEF WorkerEnds, loader
<1>7. CASE Alert \/ Runner
  BY <1>1, <1>7 DEF Alert, Runner, daemon, loader
<1> QED BY <1>2, <1>3, <1>4, <1>5, <1>6, <1>7 DEF DNext, MainStep

LEMMA FailsEarlyNext ==
  DInv /\ [DNext]_dvars => FailsEarly' /\ LoaderFirst'
<1> SUFFICES ASSUME DInv, [DNext]_dvars PROVE FailsEarly' /\ LoaderFirst'
  OBVIOUS
<1> USE DEF FailsEarly, LoaderFirst
<1>1. started \in 0 .. Len(Threads) /\ FailsEarly /\ LoaderFirst
  BY DEF DInv, DTypeOK
<1>2. CASE UNCHANGED dvars
  BY <1>1, <1>2 DEF dvars, daemon, loader
<1>3. CASE StartLoader
  BY <1>1, <1>3 DEF StartLoader, Fail, loader
<1>4. CASE StartThread
  <2>1. proc' # "failed" /\ hook' = hook /\ hook # "none"
    BY <1>1, <1>4 DEF StartThread, loader, DNext, dvars, daemon
  <2> QED BY <2>1
<1>5. CASE StartFails
  <2>1. started' = started /\ hook' = hook /\ hook # "none"
    BY <1>5 DEF StartFails, Fail, loader
  <2>2. PICK i \in {started, started + 1} \cap DOMAIN Threads : Threads[i] = "receiver"
    BY <1>5 DEF StartFails
  <2>3. started < 2
    <3>1. DOMAIN Threads = 1 .. Len(Threads)
      BY DEF Threads
    <3>2. i = 1
      BY <2>2, <3>1, ThreadsAre
    <3> QED BY <1>1, <2>2, <3>2
  <2> QED BY <2>1, <2>3
<1>6. CASE DNext /\ ~StartLoader /\ ~StartThread /\ ~StartFails
  <2>1. EndsNot
    BY <1>6, OthersEndNot
  <2> QED BY <1>1, <2>1 DEF EndsNot
<1> QED BY <1>2, <1>3, <1>4, <1>5, <1>6

\* Before the watcher is started only main's start, signals, which may hit a
\* receiver, the rules file and the end of a receiver can make a step.
LEMMA EarlyNext == DInv /\ [DNext]_dvars => EarlyInv'
<1> SUFFICES ASSUME DInv, [DNext]_dvars, started' < 2 PROVE EarlyInv'
  BY DEF EarlyInv
<1> USE DEF EarlyInv
<1>1. EarlyInv /\ started \in 0 .. Len(Threads) /\ worker \in [Worker -> {"off", "on", "ended"}]
  BY DEF DInv, DTypeOK
<1>2. CASE UNCHANGED dvars
  BY <1>1, <1>2 DEF dvars, daemon, loader, vars
<1>3. CASE StartThread
  <2>1. started' = started + 1 /\ UNCHANGED <<hook, stopped, at, pushed>>
    BY <1>3 DEF StartThread, loader, vars
  <2>2. started = 0 /\ Threads[started + 1] = "receiver"
    BY <1>1, <2>1, ThreadsAre
  <2>3. io' = io /\ worker' = [worker EXCEPT !["receiver"] = "on"]
    BY <1>3, <2>2 DEF StartThread, Worker
  <2> QED BY <1>1, <2>1, <2>2, <2>3
<1>4. CASE DNext /\ ~StartThread
  <2>1. started' = started
    <3>1. CASE StartLoader \/ StartFails
      BY <3>1 DEF StartLoader, StartFails, Fail
    <3>2. CASE ~StartLoader /\ ~StartFails
      BY <1>4, <3>2, OthersEndNot DEF EndsNot
    <3> QED BY <3>1, <3>2
  <2>2. /\ io["main"] = "start" /\ io["control"] = "off"
        /\ \A w \in Worker : worker[w] # "off" => w = "receiver"
        /\ at = "loop" /\ pushed = <<>>
        /\ ~stopped /\ hook \in {"none", "armed"}
    BY <1>1, <2>1
  <2>3. \A h \in Io : io[h] # "run" /\ io[h] # "load" /\ io[h] # "out"
    BY <2>2 DEF Io
  <2>4. CASE StartLoader
    BY <2>2, <2>4 DEF StartLoader, Fail, loader, vars
  <2>5. CASE StartFails
    BY <2>2, <2>5 DEF StartFails, Fail, loader, vars
  <2>6. CASE Hup \/ Term
    <3>1. worker' = worker \/ worker' = [worker EXCEPT !["receiver"] = "ended"]
      BY <2>6 DEF Hup, Term, Hits
    <3>2. UNCHANGED <<io, stopped, hook, at, pushed>>
      BY <2>6 DEF Hup, Term, loader, vars
    <3> QED BY <1>1, <2>2, <3>1, <3>2
  <2>7. CASE EditFile
    BY <2>2, <2>7 DEF EditFile, vars
  <2>8. ASSUME NEW w \in Worker, WorkerEnds(w) PROVE EarlyInv'
    <3>1. /\ worker[w] = "on" /\ worker' = [worker EXCEPT ![w] = "ended"]
          /\ UNCHANGED <<io, stopped, hook, at, pushed>>
      BY <2>8 DEF WorkerEnds, loader, vars
    <3>2. w = "receiver"
      BY <2>2, <3>1
    <3> QED BY <1>1, <2>2, <3>1, <3>2
  <2>9. ~RunMain
    BY <1>1, <2>1, ThreadsAre DEF RunMain
  <2>10. ~InterruptAll
    BY <2>2 DEF InterruptAll
  <2>11. CASE JoinAll
    BY <2>2, <2>11 DEF JoinAll, loader, vars
  <2>12. \A h \in Io : ~ReloadCommand(h) /\ ~GoOn(h) /\ \A r \in Ready : ~Take(h, r)
    BY <2>3 DEF ReloadCommand, GoOn, AssignList, FinishLoad, RunReturns, Take,
                StopHandler, ReadFile, AcceptAborted, Idle
  <2>13. ~Alert
    BY <2>2 DEF Alert, Worker
  <2>14. ~Runner
    <3>1. ASSUME NEW i \in 1 .. started PROVE Threads[i] # "runner"
      <4>1. i = 1
        BY <1>1, <2>1, <3>1
      <4> QED BY <4>1, ThreadsAre
    <3> QED BY <3>1 DEF Runner, Started
  <2> QED BY <1>4, <2>4, <2>5, <2>6, <2>7, <2>8, <2>9, <2>10, <2>11, <2>12, <2>13, <2>14
             DEF DNext, MainStep, Environment
<1> QED BY <1>2, <1>3, <1>4

LEMMA DNextInv == DInv /\ [DNext]_dvars => DInv'
BY CoreNext, DTypesNext, EarlyNext, FailsEarlyNext DEF DInv

-----------------------------------------------------------------------------
(* The theorems.                                                           *)

\* ddosdetector.cpp:294-401: the daemon's variables keep their types.
THEOREM DaemonTypes == DSpec => []DTypeOK
<1>1. DInv => DTypeOK
  BY DEF DInv
<1> QED BY <1>1, DInitInv, DNextInv, PTL DEF DSpec

\* rules.cpp:388-411: although two threads run handlers, reloads never
\* overlap, and each leaves the three lists of one version.
THEOREM DaemonLoadsWhole == DSpec => []LoadedWhole
<1>1. DInv => LoadedWhole
  BY DEF DInv, Core, LoadInv
<1> QED BY <1>1, DInitInv, DNextInv, PTL DEF DSpec

\* ddosdetector.cpp:386-396: threads are interrupted after SIGINT or SIGTERM,
\* or after an exception that ended reloading.
THEOREM DaemonStopsWithCause == DSpec => []StoppedWithCause
<1>1. DInv => StoppedWithCause
  BY DEF DInv, Core, CauseInv
<1> QED BY <1>1, DInitInv, DNextInv, PTL DEF DSpec

\* collector.cpp:211-229, ddosdetector.cpp:351-374: a start that fails,
\* whenever it does and whatever packets and signals came meanwhile, leaves
\* no thread but receivers behind and no job that nobody runs.
THEOREM DaemonFailsQuietly == DSpec => []FailedStartIsQuiet
<1>1. DInv => FailedStartIsQuiet
  BY DEF DInv, EarlyInv, FailsEarly, FailedStartIsQuiet
<1> QED BY <1>1, DInitInv, DNextInv, PTL DEF DSpec

-----------------------------------------------------------------------------
(* The queue in the daemon.                                                *)

\* What no thread of the queue does leaves the queue alone.
LEMMA DaemonStepsQueue == [DNext]_dvars => [Next]_vars
<1> SUFFICES ASSUME [DNext]_dvars PROVE [Next]_vars
  OBVIOUS
<1>1. CASE StartLoader \/ StartThread \/ StartFails \/ RunMain \/ JoinAll
  BY <1>1 DEF StartLoader, StartThread, StartFails, Fail, RunMain, JoinAll
<1>2. CASE InterruptAll
  BY <1>2 DEF InterruptAll, Next
<1>3. CASE Environment
  BY <1>3 DEF Environment, Hup, Term, EditFile, ReloadCommand
<1>4. ASSUME NEW h \in Io, GoOn(h) PROVE UNCHANGED vars
  BY <1>4 DEF GoOn, AssignList, FinishLoad, RunReturns
<1>5. ASSUME NEW h \in Io, NEW r \in Ready, Take(h, r) PROVE UNCHANGED vars
  BY <1>5 DEF Take, StopHandler, ReadFile, AcceptAborted
<1>6. ASSUME NEW w \in Worker, WorkerEnds(w) PROVE UNCHANGED vars
  BY <1>6 DEF WorkerEnds
<1>7. CASE Alert
  BY <1>7 DEF Alert, Next
<1>8. CASE Runner
  BY <1>8 DEF Runner, Next
<1>9. CASE UNCHANGED dvars
  BY <1>9 DEF dvars
<1> QED BY <1>1, <1>2, <1>3, <1>4, <1>5, <1>6, <1>7, <1>8, <1>9 DEF DNext, MainStep

\* ddosdetector.cpp:120-135, 363-374: the daemon drives its queue as TsQueue
\* says.
THEOREM DaemonDrivesQueue == DSpec => Spec
<1>1. DInit => Init
  BY DEF DInit
<1> QED BY <1>1, DaemonStepsQueue, PTL DEF DSpec, Spec

\* lib/queue.hpp:25-42: in the daemon, too, no job is lost, repeated or
\* overtaken.
THEOREM DaemonAccounts == DSpec => []Accounted
BY DaemonDrivesQueue, QueueAccounts, PTL

-----------------------------------------------------------------------------
(* The daemon and JobRunner.                                               *)

\* A step of the daemon's threads while the process lives on.
LEMMA StepOfThreads ==
  ASSUME IInv, Next, proc = "up", proc' = "up"
  PROVE  [DaemonPromise!Next]_(DaemonPromise!vars)
<1> USE DEF DaemonPromise!vars
<1>1. ASSUME NEW j \in Job, Push(j) PROVE DaemonPromise!Push(j)
  BY <1>1 DEF Push, DaemonPromise!Push
<1>2. CASE Wait \/ Wake \/ Interrupt
  BY <1>2 DEF Wait, Wake, Interrupt
<1>3. CASE Run
  <2>1. DaemonPromise!RunNext
    BY <1>3, RunsNext DEF Run, DaemonPromise!RunNext
  <2> QED BY <2>1 DEF DaemonPromise!Next
<1>4. CASE End
  <2>1. DaemonPromise!Stop
    BY <1>4 DEF End, DaemonPromise!Stop
  <2> QED BY <2>1 DEF DaemonPromise!Next
<1> QED BY <1>1, <1>2, <1>3, <1>4 DEF Next, RunnerStep, DaemonPromise!Next

\* The end of the process touches no job.
LEMMA EndTouchesNoJob ==
  ASSUME DNext
  PROVE  proc = "up" /\ (proc' = "up" \/ UNCHANGED vars)
<1>1. CASE StartLoader \/ StartFails \/ JoinAll
  BY <1>1 DEF DNext, StartLoader, StartFails, Fail, JoinAll
<1>2. CASE StartThread \/ RunMain \/ InterruptAll
  BY <1>2 DEF DNext, StartThread, RunMain, InterruptAll, daemon
<1>3. CASE Environment
  BY <1>3 DEF DNext, Environment, Hup, Term, EditFile, ReloadCommand
<1>4. ASSUME NEW h \in Io, GoOn(h) PROVE UNCHANGED <<proc, vars>>
  BY <1>4 DEF GoOn, AssignList, FinishLoad, RunReturns
<1>5. ASSUME NEW h \in Io, NEW r \in Ready, Take(h, r) PROVE UNCHANGED vars
  BY <1>5 DEF Take, StopHandler, ReadFile, AcceptAborted
<1>6. ASSUME NEW w \in Worker, WorkerEnds(w) PROVE UNCHANGED <<proc, vars>>
  BY <1>6 DEF WorkerEnds
<1>7. CASE Alert \/ Runner
  BY <1>7 DEF DNext, Alert, Runner, daemon
<1> QED BY <1>1, <1>2, <1>3, <1>4, <1>5, <1>6, <1>7 DEF DNext, MainStep

LEMMA DaemonStepPromise ==
  IInv /\ [DNext]_dvars => [DaemonPromise!Next]_(DaemonPromise!vars)
<1> SUFFICES ASSUME IInv, [DNext]_dvars
             PROVE  [DaemonPromise!Next]_(DaemonPromise!vars)
  OBVIOUS
<1>1. CASE UNCHANGED dvars
  BY <1>1 DEF dvars, daemon, vars, DaemonPromise!vars
<1>2. CASE DNext /\ UNCHANGED vars
  <2>1. proc = "up" /\ UNCHANGED <<pushed, done, at>>
    BY <1>2, EndTouchesNoJob DEF vars
  <2>2. CASE at # "ended" /\ proc' # "up"
    <3>1. DaemonPromise!Stop
      BY <2>1, <2>2 DEF DaemonPromise!Stop
    <3> QED BY <3>1 DEF DaemonPromise!Next
  <2>3. CASE at = "ended" \/ proc' = "up"
    BY <2>1, <2>3 DEF DaemonPromise!vars
  <2> QED BY <2>2, <2>3
<1>3. CASE DNext /\ ~UNCHANGED vars
  <2>1. proc = "up" /\ proc' = "up"
    BY <1>3, EndTouchesNoJob
  <2>2. Next
    BY <1>3, DaemonStepsQueue
  <2> QED BY <2>1, <2>2, StepOfThreads
<1> QED BY <1>1, <1>2, <1>3

\* lib/queue.hpp, ddosdetector.cpp: with its queue, from its start to any of
\* its ends, the daemon implements JobRunner, but for its fairness.
THEOREM DaemonImplementsRunner == DSpec => DaemonPromise!SafeSpec
<1>1. DInit => DaemonPromise!Init
  BY DEF DInit, Init, DaemonPromise!Init
<1>2. DInit => Init
  BY DEF DInit
<1> QED BY <1>1, <1>2, DaemonStepsQueue, InitInv, NextInv, DaemonStepPromise, PTL
        DEF DSpec, DaemonPromise!SafeSpec
=============================================================================
