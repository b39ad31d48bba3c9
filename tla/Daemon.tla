-------------------------------- MODULE Daemon --------------------------------
(***************************************************************************)
(* The process (main and start_control of ddosdetector.cpp) around the job *)
(* queue: the threads it starts, the io_service that main and the control  *)
(* thread both run, the rules file loader and the shutdown.                *)
(*                                                                         *)
(* The io_service (boost.asio, outside the repository) gives a handler     *)
(* that is ready to either of the two threads in run(), keeps a signal     *)
(* nobody waits for, and hands out nothing after stop().  The versions of  *)
(* the rules file are numbered; a list is known by the version it was      *)
(* assigned from.  The receivers stand for one thread, as do the sessions. *)
(***************************************************************************)
EXTENDS TsQueue

CONSTANTS
  InfluxEnabled,  \* influx_client->is_enable()
  MaxHups,        \* bound: SIGHUPs
  MaxVersions     \* bound: versions of the rules file

ASSUME InfluxAssumption == InfluxEnabled \in BOOLEAN
ASSUME DaemonBoundsAssumption == MaxHups \in Nat /\ MaxVersions \in Nat

Io == {"main", "control"}
Worker == {"receiver", "watcher", "monitor"}
Types == <<"TCP", "UDP", "ICMP">>
Type == {Types[i] : i \in DOMAIN Types}

\* Faulty variant: the watcher is started before the receivers.
WatcherFirst == <<"watcher", "receiver", "control", "runner">>
                \o (IF InfluxEnabled THEN <<"monitor">> ELSE <<>>)

\* The order in which main adds the threads to its group.
Threads == <<"receiver", "watcher", "control", "runner">>
           \o (IF InfluxEnabled THEN <<"monitor">> ELSE <<>>)

VARIABLES
  proc,     \* the process
  started,  \* how many of Threads main has started
  io,       \* where main and the control thread are
  worker,   \* the threads that are neither these nor task_runner
  stopped,  \* io_s.stop() was called
  hook,     \* the handler of SIGHUP: it waits, it runs, or it is gone
  accept,   \* the handler of async_accept, whose this is the ControlServer
  hups,     \* SIGHUPs no handler has taken
  asked,    \* SIGINT or SIGTERM has come
  file,     \* the rules file: its version and whether it can be loaded
  load,     \* what a thread in reload_config has read, and which lists it
            \* has still to assign
  lists     \* main_collect, by type: the version a list was assigned from

loader == <<hook, file, load, lists>>
signals == <<hups, asked>>
daemon == <<proc, started, io, worker, stopped, accept, loader, signals>>
dvars == <<daemon, vars>>

FileState == {"good", "bad", "gone"}
NoLoad == [ver |-> 0, todo |-> <<>>]

DTypeOK ==
  /\ proc \in {"up", "exited", "failed", "crashed"}
  /\ started \in 0 .. Len(Threads)
  /\ io \in [Io -> {"off", "start", "run", "load", "out"}]
  /\ worker \in [Worker -> {"off", "on", "ended"}]
  /\ stopped \in BOOLEAN /\ asked \in BOOLEAN
  /\ hook \in {"none", "armed", "running", "lost"}
  /\ accept \in {"none", "armed", "aborted"}
  /\ hups \in 0 .. MaxHups
  /\ file \in [ver : 0 .. MaxVersions, state : FileState]
  /\ load \in [Io -> [ver : 0 .. MaxVersions, todo : Seq(Type)]]
  /\ lists \in [Type -> 0 .. MaxVersions]

\* main has set up both signal sets and is about to load the rules file.
DInit ==
  /\ Init
  /\ proc = "up" /\ started = 0
  /\ io = [h \in Io |-> IF h = "main" THEN "start" ELSE "off"]
  /\ worker = [w \in Worker |-> "off"]
  /\ stopped = FALSE
  /\ hook = "none" /\ accept = "none"
  /\ hups = 0 /\ asked = FALSE
  /\ \E s \in FileState : file = [ver |-> 0, state |-> s]
  /\ load = [h \in Io |-> NoLoad]
  /\ lists = [t \in Type |-> 0]

Started(t) == \E i \in 1 .. started : Threads[i] = t

-----------------------------------------------------------------------------
(* The start of the threads.                                               *)

Fail ==
  /\ proc' = "failed"
  /\ UNCHANGED <<started, io, worker, stopped, accept, loader, signals, vars>>

\* rul_loader.start(): its reload_config and its async_wait.
StartLoader ==
  /\ io["main"] = "start" /\ hook = "none"
  /\ IF file.state = "bad"
     THEN Fail
     ELSE /\ hook' = "armed"
          /\ lists' = IF file.state = "good" THEN [t \in Type |-> file.ver] ELSE lists
          /\ UNCHANGED <<proc, started, io, worker, stopped, accept, file, load, signals, vars>>

\* nm_recv.start(), the control thread, the other threads.  The server of the
\* control thread may find its port taken: then the thread ends at once.
StartThread ==
  /\ io["main"] = "start" /\ hook # "none"
  /\ started < Len(Threads)
  /\ started' = started + 1
  /\ LET t == Threads[started + 1]
     IN  /\ worker' = IF t \in Worker THEN [worker EXCEPT ![t] = "on"] ELSE worker
         /\ IF t = "control"
            THEN \/ io' = [io EXCEPT ![t] = "run"] /\ accept' = "armed"
                 \/ io' = [io EXCEPT ![t] = "out"] /\ UNCHANGED accept
            ELSE UNCHANGED <<io, accept>>
  /\ UNCHANGED <<proc, stopped, loader, signals, vars>>

\* nm_recv.start() throws when it cannot open the interface or one of its
\* rings, and then the threads of the rings before are running: main returns
\* without a word to them.
StartFails ==
  /\ io["main"] = "start" /\ hook # "none"
  /\ \E i \in {started, started + 1} \cap DOMAIN Threads : Threads[i] = "receiver"
  /\ Fail

\* main calls io_s.run()
RunMain ==
  /\ io["main"] = "start" /\ started = Len(Threads)
  /\ io' = [io EXCEPT !["main"] = "run"]
  /\ UNCHANGED <<proc, started, worker, stopped, accept, loader, signals, vars>>

-----------------------------------------------------------------------------
(* Signals.  The handler of the signal may run in any thread; a receiver   *)
(* in poll gets EINTR and ends.                                            *)

Hits ==
  \/ UNCHANGED worker
  \/ worker["receiver"] = "on" /\ worker' = [worker EXCEPT !["receiver"] = "ended"]

Hup ==
  /\ hups < MaxHups
  /\ hups' = hups + 1
  /\ Hits
  /\ UNCHANGED <<proc, started, io, stopped, accept, loader, asked, vars>>

Term ==
  /\ ~asked
  /\ asked' = TRUE
  /\ Hits
  /\ UNCHANGED <<proc, started, io, stopped, accept, loader, hups, vars>>

\* The operator writes the rules file.
EditFile ==
  /\ file.ver < MaxVersions
  /\ \E s \in FileState : file' = [ver |-> file.ver + 1, state |-> s]
  /\ UNCHANGED <<proc, started, io, worker, stopped, accept, hook, load, lists, signals, vars>>

-----------------------------------------------------------------------------
(* Handlers, in a thread h that is in run().                               *)

Idle(h) == io[h] = "run" /\ ~stopped

\* The command "reload rules" of a session: raise(1)
ReloadCommand(h) ==
  /\ Idle(h)
  /\ hups < MaxHups
  /\ hups' = hups + 1
  /\ UNCHANGED <<proc, started, io, worker, stopped, accept, loader, asked, vars>>

\* io_service::stop
StopHandler(h) ==
  /\ Idle(h) /\ asked
  /\ stopped' = TRUE
  /\ UNCHANGED <<proc, started, io, worker, accept, loader, signals, vars>>

\* Faulty variant: a signal that comes during a reload is dropped.
FinishDrops(h) ==
  /\ io[h] = "load" /\ load[h].todo = <<>>
  /\ io' = [io EXCEPT ![h] = "run"]
  /\ load' = [load EXCEPT ![h] = NoLoad]
  /\ hook' = "armed"
  /\ hups' = 0
  /\ UNCHANGED <<proc, started, worker, stopped, accept, file, lists, asked, vars>>

\* Faulty variants: the next wait begins before the reload; a reload needs
\* no signal.
ReadArmed(h) ==
  /\ Idle(h) /\ hook = "armed" /\ hups > 0
  /\ hups' = hups - 1
  /\ file.state # "bad"
  /\ io' = [io EXCEPT ![h] = "load"]
  /\ load' = [load EXCEPT ![h] =
       [ver |-> file.ver, todo |-> IF file.state = "good" THEN Types ELSE <<>>]]
  /\ UNCHANGED <<proc, started, worker, stopped, hook, accept, file, lists, asked, vars>>

ReadUnasked(h) ==
  /\ Idle(h) /\ hook = "armed" /\ file.state = "gone"
  /\ hups' = hups - 1
  /\ UNCHANGED <<proc, started, io, worker, stopped, hook, accept, file, load, lists, asked, vars>>

\* tokenize throws: the exception leaves run() before the next async_wait.
\* The control thread's ControlServer goes with its frame, which aborts the
\* accept; main's frame stays.
Throw(h) ==
  /\ hook' = "lost"
  /\ io' = [io EXCEPT ![h] = "out"]
  /\ accept' = IF h = "control" THEN "aborted" ELSE accept
  /\ UNCHANGED load

\* sig_hook and the first half of reload_config: the file is read into
\* buff_collect.  The file is read as it is at one time.
ReadFile(h) ==
  /\ Idle(h) /\ hook = "armed" /\ hups > 0
  /\ hups' = hups - 1
  /\ IF file.state = "bad"
     THEN Throw(h)
     ELSE /\ hook' = "running"
          /\ io' = [io EXCEPT ![h] = "load"]
          /\ load' = [load EXCEPT ![h] =
               [ver |-> file.ver, todo |-> IF file.state = "good" THEN Types ELSE <<>>]]
          /\ UNCHANGED accept
  /\ UNCHANGED <<proc, started, worker, stopped, file, lists, asked, vars>>

\* *collect_ = buff_collect: one list after the other, each under its lock.
AssignList(h) ==
  /\ io[h] = "load" /\ load[h].todo # <<>>
  /\ lists' = [lists EXCEPT ![Head(load[h].todo)] = load[h].ver]
  /\ load' = [load EXCEPT ![h].todo = Tail(@)]
  /\ UNCHANGED <<proc, started, io, worker, stopped, accept, hook, file, signals, vars>>

\* The next async_wait of sig_hook.
FinishLoad(h) ==
  /\ io[h] = "load" /\ load[h].todo = <<>>
  /\ io' = [io EXCEPT ![h] = "run"]
  /\ load' = [load EXCEPT ![h] = NoLoad]
  /\ hook' = "armed"
  /\ UNCHANGED <<proc, started, worker, stopped, accept, file, lists, signals, vars>>

\* The aborted accept calls do_tcp_accept of a ControlServer that is gone:
\* undefined, and the process may survive it.
AcceptAborted(h) ==
  /\ Idle(h) /\ accept = "aborted"
  /\ accept' = "none"
  /\ proc' \in {"up", "crashed"}
  /\ UNCHANGED <<started, io, worker, stopped, loader, signals, vars>>

\* Faulty variant: poll() in the place of run(), which returns when nothing
\* is ready.
PollReturns(h) ==
  /\ io[h] = "run" /\ (stopped \/ (hups = 0 /\ ~asked))
  /\ io' = [io EXCEPT ![h] = "out"]
  /\ UNCHANGED <<proc, started, worker, stopped, accept, loader, signals, vars>>

\* run() returns after stop().
RunReturns(h) ==
  /\ io[h] = "run" /\ stopped
  /\ io' = [io EXCEPT ![h] = "out"]
  /\ UNCHANGED <<proc, started, worker, stopped, accept, loader, signals, vars>>

\* What a thread takes from the io_service, and what it does then.
Ready == {"stop", "hup", "accept"}
Take(h, r) ==
  \/ r = "stop" /\ StopHandler(h)
  \/ r = "hup" /\ ReadFile(h)
  \/ r = "accept" /\ AcceptAborted(h)
GoOn(h) == AssignList(h) \/ FinishLoad(h) \/ RunReturns(h)

-----------------------------------------------------------------------------
(* The end: main is out of run(), by stop() or by an exception it caught.  *)

\* threads.interrupt_all()
InterruptAll ==
  /\ io["main"] = "out"
  /\ Interrupt
  /\ UNCHANGED daemon

\* Faulty variant: monitor sleeps in std::this_thread::sleep_for.
WorkerSleepsOn(w) ==
  /\ worker[w] = "on" /\ interrupt /\ w # "monitor"
  /\ worker' = [worker EXCEPT ![w] = "ended"]
  /\ UNCHANGED <<proc, started, io, stopped, accept, loader, signals, vars>>

\* sleep_for of watcher and monitor, interruption_point of the receiver.
WorkerEnds(w) ==
  /\ worker[w] = "on" /\ interrupt
  /\ worker' = [worker EXCEPT ![w] = "ended"]
  /\ UNCHANGED <<proc, started, io, stopped, accept, loader, signals, vars>>

Ended(t) ==
  CASE t \in Worker    -> worker[t] = "ended"
    [] t = "control"   -> io["control"] = "out"
    [] t = "runner"    -> at = "ended"

\* threads.join_all() and the return of main.
JoinAll ==
  /\ interrupt
  /\ \A i \in DOMAIN Threads : Ended(Threads[i])
  /\ proc' = "exited"
  /\ UNCHANGED <<started, io, worker, stopped, accept, loader, signals, vars>>

MainStep ==
  StartLoader \/ StartThread \/ StartFails \/ RunMain \/ InterruptAll \/ JoinAll

-----------------------------------------------------------------------------
(* The threads of the job queue.                                           *)

Alert ==
  /\ worker["watcher"] = "on"
  /\ \E j \in Job : Push(j)
  /\ UNCHANGED daemon

Runner ==
  /\ Started("runner")
  /\ RunnerStep
  /\ UNCHANGED daemon

-----------------------------------------------------------------------------
Environment == Hup \/ Term \/ EditFile \/ \E h \in Io : ReloadCommand(h)

DNext ==
  /\ proc = "up"
  /\ \/ MainStep
     \/ Environment
     \/ \E h \in Io : GoOn(h) \/ \E r \in Ready : Take(h, r)
     \/ \E w \in Worker : WorkerEnds(w)
     \/ Alert
     \/ Runner

DSpec == DInit /\ [][DNext]_dvars

Up(A) == proc = "up" /\ A

\* No step of a thread waits for anything but what its guard says: waits are
\* bounded by a second, and an answer of InfluxDB is assumed to come.  The
\* io_service runs ready handlers in the order in which they became ready, so
\* none is passed over for ever while threads come and go.
DLiveSpec ==
  /\ DSpec
  /\ WF_dvars(Up(MainStep)) /\ WF_dvars(Up(Runner))
  /\ \A r \in Ready : SF_dvars(Up(\E h \in Io : Take(h, r)))
  /\ \A h \in Io : WF_dvars(Up(GoOn(h)))
  /\ \A w \in Worker : WF_dvars(Up(WorkerEnds(w)))

-----------------------------------------------------------------------------
(* Properties.                                                             *)

\* While no thread is in reload_config, the three lists are of one version of the file: no
\* two reloads ever overlap, although two threads run handlers
\* (rules.cpp:400-411).
LoadedWhole ==
  (\A h \in Io : io[h] # "load") => \A t, u \in Type : lists[t] = lists[u]

\* The threads are told to stop by SIGINT or SIGTERM, or by a line of the
\* rules file that tokenize refuses, which also ends reloading.
StoppedWithCause == interrupt => asked \/ hook = "lost"

\* A start that fails, also at a ring after others whose threads run and see
\* packets and signals, leaves only such threads behind: nothing else has been
\* started that uses main's variables, no job was pushed, which nobody would
\* run, and no handler was taken (collector.cpp:211-229,
\* ddosdetector.cpp:351-374).
FailedStartIsQuiet ==
  proc = "failed" =>
    /\ \A w \in Worker : worker[w] # "off" => w = "receiver"
    /\ io["control"] = "off" /\ at = "loop"
    /\ pushed = <<>>
    /\ ~stopped /\ hook \in {"none", "armed"}

\* A reload that was asked for, also during a reload, loads a file at least
\* as new as the one of the time (rules.cpp:400-411).
ReloadServed ==
  \A v \in 0 .. MaxVersions :
    hups > 0 /\ file.ver = v ~>
      \/ \A t \in Type : lists[t] >= v
      \/ file.state = "gone" \/ hook = "lost" \/ stopped \/ proc # "up"

\* SIGINT and SIGTERM end the process, at whatever time they come and
\* whichever of the two threads is left in run() (ddosdetector.cpp:386-401).
EndsWhenAsked == asked ~> proc # "up"

\* The queue's promise in the daemon, from the watcher's first job to the
\* end of the process.
DaemonPromise == INSTANCE JobRunner WITH stopped <- at = "ended" \/ proc # "up"
DaemonRunsInOrder == DaemonPromise!Spec

\* ddosdetector.cpp:395: "catch signal, interrupt all threads"
OnlySignalStops == interrupt => asked
=============================================================================
