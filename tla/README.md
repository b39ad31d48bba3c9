# A formal model of ddosdetector

TLA+ modules, TLC configurations and TLAPS proofs for `ddosdetector`, the
daemon that counts mirrored traffic by rules and runs an action when a rule's
threshold is exceeded. Paths are relative to the repository's root.

## 1. Inventory

| Component | State | Operations | Module |
|---|---|---|---|
| `RulesList<T>` (`rules.hpp`, `rules.cpp`) | rules with counters, rates, trigger stamps, `dst_top`; `last_update_`; one mutex | `check_list`, `==`, `=`, `+=`, `calc_delta`, `check_triggers`, `add_rule`, `del_rule`, `insert_rule` | `RulesList` |
| `RulesCollection` (`rules.cpp`) | three lists, `last_change`; no mutex | the list operations, list after list | `Watcher` |
| watcher thread (`ddosdetector.cpp`) | `prev_collect`, its `last_change` | one pass per second: compare and copy, add, rates, triggers | `Watcher` |
| receiver threads (`collector.cpp`) | a collection each; a netmap descriptor and ring each | open, poll, walk the ring, forward, close; count in the own collection | `Receiver`, `Watcher` (counting) |
| netmap (`sys/net/netmap*.h`) | `head`, `cur`, `tail`, slots, mappings | `nm_open`, `nm_mmap`, `nm_close`, `nm_ring_next`, the kernel's side of `poll` | `Receiver` |
| control sessions (`controld.cpp`) | `cmd_`, a socket | read, collect, tokenize, `add`, `insert`, `del rule`, `reload rules`, `show rules`, `help`, `exit` | `ControlSession`, `Watcher` (edits), `Daemon` (accept) |
| rules file loader (`rules.cpp`) | `buff_collect`, the wait for SIGHUP | `reload_config` at start, on SIGHUP and on command | `Watcher`, `Daemon` |
| triggers (`proto/baserule.cpp`) | rates, `xps_last_not_triggered` | `is_triggered` | `RuleTrigger` |
| job queue, task runner (`lib/queue.hpp`, `ddosdetector.cpp`) | queue, mutex, condition variable | `push`, `wait_and_pop`, `run` | `TsQueue`, `JobRunner` |
| rule matching, rule parser (`proto/*.cpp`, `parser.*`) | the conditions of a rule | parse a text, `check_packet`, `==` | `RuleMatch` |
| main, `io_service`, signals (`ddosdetector.cpp`) | threads, handlers that wait | start, `run`, `stop`, `interrupt_all`, `join_all` | `Daemon` |
| monitor thread, InfluxDB client | a client object, one CURL handle | a request each period | `Daemon` (the thread's life) |
| configuration, logging, helpers, scripts | none later | none | left out |

How they interact. Receiver threads share nothing with each other but the
mapping of netmap's memory: each reads its own ring and counts in its own
collection. The watcher holds `main_collect` and, once a second and for each
thread, compares the thread's collection with it, copies it over when the rules
differ, and adds the thread's counters; then it computes rates, saves
`prev_collect`, and checks the triggers, which push jobs for the task runner.
Control sessions and the loader edit `main_collect`; they are handlers of one
`io_service` that two threads run, `main` and the control thread, so handlers
run beside each other as well as beside a pass. Every list has a mutex; a
collection has none. So whatever is done to a collection is a series of critical
sections, and edits and packets fall between any two.

What is hard here, and what would make each component correct:

- **Edits against passes.** Counters are added by position. They must go to the
  same rules; the exception for lists of different size must have no other
  cause than an edit inside the pass; every thread must get the new rules.
- **Counters.** Each matched packet must be counted once, over a thread's copy,
  the addition and the reset, with counters that wrap.
- **Stale rates.** Rates computed across an edit must not set off an alarm;
  `last_change` is meant to see to that.
- **Time.** `last_update_` is copied with lists, and the quotient of
  `calc_delta` is only defined when it grew. Trigger stamps must give one alarm
  per period, none without cause, and miss none.
- **The ring.** The thread's `cur` and `head` and the kernel's `tail` run round
  the same slots. A thread must look at slots that are its own, at each packet
  once, and forward what was accepted; a thread that ends must not take the
  memory of the others with it.
- **Input in pieces.** A read brings part of a line or several lines. What
  clients send must be executed, in order, and nothing else.
- **Two threads, one `io_service`.** Reloads must not overlap or be forgotten; an
  exception of a handler ends one of the two threads.
- **The end.** Only a signal should end the daemon; it must end then, whatever
  its threads wait for. A start that fails must not leave work half begun. Jobs
  must run once and in order until the end, though notifications get lost when
  the runner does not wait.
- **Numbers.** Masks, ranges, comparisons and thresholds have widths and zero
  cases that parser, matching and `operator==` must agree on.

`PROJECT.json` lists each such place with its line under `hazards`, and the
properties that watch it.

## 2. Modules

**RulesList** has no state of its own: a list is a sequence of rules and each
method of the class is an operator on it, because each method is one critical
section. What `operator==` of a rule compares is one value, `key`; a packet is
the set of keys that accept it, its address and its length. `Counted` is the
walk of `check_list` (a match without `--next` ends it). Counters count modulo
`Word` (2^64). `dst_top` is the set of its addresses. `CalcDelta` divides by the
passes between two `last_update_` stamps and rounds; when the difference is not
positive the conversion to `uint64_t` is undefined behaviour and the result is
a choice (`Wild`).

**Watcher** composes receivers, watcher, commands and loader around the
collections. `pc` is the watcher's step, thread and list: `copy`, then for each
thread `compare`, `sync`, `add`, then `delta`, `save`, `gate` (the test of
`last_change`), `adopt` or `check`, `sleep`. One step handles one list.
`AddThrows` is the exception of `operator+=`; nothing in `watcher()` catches it,
so the daemon is dead. `Receive` is a packet in a receiver thread,
`CommandAdd/Del/Insert` are the sessions' commands, `ReadFile`, `AssignList` and
`StampChange` are the loader: file read, lists assigned one by one,
`last_change` after them. `age` counts passes since `last_update_`, up to
`MaxAge`. History variables (`dirty`, `edited`, `touched`, `suspect`,
`midpass`, `matched`, `alarms`) are read by properties only.

**RuleTrigger** drives the two triggers of one rule through any sequence of
rates, addresses and gaps between checks; `Check` is `is_triggered` and the
reset of `dst_top` by `check_triggers`.

**Receiver** is `NetmapReceiver` with its threads. `OpenInterface` and
`StartThread` are `start()`: the parent descriptor, then for each ring a
descriptor of that ring alone (`RequestOf` overrides the interface's name) that
shares the parent's mapping if the kernel gives both the same memory, and has
its own if not. `at` is where a thread is: `Loop` (the interruption point),
`Poll`, `GetBuff`, `CheckPacket` (with `set_forward` and `next`), or closed, by
interruption or by the exception of an interrupted `poll` (`PollFails`).
`RxSync` is the kernel's part (external): it takes slots back up to `head`,
forwards marked ones and puts packets in front of `tail`. Packets of a ring are
numbered as they arrive, and whether one matches is a choice. What goes to the host
stack is a filtered sequence (`Kept`), as is what is left of a command without its
line endings: **Filter** has the operator for both, as a recursive function so
that it can be proved about.

**ControlSession** is the input of the sessions. `Send` puts a line on the wire,
`Read` takes any part of it into `cmd_` and, when a newline is anywhere in it,
runs `Parse`, which has a case for each way out of `parse()`: the tokenizer's
refusal (of a backslash before what it cannot escape; the escapes it knows and
quotes are not among the symbols) and `exit` close the session, numbers are what `atoi` makes of a word,
edits go through the operators of `RulesList`. `raised` is `raise(1)`, which
`Daemon` takes up.

**TsQueue** is the queue with its condition variable and the runner's loop;
**JobRunner** is what they promise together. `Promise` is the refinement
mapping: `stopped` is the runner's end, `pushed` and `done` map to themselves.

**Daemon** EXTENDS `TsQueue` with the process around it. `StartLoader`,
`StartThread`, `RunMain`, `InterruptAll`, `JoinAll` are `main`; a start can fail
at the loader, at the control thread's port, or in the receivers' start
(`StartFails`): before the first ring's thread runs, or at a later ring, when
`main` returns and leaves the threads of the rings before it. `io` is where the
two threads of the `io_service` are; either may take the handler of a signal
(`StopHandler`, `ReadFile`), and goes through a reload list by list
(`AssignList`, `FinishLoad`, which waits for the next signal). A file is good,
gone, or bad: it has a line that `tokenize` throws on, outside the loader's
`try`, so that the exception leaves `run()` (`Throw`). If that was the control
thread its server is gone, and the accept it leaves behind is called on a
destroyed object (`AcceptAborted`). Signals may interrupt a receiver's `poll`
(`Hits`). `DaemonPromise` maps the end of the process, too, to `stopped`.

**RuleMatch** takes a rule from its text (a record of options) through the
parser to `check_packet` and `operator==`. `Replace` puts another rule in the
place of `main_collect`'s, `Sync` is the watcher's comparison and copy. All
numbers have widths given by `AddrBits` and `ByteBits`. A shift by more than
the width is a choice of its outcomes. `Says` is the reference: what the help
text says the options mean.

**MC\*** modules hold the instances, **\*Proofs** the theorems.

### Abstractions to know of

- A pass is the unit of time of `last_update_`. `std::time` moves by one each
  pass until `MaxTime`.
- `last_update_` and `last_change` are written without a common lock; the model
  takes each access as atomic (64-bit stores on the supported builds).
- Threads' collections are copies made when they start, as in `main`.
- In `Watcher` rules of one key accept the same packets. `RuleMatch` tells when
  the code does that (`SyncedAlike`), and a comparison with 0 is where it does
  not.
- In `Watcher` a command is one step, since it calls one method of one list;
  how commands come out of what clients send is `ControlSession`.
- In `Daemon` a list is the version of the file it was assigned from, the
  receivers are one thread and the sessions another; the file is read as it is
  at one time. Alarms are pushed at any time while the watcher lives, and its
  death by an exception is in `Watcher` alone.
- Text is a sequence of words, digits, spaces and line endings. No line holds a
  NUL byte, which would hide the rest of a read. Clients send whole lines; what a
  client that hangs up inside a line leaves in `cmd_` goes with the session.
- Texts of rules are options, not characters. Whatever makes the parser throw
  is one outcome, refusal. `--action` and `--comment` are left out.

## 3. Runs

| Run | Question | Bounds |
|---|---|---|
| `watcher_static` | Is every matched packet counted once, do alarms come of traffic, do counts reach `main_collect`? | 2 threads, 1 list `<n, a>` where `n` says `--next`, 2 kinds of packets, 5 matches, counters modulo 4 so that they wrap |
| `watcher_edits` | What do compare, copy and add guarantee when each takes its locks anew? | 2 threads, 2 lists, 2 commands at any step (the shortest way to replace a rule by another at equal length), 1 packet |
| `watcher_reload` | Does the `last_change` test cover a reload, is `calc_delta` defined, do threads get the rules? | 1 thread, 2 lists, 2 reloads at any step, two rules files: another rule in a list, an empty list |
| `trigger` | One alarm per period, none without cause, none missed? | periods 2 and 1, gaps up to 2, rates at and above the threshold, 6 seconds |
| `match` | Do parser and matching do what texts say, and does `==` tell rules apart? | 3-bit addresses with every mask from -1 to 4 bits, 2-bit bytes, every option at 0, inside, at and above its width; all pairs of rules of a protocol |
| `receiver` | Is each packet checked once, in order, in a slot that is the thread's; are the accepted packets of ring 0, and only they, forwarded; do threads end, and leave the others their memory? | 2 rings of 3 slots, 5 packets: one ring may turn more than once, and be full; shared and own mappings; interruption and failing `poll` at any step |
| `session` | Is anything lost or reordered; is every line a command of its own, with its own effect, when a client waits for each? | 2 clients, 2 lines of 11 kinds (every command, an empty line, `\r\n`, a number of two digits, a refused line), cut and joined in every way |
| `daemon` | Do reloads overlap or get forgotten; does the daemon end when asked and for a cause; what does a start that fails leave behind; do jobs run in order? | the start failing at each of its places, 2 jobs, 1 SIGHUP or `reload rules`, SIGINT or SIGTERM at any step, 2 versions of the file, each good, gone or bad, with InfluxDB's thread |

Two threads are enough for one to be handled while the other still has the old
rules; two lists are enough for a reload or a copy to be half done, and the loop
over lists is the same for three. Two edits cover delete-then-insert and
edit-during-sync. In `daemon` one SIGHUP is enough for a reload beside the one
that start-up left and for an edit of the file before, during and after it; that
any number of reloads stay apart is proved. Two lines are enough for a read to
end inside the second one, which is where a command goes wrong.

The interesting cases are known to happen: each passing property is broken by a
small change of a definition (a dropped reset, a loop that stops short, a stamp
left out, a threshold off by one, `head` left behind, a lost signal), listed
under `mutants`; the changed definitions stand in the modules as faulty
variants. Deadlock is checked in `watcher_static` and `match`; elsewhere the
system may stop: the daemon is dead or has returned, the sessions are closed, or
a bound on time, packets or lines is reached.

Four runs show that the code does not do what a comment says:

| Run | Statement | What happens |
|---|---|---|
| `watcher_dies` | `rules.hpp:143`: a collection needs no synchronization | A command between comparison and addition makes `operator+=` throw in the watcher, which ends the daemon |
| `watcher_false_alarm` | `ddosdetector.cpp:62`: triggers are not checked after an update | Commands leave `last_change` alone; the copy that synchronizes a thread carries `main_collect`'s counters, which are then added again, and the rule alarms on its own count |
| `daemon_blind` | `ddosdetector.cpp:395`: threads are interrupted when a signal was caught | On SIGHUP `main` runs the reload, a line of the file makes `tokenize` throw, `main` leaves `run()` and stops all threads; the control thread goes on and keeps the process up, without detection |
| `session_cut` | `controld.hpp:39`: what is read is collected until the end of a command | A newline of an earlier line ends a line whose rest has not come: `del rule TCP 1` is run for `del rule TCP 10` |

Other places where code and documents part, seen while modelling, without a run
of their own:

- Trigger stamps start at 0, so the first check above a threshold alarms at once,
  without the period of `proto/baserule.hpp:124`.
- A job waits for up to a second when its notification is lost, and a burst runs
  a job per wait; `docs/FOR_DEVELOPERS.md:23` has jobs run as they are queued.
- `--seq =0` and no `--seq` are equal for `operator==`, so that a thread keeps
  the other rule, against `docs/FOR_DEVELOPERS.md:21`.
- The length of a UDP packet is compared without `ntohs` (`README.md:188`).
- `add rule <type>` with one word of a rule is accepted and does nothing.
- When a ring after the first cannot be opened, `main` returns 1 while the
  receivers of the rings before it run on (`collector.cpp:211-229`,
  `ddosdetector.cpp:357-361`): their `NetmapReceiver` is in the frame that is
  left, and nothing interrupts or joins them, though the thread group is there
  "to monitor the condition and safely terminate" (`ddosdetector.cpp:302-303`).
  `FailedStartIsQuiet` says what else is left then: no other thread, no job.
- Each read is answered by a prompt, also one that brings part of a line.

Some properties exempt the case in which the code does what it should not: what
is exempt, and what is still shown, is in the notes of `hazards` and in the
definitions' comments (`midpass`, `suspect`, `Masked`, `Plain`, `ZeroApart`).

`MatchesAsWritten` names the texts for which the code does what the help says
(`Plain`). Outside them: `0.0.0.0/32` is every address and `x/0` is `x` alone;
an address that cannot be read is no condition; ports and comparisons are cut to
their width; address 0.0.0.0 and port 0 match no range. `ThresholdAsWritten`
has its own limit: a threshold of 2^32 packets or bytes is cut, so `--bps-th`
with `Tb` or `Pb` never means what it says. `Framed` and `WaitersAreObeyed` are stated for clients that
wait for each command; `session_cut` is what others may see.

### Fairness

- `Watcher`: `WF_vars(WatcherStep)`, since the watcher takes locks that every
  holder keeps for a bounded time, and sleeps for a second;
  `WF_vars(LoaderStep)`, since the handler of SIGHUP runs to its end once begun.
- `Receiver`: `WF_vars(ThreadStep(t))` for each thread, since `poll` returns
  within its second and no other step waits. That packets keep coming is not
  assumed; `Served` speaks of those that came.
- `Daemon`: weak fairness of `main`, of the runner, of a thread inside a handler
  and of each worker, whose waits are bounded by a second or by an answer of
  InfluxDB, which is assumed to come. Strong fairness of each kind of ready
  handler (`Take`), taken by whichever thread is free: the `io_service` runs
  ready handlers in the order in which they became ready, so none is passed over
  for ever while others come and go.

Nothing is assumed of packets, commands, signals, edits of the file or pushes.

## 4. Proofs

For all values of the constants, under the named assumptions of the modules
(naturals where there are counts, `Word > 0`, `MaxAge > 0` so that an age can tell
one pass from none, at least one thread and list, one
ring and two slots, thresholds and periods natural, `NoJob` no job; texts that
users can write, packets that headers can hold, and lines that end at their
newline and have no other):

- **Watcher** (`WatcherProofs`): `TypeOK`, `NoCrossCounting`, `DiesOnlyByRace`,
  `FreshAfterPass`, `RatesDefined`, `GateCoversReload`. The invariants are not inductive: at `add` nothing says why
  the lists are alike. `IInv` adds `SyncInv`, what the pass already knows of the
  current thread (lists before `pc.pr` were found equal at `compare`, or were
  copied at `sync`, unless edited since), `FreshInv`, the same for the threads
  already handled, and `LoaderInv`, that a reload still has lists to assign.
  Most steps keep the keys of all lists (`KeepsRules`), so only `Compare`,
  `Sync` and the edits need an argument.
  `WatcherRatesDefined` rests on `AgeInv`: lists are at least a pass old when a
  pass begins; `operator+=` renews those of `main_collect` one after the other and
  leaves those of `prev_collect`, so that a list is younger than its copy when
  rates are computed, unless a reload assigned it in between. `WatcherGateCovers` rests
  on `GateInv`: as long as edits are reloads between passes, what a reload left
  to settle (threads with old rules, rates computed across it) shows as
  `seen # change` until the pass that settles it has passed the gate.
- **Counts** (`WatcherProofs`): `CountersExact` and `WatcherConserves`. `Raw` is
  the sum of a rule's counters over `main_collect` and the threads, before it is
  cut to `Word`. `operator+=` and the reset keep it modulo `Word` (`AddRaw`), a
  packet adds to it what it adds to `matched` (`ReceiveRaw`), and the other steps
  leave it alone, but for `sync`. `StaticInv` says that without edits a copy never
  happens, since `compare` finds every list alike.
- **Alarms** (end of `WatcherProofs`): `AlarmBacked`, with counters that wrap and edits at
  any step. `HeldInv`: what the threads hold and have not copied from
  `main_collect` was matched. `GrownInv`: for a list that was not touched in the
  pass, what a rule grew since `prev_collect`, modulo `Word`, and what threads still
  hold for it come to no more than was matched (`Covers`). So the rates of
  `calc_delta` are within what was matched (`RateInv`), whatever the quotient
  rounds to, and an alarm needs a rate above the threshold. Sums of terms up to
  `matched` are compared without assuming that they stay below `Word`.
- **Sums**: the lemmas that several proofs need: remainders, quotients and powers
  of 2, sums over finite sets, the first, last and n-th member of a set of
  numbers, and filtered sequences (`Kept`, of the module `Filter`). Induction is
  over a set of what is good: the good subsets of a finite set (`SetInduction`), or
  the good numbers up to a bound (`UpTo`), which needs no operator as a parameter.
  So a function defined by recursion is reasoned about item by item (`KeptNext`),
  and the powers of 2 are counted as the subsets of a set (`PowerPlus`).
- **RulesList** (`RulesListProofs`): each operator turns lists into lists, and
  all but the edits keep the keys.
- **RuleTrigger** (`RuleTriggerProofs`): `TypeOK`, `OneAlarmPerPeriod`, `AlarmSustained`,
  `AlarmNotMissed`. The inductive invariant says what a stamp means: no alarm of
  the trigger is later than it, no calm check is later unless masked, and it
  stays where it is while the rate is above the threshold.
- **Receiver** (`ReceiverProofs`): `TypeOK`, `CheckedInOrder`, `SlotIsOurs`,
  `MemoryMapped`, `ForwardsAccepted`, for any number of rings, slots and packets. `RingInv` says what
  lies between `cur` and `tail`: the packets that came and were not checked, the
  oldest at `cur`; with it the n-th check is of the n-th packet. Three lemmas on
  distances round the ring carry it (`NextNearer`, `TailFurther`, `TailWrites`).
  `SlotInv` keeps `head` at `cur` and the slot under examination before `tail`.
  `MapInv`: a thread undoes its own mapping only, and `main` never undoes the one
  the others share. `FInv` adds, for `ForwardsAccepted`, what the slots hold that the
  kernel has not taken back (`MarkInv`): those from `hwcur` to `head` have the last
  verdicts, in order, and are marked as these say; those ahead of them are not
  marked, so that a mark of an earlier turn of the ring cannot forward a packet
  that was not accepted. What is forwarded at a `poll` then continues what was
  forwarded before (`KeptPlus`).
- **TsQueue** (first half of `DaemonProofs`): `TypeOK`, `Accounted`, and the refinement of
  `JobRunner` without its fairness: `Wake` stutters, `Run` is `RunNext` because
  the job run is the next of those pushed, by `Accounted`.
- **Daemon** (`DaemonProofs`): `DTypeOK`, `LoadedWhole`, `StoppedWithCause`,
  `FailedStartIsQuiet`, for any number of signals and versions of the file. The
  last holds because until the watcher is started nobody uses the queue or the
  `io_service`, whatever signals and packets come (`EarlyInv`), and a start fails
  only until then (`FailsEarly`, with `LoaderFirst`: no thread before the rules
  file). A
  reload is alone because `sig_hook` waits for the next signal only after
  `reload_config` (`LoadInv`: whoever is in it has the handler, and what is left
  to assign says which lists are already of its version). `CauseInv` traces the
  interruption back: `main` is out of `run()` only after `stop()`, which a signal
  caused, or after the exception that lost the handler. Every step of the daemon
  is a step of `TsQueue` or leaves the queue alone (`DaemonDrivesQueue`), so
  `Accounted` holds in it, and with the end of the process as a way to stop it
  implements `JobRunner` (`DaemonImplementsRunner`).
- **RuleMatch** (`RuleMatchProofs`): `TypeOK`, `MatchesAsWritten`,
  `ThresholdAsWritten`, `SyncedAlike`, for all widths, texts and packets. `Parsed`
  says that a rule in use is what the parser made of its text; the rest is about
  one rule. A network of the text is the addresses with one quotient by a power of
  2 (`SameQuotient`), which is what the parser's mask leaves (`AddrsAsWritten`).
  Flags are written one after the other, so the last word on a flag is the one of
  the greatest position that names it (`FlagsAsWritten`). A threshold is kept as
  written when the product of number and unit fits its width
  (`ThresholdsAsWritten`). The parser builds
  no range that is on and 0-0 and no comparison that is off and not with 0
  (`Honest`), so `enable_` can be left out of `operator==` but for comparisons
  with 0.
- **ControlSession** (`ControlSessionProofs`): `TypeOK`, `NothingLost`, `Framed`,
  `WaitersAreObeyed`, for any clients, lines and rules. Taking line endings out of a text is the same piece
  by piece (`WithoutPlus`), so what is parsed, collected and on the way stays one
  text as a read moves a piece of it (`Cut`, `ExecuteWhole`). `Framed` alone is not
  inductive: `OneByOne` adds what has not been parsed. For a client that waits it is
  nothing, or the one line that was sent last, in `cmd_` and on the way together;
  and as a line has no newline but its last symbol, a text with one is the whole
  line (`ExecuteAlone`). `WaitersAreObeyed` is an action property that follows: the
  command is the line sent last, so its effect is that line's (`LastLine`). That a command leaves lists of rules (`ParseType`) rests on
  what the tokenizer and `atoi` return for any text (`WordsType`, `AToIType`): the
  k-th word exists and ends, and a number is a natural, so that `ValidNum` is all
  that `insert` and `del` have to ask.

Checked by TLC only: liveness (`Drains`, `Converges`, `Closes`, `Served`,
`ReloadServed`, `EndsWhenAsked`, `Stops`, the fairness of `DaemonRunsInOrder`),
which is out of the prover's reach. All other properties of the passing runs are
theorems. The four statements that runs refute are false and have no proof.

## 5. Not modelled, and the plan

Not modelled:

- What sessions write. `do_write` hands `async_write` a buffer of the caller's
  string and may start a write before the last one is done; what is sent then is
  undefined, and it is output only.
- The InfluxDB client. The watcher and the monitor share one CURL handle
  (`influxdb.cpp:19`): from the first overlap of two requests on the behaviour is
  undefined, and no document says more of the client than its code.
- The lines of the rules file one by one, `to_short_size`, the texts made of
  lists and rules, what an action writes, logging.
- Options and configuration at start; transmission, pipes and monitors of
  `netmap_user.h`, which the daemon does not use; scripts.

Order of the modules, most important first: `RulesList`, `Watcher` (the core),
`RuleTrigger`, `TsQueue` with `JobRunner`, `RuleMatch`, `Receiver`, `Daemon`,
`ControlSession`: done. Next:

1. An abstract monitor (rules, exact counts, alarms) that `Watcher` implements
   when nobody edits rules.
2. `Watcher` composed with `Daemon`, so that alarms are the jobs pushed and the
   watcher's death is one of the daemon's ends.

## 6. Running

In this directory: `tlc -workers 2 -config <run>.cfg <module>` with the module
`PROJECT.json` names for the run; `tlapm <module>Proofs.tla` for the proofs.
`watcher_reload` and `daemon` are the longest runs, two minutes or a little
more.
