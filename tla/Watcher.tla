------------------------------- MODULE Watcher -------------------------------
(***************************************************************************)
(* The rules collections of the daemon and everything that works on them:  *)
(* the watcher thread (ddosdetector.cpp), the receiver threads that count  *)
(* packets in their own copies (collector.cpp), the control sessions that  *)
(* edit the main collection (controld.cpp) and the loader that replaces it *)
(* on SIGHUP (rules.cpp).                                                  *)
(*                                                                         *)
(* A collection is one list per protocol.  Every list has its own mutex    *)
(* and the collection has none, so a step is one method of one list:       *)
(* whatever the code does to a collection is as many steps as lists.       *)
(* dirty, edited, touched, suspect, midpass, matched and alarms are        *)
(* history variables, read by the properties only.                         *)
(***************************************************************************)
EXTENDS RulesList, FiniteSetsExt

CONSTANTS
  NThreads,    \* receiver threads, one per rx ring
  NProtos,     \* lists of a collection (tcp, udp, icmp in this order)
  InitLists,   \* what the rules file may hold at the start of the daemon
  FileLists,   \* what it may hold when SIGHUP comes
  Packets,     \* packets the network card may deliver
  StartTime,   \* std::time when the daemon starts, far from the epoch
  MaxTime,     \* bound: the clock stops here
  MaxEdits,    \* bound: commands of the control sessions
  MaxReloads,  \* bound: SIGHUPs
  MaxPackets,  \* bound: packets counted for a rule
  MaxLen,      \* bound: rules in a list
  MaxAge       \* bound: passes since a list's last_update_, counted no further

Threads == 1 .. NThreads
Protos == 1 .. NProtos
Epoch == -1  \* the value of a default-constructed time_point

ASSUME NThreadsAssumption == NThreads \in Nat \ {0}
ASSUME NProtosAssumption == NProtos \in Nat \ {0}
ASSUME ListsAssumption ==
  InitLists \subseteq [Protos -> Seq(Key)] /\ FileLists \subseteq [Protos -> Seq(Key)]
ASSUME PacketsAssumption == Packets \subseteq Packet
ASSUME TimeAssumption == StartTime \in Nat /\ MaxTime \in Nat /\ StartTime <= MaxTime
ASSUME BoundsAssumption == {MaxEdits, MaxReloads, MaxPackets, MaxLen, MaxAge} \subseteq Nat
ASSUME MaxAgeAssumption == MaxAge > 0  \* or a pass would not age a list

VARIABLES
  main,     \* main_collect: the lists by protocol
  coll,     \* the collection of each receiver thread
  prev,     \* prev_collect of the watcher
  age,      \* passes since last_update_ of the lists of main and of prev
  change,   \* main_collect->last_change, as the number of the reload
  seen,     \* last_change of the watcher
  pc,       \* where the watcher is: the step, its thread and its list
  now,      \* std::time
  loader,   \* reload_config: the step, its list and buff_collect with its ages
  edits,    \* commands so far
  dirty,    \* protocols edited since the watcher took up its thread
  edited,   \* protocols edited since the pass began
  touched,  \* protocols edited or copied to a thread since their last save
  suspect,  \* protocols whose rates were computed while touched
  midpass,  \* whether an edit ever was a command or fell into a pass
  matched,  \* what the packets so far count for each rule
  alarms    \* jobs pushed by the last pass, as protocol and rule

control == <<now, edits>>
history == <<dirty, edited, touched, suspect, midpass, matched, alarms>>
vars == <<main, coll, prev, age, change, seen, pc, now, loader, edits, history>>

Running == pc.at # "dead"

Goto(at, th, pr) == pc' = [at |-> at, th |-> th, pr |-> pr]

\* The next step of a loop over the lists: the step itself for the next
\* list, or whatever comes after the last one.
NextList(at, th, after, afterTh) ==
  IF pc.pr < NProtos THEN Goto(at, th, pc.pr + 1) ELSE Goto(after, afterTh, 1)

\* main[p] becomes list by an edit, which the history variables record.
Edit(p, list) ==
  /\ main' = [main EXCEPT ![p] = list]
  /\ dirty' = dirty \cup {p}
  /\ edited' = edited \cup {p}
  /\ touched' = touched \cup {p}

Quiet == pc.at = "sleep"
Disturb == midpass' = (midpass \/ ~Quiet)

-----------------------------------------------------------------------------
Steps == {"copy", "compare", "sync", "add", "delta", "save", "gate",
          "adopt", "check", "sleep", "dead"}
Ages == [Protos -> 0 .. MaxAge]
Position == [at : Steps, th : Threads, pr : Protos]

TypeOK ==
  /\ main \in [Protos -> Seq(Rule)]
  /\ coll \in [Threads -> [Protos -> Seq(Rule)]]
  /\ prev \in [Protos -> Seq(Rule)]
  /\ age \in [main : Ages, prev : Ages]
  /\ change \in 0 .. MaxReloads
  /\ seen \in {Epoch} \cup 0 .. MaxReloads
  /\ pc \in Position
  /\ now \in StartTime .. MaxTime
  /\ loader \in [at : {"idle", "assign", "stamp"}, pr : Protos,
                 buff : [Protos -> Seq(Rule)], age : Ages]
  /\ edits \in 0 .. MaxEdits
  /\ dirty \subseteq Protos /\ edited \subseteq Protos
  /\ touched \subseteq Protos /\ suspect \subseteq Protos
  /\ midpass \in BOOLEAN
  /\ matched \in [Protos -> [Key -> [Metric -> Nat]]]
  /\ alarms \subseteq Protos \X Key

Empty == [p \in Protos |-> <<>>]
Fresh == [p \in Protos |-> 0]
Older(ages) == [p \in Protos |-> IF ages[p] < MaxAge THEN ages[p] + 1 ELSE MaxAge]

\* rul_loader.start has read the rules file, nm_recv.start has waited two
\* seconds and given each receiver thread its copy, and the threads start.
Init ==
  /\ \E keys \in InitLists : main = [p \in Protos |-> NewList(keys[p])]
  /\ coll = [t \in Threads |-> main]
  /\ prev = Empty
  /\ age = [main |-> Older(Older(Fresh)), prev |-> Fresh]
  /\ change = 0
  /\ seen = Epoch
  /\ pc = [at |-> "copy", th |-> 1, pr |-> 1]
  /\ now = StartTime
  /\ loader = [at |-> "idle", pr |-> 1, buff |-> Empty, age |-> Fresh]
  /\ edits = 0
  /\ dirty = {} /\ edited = {} /\ touched = {} /\ suspect = {}
  /\ midpass = FALSE
  /\ matched = [p \in Protos |-> [k \in Key |-> Zero]]
  /\ alarms = {}

-----------------------------------------------------------------------------
(* Receiver threads: NetmapReceiver::check_packet calls check_list on the  *)
(* thread's own collection.                                                *)

CountedFor(list, pkt, k) == {i \in Counted(list, pkt) : list[i].key = k}

\* Matched packets so far, over all lists: what the bound bounds.
MatchedPackets ==
  MapThenSumSet(LAMBDA e : matched[e[1]][e[2]]["pps"], Protos \X Key)

Receive(t, p, pkt) ==
  /\ Running
  /\ Counted(coll[t][p], pkt) # {}
  /\ MatchedPackets < MaxPackets
  /\ coll' = [coll EXCEPT ![t][p] = CheckList(@, pkt)]
  /\ matched' = [matched EXCEPT ![p] = [k \in Key |-> [m \in Metric |->
       @[k][m] + Cardinality(CountedFor(coll[t][p], pkt, k))
                 * (IF m = "pps" THEN 1 ELSE pkt.len)]]]
  /\ UNCHANGED <<main, prev, age, change, seen, pc, control, loader,
                 dirty, edited, touched, suspect, midpass, alarms>>

-----------------------------------------------------------------------------
(* The watcher.                                                            *)

\* RulesCollection prev_collect(*main_collect)
CopyPrev ==
  /\ pc.at = "copy"
  /\ prev' = [prev EXCEPT ![pc.pr] = main[pc.pr]]
  /\ age' = [age EXCEPT !.prev[pc.pr] = age.main[pc.pr]]
  /\ NextList("copy", 1, "compare", 1)
  /\ touched' = touched \ {pc.pr}
  /\ IF pc.pr = NProtos THEN dirty' = {} /\ edited' = {} ELSE UNCHANGED <<dirty, edited>>
  /\ UNCHANGED <<main, coll, change, seen, control, loader, suspect, midpass, matched, alarms>>

\* Faulty variant: only the first list is compared.
CompareFirst ==
  /\ pc.at = "compare"
  /\ IF SameRules(coll[pc.th][1], main[1]) THEN Goto("add", pc.th, 1) ELSE Goto("sync", pc.th, 1)
  /\ UNCHANGED <<main, coll, prev, age, change, seen, control, loader, history>>

\* *c != *main_collect stops at the first list that differs.
Compare ==
  /\ pc.at = "compare"
  /\ IF SameRules(coll[pc.th][pc.pr], main[pc.pr])
     THEN NextList("compare", pc.th, "add", pc.th)
     ELSE Goto("sync", pc.th, 1)
  /\ UNCHANGED <<main, coll, prev, age, change, seen, control, loader, history>>

\* Faulty variants: the last list is not copied; the rules of the last pass
\* are copied.
SyncAllButLast ==
  /\ pc.at = "sync"
  /\ coll' = [coll EXCEPT ![pc.th][pc.pr] = IF pc.pr < NProtos THEN main[pc.pr] ELSE @]
  /\ NextList("sync", pc.th, "add", pc.th)
  /\ touched' = touched \cup {pc.pr}
  /\ UNCHANGED <<main, prev, age, change, seen, control, loader,
                 dirty, edited, suspect, midpass, matched, alarms>>

SyncFromPrev ==
  /\ pc.at = "sync"
  /\ coll' = [coll EXCEPT ![pc.th][pc.pr] = prev[pc.pr]]
  /\ NextList("sync", pc.th, "add", pc.th)
  /\ touched' = touched \cup {pc.pr}
  /\ UNCHANGED <<main, prev, age, change, seen, control, loader,
                 dirty, edited, suspect, midpass, matched, alarms>>

\* *c = *main_collect copies every list, the counters with the rules.
Sync ==
  /\ pc.at = "sync"
  /\ coll' = [coll EXCEPT ![pc.th][pc.pr] = main[pc.pr]]
  /\ NextList("sync", pc.th, "add", pc.th)
  /\ touched' = touched \cup {pc.pr}
  /\ UNCHANGED <<main, prev, age, change, seen, control, loader,
                 dirty, edited, suspect, midpass, matched, alarms>>

\* Faulty variant: the sum does not renew last_update_.
AddUnstamped ==
  /\ pc.at = "add"
  /\ Len(main[pc.pr]) = Len(coll[pc.th][pc.pr])
  /\ main' = [main EXCEPT ![pc.pr] = AddCounters(@, coll[pc.th][pc.pr])]
  /\ coll' = [coll EXCEPT ![pc.th][pc.pr] = ResetCounters(@)]
  /\ IF pc.pr < NProtos THEN Goto("add", pc.th, pc.pr + 1)
     ELSE IF pc.th < NThreads THEN Goto("compare", pc.th + 1, 1)
     ELSE Goto("delta", 1, 1)
  /\ dirty' = IF pc.pr < NProtos THEN dirty ELSE {}
  /\ UNCHANGED <<prev, age, change, seen, control, loader,
                 edited, touched, suspect, midpass, matched, alarms>>

\* *main_collect += *c; lists of different sizes make it throw, and nothing
\* in the watcher catches.
Add ==
  /\ pc.at = "add"
  /\ Len(main[pc.pr]) = Len(coll[pc.th][pc.pr])
  /\ main' = [main EXCEPT ![pc.pr] = AddCounters(@, coll[pc.th][pc.pr])]
  /\ coll' = [coll EXCEPT ![pc.th][pc.pr] = ResetCounters(@)]
  /\ age' = [age EXCEPT !.main[pc.pr] = 0]
  /\ IF pc.pr < NProtos THEN Goto("add", pc.th, pc.pr + 1)
     ELSE IF pc.th < NThreads THEN Goto("compare", pc.th + 1, 1)
     ELSE Goto("delta", 1, 1)
  /\ dirty' = IF pc.pr < NProtos THEN dirty ELSE {}
  /\ UNCHANGED <<prev, change, seen, control, loader,
                 edited, touched, suspect, midpass, matched, alarms>>

AddThrows ==
  /\ pc.at = "add"
  /\ Len(main[pc.pr]) # Len(coll[pc.th][pc.pr])
  /\ Goto("dead", pc.th, pc.pr)
  /\ UNCHANGED <<main, coll, prev, age, change, seen, control, loader, history>>

\* main_collect->calc_delta(prev_collect)
Delta ==
  /\ pc.at = "delta"
  /\ LET time == age.prev[pc.pr] - age.main[pc.pr]
     IN  \E wild \in Wild(main[pc.pr], time) :
           main' = [main EXCEPT ![pc.pr] = CalcDelta(@, prev[pc.pr], time, wild)]
  /\ NextList("delta", 1, "save", 1)
  /\ suspect' = IF pc.pr \in touched THEN suspect \cup {pc.pr} ELSE suspect \ {pc.pr}
  /\ UNCHANGED <<coll, prev, age, change, seen, control, loader,
                 dirty, edited, touched, midpass, matched, alarms>>

\* prev_collect = *main_collect
SavePrev ==
  /\ pc.at = "save"
  /\ prev' = [prev EXCEPT ![pc.pr] = main[pc.pr]]
  /\ age' = [age EXCEPT !.prev[pc.pr] = age.main[pc.pr]]
  /\ NextList("save", 1, "gate", 1)
  /\ touched' = touched \ {pc.pr}
  /\ UNCHANGED <<main, coll, change, seen, control, loader,
                 dirty, edited, suspect, midpass, matched, alarms>>

\* last_change is read for the test and read again for the assignment.
Gate ==
  /\ pc.at = "gate"
  /\ Goto(IF seen = change THEN "check" ELSE "adopt", 1, 1)
  /\ UNCHANGED <<main, coll, prev, age, change, seen, control, loader, history>>

Adopt ==
  /\ pc.at = "adopt"
  /\ seen' = change
  /\ Goto("sleep", 1, 1)
  /\ UNCHANGED <<main, coll, prev, age, change, control, loader, history>>

\* main_collect->check_triggers(*task_list, *influx)
Check ==
  /\ pc.at = "check"
  /\ main' = [main EXCEPT ![pc.pr] = CheckTriggers(@, now)]
  /\ alarms' = alarms \cup {<<pc.pr, main[pc.pr][i].key>> : i \in Triggered(main[pc.pr], now)}
  /\ NextList("check", 1, "sleep", 1)
  /\ UNCHANGED <<coll, prev, age, change, seen, control, loader,
                 dirty, edited, touched, suspect, midpass, matched>>

\* A second passes and the next pass begins.
Sleep ==
  /\ pc.at = "sleep"
  /\ age' = [main |-> Older(age.main), prev |-> Older(age.prev)]
  /\ loader' = [loader EXCEPT !.age = IF loader.at = "assign" THEN Older(@) ELSE @]
  /\ now' = IF now < MaxTime THEN now + 1 ELSE now
  /\ Goto("compare", 1, 1)
  /\ dirty' = {} /\ edited' = {} /\ alarms' = {}
  /\ midpass' = (midpass \/ loader.at = "stamp" \/ loader.pr > 1)
  /\ UNCHANGED <<main, coll, prev, change, seen, edits, touched, suspect, matched>>

WatcherStep ==
  \/ CopyPrev \/ Compare \/ Sync \/ Add \/ AddThrows \/ Delta
  \/ SavePrev \/ Gate \/ Adopt \/ Check \/ Sleep

-----------------------------------------------------------------------------
(* Control sessions: add rule, del rule, insert rule.  A number that is    *)
(* not in the list is refused and changes nothing.                         *)

Command(p, list) ==
  /\ Running
  /\ edits < MaxEdits
  /\ edits' = edits + 1
  /\ Edit(p, list)
  /\ midpass' = TRUE
  /\ UNCHANGED <<coll, prev, age, change, seen, pc, now, loader, suspect, matched, alarms>>

CommandAdd(p, k) ==
  Len(main[p]) < MaxLen /\ Command(p, AppendRule(main[p], k))

CommandDel(p, num) ==
  ValidNum(main[p], num) /\ Command(p, DelRule(main[p], num))

CommandInsert(p, num, k) ==
  /\ ValidNum(main[p], num)
  /\ Len(main[p]) < MaxLen
  /\ Command(p, InsertRule(main[p], num, k))

-----------------------------------------------------------------------------
(* The loader: reload_config on SIGHUP.  The hook is set again only when   *)
(* it is done, so two reloads never overlap.                               *)

ReadFile(keys) ==
  /\ Running
  /\ loader.at = "idle"
  /\ change < MaxReloads
  /\ loader' = [at |-> "assign", pr |-> 1, buff |-> [p \in Protos |-> NewList(keys[p])],
                age |-> age.main]
  /\ UNCHANGED <<main, coll, prev, age, change, seen, pc, control, history>>

\* Faulty variant: the loop over the lists goes one too far.
AssignBeyond ==
  /\ Running
  /\ loader.at = "assign"
  /\ Edit(loader.pr, loader.buff[loader.pr])
  /\ age' = [age EXCEPT !.main[loader.pr] = loader.age[loader.pr]]
  /\ loader' = IF loader.pr <= NProtos THEN [loader EXCEPT !.pr = @ + 1]
                                       ELSE [loader EXCEPT !.at = "stamp"]
  /\ Disturb
  /\ UNCHANGED <<coll, prev, change, seen, pc, control, suspect, matched, alarms>>

\* *collect_ = buff_collect, one list at a time
AssignList ==
  /\ Running
  /\ loader.at = "assign"
  /\ Edit(loader.pr, loader.buff[loader.pr])
  /\ age' = [age EXCEPT !.main[loader.pr] = loader.age[loader.pr]]
  /\ loader' = IF loader.pr < NProtos THEN [loader EXCEPT !.pr = @ + 1]
                                      ELSE [loader EXCEPT !.at = "stamp"]
  /\ Disturb
  /\ UNCHANGED <<coll, prev, change, seen, pc, control, suspect, matched, alarms>>

\* Faulty variant: last_change is not updated.
NoStamp ==
  /\ Running
  /\ loader.at = "stamp"
  /\ loader' = [at |-> "idle", pr |-> 1, buff |-> Empty, age |-> Fresh]
  /\ Disturb
  /\ UNCHANGED <<main, coll, prev, age, change, seen, pc, control,
                 dirty, edited, touched, suspect, matched, alarms>>

\* last_change = now(), after the lists
StampChange ==
  /\ Running
  /\ loader.at = "stamp"
  /\ change' = change + 1
  /\ loader' = [at |-> "idle", pr |-> 1, buff |-> Empty, age |-> Fresh]
  /\ Disturb
  /\ UNCHANGED <<main, coll, prev, age, seen, pc, control,
                 dirty, edited, touched, suspect, matched, alarms>>

LoaderStep == AssignList \/ StampChange

-----------------------------------------------------------------------------
Next ==
  \/ WatcherStep
  \/ \E t \in Threads, p \in Protos, pkt \in Packets : Receive(t, p, pkt)
  \/ \E p \in Protos, k \in Key : CommandAdd(p, k)
  \/ \E p \in Protos, num \in 0 .. MaxLen : CommandDel(p, num)
  \/ \E p \in Protos, num \in 0 .. MaxLen, k \in Key : CommandInsert(p, num, k)
  \/ \E keys \in FileLists : ReadFile(keys)
  \/ LoaderStep

Spec == Init /\ [][Next]_vars

\* The watcher takes locks that are held for a bounded time and sleeps for a
\* second; the handler of SIGHUP runs to its end once it has started.
LiveSpec == Spec /\ WF_vars(WatcherStep) /\ WF_vars(LoaderStep)

-----------------------------------------------------------------------------
(* Properties.                                                             *)

SameAsMain(t, p) == SameRules(coll[t][p], main[p])

\* The counters main_collect += *c adds are counters of the same rules,
\* rule by rule, unless main_collect was edited after *c was compared with
\* it (the compare, copy and add of one list each take the lock anew).
NoCrossCounting ==
  pc.at = "add" /\ pc.pr \notin dirty => SameAsMain(pc.th, pc.pr)

\* The exception of operator+= that ends the watcher, and with it the
\* daemon, comes of an edit in that window and of nothing else.
DiesOnlyByRace == pc.at = "dead" => pc.pr \in dirty

\* At the end of a pass every receiver thread works with the rules of
\* main_collect, but for the lists that were edited during the pass.
FreshAfterPass ==
  pc.at \in {"delta", "save", "gate", "adopt", "check", "sleep"} =>
    \A t \in Threads, p \in Protos \ edited : SameAsMain(t, p)

CountIn(list, k, m) ==
  SumFunction([i \in DOMAIN list |-> IF list[i].key = k THEN list[i].count[m] ELSE 0])

\* All that is counted for a rule, in main_collect and in the threads.
Total(p, k, m) ==
  (CountIn(main[p], k, m)
    + SumFunction([t \in Threads |-> CountIn(coll[t][p], k, m)])) % Word

NeverEdited == edits = 0 /\ change = 0 /\ loader.at = "idle"

\* As long as nobody edits the rules, every packet a receiver thread matched
\* is counted once: in the thread's copy until the watcher adds it to
\* main_collect, and there from then on.
CountersExact ==
  NeverEdited => \A p \in Protos, k \in Key, m \in Metric :
                   Total(p, k, m) = matched[p][k][m] % Word

\* No step of the watcher creates or loses a count, save for the copy of
\* main_collect's counters into a thread and an addition to edited rules.
WatcherConserves ==
  [][pc' # pc /\ pc.at # "sync" /\ (pc.at = "add" => pc.pr \notin dirty)
       => \A p \in Protos, k \in Key, m \in Metric : Total(p, k, m)' = Total(p, k, m)]_vars

\* An alarm of a rule whose rates were not computed across an edit comes of
\* more packets or bytes than its threshold.
AlarmBacked ==
  \A a \in alarms : a[1] \notin suspect =>
    \E m \in Metric : Trigger[a[2]][m] > 0 /\ matched[a[1]][a[2]][m] > Trigger[a[2]][m]

\* calc_delta never divides by a time that is not positive, unless a reload
\* has brought back an older last_update_ during the pass.
RatesDefined ==
  pc.at = "delta" /\ pc.pr \notin edited => age.prev[pc.pr] > age.main[pc.pr]

\* A reload that falls between two passes never has its triggers checked on
\* rates computed across it: the test of last_change skips that pass.
GateCoversReload ==
  pc.at = "check" /\ pc.pr \in suspect => midpass

\* Once edits stop, every receiver thread has the rules of main_collect.
Converges == <>[](Running => \A t \in Threads, p \in Protos : SameAsMain(t, p))

\* Once packets stop, every count has left the receiver threads.
Drains ==
  <>[](Running => \A t \in Threads, p \in Protos :
                    \A i \in DOMAIN coll[t][p] : coll[t][p][i].count = Zero)

\* What the daemon's documents and comments say, and the code does not do.

\* rules.hpp:144: the collection needs no synchronization of its own.
WatcherNeverDies == Running

\* ddosdetector.cpp:62: triggers are not checked on data made irrelevant by
\* an update of the rules, so an alarm always comes of real traffic.
NoFalseAlarm ==
  \A al \in alarms : \E m \in Metric :
    Trigger[al[2]][m] > 0 /\ matched[al[1]][al[2]][m] > Trigger[al[2]][m]
=============================================================================
