---------------------------- MODULE WatcherProofs ----------------------------
(***************************************************************************)
(* What the watcher, the receiver threads, the control sessions and the    *)
(* loader keep of the rules collections, for any number of threads, lists, *)
(* rules, packets, commands and reloads: types, counts that are kept and   *)
(* exact, and alarms that come of real traffic.                            *)
(***************************************************************************)
EXTENDS Watcher, RulesListProofs, Sums

\* A reload that has begun still has its number to give.
LoaderInv == loader.at # "idle" => change < MaxReloads

LEMMA ProtoFacts ==
  /\ 1 \in Protos /\ NProtos \in Protos /\ Protos \subseteq Nat
  /\ \A p \in Protos : p < NProtos => p + 1 \in Protos
  /\ \A p \in Protos : p <= NProtos /\ 1 <= p
  BY NProtosAssumption DEF Protos

LEMMA ThreadFacts ==
  /\ 1 \in Threads /\ Threads \subseteq Nat
  /\ \A t \in Threads : t < NThreads => t + 1 \in Threads
  /\ \A t \in Threads : t <= NThreads /\ 1 <= t
  BY NThreadsAssumption DEF Threads

\* A loop over the lists goes on with the next one or is done.
LEMMA NextListFacts ==
  ASSUME NEW at, NEW th, NEW after, NEW afterTh,
         pc \in Position, NextList(at, th, after, afterTh)
  PROVE  \/ pc.pr < NProtos /\ pc' = [at |-> at, th |-> th, pr |-> pc.pr + 1]
         \/ pc.pr = NProtos /\ pc' = [at |-> after, th |-> afterTh, pr |-> 1]
<1>1. pc.pr \in Protos
  BY DEF Position
<1>2. pc.pr \in Nat /\ NProtos \in Nat /\ pc.pr <= NProtos
  BY <1>1, ProtoFacts
<1> QED BY <1>2 DEF NextList, Goto

LEMMA NextListType ==
  ASSUME NEW at \in Steps, NEW th \in Threads, NEW after \in Steps, NEW afterTh \in Threads,
         pc \in Position, NextList(at, th, after, afterTh)
  PROVE  pc' \in Position
<1>1. pc.pr \in Protos
  BY DEF Position
<1>2. CASE pc.pr < NProtos /\ pc' = [at |-> at, th |-> th, pr |-> pc.pr + 1]
  BY <1>1, <1>2, ProtoFacts DEF Position
<1>3. CASE pc.pr = NProtos /\ pc' = [at |-> after, th |-> afterTh, pr |-> 1]
  BY <1>3, ProtoFacts DEF Position
<1> QED BY <1>2, <1>3, NextListFacts

LEMMA NewListsType ==
  ASSUME NEW keys \in [Protos -> Seq(Key)]
  PROVE  [p \in Protos |-> NewList(keys[p])] \in [Protos -> Seq(Rule)]
  BY NewListType

LEMMA EmptyType == Empty \in [Protos -> Seq(Rule)]
  BY EmptySeq DEF Empty

\* Ages are those of the lists, and stay within the bound.
LEMMA AgesType ==
  /\ Fresh \in Ages
  /\ \A ages \in Ages : Older(ages) \in Ages
  /\ \A ages \in Ages, p \in Protos, x \in 0 .. MaxAge : [ages EXCEPT ![p] = x] \in Ages
  /\ 0 \in 0 .. MaxAge
  BY BoundsAssumption DEF Fresh, Older, Ages

LEMMA AgePairType ==
  ASSUME NEW b \in [main : Ages, prev : Ages], NEW p \in Protos, NEW x \in 0 .. MaxAge
  PROVE  /\ [b EXCEPT !.main[p] = x] \in [main : Ages, prev : Ages]
         /\ [b EXCEPT !.prev[p] = x] \in [main : Ages, prev : Ages]
  BY DEF Ages

LEMMA AgeRange ==
  ASSUME TypeOK, NEW p \in Protos
  PROVE  /\ age.main[p] \in 0 .. MaxAge /\ age.prev[p] \in 0 .. MaxAge
         /\ age.prev[p] - age.main[p] \in Int
<1>1. age.main \in Ages /\ age.prev \in Ages
  BY DEF TypeOK
<1>2. age.main[p] \in 0 .. MaxAge /\ age.prev[p] \in 0 .. MaxAge
  BY <1>1 DEF Ages
<1> QED BY <1>2, BoundsAssumption

LEMMA InitType == Init => TypeOK /\ LoaderInv
<1> SUFFICES ASSUME Init PROVE TypeOK /\ LoaderInv
  OBVIOUS
<1>1. main \in [Protos -> Seq(Rule)]
  <2>1. PICK keys \in InitLists : main = [p \in Protos |-> NewList(keys[p])]
    BY DEF Init
  <2> QED BY <2>1, NewListsType, ListsAssumption
<1>2. coll \in [Threads -> [Protos -> Seq(Rule)]]
  BY <1>1 DEF Init
<1>3. pc \in Position
  BY ProtoFacts, ThreadFacts DEF Init, Position, Steps
<1>4. loader \in [at : {"idle", "assign", "stamp"}, pr : Protos, buff : [Protos -> Seq(Rule)], age : Ages]
  BY ProtoFacts, EmptyType, AgesType DEF Init
<1>5. matched \in [Protos -> [Key -> [Metric -> Nat]]]
  BY DEF Init, Zero
<1>6. /\ change \in 0 .. MaxReloads /\ seen \in {Epoch} \cup 0 .. MaxReloads
      /\ now \in StartTime .. MaxTime /\ edits \in 0 .. MaxEdits
  BY BoundsAssumption, TimeAssumption DEF Init
<1>7. prev \in [Protos -> Seq(Rule)]
  BY EmptyType DEF Init
<1>8. age \in [main : Ages, prev : Ages]
  BY AgesType DEF Init
<1> QED BY <1>1, <1>2, <1>3, <1>4, <1>5, <1>6, <1>7, <1>8 DEF Init, TypeOK, LoaderInv

-----------------------------------------------------------------------------
(* The steps, one lemma for each process.                                  *)

\* What a packet adds to a rule is a number.
LEMMA CountedForType ==
  ASSUME NEW list \in Seq(Rule), NEW pkt, NEW k
  PROVE  Cardinality(CountedFor(list, pkt, k)) \in Nat
<1>1. CountedFor(list, pkt, k) \subseteq DOMAIN list
  BY DEF CountedFor, Counted
<1>2. DOMAIN list = 1 .. Len(list) /\ Len(list) \in Nat
  BY LenProperties
<1>3. IsFiniteSet(1 .. Len(list))
  BY <1>2, FS_Interval
<1>4. IsFiniteSet(CountedFor(list, pkt, k))
  BY <1>1, <1>2, <1>3, FS_Subset
<1> QED BY <1>4, FS_CardinalityType

LEMMA ReceiveType ==
  ASSUME TypeOK, LoaderInv,
         NEW t \in Threads, NEW p \in Protos, NEW pkt \in Packets, Receive(t, p, pkt)
  PROVE  TypeOK' /\ LoaderInv'
<1>1. pkt \in Packet /\ pkt.len \in Nat
  BY PacketsAssumption DEF Packet
<1>2. coll[t][p] \in Seq(Rule)
  BY DEF TypeOK
<1>3. CheckList(coll[t][p], pkt) \in Seq(Rule)
  BY <1>1, <1>2, CheckListType
<1>4. coll' \in [Threads -> [Protos -> Seq(Rule)]]
  BY <1>3 DEF Receive, TypeOK
<1> DEFINE more(k, m) == matched[p][k][m] + Cardinality(CountedFor(coll[t][p], pkt, k))
                                            * (IF m = "pps" THEN 1 ELSE pkt.len)
<1>5. ASSUME NEW k \in Key, NEW m \in Metric PROVE more(k, m) \in Nat
  <2>1. Cardinality(CountedFor(coll[t][p], pkt, k)) \in Nat
    BY <1>2, CountedForType
  <2>2. matched[p][k][m] \in Nat /\ (IF m = "pps" THEN 1 ELSE pkt.len) \in Nat
    BY <1>1 DEF TypeOK
  <2>3. \A x, y \in Nat : x * y \in Nat
    OBVIOUS
  <2> QED BY <2>1, <2>2, <2>3
<1>6. matched' = [matched EXCEPT ![p] = [k \in Key |-> [m \in Metric |-> more(k, m)]]]
  BY DEF Receive, TypeOK
<1> HIDE DEF more
<1>7. matched' \in [Protos -> [Key -> [Metric -> Nat]]]
  BY <1>5, <1>6 DEF TypeOK
<1> QED BY <1>4, <1>7 DEF Receive, TypeOK, LoaderInv, control

LEMMA WatcherStepType ==
  ASSUME TypeOK, LoaderInv, WatcherStep
  PROVE  TypeOK' /\ LoaderInv'
<1> USE DEF LoaderInv, control, history
<1>1. /\ pc \in Position /\ pc.th \in Threads /\ pc.pr \in Protos
      /\ main[pc.pr] \in Seq(Rule) /\ coll[pc.th][pc.pr] \in Seq(Rule)
      /\ prev[pc.pr] \in Seq(Rule) /\ now \in Nat
      /\ age \in [main : Ages, prev : Ages]
      /\ age.main[pc.pr] \in 0 .. MaxAge /\ age.prev[pc.pr] \in 0 .. MaxAge
  <2>1. pc \in Position /\ pc.th \in Threads /\ pc.pr \in Protos
    BY DEF TypeOK, Position
  <2>2. /\ main[pc.pr] \in Seq(Rule) /\ coll[pc.th][pc.pr] \in Seq(Rule)
        /\ prev[pc.pr] \in Seq(Rule)
    BY <2>1 DEF TypeOK
  <2>3. now \in Nat
    BY TimeAssumption DEF TypeOK
  <2>4. age \in [main : Ages, prev : Ages]
    BY DEF TypeOK
  <2>5. age.main[pc.pr] \in 0 .. MaxAge /\ age.prev[pc.pr] \in 0 .. MaxAge
    BY <2>1, AgeRange
  <2> QED BY <2>1, <2>2, <2>3, <2>4, <2>5
<1>2. \A at \in Steps, th \in Threads, pr \in Protos :
        Goto(at, th, pr) => pc' \in Position
  BY DEF Goto, Position
<1>3. {"copy", "compare", "sync", "add", "delta", "save", "gate", "adopt", "check",
       "sleep", "dead"} \subseteq Steps /\ 1 \in Threads /\ 1 \in Protos
  BY ProtoFacts, ThreadFacts DEF Steps
<1>4. CASE CopyPrev
  <2>1. pc' \in Position
    BY <1>1, <1>3, <1>4, NextListType DEF CopyPrev
  <2>2. prev' \in [Protos -> Seq(Rule)]
    BY <1>1, <1>4 DEF CopyPrev, TypeOK
  <2>3. age' \in [main : Ages, prev : Ages]
    BY <1>1, <1>4, AgePairType DEF CopyPrev
  <2> QED BY <1>4, <2>1, <2>2, <2>3 DEF CopyPrev, TypeOK
<1>5. CASE Compare
  <2>1. pc' \in Position
    BY <1>1, <1>2, <1>3, <1>5, NextListType DEF Compare
  <2> QED BY <1>5, <2>1 DEF Compare, TypeOK
<1>6. CASE Sync
  <2>1. pc' \in Position
    BY <1>1, <1>3, <1>6, NextListType DEF Sync
  <2>2. coll' \in [Threads -> [Protos -> Seq(Rule)]]
    BY <1>1, <1>6 DEF Sync, TypeOK
  <2> QED BY <1>1, <1>6, <2>1, <2>2 DEF Sync, TypeOK
<1>7. CASE Add
  <2>1. pc' \in Position
    <3>1. CASE pc.pr < NProtos
      BY <1>1, <1>2, <1>3, <1>7, <3>1, ProtoFacts DEF Add
    <3>2. CASE ~(pc.pr < NProtos) /\ pc.th < NThreads
      BY <1>1, <1>2, <1>3, <1>7, <3>2, ThreadFacts DEF Add
    <3>3. CASE ~(pc.pr < NProtos) /\ ~(pc.th < NThreads)
      BY <1>2, <1>3, <1>7, <3>3 DEF Add
    <3> QED BY <3>1, <3>2, <3>3
  <2>2. AddCounters(main[pc.pr], coll[pc.th][pc.pr]) \in Seq(Rule)
    BY <1>1, <1>7, AddCountersType DEF Add
  <2>3. main' \in [Protos -> Seq(Rule)]
    BY <1>7, <2>2 DEF Add, TypeOK
  <2>4. ResetCounters(coll[pc.th][pc.pr]) \in Seq(Rule)
    BY <1>1, ResetCountersType
  <2>5. coll' \in [Threads -> [Protos -> Seq(Rule)]]
    BY <1>7, <2>4 DEF Add, TypeOK
  <2>6. dirty' \subseteq Protos
    BY <1>7 DEF Add, TypeOK
  <2>7. age' \in [main : Ages, prev : Ages]
    BY <1>1, <1>7, AgesType, AgePairType DEF Add
  <2> QED BY <1>7, <2>1, <2>3, <2>5, <2>6, <2>7 DEF Add, TypeOK
<1>8. CASE AddThrows
  BY <1>1, <1>2, <1>3, <1>8 DEF AddThrows, TypeOK
<1>9. CASE Delta
  <2>1. pc' \in Position
    BY <1>1, <1>3, <1>9, NextListType DEF Delta
  <2> DEFINE time == age.prev[pc.pr] - age.main[pc.pr]
  <2>2. \A wild \in Wild(main[pc.pr], time) :
          CalcDelta(main[pc.pr], prev[pc.pr], time, wild) \in Seq(Rule)
    <3>1. time \in Int
      BY <1>1, AgeRange
    <3> HIDE DEF time
    <3> QED BY <1>1, <3>1, CalcDeltaType
  <2>3. main' \in [Protos -> Seq(Rule)]
    <3>1. PICK wild \in Wild(main[pc.pr], time) :
            main' = [main EXCEPT ![pc.pr] = CalcDelta(main[pc.pr], prev[pc.pr], time, wild)]
      BY <1>1, <1>9 DEF Delta, TypeOK
    <3> HIDE DEF time
    <3> QED BY <2>2, <3>1 DEF TypeOK
  <2> QED BY <1>1, <1>9, <2>1, <2>3 DEF Delta, TypeOK
<1>10. CASE SavePrev
  <2>1. pc' \in Position
    BY <1>1, <1>3, <1>10, NextListType DEF SavePrev
  <2>2. prev' \in [Protos -> Seq(Rule)]
    BY <1>1, <1>10 DEF SavePrev, TypeOK
  <2>3. age' \in [main : Ages, prev : Ages]
    BY <1>1, <1>10, AgePairType DEF SavePrev
  <2> QED BY <1>10, <2>1, <2>2, <2>3 DEF SavePrev, TypeOK
<1>11. CASE Gate
  BY <1>2, <1>3, <1>11 DEF Gate, TypeOK
<1>12. CASE Adopt
  BY <1>2, <1>3, <1>12 DEF Adopt, TypeOK
<1>13. CASE Check
  <2>1. pc' \in Position
    BY <1>1, <1>3, <1>13, NextListType DEF Check
  <2>2. main' \in [Protos -> Seq(Rule)]
    BY <1>1, <1>13, CheckTriggersType DEF Check, TypeOK
  <2>3. \A i \in Triggered(main[pc.pr], now) : main[pc.pr][i].key \in Key
    <3>1. \A i \in DOMAIN main[pc.pr] : main[pc.pr][i] \in Rule
      BY <1>1, LenProperties
    <3> QED BY <3>1 DEF Triggered, Rule
  <2>4. alarms' \subseteq Protos \X Key
    <3>1. alarms' = alarms \cup
            {<<pc.pr, main[pc.pr][i].key>> : i \in Triggered(main[pc.pr], now)}
      BY <1>13 DEF Check
    <3>2. alarms \subseteq Protos \X Key
      BY DEF TypeOK
    <3> QED BY <1>1, <2>3, <3>1, <3>2
  <2>5. UNCHANGED <<coll, prev, age, change, seen, control, loader,
                    dirty, edited, touched, suspect, midpass, matched>>
    BY <1>13 DEF Check
  <2> QED BY <2>1, <2>2, <2>4, <2>5 DEF TypeOK
<1>14. CASE Sleep
  <2>1. now' \in StartTime .. MaxTime
    BY <1>14, TimeAssumption DEF Sleep, TypeOK
  <2>2. pc' \in Position
    BY <1>2, <1>3, <1>14 DEF Sleep
  <2>3. age' \in [main : Ages, prev : Ages]
    BY <1>1, <1>14, AgesType DEF Sleep
  <2>4. loader' \in [at : {"idle", "assign", "stamp"}, pr : Protos,
                     buff : [Protos -> Seq(Rule)], age : Ages] /\ loader'.at = loader.at
    BY <1>14, AgesType DEF Sleep, TypeOK
  <2> QED BY <1>14, <2>1, <2>2, <2>3, <2>4 DEF Sleep, TypeOK
<1> QED
  BY <1>4, <1>5, <1>6, <1>7, <1>8, <1>9, <1>10, <1>11, <1>12, <1>13, <1>14 DEF WatcherStep

LEMMA CommandType ==
  ASSUME TypeOK, LoaderInv, NEW p \in Protos, NEW list \in Seq(Rule), Command(p, list)
  PROVE  TypeOK' /\ LoaderInv'
<1>1. edits' \in 0 .. MaxEdits
  BY BoundsAssumption DEF Command, TypeOK
<1>2. main' \in [Protos -> Seq(Rule)]
  BY DEF Command, Edit, TypeOK
<1> QED BY <1>1, <1>2 DEF Command, Edit, TypeOK, LoaderInv

Commands ==
  \/ \E p \in Protos, k \in Key : CommandAdd(p, k)
  \/ \E p \in Protos, num \in 0 .. MaxLen : CommandDel(p, num)
  \/ \E p \in Protos, num \in 0 .. MaxLen, k \in Key : CommandInsert(p, num, k)

\* Every command is an edit of one list.
LEMMA CommandFacts ==
  ASSUME TypeOK, Commands
  PROVE  \E p \in Protos, list \in Seq(Rule) : Command(p, list)
<1>1. \A p \in Protos : main[p] \in Seq(Rule)
  BY DEF TypeOK
<1>2. CASE \E p \in Protos, k \in Key : CommandAdd(p, k)
  BY <1>1, <1>2, EditType DEF CommandAdd
<1>3. CASE \E p \in Protos, num \in 0 .. MaxLen : CommandDel(p, num)
  BY <1>1, <1>3, EditType DEF CommandDel
<1>4. CASE \E p \in Protos, num \in 0 .. MaxLen, k \in Key : CommandInsert(p, num, k)
  BY <1>1, <1>4, EditType DEF CommandInsert
<1> QED BY <1>2, <1>3, <1>4 DEF Commands

LEMMA LoaderType ==
  ASSUME TypeOK, LoaderInv, LoaderStep \/ \E keys \in FileLists : ReadFile(keys)
  PROVE  TypeOK' /\ LoaderInv'
<1> USE DEF LoaderInv, control, history
<1>1. /\ loader \in [at : {"idle", "assign", "stamp"}, pr : Protos,
                     buff : [Protos -> Seq(Rule)], age : Ages]
      /\ loader.pr \in Protos /\ loader.buff[loader.pr] \in Seq(Rule)
      /\ loader.age[loader.pr] \in 0 .. MaxAge
      /\ age \in [main : Ages, prev : Ages] /\ age.main \in Ages
  BY DEF TypeOK, Ages
<1>2. CASE AssignList
  <2>1. main' \in [Protos -> Seq(Rule)]
    BY <1>1, <1>2 DEF AssignList, Edit, TypeOK
  <2>2. loader' \in [at : {"idle", "assign", "stamp"}, pr : Protos,
                     buff : [Protos -> Seq(Rule)], age : Ages]
    BY <1>1, <1>2, ProtoFacts DEF AssignList
  <2>3. loader'.at # "idle" => change' < MaxReloads'
    BY <1>1, <1>2 DEF AssignList
  <2>4. midpass' \in BOOLEAN
    BY <1>2, Zenon DEF AssignList, Disturb, TypeOK
  <2>5. age' \in [main : Ages, prev : Ages]
    BY <1>1, <1>2, AgePairType DEF AssignList
  <2> QED BY <1>1, <1>2, <2>1, <2>2, <2>3, <2>4, <2>5 DEF AssignList, Edit, TypeOK
<1>3. CASE StampChange
  <2>1. change' \in 0 .. MaxReloads
    BY <1>3, BoundsAssumption DEF StampChange, TypeOK
  <2>2. loader' \in [at : {"idle", "assign", "stamp"}, pr : Protos,
                     buff : [Protos -> Seq(Rule)], age : Ages]
    BY <1>3, ProtoFacts, EmptyType, AgesType DEF StampChange
  <2>3. loader'.at = "idle"
    BY <1>3 DEF StampChange
  <2>4. midpass' \in BOOLEAN
    BY <1>3, Zenon DEF StampChange, Disturb, TypeOK
  <2> QED BY <1>3, <2>1, <2>2, <2>3, <2>4 DEF StampChange, TypeOK
<1>4. CASE \E keys \in FileLists : ReadFile(keys)
  <2>1. PICK keys \in FileLists : ReadFile(keys)
    BY <1>4
  <2>2. [p \in Protos |-> NewList(keys[p])] \in [Protos -> Seq(Rule)]
    BY ListsAssumption, NewListsType
  <2>3. loader' \in [at : {"idle", "assign", "stamp"}, pr : Protos,
                     buff : [Protos -> Seq(Rule)], age : Ages]
    BY <1>1, <2>1, <2>2, ProtoFacts DEF ReadFile
  <2> QED BY <2>1, <2>3 DEF ReadFile, TypeOK
<1> QED BY <1>2, <1>3, <1>4 DEF LoaderStep

LEMMA NextType == TypeOK /\ LoaderInv /\ [Next]_vars => TypeOK' /\ LoaderInv'
<1> SUFFICES ASSUME TypeOK, LoaderInv, [Next]_vars PROVE TypeOK' /\ LoaderInv'
  OBVIOUS
<1>1. CASE WatcherStep
  BY <1>1, WatcherStepType
<1>2. CASE \E t \in Threads, p \in Protos, pkt \in Packets : Receive(t, p, pkt)
  BY <1>2, ReceiveType
<1>3. CASE Commands
  BY <1>3, CommandFacts, CommandType
<1>4. CASE LoaderStep \/ \E keys \in FileLists : ReadFile(keys)
  BY <1>4, LoaderType
<1>5. CASE UNCHANGED vars
  BY <1>5 DEF vars, control, history, TypeOK, LoaderInv
<1> QED BY <1>1, <1>2, <1>3, <1>4, <1>5 DEF Next, Commands

\* The daemon never leaves the states the source's types and loops allow: in
\* particular no loop of the watcher or of the loader goes past the last
\* list, and no operation turns a list into anything but rules.
THEOREM WatcherTypes == Spec => []TypeOK
<1>1. Init => TypeOK /\ LoaderInv
  BY InitType
<1>2. TypeOK /\ LoaderInv /\ [Next]_vars => (TypeOK /\ LoaderInv)'
  BY NextType
<1> QED BY <1>1, <1>2, PTL DEF Spec

-----------------------------------------------------------------------------
(* The rules the watcher adds up are the same.                             *)

\* The lists that were edited since the watcher compared them were edited in
\* this pass; of the others it knows that the thread has main_collect's
\* rules, for the lists behind it while it compares or copies and for all
\* of them while it adds.
SyncInv ==
  /\ dirty \subseteq edited
  /\ pc.at \in {"compare", "sync"} =>
       \A q \in Protos \ dirty : q < pc.pr => SameAsMain(pc.th, q)
  /\ pc.at = "add" => \A q \in Protos \ dirty : SameAsMain(pc.th, q)
  /\ pc.at = "dead" => pc.pr \in dirty

\* The receiver threads the pass is done with, and all when it is over, have
\* the rules of the lists that were not edited in it.
FreshInv ==
  /\ pc.at \in {"compare", "sync", "add"} =>
       \A t \in Threads, q \in Protos \ edited : t < pc.th => SameAsMain(t, q)
  /\ FreshAfterPass

IInv == TypeOK /\ LoaderInv /\ SyncInv /\ FreshInv

\* Steps that change counters, rates, stamps and addresses only.
KeepsRules ==
  \A t \in Threads, q \in Protos : SameAsMain(t, q)' <=> SameAsMain(t, q)

LEMMA SameByKeys ==
  ASSUME NEW t \in Threads, NEW q \in Protos,
         KeysOf(coll'[t][q]) = KeysOf(coll[t][q]), KeysOf(main'[q]) = KeysOf(main[q])
  PROVE  SameAsMain(t, q)' <=> SameAsMain(t, q)
  BY DEF SameAsMain, SameRules

LEMMA ReceiveKeepsRules ==
  ASSUME TypeOK, NEW s \in Threads, NEW p \in Protos, NEW pkt \in Packets, Receive(s, p, pkt)
  PROVE  KeepsRules
<1>1. KeysOf(CheckList(coll[s][p], pkt)) = KeysOf(coll[s][p])
  BY CheckListType, PacketsAssumption DEF TypeOK
<1>2. ASSUME NEW t \in Threads, NEW q \in Protos
      PROVE  KeysOf(coll'[t][q]) = KeysOf(coll[t][q]) /\ KeysOf(main'[q]) = KeysOf(main[q])
  <2>1. main' = main /\ coll' = [coll EXCEPT ![s][p] = CheckList(coll[s][p], pkt)]
    BY DEF Receive, TypeOK
  <2>2. coll'[t][q] = IF t = s /\ q = p THEN CheckList(coll[s][p], pkt) ELSE coll[t][q]
    BY <1>2, <2>1 DEF TypeOK
  <2> QED BY <1>1, <2>1, <2>2
<1> QED BY <1>2, SameByKeys DEF KeepsRules

\* operator+= on lists of one length changes the rules of neither.
LEMMA AddKeepsRules ==
  ASSUME TypeOK, Add
  PROVE  KeepsRules
<1> DEFINE x == pc.th
           p == pc.pr
           sum == AddCounters(main[p], coll[x][p])
           rest == ResetCounters(coll[x][p])
<1>1. x \in Threads /\ p \in Protos
  BY DEF TypeOK, Position
<1>2. main[p] \in Seq(Rule) /\ coll[x][p] \in Seq(Rule)
  BY <1>1 DEF TypeOK
<1>3. KeysOf(sum) = KeysOf(main[p]) /\ KeysOf(rest) = KeysOf(coll[x][p])
  BY <1>2, AddCountersType, ResetCountersType DEF Add
<1>4. main' = [main EXCEPT ![p] = sum] /\ coll' = [coll EXCEPT ![x][p] = rest]
  BY <1>1 DEF Add, TypeOK
<1> HIDE DEF x, p, sum, rest
<1>5. ASSUME NEW t \in Threads, NEW q \in Protos
      PROVE  KeysOf(coll'[t][q]) = KeysOf(coll[t][q]) /\ KeysOf(main'[q]) = KeysOf(main[q])
  <2>1. coll'[t][q] = IF t = x /\ q = p THEN rest ELSE coll[t][q]
    BY <1>1, <1>4, <1>5 DEF TypeOK
  <2>2. main'[q] = IF q = p THEN sum ELSE main[q]
    BY <1>1, <1>4, <1>5 DEF TypeOK
  <2> QED BY <1>3, <2>1, <2>2
<1> QED BY <1>5, SameByKeys DEF KeepsRules

\* So do the rates and the triggers.
LEMMA MainKeepsRules ==
  ASSUME TypeOK, Delta \/ Check
  PROVE  KeepsRules
<1>1. pc.pr \in Protos
  BY DEF TypeOK, Position
<1>2. main[pc.pr] \in Seq(Rule) /\ prev[pc.pr] \in Seq(Rule) /\ now \in Nat
  BY <1>1, TimeAssumption DEF TypeOK
<1>3. PICK list : main' = [main EXCEPT ![pc.pr] = list] /\ KeysOf(list) = KeysOf(main[pc.pr])
  <2>1. CASE Delta
    <3> DEFINE time == age.prev[pc.pr] - age.main[pc.pr]
    <3>1. time \in Int
      BY <1>1, AgeRange
    <3>2. PICK wild \in Wild(main[pc.pr], time) :
            main' = [main EXCEPT ![pc.pr] = CalcDelta(main[pc.pr], prev[pc.pr], time, wild)]
      BY <1>1, <2>1 DEF Delta, TypeOK
    <3> HIDE DEF time
    <3>3. KeysOf(CalcDelta(main[pc.pr], prev[pc.pr], time, wild)) = KeysOf(main[pc.pr])
      BY <1>2, <3>1, CalcDeltaType
    <3> QED BY <3>2, <3>3
  <2>2. CASE Check
    BY <1>1, <1>2, <2>2, CheckTriggersType DEF Check, TypeOK
  <2> QED BY <2>1, <2>2
<1>4. coll' = coll
  BY DEF Delta, Check
<1>5. ASSUME NEW q \in Protos PROVE KeysOf(main'[q]) = KeysOf(main[q])
  BY <1>1, <1>3, <1>5 DEF TypeOK
<1> QED BY <1>4, <1>5, SameByKeys DEF KeepsRules

\* The copy gives the thread main_collect's rules of that list.
LEMMA SyncFacts ==
  ASSUME TypeOK, Sync
  PROVE  \A t \in Threads, q \in Protos :
           (t = pc.th /\ q = pc.pr) \/ SameAsMain(t, q) => SameAsMain(t, q)'
<1> DEFINE x == pc.th
           p == pc.pr
<1>1. x \in Threads /\ p \in Protos
  BY DEF TypeOK, Position
<1>2. main' = main /\ coll' = [coll EXCEPT ![x][p] = main[p]]
  BY DEF Sync
<1> HIDE DEF x, p
<1>3. ASSUME NEW t \in Threads, NEW q \in Protos
      PROVE  coll'[t][q] = IF t = x /\ q = p THEN main[q] ELSE coll[t][q]
  BY <1>1, <1>2, <1>3 DEF TypeOK
<1>4. ASSUME NEW t \in Threads, NEW q \in Protos, (t = x /\ q = p) \/ SameAsMain(t, q)
      PROVE  SameAsMain(t, q)'
  <2>1. main'[q] = main[q]
    BY <1>2
  <2>2. CASE t = x /\ q = p
    BY <1>3, <1>4, <2>1, <2>2 DEF SameAsMain, SameRules
  <2>3. CASE ~(t = x /\ q = p)
    BY <1>3, <1>4, <2>1, <2>3 DEF SameAsMain, SameRules
  <2> QED BY <2>2, <2>3
<1> QED BY <1>4 DEF x, p

\* An edit leaves the other lists as they are.
LEMMA EditFacts ==
  ASSUME TypeOK, NEW p \in Protos, NEW list, Edit(p, list), UNCHANGED coll
  PROVE  /\ dirty' = dirty \cup {p} /\ edited' = edited \cup {p}
         /\ \A t \in Threads, q \in Protos \ {p} : SameAsMain(t, q)' <=> SameAsMain(t, q)
<1>1. \A q \in Protos \ {p} : main'[q] = main[q]
  BY DEF Edit, TypeOK
<1> QED BY <1>1 DEF Edit, SameAsMain

-----------------------------------------------------------------------------
LEMMA InitSync == Init => SyncInv /\ FreshInv
<1>1. Init => pc.at = "copy" /\ dirty = {}
  BY DEF Init
<1> QED BY <1>1 DEF SyncInv, FreshInv, FreshAfterPass

\* Steps of the watcher within its work on one thread.
LEMMA ThreadStepSync ==
  ASSUME IInv, Compare \/ Sync \/ Add \/ AddThrows
  PROVE  SyncInv' /\ FreshInv'
<1> DEFINE x == pc.th
           p == pc.pr
<1> USE DEF IInv, history
<1>1. x \in Threads /\ p \in Protos /\ pc = [at |-> pc.at, th |-> x, pr |-> p]
  BY DEF TypeOK, Position
<1>2. /\ p \in Nat /\ p <= NProtos /\ x \in Nat /\ x <= NThreads
      /\ NProtos \in Nat /\ NThreads \in Nat
      /\ \A q \in Protos : q \in Nat /\ q <= NProtos /\ 1 <= q
      /\ \A t \in Threads : t \in Nat /\ t <= NThreads /\ 1 <= t
  BY <1>1, ProtoFacts, ThreadFacts, NProtosAssumption, NThreadsAssumption
<1>3. CASE Compare
  <2>1. UNCHANGED <<main, coll, dirty, edited>> /\ pc.at = "compare"
    BY <1>3 DEF Compare
  <2>2. \A t \in Threads, q \in Protos : SameAsMain(t, q)' <=> SameAsMain(t, q)
    BY <2>1 DEF SameAsMain
  <2>3. CASE SameAsMain(x, p)
    <3>1. \A q \in Protos \ dirty : q <= p => SameAsMain(x, q)
      BY <1>1, <1>2, <2>1, <2>3 DEF SyncInv
    <3>2. NextList("compare", x, "add", x)
      BY <1>3, <2>3 DEF Compare, SameAsMain
    <3>3. \/ pc' = [at |-> "compare", th |-> x, pr |-> p + 1]
          \/ p = NProtos /\ pc' = [at |-> "add", th |-> x, pr |-> 1]
      BY <3>2, NextListFacts DEF TypeOK
    <3>4. SyncInv'
      BY <1>1, <1>2, <2>1, <2>2, <3>1, <3>3 DEF SyncInv
    <3>5. FreshInv'
      BY <1>1, <1>2, <2>1, <2>2, <3>3 DEF FreshInv, FreshAfterPass
    <3> QED BY <3>4, <3>5
  <2>4. CASE ~SameAsMain(x, p)
    <3>1. pc' = [at |-> "sync", th |-> x, pr |-> 1]
      BY <1>3, <2>4 DEF Compare, SameAsMain, Goto
    <3>2. SyncInv'
      BY <1>1, <1>2, <2>1, <2>2, <3>1 DEF SyncInv
    <3>3. FreshInv'
      BY <1>1, <1>2, <2>1, <2>2, <3>1 DEF FreshInv, FreshAfterPass
    <3> QED BY <3>2, <3>3
  <2> QED BY <2>3, <2>4
<1>4. CASE Sync
  <2>1. UNCHANGED <<dirty, edited>> /\ pc.at = "sync"
    BY <1>4 DEF Sync
  <2>2. \A t \in Threads, q \in Protos : (t = x /\ q = p) \/ SameAsMain(t, q) => SameAsMain(t, q)'
    BY <1>4, SyncFacts
  <2>3. \/ pc' = [at |-> "sync", th |-> x, pr |-> p + 1]
        \/ p = NProtos /\ pc' = [at |-> "add", th |-> x, pr |-> 1]
    BY <1>4, NextListFacts DEF Sync, TypeOK
  <2>4. \A t \in Threads, q \in Protos \ dirty : t = x /\ q <= p => SameAsMain(t, q)'
    BY <1>1, <1>2, <2>1, <2>2 DEF SyncInv
  <2>5. SyncInv'
    BY <1>1, <1>2, <2>1, <2>3, <2>4 DEF SyncInv
  <2>6. FreshInv'
    BY <1>1, <1>2, <2>1, <2>2, <2>3 DEF FreshInv, FreshAfterPass
  <2> QED BY <2>5, <2>6
<1>5. CASE Add
  <2>1. edited' = edited /\ pc.at = "add" /\ dirty' \subseteq dirty
    BY <1>5 DEF Add
  <2>2. \A t \in Threads, q \in Protos : SameAsMain(t, q)' <=> SameAsMain(t, q)
    BY <1>5, AddKeepsRules DEF KeepsRules
  <2>3. \A t \in Threads, q \in Protos \ edited : t <= x => SameAsMain(t, q)
    BY <1>1, <1>2, <2>1 DEF SyncInv, FreshInv
  <2>4. CASE p < NProtos
    <3>1. pc' = [at |-> "add", th |-> x, pr |-> p + 1] /\ dirty' = dirty
      BY <1>5, <2>4 DEF Add, Goto
    <3>2. SyncInv'
      BY <1>1, <1>2, <2>1, <2>2, <3>1 DEF SyncInv
    <3>3. FreshInv'
      BY <1>1, <1>2, <2>1, <2>2, <3>1 DEF FreshInv, FreshAfterPass
    <3> QED BY <3>2, <3>3
  <2>5. CASE ~(p < NProtos) /\ x < NThreads
    <3>1. pc' = [at |-> "compare", th |-> x + 1, pr |-> 1] /\ dirty' = {}
      BY <1>5, <2>5 DEF Add, Goto
    <3>2. SyncInv'
      BY <1>2, <3>1 DEF SyncInv
    <3>3. FreshInv'
      BY <1>1, <1>2, <2>1, <2>2, <2>3, <3>1 DEF FreshInv, FreshAfterPass
    <3> QED BY <3>2, <3>3
  <2>6. CASE ~(p < NProtos) /\ ~(x < NThreads)
    <3>1. pc' = [at |-> "delta", th |-> 1, pr |-> 1] /\ dirty' = {}
      BY <1>5, <2>6 DEF Add, Goto
    <3>2. SyncInv'
      BY <1>2, <3>1 DEF SyncInv
    <3>3. FreshInv'
      BY <1>1, <1>2, <2>1, <2>2, <2>3, <2>6, <3>1 DEF FreshInv, FreshAfterPass
    <3> QED BY <3>2, <3>3
  <2> QED BY <2>4, <2>5, <2>6
<1>6. CASE AddThrows
  <2>1. /\ pc.at = "add" /\ pc' = [at |-> "dead", th |-> x, pr |-> p]
        /\ UNCHANGED <<main, coll, dirty, edited>>
        /\ Len(main[p]) # Len(coll[x][p])
    BY <1>6 DEF AddThrows, Goto
  <2>2. ~SameAsMain(x, p)
    BY <1>1, <2>1, SameRulesSameLength DEF SameAsMain, TypeOK
  <2>3. p \in dirty
    BY <1>1, <2>1, <2>2 DEF SyncInv
  <2>4. SyncInv'
    BY <2>1, <2>3 DEF SyncInv
  <2>5. FreshInv'
    BY <2>1 DEF FreshInv, FreshAfterPass
  <2> QED BY <2>4, <2>5
<1> QED BY <1>3, <1>4, <1>5, <1>6

\* The rest of the pass, and steps that leave the watcher where it is.
LEMMA PassStepSync ==
  ASSUME IInv, CopyPrev \/ Delta \/ SavePrev \/ Gate \/ Adopt \/ Check \/ Sleep
  PROVE  SyncInv' /\ FreshInv'
<1> USE DEF IInv, history
<1> DEFINE After == {"delta", "save", "gate", "adopt", "check", "sleep"}
<1>1. pc \in Position /\ \A t \in Threads : ~(t < 1)
  BY ThreadFacts DEF TypeOK
<1>2. CASE CopyPrev
  <2>1. \/ pc'.at = "copy" /\ UNCHANGED <<dirty, edited>>
        \/ pc' = [at |-> "compare", th |-> 1, pr |-> 1] /\ dirty' = {} /\ edited' = {}
    <3>1. pc.pr \in Nat /\ NProtos \in Nat
      BY <1>1, ProtoFacts, NProtosAssumption DEF Position
    <3> QED BY <1>1, <1>2, <3>1, NextListFacts DEF CopyPrev
  <2>2. \A q \in Protos : ~(q < 1)
    BY ProtoFacts
  <2> QED BY <1>1, <2>1, <2>2 DEF SyncInv, FreshInv, FreshAfterPass
<1>3. CASE Delta \/ SavePrev \/ Gate \/ Adopt \/ Check
  <2>1. KeepsRules
    <3>1. CASE Delta \/ Check
      BY <3>1, MainKeepsRules
    <3>2. CASE SavePrev \/ Gate \/ Adopt
      BY <3>2 DEF SavePrev, Gate, Adopt, KeepsRules, SameAsMain
    <3> QED BY <1>3, <3>1, <3>2
  <2>2. UNCHANGED <<dirty, edited>>
    BY <1>3 DEF Delta, SavePrev, Gate, Adopt, Check
  <2>3. pc.at \in After /\ pc'.at \in After
    <3>1. CASE Delta
      BY <1>1, <3>1, NextListFacts DEF Delta
    <3>2. CASE SavePrev
      BY <1>1, <3>2, NextListFacts DEF SavePrev
    <3>3. CASE Check
      BY <1>1, <3>3, NextListFacts DEF Check
    <3>4. CASE Gate \/ Adopt
      BY <3>4 DEF Gate, Adopt, Goto
    <3> QED BY <1>3, <3>1, <3>2, <3>3, <3>4
  <2> QED BY <2>1, <2>2, <2>3 DEF SyncInv, FreshInv, FreshAfterPass, KeepsRules
<1>4. CASE Sleep
  <2>1. pc' = [at |-> "compare", th |-> 1, pr |-> 1] /\ dirty' = {} /\ edited' = {}
    BY <1>4 DEF Sleep, Goto
  <2>2. \A q \in Protos : ~(q < 1)
    BY ProtoFacts
  <2> QED BY <1>1, <2>1, <2>2 DEF SyncInv, FreshInv, FreshAfterPass
<1> QED BY <1>2, <1>3, <1>4

LEMMA EditSync ==
  ASSUME IInv, NEW p \in Protos, NEW list, Edit(p, list), UNCHANGED <<coll, pc>>
  PROVE  SyncInv' /\ FreshInv'
<1>1. /\ dirty' = dirty \cup {p} /\ edited' = edited \cup {p} /\ pc' = pc
      /\ \A t \in Threads, q \in Protos \ {p} : SameAsMain(t, q)' <=> SameAsMain(t, q)
  BY EditFacts DEF IInv
<1>2. pc.th \in Threads
  BY DEF IInv, TypeOK, Position
<1> QED BY <1>1, <1>2 DEF IInv, SyncInv, FreshInv, FreshAfterPass

LEMMA QuietSync ==
  ASSUME IInv, KeepsRules, UNCHANGED <<pc, dirty, edited>>
  PROVE  SyncInv' /\ FreshInv'
<1>1. pc.th \in Threads
  BY DEF IInv, TypeOK, Position
<1> QED BY <1>1 DEF IInv, SyncInv, FreshInv, FreshAfterPass, KeepsRules

LEMMA NextSync == IInv /\ [Next]_vars => SyncInv' /\ FreshInv'
<1> SUFFICES ASSUME IInv, [Next]_vars PROVE SyncInv' /\ FreshInv'
  OBVIOUS
<1> USE DEF control, history
<1>1. CASE WatcherStep
  BY <1>1, ThreadStepSync, PassStepSync DEF WatcherStep
<1>2. CASE \E t \in Threads, p \in Protos, pkt \in Packets : Receive(t, p, pkt)
  <2>1. PICK t \in Threads, p \in Protos, pkt \in Packets : Receive(t, p, pkt)
    BY <1>2
  <2>2. KeepsRules
    BY <2>1, ReceiveKeepsRules DEF IInv
  <2>3. UNCHANGED <<pc, dirty, edited>>
    BY <2>1 DEF Receive
  <2> QED BY <2>2, <2>3, QuietSync
<1>3. CASE Commands
  <2>1. PICK p \in Protos, list \in Seq(Rule) : Command(p, list)
    BY <1>3, CommandFacts DEF IInv
  <2>2. Edit(p, list) /\ UNCHANGED <<coll, pc>>
    BY <2>1 DEF Command
  <2> QED BY <2>2, EditSync
<1>4. CASE LoaderStep
  <2>1. CASE AssignList
    <3>1. loader.pr \in Protos
      BY DEF IInv, TypeOK
    <3>2. Edit(loader.pr, loader.buff[loader.pr]) /\ UNCHANGED <<coll, pc>>
      BY <2>1 DEF AssignList
    <3> QED BY <3>1, <3>2, EditSync
  <2>2. CASE StampChange
    BY <2>2, QuietSync DEF StampChange, KeepsRules, SameAsMain
  <2> QED BY <1>4, <2>1, <2>2 DEF LoaderStep
<1>5. CASE \E keys \in FileLists : ReadFile(keys)
  BY <1>5, QuietSync DEF ReadFile, KeepsRules, SameAsMain
<1>6. CASE UNCHANGED vars
  BY <1>6, QuietSync DEF vars, KeepsRules, SameAsMain
<1> QED BY <1>1, <1>2, <1>3, <1>4, <1>5, <1>6 DEF Next, Commands

\* The inductive invariant of the watcher's passes (ddosdetector.cpp:42-75)
\* holds in every behaviour: the three theorems below read their facts off it.
THEOREM InvHolds == Spec => []IInv
<1>1. Init => IInv
  BY InitType, InitSync DEF IInv
<1>2. IInv /\ [Next]_vars => IInv'
  BY NextType, NextSync DEF IInv
<1> QED BY <1>1, <1>2, PTL DEF Spec

\* The watcher adds the counters of a thread's rules to the same rules of
\* main_collect, rule by rule, although it compares, copies and adds under
\* separate locks: only an edit after the comparison can come between.
THEOREM WatcherAddsSameRules == Spec => []NoCrossCounting
<1>1. IInv => NoCrossCounting
  BY DEF IInv, SyncInv, NoCrossCounting, TypeOK, Position
<1> QED BY <1>1, InvHolds, PTL

\* The exception that ends the watcher is thrown only when a list was edited
\* while it worked on the thread.
THEOREM WatcherDiesOnlyByRace == Spec => []DiesOnlyByRace
<1>1. IInv => DiesOnlyByRace
  BY DEF IInv, SyncInv, DiesOnlyByRace
<1> QED BY <1>1, InvHolds, PTL

\* After each pass the receiver threads count by the rules of main_collect,
\* save for the lists that were edited during the pass.
THEOREM WatcherRefreshes == Spec => []FreshAfterPass
<1>1. IInv => FreshAfterPass
  BY DEF IInv, FreshInv
<1> QED BY <1>1, InvHolds, PTL

-----------------------------------------------------------------------------
(* The time calc_delta divides by.                                         *)

\* Lists are older than a pass when the first pass begins and when a pass
\* has slept; from then on operator+= renews those of main_collect, one
\* after the other, and leaves those of prev_collect.
AgeInv ==
  /\ pc.at = "copy" =>
       /\ \A p \in Protos : age.main[p] >= 1 /\ (loader.at = "assign" => loader.age[p] >= 1)
       /\ \A p \in Protos : p < pc.pr => age.prev[p] >= 1
  /\ pc.at \in {"compare", "sync", "add", "delta"} => \A p \in Protos : age.prev[p] >= 1
  /\ pc.at \in {"compare", "sync", "add"} =>
       \A p \in Protos \ edited : pc.th > 1 \/ (pc.at = "add" /\ p < pc.pr) => age.main[p] = 0
  /\ pc.at = "delta" => \A p \in Protos \ edited : age.main[p] = 0

LEMMA OlderFacts ==
  ASSUME NEW ages \in Ages
  PROVE  \A p \in Protos : Older(ages)[p] >= 1
<1> SUFFICES ASSUME NEW p \in Protos PROVE Older(ages)[p] >= 1
  OBVIOUS
<1>1. ages[p] \in Nat /\ MaxAge \in Nat /\ MaxAge >= 1
  BY BoundsAssumption, MaxAgeAssumption DEF Ages
<1>2. Older(ages)[p] = IF ages[p] < MaxAge THEN ages[p] + 1 ELSE MaxAge
  BY DEF Older
<1> QED BY <1>1, <1>2

LEMMA InitAge == Init => AgeInv
<1> SUFFICES ASSUME Init PROVE AgeInv
  OBVIOUS
<1>1. \A p \in Protos : age.main[p] >= 1
  BY AgesType, OlderFacts DEF Init
<1>2. pc.at = "copy" /\ pc.pr = 1 /\ loader.at = "idle"
  BY DEF Init
<1>3. \A p \in Protos : ~(p < 1)
  BY ProtoFacts
<1> QED BY <1>1, <1>2, <1>3 DEF AgeInv

\* The steps of the watcher.
LEMMA WatcherStepAge ==
  ASSUME IInv, AgeInv, WatcherStep
  PROVE  AgeInv'
<1> DEFINE x == pc.th
           p == pc.pr
<1> USE DEF IInv, history
<1>1. /\ pc \in Position /\ x \in Threads /\ p \in Protos /\ pc = [at |-> pc.at, th |-> x, pr |-> p]
      /\ age \in [main : Ages, prev : Ages]
  BY DEF TypeOK, Position
<1>2. /\ p \in Nat /\ p <= NProtos /\ x \in Nat /\ x >= 1 /\ NProtos \in Nat /\ NThreads \in Nat
      /\ \A q \in Protos : q \in Nat /\ q <= NProtos /\ 1 <= q
  BY <1>1, ProtoFacts, ThreadFacts, NProtosAssumption, NThreadsAssumption
<1>3. CASE CopyPrev
  <2>1. pc.at = "copy" /\ age'.main = age.main /\ UNCHANGED loader
    BY <1>1, <1>3 DEF CopyPrev
  <2>2. \A q \in Protos : age'.prev[q] = IF q = p THEN age.main[p] ELSE age.prev[q]
    BY <1>1, <1>3 DEF CopyPrev, Ages
  <2>3. \A q \in Protos : q <= p => age'.prev[q] >= 1
    BY <1>1, <1>2, <2>1, <2>2 DEF AgeInv
  <2>4. CASE pc' = [at |-> "copy", th |-> 1, pr |-> p + 1]
    BY <1>2, <2>1, <2>3, <2>4 DEF AgeInv
  <2>5. CASE p = NProtos /\ pc' = [at |-> "compare", th |-> 1, pr |-> 1]
    BY <1>2, <2>1, <2>3, <2>5 DEF AgeInv
  <2> QED BY <1>1, <1>3, <2>4, <2>5, NextListFacts DEF CopyPrev
<1>4. CASE Compare
  <2>1. pc.at = "compare" /\ UNCHANGED <<age, loader, edited>>
    BY <1>4 DEF Compare
  <2>2. \/ pc' = [at |-> "compare", th |-> x, pr |-> p + 1]
        \/ pc' = [at |-> "add", th |-> x, pr |-> 1]
        \/ pc' = [at |-> "sync", th |-> x, pr |-> 1]
    BY <1>1, <1>4, NextListFacts DEF Compare, Goto
  <2> QED BY <1>2, <2>1, <2>2 DEF AgeInv
<1>5. CASE Sync
  <2>1. pc.at = "sync" /\ UNCHANGED <<age, loader, edited>>
    BY <1>5 DEF Sync
  <2>2. \/ pc' = [at |-> "sync", th |-> x, pr |-> p + 1]
        \/ pc' = [at |-> "add", th |-> x, pr |-> 1]
    BY <1>1, <1>5, NextListFacts DEF Sync
  <2> QED BY <1>2, <2>1, <2>2 DEF AgeInv
<1>6. CASE Add
  <2>1. pc.at = "add" /\ age'.prev = age.prev /\ UNCHANGED <<loader, edited>>
    BY <1>1, <1>6 DEF Add
  <2>2. \A q \in Protos : age'.main[q] = IF q = p THEN 0 ELSE age.main[q]
    BY <1>1, <1>6 DEF Add, Ages
  <2>3. \A q \in Protos \ edited : q <= p => age'.main[q] = 0
    BY <1>1, <1>2, <2>1, <2>2 DEF AgeInv
  <2>4. CASE p < NProtos
    <3>1. pc' = [at |-> "add", th |-> x, pr |-> p + 1]
      BY <1>6, <2>4 DEF Add, Goto
    <3>2. \A q \in Protos \ edited : x > 1 => age'.main[q] = 0
      BY <1>1, <2>1, <2>2 DEF AgeInv
    <3> QED BY <1>2, <2>1, <2>3, <3>1, <3>2 DEF AgeInv
  <2>5. CASE ~(p < NProtos)
    <3>1. \/ pc' = [at |-> "compare", th |-> x + 1, pr |-> 1]
          \/ pc' = [at |-> "delta", th |-> 1, pr |-> 1]
      BY <1>6, <2>5 DEF Add, Goto
    <3> QED BY <1>2, <2>1, <2>3, <2>5, <3>1 DEF AgeInv
  <2> QED BY <2>4, <2>5
<1>7. CASE AddThrows
  BY <1>7 DEF AddThrows, Goto, AgeInv
<1>8. CASE Delta
  <2>1. pc.at = "delta" /\ UNCHANGED <<age, loader, edited>>
    BY <1>8 DEF Delta
  <2>2. pc'.at \in {"delta", "save"}
    BY <1>1, <1>8, NextListFacts DEF Delta
  <2> QED BY <2>1, <2>2 DEF AgeInv
<1>9. CASE SavePrev \/ Gate \/ Adopt \/ Check
  <2>1. pc'.at \in {"save", "gate", "adopt", "check", "sleep"}
    <3>1. CASE SavePrev
      BY <1>1, <3>1, NextListFacts DEF SavePrev
    <3>2. CASE Check
      BY <1>1, <3>2, NextListFacts DEF Check
    <3>3. CASE Gate \/ Adopt
      BY <3>3 DEF Gate, Adopt, Goto
    <3> QED BY <1>9, <3>1, <3>2, <3>3
  <2> QED BY <2>1 DEF AgeInv
<1>10. CASE Sleep
  <2>1. pc' = [at |-> "compare", th |-> 1, pr |-> 1] /\ age'.prev = Older(age.prev)
    BY <1>10 DEF Sleep, Goto
  <2>2. \A q \in Protos : age'.prev[q] >= 1
    BY <1>1, <2>1, OlderFacts
  <2> QED BY <1>2, <2>1, <2>2 DEF AgeInv
<1> QED BY <1>3, <1>4, <1>5, <1>6, <1>7, <1>8, <1>9, <1>10 DEF WatcherStep

\* The others: a list that a reload brings is as old as the one it read
\* last_update_ from, and the pass knows that it was edited.
LEMMA LoaderAge ==
  ASSUME IInv, AgeInv, LoaderStep \/ \E keys \in FileLists : ReadFile(keys)
  PROVE  AgeInv'
<1> USE DEF IInv, history
<1>1. /\ age \in [main : Ages, prev : Ages] /\ loader.pr \in Protos
      /\ loader \in [at : {"idle", "assign", "stamp"}, pr : Protos,
                     buff : [Protos -> Seq(Rule)], age : Ages]
  BY DEF TypeOK
<1>2. CASE AssignList
  <2> DEFINE p == loader.pr
  <2>1. /\ loader.at = "assign" /\ pc' = pc /\ edited' = edited \cup {p}
        /\ age'.prev = age.prev
    BY <1>1, <1>2 DEF AssignList, Edit
  <2>2. \A q \in Protos : age'.main[q] = IF q = p THEN loader.age[p] ELSE age.main[q]
    BY <1>1, <1>2 DEF AssignList, Ages
  <2>3. loader'.age = loader.age
    BY <1>1, <1>2 DEF AssignList
  <2> HIDE DEF p
  <2> QED BY <1>1, <2>1, <2>2, <2>3 DEF AgeInv
<1>3. CASE StampChange
  BY <1>3 DEF StampChange, AgeInv
<1>4. CASE \E keys \in FileLists : ReadFile(keys)
  <2>1. loader'.age = age.main /\ UNCHANGED <<age, pc, edited>>
    BY <1>4 DEF ReadFile
  <2> QED BY <2>1 DEF AgeInv
<1> QED BY <1>2, <1>3, <1>4 DEF LoaderStep

LEMMA NextAge == IInv /\ AgeInv /\ [Next]_vars => AgeInv'
<1> SUFFICES ASSUME IInv, AgeInv, [Next]_vars PROVE AgeInv'
  OBVIOUS
<1> USE DEF control, history
<1>1. CASE \E t \in Threads, p \in Protos, pkt \in Packets : Receive(t, p, pkt)
  BY <1>1 DEF Receive, AgeInv
<1>2. CASE Commands
  <2>1. PICK p \in Protos, list \in Seq(Rule) : Command(p, list)
    BY <1>2, CommandFacts DEF IInv
  <2> QED BY <2>1 DEF Command, Edit, AgeInv
<1>3. CASE UNCHANGED vars
  BY <1>3 DEF vars, AgeInv
<1> QED BY <1>1, <1>2, <1>3, WatcherStepAge, LoaderAge DEF Next, Commands

\* calc_delta divides by a positive time (rules.hpp), whatever the number of
\* threads and lists, unless a list was edited during the pass.
THEOREM WatcherRatesDefined == Spec => []RatesDefined
<1>1. Spec => []AgeInv
  <2>1. Init => AgeInv
    BY InitAge
  <2> QED BY <2>1, NextAge, InvHolds, PTL DEF Spec
<1>2. IInv /\ AgeInv => RatesDefined
  <2> SUFFICES ASSUME IInv, AgeInv, pc.at = "delta", pc.pr \notin edited
               PROVE  age.prev[pc.pr] > age.main[pc.pr]
    BY DEF RatesDefined
  <2>1. pc.pr \in Protos
    BY DEF IInv, TypeOK, Position
  <2>2. age.prev[pc.pr] >= 1 /\ age.main[pc.pr] = 0
    BY <2>1 DEF AgeInv
  <2>3. age.prev[pc.pr] \in Int
    BY <2>1, AgeRange DEF IInv
  <2> QED BY <2>2, <2>3
<1> QED BY <1>1, <1>2, InvHolds, PTL

-----------------------------------------------------------------------------
(* The test of last_change.                                                *)

\* No list of a reload has been assigned without its last_change.
Between == loader.pr = 1 /\ loader.at # "stamp"

\* Nothing is left of an edit: the threads have main_collect's rules, and no
\* rates were computed, or will be in this pass, across one.
Settled ==
  /\ \A t \in Threads, p \in Protos : SameAsMain(t, p)
  /\ pc.at # "sync" /\ touched = {}
  /\ pc.at \in {"save", "gate"} => suspect = {}
  /\ pc.at = "delta" => \A q \in suspect : q >= pc.pr

\* As long as every edit was a reload between two passes, an edit that has
\* not been settled shows in last_change until the pass that settles it has
\* come to its end.
GateInv ==
  /\ seen <= change
  /\ loader.at = "idle" => loader.pr = 1
  /\ ~midpass =>
       /\ pc.at # "sleep" => edited = {} /\ Between
       /\ seen = change /\ Between => Settled
       /\ pc.at = "save" => \A q \in touched : q >= pc.pr
       /\ pc.at \in {"gate", "adopt", "check"} => touched = {}
       /\ pc.at = "check" => suspect = {}

LEMMA InitGate == Init => GateInv
<1> SUFFICES ASSUME Init PROVE GateInv
  OBVIOUS
<1>1. seen = -1 /\ change = 0
  BY DEF Init, Epoch
<1> QED BY <1>1 DEF Init, GateInv, Between

\* Steps that change counters only.
LEMMA QuietGate ==
  ASSUME GateInv, KeepsRules,
         UNCHANGED <<pc, seen, change, loader, edited, touched, suspect, midpass>>
  PROVE  GateInv'
  BY DEF GateInv, Settled, Between, KeepsRules

\* An edit during a pass, or by a command, ends what GateInv is about.
LEMMA MidpassGate ==
  ASSUME GateInv, midpass', UNCHANGED <<seen, change>>, loader'.at = "idle" => loader'.pr = 1
  PROVE  GateInv'
  BY DEF GateInv

LEMMA LoaderGate ==
  ASSUME IInv, GateInv, LoaderStep \/ \E keys \in FileLists : ReadFile(keys)
  PROVE  GateInv'
<1> USE DEF IInv, history
<1>1. /\ loader.pr \in Protos /\ change \in Nat /\ seen \in Int /\ midpass \in BOOLEAN
      /\ loader \in [at : {"idle", "assign", "stamp"}, pr : Protos,
                     buff : [Protos -> Seq(Rule)], age : Ages]
  BY DEF TypeOK, Epoch
<1>2. loader.pr \in Nat /\ loader.pr >= 1
  BY <1>1, ProtoFacts
<1>3. CASE AssignList
  <2>1. /\ loader.at = "assign" /\ UNCHANGED <<seen, change, pc>>
        /\ midpass' <=> midpass \/ pc.at # "sleep"
    BY <1>1, <1>3 DEF AssignList, Disturb, Quiet
  <2>2. loader'.at # "idle" /\ ~Between'
    BY <1>1, <1>2, <1>3 DEF AssignList, Between
  <2>3. CASE midpass'
    BY <2>1, <2>2, <2>3, MidpassGate
  <2>4. CASE ~midpass'
    BY <2>1, <2>2, <2>4 DEF GateInv
  <2> QED BY <2>3, <2>4
<1>4. CASE StampChange
  <2>1. /\ UNCHANGED <<seen, pc, edited, touched, suspect>> /\ change' = change + 1
        /\ midpass' <=> midpass \/ pc.at # "sleep"
        /\ loader'.at = "idle" /\ loader'.pr = 1
    BY <1>1, <1>4 DEF StampChange, Disturb, Quiet
  <2>2. seen' # change' /\ seen' <= change'
    BY <1>1, <2>1 DEF GateInv
  <2> QED BY <2>1, <2>2 DEF GateInv
<1>5. CASE \E keys \in FileLists : ReadFile(keys)
  <2>1. /\ loader.at = "idle" /\ loader'.at = "assign" /\ loader'.pr = 1
        /\ UNCHANGED <<main, coll, seen, change, pc, edited, touched, suspect, midpass>>
    BY <1>5 DEF ReadFile
  <2>2. Between /\ Between'
    BY <2>1 DEF GateInv, Between
  <2> QED BY <2>1, <2>2 DEF GateInv, Settled, SameAsMain
<1> QED BY <1>3, <1>4, <1>5 DEF LoaderStep

LEMMA WatcherStepGate ==
  ASSUME IInv, GateInv, WatcherStep
  PROVE  GateInv'
<1> DEFINE x == pc.th
           p == pc.pr
<1> USE DEF IInv, history
<1>1. /\ pc \in Position /\ x \in Threads /\ p \in Protos /\ pc = [at |-> pc.at, th |-> x, pr |-> p]
      /\ touched \subseteq Protos /\ suspect \subseteq Protos /\ midpass \in BOOLEAN
  BY DEF TypeOK, Position
<1>2. /\ p \in Nat /\ p <= NProtos /\ NProtos \in Nat
      /\ \A q \in Protos : q \in Nat /\ q <= NProtos /\ 1 <= q
  BY <1>1, ProtoFacts, NProtosAssumption
<1>3. SUFFICES ASSUME ~midpass' PROVE GateInv'
  <2>1. CASE Sleep
    <3>1. loader'.at = loader.at /\ loader'.pr = loader.pr
      BY <2>1 DEF Sleep, TypeOK
    <3> QED BY <1>3, <2>1, <3>1, MidpassGate DEF Sleep, GateInv
  <2>2. CASE ~Sleep
    <3>1. UNCHANGED <<change, loader>> /\ (seen' = seen \/ seen' = change)
      BY <2>2 DEF WatcherStep, CopyPrev, Compare, Sync, Add, AddThrows, Delta, SavePrev,
                  Gate, Adopt, Check
    <3>2. change \in Nat
      BY DEF TypeOK
    <3> QED BY <1>3, <3>1, <3>2 DEF GateInv
  <2> QED BY <2>1, <2>2
<1>4. CASE CopyPrev
  <2>1. /\ pc.at = "copy" /\ UNCHANGED <<main, coll, seen, change, loader, suspect, midpass>>
        /\ touched' = touched \ {p} /\ edited' \subseteq edited
    BY <1>4 DEF CopyPrev
  <2>2. pc'.at \in {"copy", "compare"}
    BY <1>1, <1>4, NextListFacts DEF CopyPrev
  <2> QED BY <1>3, <2>1, <2>2 DEF GateInv, Settled, Between, SameAsMain
<1>5. CASE Compare
  <2>1. /\ pc.at = "compare"
        /\ UNCHANGED <<main, coll, seen, change, loader, touched, edited, suspect, midpass>>
    BY <1>5 DEF Compare
  <2>2. \/ pc'.at \in {"compare", "add"}
        \/ pc'.at = "sync" /\ ~SameAsMain(x, p)
    BY <1>1, <1>5, NextListFacts DEF Compare, Goto, SameAsMain
  <2> QED BY <1>1, <1>3, <2>1, <2>2 DEF GateInv, Settled, Between, SameAsMain
<1>6. CASE Sync
  <2>1. /\ pc.at = "sync" /\ UNCHANGED <<seen, change, loader, edited, suspect, midpass>>
    BY <1>6 DEF Sync
  <2>2. pc'.at \in {"sync", "add"}
    BY <1>1, <1>6, NextListFacts DEF Sync
  <2> QED BY <1>3, <2>1, <2>2 DEF GateInv, Settled, Between
<1>7. CASE Add
  <2>1. /\ pc.at = "add" /\ UNCHANGED <<seen, change, loader, touched, edited, suspect, midpass>>
    BY <1>7 DEF Add
  <2>2. pc'.at \in {"add", "compare"} \/ (pc'.at = "delta" /\ pc'.pr = 1)
    BY <1>7 DEF Add, Goto
  <2>3. KeepsRules
    BY <1>7, AddKeepsRules
  <2> QED BY <1>1, <1>2, <1>3, <2>1, <2>2, <2>3 DEF GateInv, Settled, Between, KeepsRules
<1>8. CASE AddThrows
  <2>1. /\ pc.at = "add" /\ pc'.at = "dead"
        /\ UNCHANGED <<main, coll, seen, change, loader, touched, edited, suspect, midpass>>
    BY <1>8 DEF AddThrows, Goto
  <2> QED BY <1>3, <2>1 DEF GateInv, Settled, Between, SameAsMain
<1>9. CASE Delta
  <2>1. /\ pc.at = "delta" /\ UNCHANGED <<seen, change, loader, touched, edited, midpass>>
        /\ suspect' = IF p \in touched THEN suspect \cup {p} ELSE suspect \ {p}
    BY <1>9 DEF Delta
  <2>2. \/ pc' = [at |-> "delta", th |-> 1, pr |-> p + 1]
        \/ p = NProtos /\ pc' = [at |-> "save", th |-> 1, pr |-> 1]
    BY <1>1, <1>9, NextListFacts DEF Delta
  <2>3. KeepsRules
    BY <1>9, MainKeepsRules
  <2>4. Between' <=> Between
    BY <2>1 DEF Between
  <2>5. seen = change /\ Between => Settled'
    <3> SUFFICES ASSUME seen = change, Between PROVE Settled'
      OBVIOUS
    <3>1. Settled /\ touched = {} /\ suspect' = suspect \ {p}
      BY <1>3, <2>1 DEF GateInv, Settled
    <3>2. \A q \in suspect' : q >= p + 1
      BY <1>1, <1>2, <2>1, <3>1 DEF Settled
    <3>3. p = NProtos => suspect' = {}
      BY <1>1, <1>2, <3>1, <3>2
    <3> QED BY <2>1, <2>2, <2>3, <3>1, <3>2, <3>3 DEF Settled, KeepsRules
  <2> QED BY <1>1, <1>2, <1>3, <2>1, <2>2, <2>4, <2>5 DEF GateInv
<1>10. CASE SavePrev
  <2>1. /\ pc.at = "save" /\ touched' = touched \ {p}
        /\ UNCHANGED <<main, coll, seen, change, loader, edited, suspect, midpass>>
    BY <1>10 DEF SavePrev
  <2>2. \/ pc' = [at |-> "save", th |-> 1, pr |-> p + 1]
        \/ p = NProtos /\ pc' = [at |-> "gate", th |-> 1, pr |-> 1]
    BY <1>1, <1>10, NextListFacts DEF SavePrev
  <2>3. \A q \in touched' : q >= p + 1
    BY <1>1, <1>2, <1>3, <2>1 DEF GateInv
  <2>4. p = NProtos => touched' = {}
    BY <1>1, <1>2, <2>1, <2>3
  <2> QED BY <1>3, <2>1, <2>2, <2>3, <2>4 DEF GateInv, Settled, Between, SameAsMain
<1>11. CASE Gate
  <2>1. /\ pc.at = "gate" /\ pc'.at = IF seen = change THEN "check" ELSE "adopt"
        /\ UNCHANGED <<main, coll, seen, change, loader, touched, edited, suspect, midpass>>
    BY <1>11 DEF Gate, Goto
  <2> QED BY <1>3, <2>1 DEF GateInv, Settled, Between, SameAsMain
<1>12. CASE Adopt
  <2>1. /\ pc.at = "adopt" /\ pc'.at = "sleep" /\ seen' = change
        /\ UNCHANGED <<main, coll, change, loader, touched, edited, suspect, midpass>>
    BY <1>12 DEF Adopt, Goto
  <2>2. \A t \in Threads, q \in Protos : SameAsMain(t, q)
    BY <1>3, <2>1 DEF GateInv, FreshInv, FreshAfterPass
  <2>3. change \in Nat
    BY DEF TypeOK
  <2> QED BY <1>3, <2>1, <2>2, <2>3 DEF GateInv, Settled, Between, SameAsMain
<1>13. CASE Check
  <2>1. /\ pc.at = "check" /\ UNCHANGED <<seen, change, loader, touched, edited, suspect, midpass>>
    BY <1>13 DEF Check
  <2>2. pc'.at \in {"check", "sleep"}
    BY <1>1, <1>13, NextListFacts DEF Check
  <2>3. KeepsRules
    BY <1>13, MainKeepsRules
  <2> QED BY <1>3, <2>1, <2>2, <2>3 DEF GateInv, Settled, Between, KeepsRules
<1>14. CASE Sleep
  <2>1. /\ pc.at = "sleep" /\ pc'.at = "compare" /\ edited' = {}
        /\ UNCHANGED <<main, coll, seen, change, touched, suspect>>
        /\ ~midpass /\ loader.at # "stamp" /\ ~(loader.pr > 1)
    BY <1>3, <1>14 DEF Sleep, Goto
  <2>2. loader'.at = loader.at /\ loader'.pr = loader.pr
    BY <1>14 DEF Sleep, TypeOK
  <2>3. loader.pr = 1
    BY <1>2, <2>1 DEF TypeOK
  <2> QED BY <2>1, <2>2, <2>3 DEF GateInv, Settled, Between, SameAsMain
<1> QED
  BY <1>4, <1>5, <1>6, <1>7, <1>8, <1>9, <1>10, <1>11, <1>12, <1>13, <1>14 DEF WatcherStep

LEMMA NextGate == IInv /\ GateInv /\ [Next]_vars => GateInv'
<1> SUFFICES ASSUME IInv, GateInv, [Next]_vars PROVE GateInv'
  OBVIOUS
<1> USE DEF control, history
<1>1. CASE \E t \in Threads, p \in Protos, pkt \in Packets : Receive(t, p, pkt)
  <2>1. PICK t \in Threads, p \in Protos, pkt \in Packets : Receive(t, p, pkt)
    BY <1>1
  <2>2. KeepsRules
    BY <2>1, ReceiveKeepsRules DEF IInv
  <2> QED BY <2>1, <2>2, QuietGate DEF Receive
<1>2. CASE Commands
  <2>1. PICK p \in Protos, list \in Seq(Rule) : Command(p, list)
    BY <1>2, CommandFacts DEF IInv
  <2> QED BY <2>1, MidpassGate DEF Command, GateInv
<1>3. CASE UNCHANGED vars
  BY <1>3, QuietGate DEF vars, KeepsRules, SameAsMain
<1> QED BY <1>1, <1>2, <1>3, WatcherStepGate, LoaderGate DEF Next, Commands

\* The test of last_change (ddosdetector.cpp:58-66) skips the pass whose
\* rates were computed across a reload, as long as no edit was a command or
\* fell into a pass.
THEOREM WatcherGateCovers == Spec => []GateCoversReload
<1>1. Spec => []GateInv
  <2>1. Init => GateInv
    BY InitGate
  <2> QED BY <2>1, NextGate, InvHolds, PTL DEF Spec
<1>2. IInv /\ GateInv => GateCoversReload
  BY DEF GateInv, GateCoversReload, IInv, TypeOK
<1> QED BY <1>1, <1>2, InvHolds, PTL

-----------------------------------------------------------------------------
(* What a list counts for a rule.                                          *)

Counts(list, k, m) == [i \in DOMAIN list |-> IF list[i].key = k THEN list[i].count[m] ELSE 0]

LEMMA CountSum ==
  ASSUME NEW list \in Seq(Rule), NEW k, NEW m \in Metric
  PROVE  /\ CountIn(list, k, m) = SumFunctionOnSet(Counts(list, k, m), DOMAIN list)
         /\ IsFiniteSet(DOMAIN list)
         /\ \A i \in DOMAIN list :
              /\ Counts(list, k, m)[i] \in Nat
              /\ Counts(list, k, m)[i] = IF list[i].key = k THEN list[i].count[m] ELSE 0
<1>1. ASSUME NEW i \in DOMAIN list PROVE list[i].count[m] \in Nat
  <2>1. list[i] \in Rule
    BY LenProperties
  <2>2. list[i].count[m] \in 0 .. Word - 1
    BY <2>1 DEF Rule, Counter
  <2> QED BY <2>2
<1>2. DOMAIN list = 1 .. Len(list) /\ Len(list) \in Nat
  BY LenProperties
<1>3. IsFiniteSet(DOMAIN list)
  BY <1>2, FS_Interval
<1>4. DOMAIN Counts(list, k, m) = DOMAIN list
  BY DEF Counts
<1>5. CountIn(list, k, m) = SumFunctionOnSet(Counts(list, k, m), DOMAIN list)
  BY <1>4, Zenon DEF CountIn, SumFunction, Counts
<1> QED BY <1>1, <1>3, <1>5 DEF Counts

LEMMA CountType ==
  ASSUME NEW list \in Seq(Rule), NEW k, NEW m \in Metric
  PROVE  CountIn(list, k, m) \in Nat
  BY CountSum, SumNat

\* The count of each rule is part of it.
LEMMA CountMember ==
  ASSUME NEW list \in Seq(Rule), NEW m \in Metric, NEW i \in DOMAIN list
  PROVE  list[i].count[m] \in Nat /\ list[i].count[m] <= CountIn(list, list[i].key, m)
<1> DEFINE f == Counts(list, list[i].key, m)
<1>1. /\ CountIn(list, list[i].key, m) = SumFunctionOnSet(f, DOMAIN list)
      /\ IsFiniteSet(DOMAIN list)
      /\ \A j \in DOMAIN list : f[j] \in Nat /\
                    f[j] = IF list[j].key = list[i].key THEN list[j].count[m] ELSE 0
  BY CountSum
<1> HIDE DEF f
<1>2. f[i] = list[i].count[m] /\ f[i] \in Nat
  BY <1>1
<1>3. \A j \in DOMAIN list : f[j] <= SumFunctionOnSet(f, DOMAIN list)
  BY <1>1, SumMember
<1> QED BY <1>1, <1>2, <1>3

\* Lists of the same rules: rule by rule.
LEMMA SameRulesFacts ==
  ASSUME NEW a \in Seq(Rule), NEW b \in Seq(Rule), SameRules(a, b)
  PROVE  Len(a) = Len(b) /\ DOMAIN a = DOMAIN b /\ \A i \in DOMAIN a : a[i].key = b[i].key
<1>1. Len(a) = Len(b) /\ DOMAIN a = DOMAIN b
  BY SameRulesSameLength
<1>2. \A i \in DOMAIN a : KeysOf(a)[i] = a[i].key /\ KeysOf(b)[i] = b[i].key
  BY <1>1 DEF KeysOf
<1> QED BY <1>1, <1>2 DEF SameRules

LEMMA CountSame ==
  ASSUME NEW a \in Seq(Rule), NEW b \in Seq(Rule), KeysOf(a) = KeysOf(b), NEW k, NEW m \in Metric,
         \A i \in DOMAIN a : a[i].count[m] = b[i].count[m]
  PROVE  CountIn(a, k, m) = CountIn(b, k, m)
<1>1. DOMAIN a = DOMAIN b /\ \A i \in DOMAIN a : a[i].key = b[i].key
  BY SameRulesFacts DEF SameRules
<1> DEFINE f == Counts(a, k, m)
<1>2. /\ CountIn(a, k, m) = SumFunctionOnSet(f, DOMAIN a)
      /\ IsFiniteSet(DOMAIN a)
      /\ \A i \in DOMAIN a :
                    f[i] \in Nat /\ f[i] = IF a[i].key = k THEN a[i].count[m] ELSE 0
  BY CountSum
<1> HIDE DEF f
<1> DEFINE g == Counts(b, k, m)
<1>3. /\ CountIn(b, k, m) = SumFunctionOnSet(g, DOMAIN b)
      /\ \A i \in DOMAIN b :
                    g[i] \in Nat /\ g[i] = IF b[i].key = k THEN b[i].count[m] ELSE 0
  BY CountSum
<1> HIDE DEF g
<1>4. \A i \in DOMAIN a : f[i] \in Int /\ f[i] = g[i]
  BY <1>1, <1>2, <1>3
<1> QED BY <1>1, <1>2, <1>3, <1>4, SumSame

LEMMA CountZero ==
  ASSUME NEW list \in Seq(Rule), NEW k, NEW m \in Metric,
         \A i \in DOMAIN list : list[i].count[m] = 0
  PROVE  CountIn(list, k, m) = 0
<1> DEFINE f == Counts(list, k, m)
<1>1. /\ CountIn(list, k, m) = SumFunctionOnSet(f, DOMAIN list)
      /\ IsFiniteSet(DOMAIN list)
      /\ \A i \in DOMAIN list :
                    f[i] \in Nat /\ f[i] = IF list[i].key = k THEN list[i].count[m] ELSE 0
  BY CountSum
<1> HIDE DEF f
<1>2. \A i \in DOMAIN list : f[i] = 0
  BY <1>1
<1> QED BY <1>1, <1>2, SumZero

\* operator+= leaves nothing with the thread ...
LEMMA CountReset ==
  ASSUME NEW list \in Seq(Rule), NEW k, NEW m \in Metric
  PROVE  CountIn(ResetCounters(list), k, m) = 0
<1>1. ResetCounters(list) \in Seq(Rule) /\ DOMAIN ResetCounters(list) = DOMAIN list
  BY ResetCountersType DEF ResetCounters
<1>2. \A i \in DOMAIN list : ResetCounters(list)[i].count[m] = 0
  BY ResetCountersCounts DEF Zero
<1> QED BY <1>1, <1>2, CountZero

\* ... and what it had is added, modulo Word.
LEMMA CountAdd ==
  ASSUME NEW a \in Seq(Rule), NEW b \in Seq(Rule), SameRules(a, b), NEW k, NEW m \in Metric
  PROVE  Congruent(CountIn(AddCounters(a, b), k, m), CountIn(a, k, m) + CountIn(b, k, m), Word)
<1> DEFINE c == AddCounters(a, b)
<1>1. Len(a) = Len(b) /\ DOMAIN a = DOMAIN b /\ \A i \in DOMAIN a : a[i].key = b[i].key
  BY SameRulesFacts
<1>2. c \in Seq(Rule) /\ KeysOf(c) = KeysOf(a)
  BY <1>1, AddCountersType
<1>3. DOMAIN c = DOMAIN a /\ \A i \in DOMAIN a : c[i].key = a[i].key
  BY <1>2, SameRulesFacts DEF SameRules
<1>4. \A i \in DOMAIN a : c[i].count[m] = (a[i].count[m] + b[i].count[m]) % Word
  BY <1>1, AddCountersCounts
<1>5. Word \in Nat \ {0}
  BY WordAssumption
<1> HIDE DEF c
<1> DEFINE f == Counts(a, k, m)
<1>6. /\ CountIn(a, k, m) = SumFunctionOnSet(f, DOMAIN a)
      /\ IsFiniteSet(DOMAIN a)
      /\ \A i \in DOMAIN a :
                    f[i] \in Nat /\ f[i] = IF a[i].key = k THEN a[i].count[m] ELSE 0
  BY CountSum
<1> HIDE DEF f
<1> DEFINE g == Counts(b, k, m)
<1>7. /\ CountIn(b, k, m) = SumFunctionOnSet(g, DOMAIN b)
      /\ \A i \in DOMAIN b :
                    g[i] \in Nat /\ g[i] = IF b[i].key = k THEN b[i].count[m] ELSE 0
  BY CountSum
<1> HIDE DEF g
<1> DEFINE h == Counts(c, k, m)
<1>8. /\ CountIn(c, k, m) = SumFunctionOnSet(h, DOMAIN c)
      /\ \A i \in DOMAIN c :
                    h[i] \in Nat /\ h[i] = IF c[i].key = k THEN c[i].count[m] ELSE 0
  BY <1>2, CountSum
<1> HIDE DEF h
<1> DEFINE s == [i \in DOMAIN a |-> f[i] + g[i]]
<1>9. ASSUME NEW i \in DOMAIN a
      PROVE  h[i] \in Int /\ f[i] \in Int /\ g[i] \in Int /\ s[i] \in Int /\ s[i] = f[i] + g[i]
             /\ Congruent(h[i], s[i], Word)
  <2>1. h[i] \in Int /\ f[i] \in Int /\ g[i] \in Int /\ s[i] = f[i] + g[i] /\ s[i] \in Int
    BY <1>1, <1>3, <1>6, <1>7, <1>8
  <2>2. CASE a[i].key = k
    <3>1. f[i] = a[i].count[m] /\ g[i] = b[i].count[m] /\ h[i] = c[i].count[m]
      BY <1>1, <1>3, <1>6, <1>7, <1>8, <2>2
    <3>2. h[i] = s[i] % Word
      BY <1>4, <2>1, <3>1
    <3> HIDE DEF s
    <3> QED BY <1>5, <2>1, <3>2, CongruentMod
  <2>3. CASE a[i].key # k
    <3>1. h[i] = 0 /\ f[i] = 0 /\ g[i] = 0
      BY <1>1, <1>3, <1>6, <1>7, <1>8, <2>3
    <3> QED BY <2>1, <3>1 DEF Congruent
  <2> QED BY <2>1, <2>2, <2>3
<1> HIDE DEF s
<1>10. Congruent(SumFunctionOnSet(h, DOMAIN a), SumFunctionOnSet(s, DOMAIN a), Word)
  BY <1>5, <1>6, <1>9, SumMod
<1>11. SumFunctionOnSet(s, DOMAIN a) = SumFunctionOnSet(f, DOMAIN a) + SumFunctionOnSet(g, DOMAIN a)
  BY <1>6, <1>9, SumPlus
<1> QED BY <1>1, <1>3, <1>6, <1>7, <1>8, <1>10, <1>11 DEF c

\* check_list adds a packet to each rule that counts it, modulo Word.
LEMMA CountCheck ==
  ASSUME NEW list \in Seq(Rule), NEW pkt \in Packet, NEW k, NEW m \in Metric,
         NEW more, more = Cardinality(CountedFor(list, pkt, k)) * Weight(pkt, m)
  PROVE  /\ more \in Nat
         /\ Congruent(CountIn(CheckList(list, pkt), k, m), CountIn(list, k, m) + more, Word)
         /\ CountIn(CheckList(list, pkt), k, m) <= CountIn(list, k, m) + more
<1> DEFINE c == CheckList(list, pkt)
           U == CountedFor(list, pkt, k)
           w == Weight(pkt, m)
<1>1. c \in Seq(Rule) /\ KeysOf(c) = KeysOf(list)
  BY CheckListType
<1>2. DOMAIN c = DOMAIN list /\ \A i \in DOMAIN list : c[i].key = list[i].key
  BY <1>1, SameRulesFacts DEF SameRules
<1>3. \A i \in DOMAIN list : c[i].count[m] =
        IF i \in Counted(list, pkt) THEN (list[i].count[m] + w) % Word ELSE list[i].count[m]
  BY CheckListCounts
<1>4. Word \in Nat \ {0} /\ w \in Nat
  BY WordAssumption DEF Weight, Packet
<1>5. U \subseteq DOMAIN list /\ \A i \in DOMAIN list :
        i \in U <=> i \in Counted(list, pkt) /\ list[i].key = k
  BY DEF CountedFor, Counted
<1>6. PICK n : n = Cardinality(U) /\ n \in Nat
  BY CountedForType
<1> DEFINE f == Counts(list, k, m)
<1>7. /\ CountIn(list, k, m) = SumFunctionOnSet(f, DOMAIN list)
      /\ IsFiniteSet(DOMAIN list)
      /\ \A i \in DOMAIN list :
                    f[i] \in Nat /\ f[i] = IF list[i].key = k THEN list[i].count[m] ELSE 0
  BY CountSum
<1> HIDE DEF f
<1> HIDE DEF c, U, w
<1> DEFINE h == Counts(c, k, m)
<1>8. /\ CountIn(c, k, m) = SumFunctionOnSet(h, DOMAIN c)
      /\ \A i \in DOMAIN c :
                    h[i] \in Nat /\ h[i] = IF c[i].key = k THEN c[i].count[m] ELSE 0
  BY <1>1, CountSum
<1> HIDE DEF h
<1> DEFINE g == [i \in DOMAIN list |-> IF i \in U THEN w ELSE 0]
           s == [i \in DOMAIN list |-> f[i] + g[i]]
<1>9. ASSUME NEW i \in DOMAIN list
      PROVE  /\ h[i] \in Int /\ f[i] \in Int /\ g[i] \in Int /\ s[i] \in Int /\ s[i] = f[i] + g[i]
             /\ g[i] = IF i \in U THEN w ELSE 0
             /\ Congruent(h[i], s[i], Word) /\ h[i] <= s[i]
  <2>1. /\ h[i] \in Int /\ f[i] \in Nat /\ g[i] \in Nat /\ s[i] = f[i] + g[i] /\ s[i] \in Nat
        /\ g[i] = IF i \in U THEN w ELSE 0
    BY <1>2, <1>4, <1>7, <1>8
  <2>2. CASE i \in U
    <3>1. PICK x \in Nat : x = s[i] /\ x \in Int
      BY <2>1
    <3>2. h[i] = x % Word
      BY <1>2, <1>3, <1>5, <1>7, <1>8, <2>1, <2>2, <3>1
    <3> HIDE DEF s, g
    <3>3. Congruent(h[i], x, Word)
      BY <1>4, <3>1, <3>2, CongruentMod
    <3>4. h[i] <= x
      BY <1>4, <3>2, ModLe
    <3> QED BY <2>1, <3>1, <3>3, <3>4
  <2>3. CASE i \notin U
    <3>1. h[i] = s[i]
      BY <1>2, <1>3, <1>5, <1>7, <1>8, <2>1, <2>3
    <3> QED BY <2>1, <3>1 DEF Congruent
  <2> QED BY <2>1, <2>2, <2>3
<1> HIDE DEF s, g
<1>10. Congruent(SumFunctionOnSet(h, DOMAIN list), SumFunctionOnSet(s, DOMAIN list), Word)
  BY <1>4, <1>7, <1>9, SumMod
<1>11. SumFunctionOnSet(h, DOMAIN list) <= SumFunctionOnSet(s, DOMAIN list)
  BY <1>7, <1>9, SumLe
<1>12. SumFunctionOnSet(s, DOMAIN list) =
         SumFunctionOnSet(f, DOMAIN list) + SumFunctionOnSet(g, DOMAIN list)
  BY <1>7, <1>9, SumPlus
<1>13. SumFunctionOnSet(g, DOMAIN list) = Cardinality(DOMAIN list \cap U) * w
  <2>1. EqualTerms(DOMAIN list, U, w, g)
    BY <1>4, <1>7, <1>9 DEF EqualTerms
  <2> QED BY <2>1, SumOfEqual
<1>14. DOMAIN list \cap U = U
  BY <1>5
<1>15. SumFunctionOnSet(g, DOMAIN list) = more
  BY <1>13, <1>14 DEF U, w
<1>16. more \in Nat
  <2>1. \A x, y \in Nat : x * y \in Nat
    OBVIOUS
  <2> QED BY <1>4, <1>6, <2>1 DEF U, w
<1>17. SumFunctionOnSet(s, DOMAIN list) = CountIn(list, k, m) + more
  BY <1>7, <1>12, <1>15
<1> QED BY <1>2, <1>8, <1>10, <1>11, <1>16, <1>17 DEF c

-----------------------------------------------------------------------------
(* All that is counted for a rule.                                         *)

ByThread(c, p, k, m) == [t \in Threads |-> CountIn(c[t][p], k, m)]
Raw(mn, c, p, k, m) == CountIn(mn[p], k, m) + SumFunctionOnSet(ByThread(c, p, k, m), Threads)

Mains == [Protos -> Seq(Rule)]
Copies == [Threads -> [Protos -> Seq(Rule)]]

LEMMA ThreadsFinite == IsFiniteSet(Threads)
  BY NThreadsAssumption, FS_Interval DEF Threads

LEMMA ByThreadFacts ==
  ASSUME NEW c \in Copies, NEW p \in Protos, NEW k, NEW m \in Metric
  PROVE  /\ \A t \in Threads : /\ c[t][p] \in Seq(Rule)
                               /\ ByThread(c, p, k, m)[t] = CountIn(c[t][p], k, m)
                               /\ ByThread(c, p, k, m)[t] \in Nat
         /\ SumFunctionOnSet(ByThread(c, p, k, m), Threads) \in Nat
<1>1. \A t \in Threads : c[t][p] \in Seq(Rule) /\ ByThread(c, p, k, m)[t] = CountIn(c[t][p], k, m)
  BY DEF Copies, ByThread
<1>2. \A t \in Threads : ByThread(c, p, k, m)[t] \in Nat
  BY <1>1, CountType
<1>3. SumFunctionOnSet(ByThread(c, p, k, m), Threads) \in Nat
  BY <1>2, ThreadsFinite, SumNat
<1> QED BY <1>1, <1>2, <1>3

LEMMA RawType ==
  ASSUME NEW mn \in Mains, NEW c \in Copies, NEW p \in Protos, NEW k, NEW m \in Metric
  PROVE  CountIn(mn[p], k, m) \in Nat /\ Raw(mn, c, p, k, m) \in Nat
<1>1. mn[p] \in Seq(Rule)
  BY DEF Mains
<1>2. CountIn(mn[p], k, m) \in Nat
  BY <1>1, CountType
<1> QED BY <1>2, ByThreadFacts DEF Raw

\* The same number is added to two that agree.
LEMMA CongruentAdd ==
  ASSUME NEW r \in Int, NEW n \in Int, NEW more \in Int, Congruent(r, n, Word),
         Congruent(more, more, Word)
  PROVE  Congruent(r + more, n + more, Word)
  BY WordAssumption, CongruentPlus

LEMMA TotalRaw ==
  ASSUME NEW p, NEW k, NEW m
  PROVE  /\ Total(p, k, m) = Raw(main, coll, p, k, m) % Word
         /\ Total(p, k, m)' = Raw(main', coll', p, k, m) % Word
<1>1. DOMAIN ByThread(coll, p, k, m) = Threads /\ DOMAIN ByThread(coll', p, k, m) = Threads
  BY DEF ByThread
<1>2. Total(p, k, m) = Raw(main, coll, p, k, m) % Word
  BY <1>1, Zenon DEF Total, Raw, SumFunction, ByThread
<1>3. Total(p, k, m)' = Raw(main', coll', p, k, m) % Word
  BY <1>1, Zenon DEF Total, Raw, SumFunction, ByThread
<1> QED BY <1>2, <1>3

\* One thread's list of one protocol changes.
LEMMA OneThread ==
  ASSUME NEW c \in Copies, NEW d \in Copies, NEW x \in Threads, NEW p \in Protos,
         NEW list, NEW k, NEW m \in Metric,
         \A t \in Threads, q \in Protos : d[t][q] = IF t = x /\ q = p THEN list ELSE c[t][q]
  PROVE  SumFunctionOnSet(ByThread(d, p, k, m), Threads) =
           SumFunctionOnSet(ByThread(c, p, k, m), Threads)
             - CountIn(c[x][p], k, m) + CountIn(list, k, m)
<1>1. PICK f, g : f = ByThread(c, p, k, m) /\ g = ByThread(d, p, k, m)
  OBVIOUS
<1>2. \A t \in Threads \ {x} : g[t] = f[t]
  BY <1>1 DEF ByThread
<1>3. f[x] = CountIn(c[x][p], k, m) /\ g[x] = CountIn(list, k, m)
  BY <1>1 DEF ByThread
<1>4. \A t \in Threads : f[t] \in Nat /\ g[t] \in Nat
  BY <1>1, ByThreadFacts
<1>5. \A t \in Threads : f[t] \in Int /\ g[t] \in Int
  BY <1>4
<1>6. SumFunctionOnSet(g, Threads) = SumFunctionOnSet(f, Threads) - f[x] + g[x]
  <2>1. OneDiffers(Threads, f, g, x)
    BY <1>2, <1>5, ThreadsFinite DEF OneDiffers
  <2> QED BY <2>1, SumChange
<1> QED BY <1>1, <1>3, <1>6

LEMMA SameCopies ==
  ASSUME NEW c, NEW d, NEW q, \A t \in Threads : d[t][q] = c[t][q], NEW k, NEW m
  PROVE  ByThread(d, q, k, m) = ByThread(c, q, k, m)
  BY DEF ByThread

\* operator+= of a thread's list and main_collect's same rules.
LEMMA AddRaw ==
  ASSUME TypeOK, TypeOK', Add, SameAsMain(pc.th, pc.pr), NEW q \in Protos, NEW k, NEW m \in Metric
  PROVE  Congruent(Raw(main', coll', q, k, m), Raw(main, coll, q, k, m), Word)
<1> DEFINE x == pc.th
           p == pc.pr
           a == main[p]
           b == coll[x][p]
<1>1. /\ x \in Threads /\ p \in Protos /\ Word \in Nat \ {0}
      /\ main \in Mains /\ main' \in Mains /\ coll \in Copies /\ coll' \in Copies
  BY WordAssumption DEF TypeOK, Position, Mains, Copies
<1>2. /\ main' = [main EXCEPT ![p] = AddCounters(a, b)]
      /\ \A t \in Threads, r \in Protos :
           coll'[t][r] = IF t = x /\ r = p THEN ResetCounters(b) ELSE coll[t][r]
  BY <1>1 DEF Add, Mains, Copies
<1>3. a \in Seq(Rule) /\ b \in Seq(Rule) /\ SameRules(a, b)
  BY <1>1 DEF Mains, Copies, SameAsMain, SameRules
<1> HIDE DEF x, p
<1>4. CASE q # p
  <2>1. main'[q] = main[q]
    BY <1>1, <1>2, <1>4 DEF Mains
  <2>2. SumFunctionOnSet(ByThread(coll', q, k, m), Threads) =
          SumFunctionOnSet(ByThread(coll, q, k, m), Threads)
    <3>1. ByThread(coll', q, k, m) = ByThread(coll, q, k, m)
      <4>1. \A t \in Threads : coll'[t][q] = coll[t][q]
        BY <1>2, <1>4
      <4> QED BY <4>1, SameCopies
    <3> QED BY <3>1
  <2> QED BY <2>1, <2>2 DEF Raw, Congruent
<1>5. CASE q = p
  <2> DEFINE u == CountIn(a, k, m)
             v == CountIn(b, k, m)
             w == SumFunctionOnSet(ByThread(coll, q, k, m), Threads)
             u1 == CountIn(main'[q], k, m)
             w1 == SumFunctionOnSet(ByThread(coll', q, k, m), Threads)
  <2>1. main'[q] = AddCounters(a, b)
    BY <1>1, <1>2, <1>5 DEF Mains
  <2>2. Congruent(u1, u + v, Word)
    BY <1>3, <2>1, CountAdd
  <2>3. w1 = w - v + 0
    BY <1>1, <1>2, <1>3, <1>5, OneThread, CountReset
  <2>4. u \in Int /\ v \in Int /\ u + v \in Int
    BY <1>3, CountType
  <2>5. w \in Int /\ w1 \in Int /\ u1 \in Int
    <3>1. w \in Int /\ w1 \in Int
      BY <1>1, ByThreadFacts
    <3>2. u1 \in Int
      BY <1>1, RawType
    <3> QED BY <3>1, <3>2
  <2>6. Raw(main', coll', q, k, m) = u1 + w1 /\ Raw(main, coll, q, k, m) = u + w
    BY <1>5 DEF Raw
  <2> HIDE DEF u, v, w, u1, w1
  <2>7. Congruent(w1, w1, Word)
    BY DEF Congruent
  <2>8. Congruent(u1 + w1, (u + v) + w1, Word)
    BY <1>1, <2>2, <2>4, <2>5, <2>7, CongruentPlus
  <2>9. (u + v) + w1 = u + w
    BY <2>3, <2>4, <2>5
  <2> QED BY <2>6, <2>8, <2>9
<1> QED BY <1>4, <1>5

\* check_list adds a packet as many times as the packet is recorded.
LEMMA ReceiveRaw ==
  ASSUME TypeOK, TypeOK', NEW x \in Threads, NEW p \in Protos, NEW pkt \in Packets,
         Receive(x, p, pkt), NEW q \in Protos, NEW k \in Key, NEW m \in Metric
  PROVE  \E more \in Nat :
           /\ matched'[q][k][m] = matched[q][k][m] + more
           /\ Congruent(Raw(main', coll', q, k, m), Raw(main, coll, q, k, m) + more, Word)
<1> DEFINE b == coll[x][p]
           more == Cardinality(CountedFor(b, pkt, k)) * Weight(pkt, m)
<1>1. /\ pkt \in Packet /\ Word \in Nat \ {0}
      /\ main \in Mains /\ coll \in Copies /\ coll' \in Copies
      /\ matched \in [Protos -> [Key -> [Metric -> Nat]]] /\ matched[q][k][m] \in Nat
  <2>1. main \in Mains /\ coll \in Copies /\ matched \in [Protos -> [Key -> [Metric -> Nat]]]
    BY DEF TypeOK, Mains, Copies
  <2>2. coll' \in Copies
    BY DEF TypeOK, Copies
  <2> QED BY <2>1, <2>2, PacketsAssumption, WordAssumption
<1>2. /\ b \in Seq(Rule) /\ main' = main
      /\ \A t \in Threads, r \in Protos :
           coll'[t][r] = IF t = x /\ r = p THEN CheckList(b, pkt) ELSE coll[t][r]
  BY <1>1 DEF Receive, Copies
<1>3. matched'[q][k][m] = IF q = p THEN matched[q][k][m] + more ELSE matched[q][k][m]
  BY <1>1 DEF Receive, Weight
<1>4. /\ more \in Nat
      /\ Congruent(CountIn(CheckList(b, pkt), k, m), CountIn(b, k, m) + more, Word)
  BY <1>1, <1>2, CountCheck
<1> HIDE DEF b, more
<1>5. CASE q # p
  <2>1. SumFunctionOnSet(ByThread(coll', q, k, m), Threads) =
          SumFunctionOnSet(ByThread(coll, q, k, m), Threads)
    <3>1. ByThread(coll', q, k, m) = ByThread(coll, q, k, m)
      <4>1. \A t \in Threads : coll'[t][q] = coll[t][q]
        BY <1>2, <1>5
      <4> QED BY <4>1, SameCopies
    <3> QED BY <3>1
  <2>2. PICK r \in Int : r = Raw(main, coll, q, k, m)
    BY <1>1, RawType
  <2>3. Raw(main', coll', q, k, m) = r
    BY <1>2, <2>1, <2>2 DEF Raw
  <2>4. r + 0 = r /\ matched[q][k][m] + 0 = matched[q][k][m]
    BY <1>1, <2>2
  <2>5. matched'[q][k][m] = matched[q][k][m] + 0 /\ Congruent(Raw(main', coll', q, k, m), r + 0, Word)
    BY <1>3, <1>5, <2>3, <2>4 DEF Congruent
  <2> QED BY <2>2, <2>5
<1>6. CASE q = p
  <2> DEFINE u == CountIn(main[q], k, m)
             v == CountIn(b, k, m)
             v1 == CountIn(CheckList(b, pkt), k, m)
             w == SumFunctionOnSet(ByThread(coll, q, k, m), Threads)
             w1 == SumFunctionOnSet(ByThread(coll', q, k, m), Threads)
  <2>1. w1 = w - v + v1
    BY <1>1, <1>2, <1>6, OneThread DEF b
  <2>2. CheckList(b, pkt) \in Seq(Rule)
    BY <1>1, <1>2, CheckListType
  <2>3. u \in Int /\ v \in Int /\ v1 \in Int /\ w \in Int /\ w1 \in Int
    <3>1. u \in Nat
      BY <1>1, RawType
    <3>2. v \in Nat /\ v1 \in Nat
      BY <1>2, <2>2, CountType
    <3>3. w \in Nat /\ w1 \in Nat
      BY <1>1, ByThreadFacts
    <3> QED BY <3>1, <3>2, <3>3
  <2>4. Raw(main', coll', q, k, m) = u + w1 /\ Raw(main, coll, q, k, m) = u + w
    BY <1>2 DEF Raw
  <2>5. Congruent(v1, v + more, Word)
    BY <1>4
  <2> HIDE DEF u, v, v1, w, w1
  <2>6. PICK r \in Int : r = u + w - v
    BY <2>3
  <2>7. Congruent(r, r, Word)
    BY DEF Congruent
  <2>8. Congruent(v1 + r, (v + more) + r, Word)
    <3>1. v + more \in Int
      BY <1>4, <2>3
    <3> QED BY <1>1, <2>3, <2>5, <2>6, <2>7, <3>1, CongruentPlus
  <2>9. v1 + r = u + w1 /\ (v + more) + r = (u + w) + more
    BY <1>4, <2>1, <2>3, <2>6
  <2> QED BY <1>3, <1>4, <1>6, <2>4, <2>8, <2>9
<1> QED BY <1>5, <1>6

-----------------------------------------------------------------------------
(* Every packet is counted once.                                           *)

\* Rates and triggers leave the counters of main_collect alone, and the
\* triggers the rates.
KeepsCounts ==
  /\ coll' = coll
  /\ \A q \in Protos :
       /\ KeysOf(main'[q]) = KeysOf(main[q]) /\ DOMAIN main'[q] = DOMAIN main[q]
       /\ \A i \in DOMAIN main[q] : main'[q][i].count = main[q][i].count

LEMMA DeltaFacts ==
  ASSUME TypeOK, Delta
  PROVE  /\ KeepsCounts
         /\ \A q \in Protos \ {pc.pr} : main'[q] = main[q]
         /\ \E wild : main'[pc.pr] =
              CalcDelta(main[pc.pr], prev[pc.pr], age.prev[pc.pr] - age.main[pc.pr], wild)
<1> DEFINE p == pc.pr
           time == age.prev[p] - age.main[p]
<1>1. p \in Protos /\ coll' = coll
  BY DEF TypeOK, Position, Delta
<1>2. main[p] \in Seq(Rule) /\ prev[p] \in Seq(Rule) /\ time \in Int
  BY <1>1, AgeRange DEF TypeOK
<1>3. PICK wild \in Wild(main[p], time) :
        main' = [main EXCEPT ![p] = CalcDelta(main[p], prev[p], time, wild)]
  BY <1>1 DEF Delta, TypeOK
<1> HIDE DEF time
<1>4. PICK list : list = CalcDelta(main[p], prev[p], time, wild)
  OBVIOUS
<1>5. list \in Seq(Rule) /\ KeysOf(list) = KeysOf(main[p])
  BY <1>2, <1>4, CalcDeltaType
<1>6. DOMAIN list = DOMAIN main[p]
  BY <1>2, <1>5, SameRulesFacts DEF SameRules
<1>7. \A i \in DOMAIN main[p] : list[i].count = main[p][i].count
  BY <1>2, <1>4, CalcDeltaCounts
<1>8. \A q \in Protos : main'[q] = IF q = p THEN list ELSE main[q]
  BY <1>1, <1>3, <1>4 DEF TypeOK
<1> HIDE DEF p
<1>9. KeepsCounts
  BY <1>1, <1>5, <1>6, <1>7, <1>8 DEF KeepsCounts
<1> QED BY <1>1, <1>4, <1>8, <1>9 DEF p, time

LEMMA CheckFacts ==
  ASSUME TypeOK, Check
  PROVE  /\ KeepsCounts
         /\ \A q \in Protos : \A i \in DOMAIN main[q] : main'[q][i].rate = main[q][i].rate
<1> DEFINE p == pc.pr
           list == CheckTriggers(main[p], now)
<1>1. p \in Protos /\ coll' = coll
  BY DEF TypeOK, Position, Check
<1>2. main[p] \in Seq(Rule) /\ now \in Nat
  BY <1>1, TimeAssumption DEF TypeOK
<1>3. list \in Seq(Rule) /\ KeysOf(list) = KeysOf(main[p])
  BY <1>2, CheckTriggersType
<1>4. DOMAIN list = DOMAIN main[p]
  BY <1>2, <1>3, SameRulesFacts DEF SameRules
<1>5. \A i \in DOMAIN main[p] : list[i].count = main[p][i].count /\ list[i].rate = main[p][i].rate
  BY <1>2, CheckTriggersCounts
<1>6. main' = [main EXCEPT ![p] = list]
  BY <1>1 DEF Check, TypeOK
<1> HIDE DEF list, p
<1>7. \A q \in Protos : main'[q] = IF q = p THEN list ELSE main[q]
  BY <1>1, <1>6 DEF TypeOK
<1>8. KeepsCounts
  BY <1>1, <1>3, <1>4, <1>5, <1>7 DEF KeepsCounts
<1>9. \A q \in Protos : \A i \in DOMAIN main[q] : main'[q][i].rate = main[q][i].rate
  BY <1>5, <1>7
<1> QED BY <1>8, <1>9

\* The watcher neither creates nor loses a count, unless it copies
\* main_collect's counters or adds the counters of other rules.
LEMMA WatcherTotal ==
  ASSUME TypeOK, TypeOK', WatcherStep, pc.at # "sync", Add => SameAsMain(pc.th, pc.pr),
         NEW q \in Protos, NEW k, NEW m \in Metric
  PROVE  Total(q, k, m)' = Total(q, k, m)
<1>1. CASE Add
  BY <1>1, AddRaw, TotalRaw DEF Congruent
<1>2. CASE Delta \/ Check
  <2>1. KeepsCounts
    BY <1>2, DeltaFacts, CheckFacts
  <2>2. main[q] \in Seq(Rule) /\ main'[q] \in Seq(Rule)
    BY DEF TypeOK
  <2>3. CountIn(main'[q], k, m) = CountIn(main[q], k, m)
    BY <2>1, <2>2, CountSame DEF KeepsCounts
  <2>4. Raw(main', coll', q, k, m) = Raw(main, coll, q, k, m)
    BY <2>1, <2>3 DEF Raw, KeepsCounts
  <2> QED BY <2>4, TotalRaw
<1>3. CASE ~(Add \/ Delta \/ Check)
  <2>1. ~Sync
    BY DEF Sync
  <2>2. main' = main /\ coll' = coll
    BY <1>3, <2>1 DEF WatcherStep, CopyPrev, Compare, AddThrows, SavePrev, Gate, Adopt, Sleep
  <2> QED BY <2>2, TotalRaw
<1> QED BY <1>1, <1>2, <1>3

\* As long as nobody edits the rules, the threads have them and the watcher
\* has no reason to copy them.
StaticInv ==
  NeverEdited => /\ pc.at \notin {"sync", "dead"}
                 /\ \A t \in Threads, p \in Protos : SameAsMain(t, p)

\* Edits and reloads do not go unnoticed.
LEMMA NeverEditedStep ==
  ASSUME TypeOK, [Next]_vars, NeverEdited'
  PROVE  /\ NeverEdited
         /\ \/ WatcherStep
            \/ \E t \in Threads, p \in Protos, pkt \in Packets : Receive(t, p, pkt)
            \/ UNCHANGED vars
<1> USE DEF control, history
<1>1. /\ edits \in Nat /\ change \in Nat
      /\ loader \in [at : {"idle", "assign", "stamp"}, pr : Protos,
                     buff : [Protos -> Seq(Rule)], age : Ages]
  BY BoundsAssumption DEF TypeOK
<1>2. CASE WatcherStep
  <2>1. edits' = edits /\ change' = change /\ loader'.at = loader.at
    BY <1>1, <1>2 DEF WatcherStep, CopyPrev, Compare, Sync, Add, AddThrows, Delta, SavePrev,
                      Gate, Adopt, Check, Sleep
  <2> QED BY <1>2, <2>1 DEF NeverEdited
<1>3. CASE \E t \in Threads, p \in Protos, pkt \in Packets : Receive(t, p, pkt)
  BY <1>3 DEF Receive, NeverEdited
<1>4. CASE Commands
  <2>1. edits' = edits + 1
    BY <1>4 DEF Commands, CommandAdd, CommandDel, CommandInsert, Command
  <2> QED BY <1>1, <2>1 DEF NeverEdited
<1>5. CASE AssignList
  <2>1. loader'.at # "idle"
    BY <1>1, <1>5 DEF AssignList
  <2> QED BY <2>1 DEF NeverEdited
<1>6. CASE StampChange
  BY <1>1, <1>6 DEF StampChange, NeverEdited
<1>7. CASE \E keys \in FileLists : ReadFile(keys)
  BY <1>7 DEF ReadFile, NeverEdited
<1>8. CASE UNCHANGED vars
  BY <1>8 DEF vars, NeverEdited
<1> QED
  BY <1>2, <1>3, <1>4, <1>5, <1>6, <1>7, <1>8 DEF Next, LoaderStep, Commands

LEMMA NextStatic == IInv /\ StaticInv /\ [Next]_vars => StaticInv'
<1> SUFFICES ASSUME IInv, StaticInv, [Next]_vars, NeverEdited' PROVE StaticInv'
  BY DEF StaticInv
<1> USE DEF IInv, control, history
<1>1. pc.th \in Threads /\ pc.pr \in Protos /\ pc \in Position /\ NeverEdited
  BY NeverEditedStep DEF TypeOK, Position
<1>2. CASE WatcherStep
  <2>2. pc.at # "sync" /\ \A t \in Threads, p \in Protos : SameAsMain(t, p)
    BY <1>1 DEF StaticInv
  <2>3. KeepsRules
    <3>1. CASE Add
      BY <3>1, AddKeepsRules
    <3>2. CASE Delta \/ Check
      BY <3>2, MainKeepsRules
    <3>3. CASE ~(Add \/ Delta \/ Check)
      <4>1. main' = main /\ coll' = coll
        BY <1>2, <2>2, <3>3 DEF WatcherStep, CopyPrev, Compare, Sync, AddThrows, SavePrev,
                                Gate, Adopt, Sleep
      <4> QED BY <4>1 DEF KeepsRules, SameAsMain
    <3> QED BY <3>1, <3>2, <3>3
  <2>4. pc'.at \notin {"sync", "dead"}
    <3>1. CASE Compare
      <4>1. NextList("compare", pc.th, "add", pc.th)
        BY <1>1, <2>2, <3>1 DEF Compare, SameAsMain
      <4> QED BY <1>1, <4>1, NextListFacts
    <3>2. CASE Add
      BY <3>2 DEF Add, Goto
    <3>3. CASE AddThrows
      BY <1>1, <2>2, <3>3, SameRulesSameLength DEF AddThrows, SameAsMain, TypeOK
    <3>4. CASE CopyPrev
      BY <1>1, <3>4, NextListFacts DEF CopyPrev
    <3>5. CASE Delta
      BY <1>1, <3>5, NextListFacts DEF Delta
    <3>6. CASE SavePrev
      BY <1>1, <3>6, NextListFacts DEF SavePrev
    <3>7. CASE Check
      BY <1>1, <3>7, NextListFacts DEF Check
    <3>8. CASE Gate \/ Adopt \/ Sleep
      BY <3>8 DEF Gate, Adopt, Sleep, Goto
    <3>9. CASE Sync
      BY <2>2, <3>9 DEF Sync
    <3> QED BY <1>2, <3>1, <3>2, <3>3, <3>4, <3>5, <3>6, <3>7, <3>8, <3>9 DEF WatcherStep
  <2> QED BY <2>2, <2>3, <2>4 DEF StaticInv, KeepsRules
<1>3. CASE \E t \in Threads, p \in Protos, pkt \in Packets : Receive(t, p, pkt)
  <2>1. PICK t \in Threads, p \in Protos, pkt \in Packets : Receive(t, p, pkt)
    BY <1>3
  <2>2. KeepsRules
    BY <2>1, ReceiveKeepsRules
  <2>3. pc' = pc
    BY <2>1 DEF Receive
  <2> QED BY <1>1, <2>2, <2>3 DEF StaticInv, KeepsRules
<1>4. CASE UNCHANGED vars
  BY <1>4 DEF vars, StaticInv, NeverEdited, SameAsMain
<1> QED BY <1>2, <1>3, <1>4, NeverEditedStep

\* The daemon starts with nothing counted.
LEMMA InitCounts ==
  ASSUME Init, NEW q \in Protos, NEW t \in Threads, NEW k, NEW m \in Metric
  PROVE  /\ coll[t] = main /\ CountIn(main[q], k, m) = 0
         /\ \A i \in DOMAIN main[q] : main[q][i].rate = Zero
<1>1. PICK keys \in InitLists : main = [p \in Protos |-> NewList(keys[p])]
  BY DEF Init
<1>2. keys[q] \in Seq(Key) /\ main[q] = NewList(keys[q])
  BY <1>1, ListsAssumption
<1>3. main[q] \in Seq(Rule)
  BY <1>2, NewListType
<1>4. \A i \in DOMAIN main[q] : main[q][i].count[m] = 0 /\ main[q][i].rate = Zero
  BY <1>2 DEF NewList, NewRule, Zero
<1>5. CountIn(main[q], k, m) = 0
  BY <1>3, <1>4, CountZero
<1>6. coll[t] = main
  BY DEF Init
<1> QED BY <1>4, <1>5, <1>6

LEMMA InitExact == Init => StaticInv /\ CountersExact
<1> SUFFICES ASSUME Init PROVE StaticInv /\ CountersExact
  OBVIOUS
<1>1. \A t \in Threads, p \in Protos : SameAsMain(t, p)
  BY DEF Init, SameAsMain, SameRules
<1>2. pc.at = "copy"
  BY DEF Init
<1>3. ASSUME NEW p \in Protos, NEW k \in Key, NEW m \in Metric
      PROVE  Total(p, k, m) = matched[p][k][m] % Word
  <2>1. \A t \in Threads : ByThread(coll, p, k, m)[t] = 0
    BY InitCounts DEF ByThread
  <2>2. SumFunctionOnSet(ByThread(coll, p, k, m), Threads) = 0
    BY <2>1, ThreadsFinite, SumZero
  <2>3. CountIn(main[p], k, m) = 0
    BY ThreadFacts, InitCounts
  <2>4. matched[p][k][m] = 0
    BY DEF Init, Zero
  <2>5. Raw(main, coll, p, k, m) = matched[p][k][m]
    BY <2>2, <2>3, <2>4 DEF Raw
  <2> QED BY <2>5, TotalRaw
<1> QED BY <1>1, <1>2, <1>3 DEF StaticInv, CountersExact

LEMMA NextExact ==
  IInv /\ IInv' /\ StaticInv /\ CountersExact /\ [Next]_vars => CountersExact'
<1> SUFFICES ASSUME IInv, IInv', StaticInv, CountersExact, [Next]_vars, NeverEdited',
                    NEW p \in Protos, NEW k \in Key, NEW m \in Metric
             PROVE  Total(p, k, m)' = matched'[p][k][m] % Word
  BY DEF CountersExact
<1> USE DEF IInv, control, history
<1>1. pc.th \in Threads /\ pc.pr \in Protos /\ NeverEdited
  BY NeverEditedStep DEF TypeOK, Position
<1>2. TypeOK' /\ Word \in Nat \ {0}
  BY WordAssumption
<1>3. CASE WatcherStep
  <2>1. matched' = matched
    BY <1>3 DEF WatcherStep, CopyPrev, Compare, Sync, Add, AddThrows, Delta, SavePrev,
                Gate, Adopt, Check, Sleep
  <2>2. pc.at # "sync" /\ SameAsMain(pc.th, pc.pr)
    BY <1>1 DEF StaticInv
  <2>3. Total(p, k, m)' = Total(p, k, m)
    BY <1>2, <1>3, <2>2, WatcherTotal
  <2> QED BY <1>1, <2>1, <2>3 DEF CountersExact
<1>4. CASE \E t \in Threads, q \in Protos, pkt \in Packets : Receive(t, q, pkt)
  <2>1. PICK t \in Threads, q \in Protos, pkt \in Packets : Receive(t, q, pkt)
    BY <1>4
  <2>2. PICK more \in Nat :
           /\ matched'[p][k][m] = matched[p][k][m] + more
           /\ Congruent(Raw(main', coll', p, k, m), Raw(main, coll, p, k, m) + more, Word)
    BY <1>2, <2>1, ReceiveRaw
  <2>3. PICK r \in Int, n \in Int : r = Raw(main, coll, p, k, m) /\ n = matched[p][k][m]
    <3>1. Raw(main, coll, p, k, m) \in Nat
      BY RawType DEF TypeOK, Mains, Copies
    <3>2. matched[p][k][m] \in Nat
      BY DEF TypeOK
    <3> QED BY <3>1, <3>2
  <2>4. Congruent(r, n, Word)
    BY <1>1, <2>3, TotalRaw DEF CountersExact, Congruent
  <2>5. Congruent(more, more, Word) /\ more \in Int
    BY DEF Congruent
  <2>6. Congruent(r + more, n + more, Word)
    BY <2>4, <2>5, CongruentAdd
  <2>7. Congruent(Raw(main', coll', p, k, m), n + more, Word)
    BY <2>2, <2>3, <2>6 DEF Congruent
  <2>8. Raw(main', coll', p, k, m) % Word = matched'[p][k][m] % Word
    BY <2>2, <2>3, <2>7 DEF Congruent
  <2> QED BY <2>8, TotalRaw
<1>5. CASE UNCHANGED vars
  <2>1. matched' = matched /\ main' = main /\ coll' = coll
    BY <1>5 DEF vars
  <2>2. Total(p, k, m)' = Total(p, k, m)
    BY <2>1, TotalRaw
  <2> QED BY <1>1, <2>1, <2>2 DEF CountersExact
<1> QED BY <1>3, <1>4, <1>5, NeverEditedStep

\* With rules nobody edits, what main_collect and the receiver threads count
\* for a rule is what the threads matched (check_list, operator+=), for any
\* number of threads, lists, rules and packets and any word size.
THEOREM WatcherCountsExactly == Spec => []CountersExact
<1>1. Spec => []StaticInv
  <2>1. Init => StaticInv
    BY InitExact
  <2> QED BY <2>1, NextStatic, InvHolds, PTL DEF Spec
<1>2. Init => CountersExact
  BY InitExact
<1> QED BY <1>1, <1>2, NextExact, InvHolds, PTL DEF Spec

\* Whatever is edited, a step of the watcher changes no total but where it
\* copies main_collect's counters into a thread (operator=) or adds up lists
\* of which one was edited since they were compared (operator+=).
THEOREM WatcherKeepsTotals == Spec => WatcherConserves
<1>1. ASSUME IInv, IInv', [Next]_vars
      PROVE  [pc' # pc /\ pc.at # "sync" /\ (pc.at = "add" => pc.pr \notin dirty)
               => \A p \in Protos, k \in Key, m \in Metric : Total(p, k, m)' = Total(p, k, m)]_vars
  <2> SUFFICES ASSUME pc' # pc, pc.at # "sync", pc.at = "add" => pc.pr \notin dirty,
                      NEW p \in Protos, NEW k \in Key, NEW m \in Metric
               PROVE  Total(p, k, m)' = Total(p, k, m)
    OBVIOUS
  <2>1. WatcherStep
    BY <1>1 DEF Next, Receive, CommandAdd, CommandDel, CommandInsert, Command, ReadFile,
                LoaderStep, AssignList, StampChange, vars
  <2>2. Add => SameAsMain(pc.th, pc.pr)
    BY <1>1 DEF Add, IInv, SyncInv, TypeOK, Position
  <2> QED BY <1>1, <2>1, <2>2, WatcherTotal DEF IInv
<1> QED BY <1>1, InvHolds, PTL DEF Spec, WatcherConserves

-----------------------------------------------------------------------------
(* What an alarm stands for.                                               *)

\* Counts the watcher copies from main_collect into a thread are no packets
\* of the thread: they are left out until the thread's list has been added
\* and reset.  This happens only to a list that was touched.
Withheld(tc, w, t, p) ==
  p \in tc /\ t = w.th /\ (w.at = "sync" \/ (w.at = "add" /\ p >= w.pr))

Held(c, tc, w, p, k, m) ==
  [t \in Threads |-> IF Withheld(tc, w, t, p) THEN 0 ELSE CountIn(c[t][p], k, m)]
HeldSum(c, tc, w, p, k, m) == SumFunctionOnSet(Held(c, tc, w, p, k, m), Threads)
HeldNow(p, k, m) == HeldSum(coll, touched, pc, p, k, m)

LEMMA HeldFacts ==
  ASSUME NEW c \in Copies, NEW tc, NEW w, NEW p \in Protos, NEW k, NEW m \in Metric
  PROVE  /\ \A t \in Threads :
              /\ c[t][p] \in Seq(Rule)
              /\ CountIn(c[t][p], k, m) \in Nat
              /\ Held(c, tc, w, p, k, m)[t] \in Nat
              /\ Held(c, tc, w, p, k, m)[t] =
                   IF Withheld(tc, w, t, p) THEN 0 ELSE CountIn(c[t][p], k, m)
         /\ HeldSum(c, tc, w, p, k, m) \in Nat
<1>1. \A t \in Threads : c[t][p] \in Seq(Rule)
  BY DEF Copies
<1>2. \A t \in Threads : CountIn(c[t][p], k, m) \in Nat
  BY <1>1, CountType
<1>3. \A t \in Threads :
        Held(c, tc, w, p, k, m)[t] = IF Withheld(tc, w, t, p) THEN 0 ELSE CountIn(c[t][p], k, m)
  BY DEF Held
<1>4. \A t \in Threads : Held(c, tc, w, p, k, m)[t] \in Nat
  BY <1>2, <1>3
<1>5. HeldSum(c, tc, w, p, k, m) \in Nat
  BY <1>4, ThreadsFinite, SumNat DEF HeldSum
<1> QED BY <1>1, <1>2, <1>3, <1>4, <1>5

\* No thread comes to hold more than it did.
LEMMA HeldDrops ==
  ASSUME NEW c \in Copies, NEW tc, NEW w, NEW d \in Copies, NEW td, NEW v,
         NEW p \in Protos, NEW k, NEW m \in Metric,
         \A t \in Threads :
           \/ d[t][p] = c[t][p] /\ (Withheld(tc, w, t, p) => Withheld(td, v, t, p))
           \/ Withheld(td, v, t, p)
           \/ d[t][p] = ResetCounters(c[t][p])
  PROVE  HeldSum(d, td, v, p, k, m) <= HeldSum(c, tc, w, p, k, m)
<1> DEFINE f == Held(c, tc, w, p, k, m)
           g == Held(d, td, v, p, k, m)
<1>1. ASSUME NEW t \in Threads
      PROVE  f[t] \in Int /\ g[t] \in Int /\ g[t] <= f[t]
  <2>1. /\ c[t][p] \in Seq(Rule) /\ CountIn(c[t][p], k, m) \in Nat /\ f[t] \in Nat /\ g[t] \in Nat
        /\ f[t] = IF Withheld(tc, w, t, p) THEN 0 ELSE CountIn(c[t][p], k, m)
        /\ g[t] = IF Withheld(td, v, t, p) THEN 0 ELSE CountIn(d[t][p], k, m)
    BY HeldFacts
  <2>2. CountIn(ResetCounters(c[t][p]), k, m) = 0
    BY <2>1, CountReset
  <2> HIDE DEF f, g
  <2> QED BY <2>1, <2>2
<1> HIDE DEF f, g
<1>2. SumFunctionOnSet(g, Threads) <= SumFunctionOnSet(f, Threads)
  BY <1>1, ThreadsFinite, SumLe
<1> QED BY <1>2 DEF HeldSum, f, g

\* One thread comes to hold something else.
LEMMA HeldChange ==
  ASSUME NEW c \in Copies, NEW d \in Copies, NEW tc, NEW w, NEW v, NEW x \in Threads,
         NEW p \in Protos, NEW k, NEW m \in Metric,
         \A t \in Threads \ {x} :
           d[t][p] = c[t][p] /\ (Withheld(tc, w, t, p) <=> Withheld(tc, v, t, p))
  PROVE  HeldSum(d, tc, v, p, k, m) =
           HeldSum(c, tc, w, p, k, m)
             - Held(c, tc, w, p, k, m)[x] + Held(d, tc, v, p, k, m)[x]
<1>1. PICK f, g : f = Held(c, tc, w, p, k, m) /\ g = Held(d, tc, v, p, k, m)
  OBVIOUS
<1>2. \A t \in Threads \ {x} : g[t] = f[t]
  BY <1>1, HeldFacts
<1>3. \A t \in Threads : f[t] \in Int /\ g[t] \in Int
  BY <1>1, HeldFacts
<1>4. SumFunctionOnSet(g, Threads) = SumFunctionOnSet(f, Threads) - f[x] + g[x]
  <2>1. OneDiffers(Threads, f, g, x)
    BY <1>2, <1>3, ThreadsFinite DEF OneDiffers
  <2> QED BY <2>1, SumChange
<1> QED BY <1>1, <1>4 DEF HeldSum

\* A step of the watcher adds nothing to what the threads hold.
LEMMA WatcherHeld ==
  ASSUME TypeOK, TypeOK', WatcherStep, NEW q \in Protos, NEW k, NEW m \in Metric
  PROVE  pc'.at = "dead" \/ HeldNow(q, k, m)' <= HeldNow(q, k, m)
<1> DEFINE x == pc.th
           p == pc.pr
<1>1. /\ pc \in Position /\ x \in Threads /\ p \in Protos /\ pc = [at |-> pc.at, th |-> x, pr |-> p]
      /\ coll \in Copies /\ coll' \in Copies
  BY DEF TypeOK, Position, Copies
<1>2. p \in Nat /\ p <= NProtos /\ NProtos \in Nat /\ q \in Nat /\ q <= NProtos /\ 1 <= q
  BY <1>1, ProtoFacts, NProtosAssumption
<1>3. CASE Sync
  <2>1. /\ pc.at = "sync" /\ touched' = touched \cup {p}
        /\ \A t \in Threads : t # x \/ q # p => coll'[t][q] = coll[t][q]
    BY <1>1, <1>3 DEF Sync, Copies
  <2>2. \/ pc' = [at |-> "sync", th |-> x, pr |-> p + 1]
        \/ pc' = [at |-> "add", th |-> x, pr |-> 1]
    BY <1>1, <1>3, NextListFacts DEF Sync
  <2>3. \A t \in Threads :
           \/ coll'[t][q] = coll[t][q]
              /\ (Withheld(touched, pc, t, q) => Withheld(touched', pc', t, q))
           \/ Withheld(touched', pc', t, q)
    BY <1>2, <2>1, <2>2 DEF Withheld
  <2> QED BY <1>1, <2>3, HeldDrops DEF HeldNow
<1>4. CASE Add
  <2>1. /\ pc.at = "add" /\ touched' = touched
        /\ \A t \in Threads :
             coll'[t][q] = IF t = x /\ q = p THEN ResetCounters(coll[t][q]) ELSE coll[t][q]
    BY <1>1, <1>4 DEF Add, Copies
  <2>2. p < NProtos => pc' = [at |-> "add", th |-> x, pr |-> p + 1]
    BY <1>4 DEF Add, Goto
  <2>3. \A t \in Threads :
           \/ coll'[t][q] = coll[t][q]
              /\ (Withheld(touched, pc, t, q) => Withheld(touched', pc', t, q))
           \/ coll'[t][q] = ResetCounters(coll[t][q])
    BY <1>2, <2>1, <2>2 DEF Withheld
  <2> QED BY <1>1, <2>3, HeldDrops DEF HeldNow
<1>5. CASE AddThrows
  BY <1>5 DEF AddThrows, Goto
<1>6. CASE ~(Sync \/ Add \/ AddThrows)
  <2>1. coll' = coll /\ pc.at \notin {"sync", "add"}
    BY <1>6 DEF WatcherStep, CopyPrev, Compare, Delta, SavePrev, Gate, Adopt, Check, Sleep
  <2>2. \A t \in Threads :
          coll'[t][q] = coll[t][q]
            /\ (Withheld(touched, pc, t, q) => Withheld(touched', pc', t, q))
    BY <2>1 DEF Withheld
  <2> QED BY <1>1, <2>2, HeldDrops DEF HeldNow
<1> QED BY <1>3, <1>4, <1>5, <1>6

\* Nor does an edit, or a step that leaves the threads alone.
LEMMA OthersHeld ==
  ASSUME TypeOK, UNCHANGED <<coll, pc>>, touched \subseteq touched',
         NEW q \in Protos, NEW k, NEW m \in Metric
  PROVE  HeldNow(q, k, m)' <= HeldNow(q, k, m)
<1>1. coll \in Copies /\ coll' \in Copies
  BY DEF TypeOK, Copies
<1>2. \A t \in Threads :
        coll'[t][q] = coll[t][q] /\ (Withheld(touched, pc, t, q) => Withheld(touched', pc', t, q))
  BY DEF Withheld
<1> QED BY <1>1, <1>2, HeldDrops DEF HeldNow

\* A packet adds no more to it than it adds to what was matched.
LEMMA ReceiveHeld ==
  ASSUME TypeOK, TypeOK', NEW x \in Threads, NEW p \in Protos, NEW pkt \in Packets,
         Receive(x, p, pkt), NEW q \in Protos, NEW k \in Key, NEW m \in Metric
  PROVE  \E more \in Nat :
           /\ matched'[q][k][m] = matched[q][k][m] + more
           /\ HeldNow(q, k, m)' <= HeldNow(q, k, m) + more
<1> DEFINE b == coll[x][p]
           more == Cardinality(CountedFor(b, pkt, k)) * Weight(pkt, m)
<1>1. /\ pkt \in Packet /\ coll \in Copies /\ coll' \in Copies
      /\ matched \in [Protos -> [Key -> [Metric -> Nat]]] /\ matched[q][k][m] \in Nat
  <2>1. coll \in Copies /\ matched \in [Protos -> [Key -> [Metric -> Nat]]]
    BY DEF TypeOK, Copies
  <2>2. coll' \in Copies
    BY DEF TypeOK, Copies
  <2> QED BY <2>1, <2>2, PacketsAssumption
<1>2. /\ b \in Seq(Rule) /\ touched' = touched /\ pc' = pc
      /\ \A t \in Threads, r \in Protos :
           coll'[t][r] = IF t = x /\ r = p THEN CheckList(b, pkt) ELSE coll[t][r]
  BY <1>1 DEF Receive, Copies
<1>3. matched'[q][k][m] = IF q = p THEN matched[q][k][m] + more ELSE matched[q][k][m]
  BY <1>1 DEF Receive, Weight
<1>4. more \in Nat /\ CountIn(CheckList(b, pkt), k, m) <= CountIn(b, k, m) + more
  BY <1>1, <1>2, CountCheck
<1>5. HeldNow(q, k, m) \in Nat
  BY <1>1, HeldFacts DEF HeldNow
<1> HIDE DEF b, more
<1>6. CASE q # p
  <2>1. \A t \in Threads : coll'[t][q] = coll[t][q]
    BY <1>2, <1>6
  <2>2. HeldNow(q, k, m)' <= HeldNow(q, k, m)
    BY <1>1, <1>2, <2>1, HeldDrops DEF HeldNow
  <2>3. HeldNow(q, k, m) + 0 = HeldNow(q, k, m) /\ matched[q][k][m] + 0 = matched[q][k][m]
    BY <1>1, <1>5
  <2>4. /\ matched'[q][k][m] = matched[q][k][m] + 0
        /\ HeldNow(q, k, m)' <= HeldNow(q, k, m) + 0
    BY <1>3, <1>6, <2>2, <2>3
  <2> QED BY <2>4
<1>7. CASE q = p
  <2> DEFINE f == Held(coll, touched, pc, q, k, m)[x]
             g == Held(coll', touched, pc, q, k, m)[x]
             h == HeldSum(coll', touched, pc, q, k, m)
  <2>1. h = HeldNow(q, k, m) - f + g
    <3>1. \A t \in Threads \ {x} : coll'[t][q] = coll[t][q]
      BY <1>2
    <3> QED BY <1>1, <3>1, HeldChange DEF HeldNow
  <2>2. /\ f \in Nat /\ g \in Nat /\ h \in Nat /\ CountIn(b, k, m) \in Nat
        /\ CountIn(coll'[x][q], k, m) \in Nat
        /\ f = IF Withheld(touched, pc, x, q) THEN 0 ELSE CountIn(b, k, m)
        /\ g = IF Withheld(touched, pc, x, q) THEN 0 ELSE CountIn(coll'[x][q], k, m)
    BY <1>1, <1>7, HeldFacts DEF b
  <2>3. coll'[x][q] = CheckList(b, pkt)
    BY <1>2, <1>7
  <2>4. HeldNow(q, k, m)' = h
    BY <1>2 DEF HeldNow
  <2> HIDE DEF f, g, h
  <2>5. g <= f + more
    BY <1>4, <2>2, <2>3
  <2>6. h <= HeldNow(q, k, m) + more
    BY <1>4, <1>5, <2>1, <2>2, <2>5
  <2> QED BY <1>3, <1>4, <1>7, <2>4, <2>6
<1> QED BY <1>6, <1>7

\* A list that was edited during the pass was touched.
EditedInv ==
  pc.at \in {"compare", "sync", "add", "delta"} => edited \subseteq touched

\* The threads hold no more than was matched.
HeldInv ==
  pc.at # "dead" =>
    \A p \in Protos, k \in Key, m \in Metric : HeldNow(p, k, m) <= matched[p][k][m]

\* What main_collect counted for a rule since the list was saved to
\* prev_collect, with what is still to come from the threads, was matched.
Growth(list, old, i, m) == (list[i].count[m] + Word - old[i].count[m]) % Word

Covers(had, held, list, old) ==
  /\ SameRules(list, old)
  /\ \A i \in DOMAIN list, m \in Metric :
       Growth(list, old, i, m) + held[list[i].key][m] <= had[list[i].key][m]

HeldBy(c, tc, w, p) == [k \in Key |-> [m \in Metric |-> HeldSum(c, tc, w, p, k, m)]]

Backed(p) == Covers(matched[p], HeldBy(coll, touched, pc, p), main[p], prev[p])

GrownInv ==
  pc.at # "dead" =>
    \A p \in Protos \ touched : (pc.at = "copy" /\ p >= pc.pr) \/ Backed(p)

LEMMA NextEdited == IInv /\ EditedInv /\ [Next]_vars => EditedInv'
<1> SUFFICES ASSUME IInv, EditedInv, [Next]_vars PROVE EditedInv'
  OBVIOUS
<1> USE DEF IInv, control, history
<1>1. pc \in Position /\ pc.pr \in Nat /\ NProtos \in Nat
  BY ProtoFacts, NProtosAssumption DEF TypeOK, Position
<1>2. CASE WatcherStep
  <2>1. CASE CopyPrev
    BY <1>1, <2>1, NextListFacts DEF CopyPrev, EditedInv
  <2>2. CASE Compare \/ Sync \/ Add \/ AddThrows \/ Delta
    <3>1. pc.at \in {"compare", "sync", "add", "delta"} /\ edited' = edited /\ touched \subseteq touched'
      BY <2>2 DEF Compare, Sync, Add, AddThrows, Delta
    <3> QED BY <3>1 DEF EditedInv
  <2>3. CASE SavePrev
    BY <1>1, <2>3, NextListFacts DEF SavePrev, EditedInv
  <2>4. CASE Check
    BY <1>1, <2>4, NextListFacts DEF Check, EditedInv
  <2>5. CASE Gate \/ Adopt \/ Sleep
    BY <2>5 DEF Gate, Adopt, Sleep, Goto, EditedInv
  <2> QED BY <1>2, <2>1, <2>2, <2>3, <2>4, <2>5 DEF WatcherStep
<1>3. CASE \E t \in Threads, p \in Protos, pkt \in Packets : Receive(t, p, pkt)
  BY <1>3 DEF Receive, EditedInv
<1>4. CASE Commands
  BY <1>4 DEF Commands, CommandAdd, CommandDel, CommandInsert, Command, Edit, EditedInv
<1>5. CASE LoaderStep \/ \E keys \in FileLists : ReadFile(keys)
  BY <1>5 DEF LoaderStep, AssignList, StampChange, ReadFile, Edit, EditedInv
<1>6. CASE UNCHANGED vars
  BY <1>6 DEF vars, EditedInv
<1> QED BY <1>2, <1>3, <1>4, <1>5, <1>6 DEF Next, Commands

LEMMA Numbers ==
  ASSUME TypeOK, NEW p \in Protos, NEW k \in Key, NEW m \in Metric
  PROVE  HeldNow(p, k, m) \in Nat /\ matched[p][k][m] \in Nat
<1>1. coll \in Copies /\ matched \in [Protos -> [Key -> [Metric -> Nat]]]
  BY DEF TypeOK, Copies
<1>2. HeldNow(p, k, m) \in Nat
  BY <1>1, HeldFacts DEF HeldNow
<1> QED BY <1>1, <1>2

LEMMA NextNumbers ==
  ASSUME TypeOK', NEW p \in Protos, NEW k \in Key, NEW m \in Metric
  PROVE  HeldNow(p, k, m)' \in Nat /\ matched'[p][k][m] \in Nat
<1>1. coll' \in Copies /\ matched' \in [Protos -> [Key -> [Metric -> Nat]]]
  BY DEF TypeOK, Copies
<1>2. HeldNow(p, k, m)' \in Nat
  BY <1>1, HeldFacts DEF HeldNow
<1> QED BY <1>1, <1>2

\* What the threads hold grows by no more than what was matched.
LEMMA NextHeldBy ==
  ASSUME IInv, IInv', [Next]_vars, pc'.at # "dead",
         NEW p \in Protos, NEW k \in Key, NEW m \in Metric
  PROVE  /\ pc.at # "dead"
         /\ \E more \in Nat : /\ matched'[p][k][m] = matched[p][k][m] + more
                              /\ HeldNow(p, k, m)' <= HeldNow(p, k, m) + more
<1> USE DEF IInv, control, history
<1>1. TypeOK'
  OBVIOUS
<1>2. /\ matched[p][k][m] \in Nat /\ matched[p][k][m] + 0 = matched[p][k][m]
      /\ HeldNow(p, k, m) \in Nat /\ HeldNow(p, k, m) + 0 = HeldNow(p, k, m)
  <2>1. matched[p][k][m] \in Nat /\ HeldNow(p, k, m) \in Nat
    BY Numbers
  <2> QED BY <2>1
<1>3. ASSUME pc.at # "dead", matched' = matched, HeldNow(p, k, m)' <= HeldNow(p, k, m)
      PROVE  \E more \in Nat : /\ matched'[p][k][m] = matched[p][k][m] + more
                               /\ HeldNow(p, k, m)' <= HeldNow(p, k, m) + more
  <2>1. /\ matched'[p][k][m] = matched[p][k][m] + 0
        /\ HeldNow(p, k, m)' <= HeldNow(p, k, m) + 0
    BY <1>2, <1>3
  <2> QED BY <2>1
<1>4. CASE WatcherStep
  <2>1. pc.at # "dead" /\ matched' = matched
    BY <1>4 DEF WatcherStep, CopyPrev, Compare, Sync, Add, AddThrows, Delta, SavePrev,
                Gate, Adopt, Check, Sleep
  <2>2. HeldNow(p, k, m)' <= HeldNow(p, k, m)
    BY <1>1, <1>4, WatcherHeld
  <2> QED BY <1>3, <2>1, <2>2
<1>5. CASE \E t \in Threads, q \in Protos, pkt \in Packets : Receive(t, q, pkt)
  <2>1. PICK t \in Threads, q \in Protos, pkt \in Packets : Receive(t, q, pkt)
    BY <1>5
  <2>2. pc.at # "dead"
    BY <2>1 DEF Receive, Running
  <2> QED BY <1>1, <2>1, <2>2, ReceiveHeld
<1>6. CASE Commands \/ LoaderStep \/ \E keys \in FileLists : ReadFile(keys)
  <2>1. /\ pc.at # "dead" /\ UNCHANGED <<coll, pc, matched>> /\ touched \subseteq touched'
    <3>1. CASE Commands
      BY <3>1 DEF Commands, CommandAdd, CommandDel, CommandInsert, Command, Edit, Running
    <3>2. CASE LoaderStep \/ \E keys \in FileLists : ReadFile(keys)
      BY <3>2 DEF LoaderStep, AssignList, StampChange, ReadFile, Edit, Running
    <3> QED BY <1>6, <3>1, <3>2
  <2> QED BY <1>3, <2>1, OthersHeld
<1>7. CASE UNCHANGED vars
  <2>1. UNCHANGED <<coll, pc, matched, touched>>
    BY <1>7 DEF vars
  <2> QED BY <1>3, <2>1, OthersHeld
<1> QED BY <1>4, <1>5, <1>6, <1>7 DEF Next, Commands

LEMMA NextHeld == IInv /\ IInv' /\ HeldInv /\ [Next]_vars => HeldInv'
<1> SUFFICES ASSUME IInv, IInv', HeldInv, [Next]_vars, pc'.at # "dead",
                    NEW p \in Protos, NEW k \in Key, NEW m \in Metric
             PROVE  HeldNow(p, k, m)' <= matched'[p][k][m]
  BY DEF HeldInv
<1>1. PICK more \in Nat : /\ matched'[p][k][m] = matched[p][k][m] + more
                          /\ HeldNow(p, k, m)' <= HeldNow(p, k, m) + more
  BY NextHeldBy
<1>2. HeldNow(p, k, m) <= matched[p][k][m]
  BY NextHeldBy DEF HeldInv
<1>3. HeldNow(p, k, m) \in Nat /\ matched[p][k][m] \in Nat
  BY Numbers DEF IInv
<1>4. HeldNow(p, k, m)' \in Nat
  BY NextNumbers DEF IInv
<1> QED BY <1>1, <1>2, <1>3, <1>4

\* The growth of a counter that does not change, and of one that is added to.
LEMMA NoGrowth ==
  ASSUME NEW a \in 0 .. Word - 1
  PROVE  (a + Word - a) % Word = 0
<1>1. Word \in Nat \ {0} /\ a + Word - a = Word
  BY WordAssumption
<1> QED BY <1>1

LEMMA GrowthAdds ==
  ASSUME NEW a \in 0 .. Word - 1, NEW b \in 0 .. Word - 1, NEW c \in 0 .. Word - 1
  PROVE  (((a + c) % Word) + Word - b) % Word <= ((a + Word - b) % Word) + c
<1>1. Word \in Nat \ {0} /\ a \in Int /\ b \in Int /\ c \in Int /\ b < Word /\ c >= 0
  BY WordAssumption
<1>2. PICK s \in Int, d \in Int, e \in Int : s = a + c /\ d = Word - b /\ e = a + Word - b
  BY <1>1
<1>3. PICK x \in Int : x = s % Word /\ Congruent(x, s, Word)
  BY <1>1, CongruentMod
<1>4. PICK g \in Int : g = e % Word /\ Congruent(g, e, Word)
  BY <1>1, CongruentMod
<1>5. Congruent(d, d, Word) /\ Congruent(c, c, Word)
  BY DEF Congruent
<1>6. PICK y \in Int, z \in Int, w \in Int : y = x + d /\ z = s + d /\ w = g + c
  BY <1>1
<1>7. Congruent(y, z, Word)
  BY <1>1, <1>3, <1>5, <1>6, CongruentPlus
<1>8. e + c = z
  BY <1>1, <1>2, <1>6
<1>9. Congruent(w, z, Word)
  <2>1. Congruent(g + c, e + c, Word)
    BY <1>1, <1>4, <1>5, CongruentPlus
  <2> QED BY <1>6, <1>8, <2>1
<1>10. y % Word = w % Word
  BY <1>7, <1>9 DEF Congruent
<1>11. g >= 0 /\ w \in Nat
  BY <1>1, <1>4, <1>6
<1>12. w % Word <= w
  BY <1>1, <1>11, ModLe
<1>13. ((a + c) % Word) + Word - b = y
  BY <1>1, <1>2, <1>3, <1>6
<1> QED BY <1>2, <1>4, <1>6, <1>10, <1>12, <1>13

PerKey == [Key -> [Metric -> Nat]]

LEMMA CounterRange ==
  ASSUME NEW list \in Seq(Rule), NEW i \in DOMAIN list, NEW m \in Metric
  PROVE  /\ list[i] \in Rule /\ list[i].key \in Key
         /\ list[i].count[m] \in 0 .. Word - 1 /\ list[i].rate[m] \in 0 .. Word - 1
<1>1. list[i] \in Rule
  BY LenProperties
<1> QED BY <1>1 DEF Rule, Counter

LEMMA GrowthType ==
  ASSUME NEW list \in Seq(Rule), NEW old \in Seq(Rule), SameRules(list, old),
         NEW i \in DOMAIN list, NEW m \in Metric
  PROVE  Growth(list, old, i, m) \in 0 .. Word - 1
<1>1. i \in DOMAIN old
  BY SameRulesFacts
<1>2. list[i].count[m] \in 0 .. Word - 1 /\ old[i].count[m] \in 0 .. Word - 1
  BY <1>1, CounterRange
<1> QED BY <1>2, WrappedDifference DEF Growth

\* The threads come to hold no more than was matched in the meantime.
Gains(had, held, have, hold) ==
  \A k \in Key, m \in Metric :
    \E more \in Nat : have[k][m] = had[k][m] + more /\ hold[k][m] <= held[k][m] + more

SameCounts(new, list) ==
  KeysOf(new) = KeysOf(list) /\ \A i \in DOMAIN list : new[i].count = list[i].count

\* What is so of a list stays so when neither it nor its copy counts.
LEMMA CoversKeeps ==
  ASSUME NEW had \in PerKey, NEW held \in PerKey, NEW have \in PerKey, NEW hold \in PerKey,
         NEW list \in Seq(Rule), NEW old \in Seq(Rule), NEW new \in Seq(Rule),
         Covers(had, held, list, old), SameCounts(new, list), Gains(had, held, have, hold)
  PROVE  Covers(have, hold, new, old)
<1>1. DOMAIN new = DOMAIN list /\ \A i \in DOMAIN list : new[i].key = list[i].key
  BY SameRulesFacts DEF SameRules, SameCounts
<1>2. SameRules(list, old) /\ SameRules(new, old)
  BY DEF Covers, SameRules, SameCounts
<1>3. ASSUME NEW i \in DOMAIN list, NEW m \in Metric
      PROVE  Growth(new, old, i, m) + hold[list[i].key][m] <= have[list[i].key][m]
  <2>1. PICK k \in Key : k = list[i].key
    BY CounterRange
  <2>2. PICK g \in 0 .. Word - 1 : g = Growth(list, old, i, m)
    BY <1>2, GrowthType
  <2>3. Growth(new, old, i, m) = g
    BY <2>2 DEF Growth, SameCounts
  <2>4. g + held[k][m] <= had[k][m]
    BY <2>1, <2>2 DEF Covers
  <2>5. PICK more \in Nat : have[k][m] = had[k][m] + more /\ hold[k][m] <= held[k][m] + more
    BY <2>1 DEF Gains
  <2>6. PICK x \in Nat, y \in Nat, z \in Nat :
          x = held[k][m] /\ y = had[k][m] /\ z = hold[k][m]
    BY DEF PerKey
  <2>7. g + x <= y /\ z <= x + more /\ g \in Int
    BY <2>2, <2>4, <2>5, <2>6
  <2>8. g + z <= y + more
    BY <2>7
  <2> QED BY <2>1, <2>3, <2>5, <2>6, <2>8
<1> QED BY <1>1, <1>2, <1>3 DEF Covers

\* It is so of a list that was just saved.
LEMMA CoversFresh ==
  ASSUME NEW had \in PerKey, NEW held \in PerKey, NEW list \in Seq(Rule),
         \A k \in Key, m \in Metric : held[k][m] <= had[k][m]
  PROVE  Covers(had, held, list, list)
<1>1. ASSUME NEW i \in DOMAIN list, NEW m \in Metric
      PROVE  Growth(list, list, i, m) + held[list[i].key][m] <= had[list[i].key][m]
  <2>1. PICK k \in Key : k = list[i].key
    BY CounterRange
  <2>2. list[i].count[m] \in 0 .. Word - 1
    BY CounterRange
  <2>3. Growth(list, list, i, m) = 0
    BY <2>2, NoGrowth DEF Growth
  <2>4. held[k][m] \in Nat /\ held[k][m] <= had[k][m]
    BY <2>1 DEF PerKey
  <2>5. 0 + held[k][m] <= had[k][m]
    BY <2>4
  <2> QED BY <2>1, <2>3, <2>5
<1> QED BY <1>1 DEF Covers, SameRules

\* operator+= moves counts from a thread's list to main_collect's.
LEMMA CoversAdd ==
  ASSUME NEW had \in PerKey, NEW held \in PerKey, NEW hold \in PerKey,
         NEW list \in Seq(Rule), NEW old \in Seq(Rule), NEW other \in Seq(Rule),
         Covers(had, held, list, old), SameRules(other, list),
         \A k \in Key, m \in Metric : hold[k][m] = held[k][m] - CountIn(other, k, m)
  PROVE  Covers(had, hold, AddCounters(list, other), old)
<1>1. /\ DOMAIN other = DOMAIN list /\ Len(other) = Len(list) /\ SameRules(list, old)
      /\ \A i \in DOMAIN list : other[i].key = list[i].key
  BY SameRulesFacts DEF Covers
<1>2. PICK new \in Seq(Rule) : new = AddCounters(list, other)
  BY <1>1, AddCountersType
<1>3. KeysOf(new) = KeysOf(list)
  BY <1>1, <1>2, AddCountersType
<1>4. DOMAIN new = DOMAIN list /\ \A i \in DOMAIN list : new[i].key = list[i].key
  BY <1>3, SameRulesFacts DEF SameRules
<1>5. SameRules(new, old)
  BY <1>1, <1>3 DEF SameRules
<1>6. DOMAIN old = DOMAIN list
  BY <1>1, SameRulesFacts
<1>7. ASSUME NEW i \in DOMAIN list, NEW m \in Metric
      PROVE  Growth(new, old, i, m) + hold[list[i].key][m] <= had[list[i].key][m]
  <2>1. PICK k \in Key : k = list[i].key
    BY CounterRange
  <2>2. PICK a \in 0 .. Word - 1, b \in 0 .. Word - 1, o \in 0 .. Word - 1 :
          a = list[i].count[m] /\ b = other[i].count[m] /\ o = old[i].count[m]
    BY <1>1, <1>6, CounterRange
  <2>3. new[i].count[m] = (a + b) % Word
    BY <1>1, <1>2, <2>2, AddCountersCounts
  <2>4. PICK g \in 0 .. Word - 1 : g = Growth(list, old, i, m)
    BY <1>1, GrowthType
  <2>5. PICK h \in 0 .. Word - 1 : h = Growth(new, old, i, m)
    BY <1>4, <1>5, GrowthType
  <2>6. h <= g + b
    <3>1. g = (a + Word - o) % Word /\ h = (((a + b) % Word) + Word - o) % Word
      BY <2>2, <2>3, <2>4, <2>5 DEF Growth
    <3> QED BY <3>1, GrowthAdds
  <2>7. PICK v \in Nat : v = CountIn(other, k, m) /\ b <= v
    BY <1>1, <2>1, <2>2, CountMember, CountType
  <2>8. hold[k][m] = held[k][m] - v /\ g + held[k][m] <= had[k][m]
    BY <2>1, <2>4, <2>7 DEF Covers
  <2>9. PICK x \in Nat, y \in Nat : x = held[k][m] /\ y = had[k][m]
    BY DEF PerKey
  <2>10. g + x <= y
    BY <2>8, <2>9
  <2>11. h + (x - v) <= y
    <3>1. g \in Int /\ h \in Int /\ b \in Int
      OBVIOUS
    <3> QED BY <2>6, <2>7, <2>10, <3>1
  <2> QED BY <2>1, <2>5, <2>8, <2>9, <2>11
<1> QED BY <1>2, <1>4, <1>5, <1>7 DEF Covers

LEMMA HeldByType ==
  ASSUME NEW c \in Copies, NEW tc, NEW w, NEW p \in Protos
  PROVE  HeldBy(c, tc, w, p) \in PerKey
  BY HeldFacts DEF HeldBy, PerKey

\* The threads hold what HeldBy says, before a step and after it.
LEMMA BackedTypes ==
  ASSUME TypeOK, NEW p \in Protos
  PROVE  /\ matched[p] \in PerKey /\ HeldBy(coll, touched, pc, p) \in PerKey
         /\ main[p] \in Seq(Rule) /\ prev[p] \in Seq(Rule)
         /\ \A k \in Key, m \in Metric : HeldBy(coll, touched, pc, p)[k][m] = HeldNow(p, k, m)
<1>1. coll \in Copies
  BY DEF TypeOK, Copies
<1>2. HeldBy(coll, touched, pc, p) \in PerKey
  BY <1>1, HeldByType
<1>3. \A k \in Key, m \in Metric : HeldBy(coll, touched, pc, p)[k][m] = HeldNow(p, k, m)
  BY DEF HeldBy, HeldNow
<1>4. matched[p] \in PerKey /\ main[p] \in Seq(Rule) /\ prev[p] \in Seq(Rule)
  BY DEF TypeOK, PerKey
<1> QED BY <1>2, <1>3, <1>4

LEMMA NextBackedTypes ==
  ASSUME TypeOK', NEW p \in Protos
  PROVE  /\ matched'[p] \in PerKey /\ HeldBy(coll', touched', pc', p) \in PerKey
         /\ main'[p] \in Seq(Rule) /\ prev'[p] \in Seq(Rule)
         /\ \A k \in Key, m \in Metric : HeldBy(coll', touched', pc', p)[k][m] = HeldNow(p, k, m)'
<1>1. coll' \in Copies
  BY DEF TypeOK, Copies
<1>2. HeldBy(coll', touched', pc', p) \in PerKey
  BY <1>1, HeldByType
<1>3. \A k \in Key, m \in Metric : HeldBy(coll', touched', pc', p)[k][m] = HeldNow(p, k, m)'
  BY DEF HeldBy, HeldNow
<1>4. matched'[p] \in PerKey /\ main'[p] \in Seq(Rule) /\ prev'[p] \in Seq(Rule)
  BY DEF TypeOK, PerKey
<1> QED BY <1>2, <1>3, <1>4

LEMMA BackedKeeps ==
  ASSUME IInv, IInv', [Next]_vars, pc'.at # "dead", NEW p \in Protos, Backed(p),
         prev'[p] = prev[p], KeysOf(main'[p]) = KeysOf(main[p]),
         \A i \in DOMAIN main[p] : main'[p][i].count = main[p][i].count
  PROVE  Backed(p)'
<1> DEFINE had == matched[p]
           held == HeldBy(coll, touched, pc, p)
           have == matched'[p]
           hold == HeldBy(coll', touched', pc', p)
<1>1. TypeOK /\ TypeOK'
  BY DEF IInv
<1>2. /\ had \in PerKey /\ held \in PerKey /\ main[p] \in Seq(Rule) /\ prev[p] \in Seq(Rule)
      /\ \A k \in Key, m \in Metric : held[k][m] = HeldNow(p, k, m)
  BY <1>1, BackedTypes
<1>3. /\ have \in PerKey /\ hold \in PerKey /\ main'[p] \in Seq(Rule)
      /\ \A k \in Key, m \in Metric : hold[k][m] = HeldNow(p, k, m)'
  BY <1>1, NextBackedTypes
<1>4. Gains(had, held, have, hold)
  <2> SUFFICES ASSUME NEW k \in Key, NEW m \in Metric
               PROVE  \E more \in Nat : have[k][m] = had[k][m] + more
                                        /\ hold[k][m] <= held[k][m] + more
    BY DEF Gains
  <2>1. PICK more \in Nat : /\ matched'[p][k][m] = matched[p][k][m] + more
                            /\ HeldNow(p, k, m)' <= HeldNow(p, k, m) + more
    BY NextHeldBy
  <2>2. held[k][m] = HeldNow(p, k, m) /\ hold[k][m] = HeldNow(p, k, m)'
    BY <1>2, <1>3
  <2> HIDE DEF held, hold
  <2> QED BY <2>1, <2>2
<1>5. Covers(had, held, main[p], prev[p])
  BY DEF Backed
<1>6. SameCounts(main'[p], main[p])
  BY DEF SameCounts
<1> HIDE DEF had, held, have, hold
<1>7. Covers(have, hold, main'[p], prev[p])
  BY <1>2, <1>3, <1>4, <1>5, <1>6, CoversKeeps
<1> QED BY <1>7 DEF have, hold, Backed

LEMMA BackedFresh ==
  ASSUME TypeOK', HeldInv', pc'.at # "dead", NEW p \in Protos, main'[p] = prev'[p]
  PROVE  Backed(p)'
<1> DEFINE have == matched'[p]
           hold == HeldBy(coll', touched', pc', p)
<1>1. /\ have \in PerKey /\ hold \in PerKey /\ main'[p] \in Seq(Rule)
      /\ \A k \in Key, m \in Metric : hold[k][m] = HeldNow(p, k, m)'
  BY NextBackedTypes
<1>2. \A k \in Key, m \in Metric : HeldNow(p, k, m)' <= have[k][m]
  BY DEF HeldInv
<1>3. \A k \in Key, m \in Metric : hold[k][m] <= have[k][m]
  <2> HIDE DEF have, hold
  <2> QED BY <1>1, <1>2
<1> HIDE DEF have, hold
<1>4. Covers(have, hold, main'[p], main'[p])
  BY <1>1, <1>3, CoversFresh
<1> QED BY <1>4 DEF have, hold, Backed

\* operator+= takes from what the threads hold what the list counted.
LEMMA HeldReset ==
  ASSUME NEW c \in Copies, NEW d \in Copies, NEW tc, NEW w, NEW v, NEW x \in Threads,
         NEW p \in Protos, NEW k, NEW m \in Metric, p \notin tc,
         \A t \in Threads : d[t][p] = IF t = x THEN ResetCounters(c[x][p]) ELSE c[t][p]
  PROVE  HeldSum(d, tc, v, p, k, m) = HeldSum(c, tc, w, p, k, m) - CountIn(c[x][p], k, m)
<1> DEFINE f == Held(c, tc, w, p, k, m)
           g == Held(d, tc, v, p, k, m)
<1>1. \A t \in Threads \ {x} :
        d[t][p] = c[t][p] /\ (Withheld(tc, w, t, p) <=> Withheld(tc, v, t, p))
  BY DEF Withheld
<1>2. HeldSum(d, tc, v, p, k, m) = HeldSum(c, tc, w, p, k, m) - f[x] + g[x]
  BY <1>1, HeldChange
<1>3. c[x][p] \in Seq(Rule) /\ ~Withheld(tc, w, x, p) /\ ~Withheld(tc, v, x, p)
  BY DEF Withheld, Copies
<1>4. f[x] = CountIn(c[x][p], k, m) /\ f[x] \in Nat
  BY <1>3, HeldFacts
<1>5. g[x] = CountIn(ResetCounters(c[x][p]), k, m)
  BY <1>3, HeldFacts
<1>6. g[x] = 0
  BY <1>3, <1>5, CountReset
<1>7. HeldSum(c, tc, w, p, k, m) \in Nat
  BY HeldFacts
<1> HIDE DEF f, g
<1> QED BY <1>2, <1>4, <1>6, <1>7

LEMMA BackedAdd ==
  ASSUME TypeOK, TypeOK', Add, NEW p \in Protos, p = pc.pr, SameAsMain(pc.th, p),
         p \notin touched, Backed(p)
  PROVE  Backed(p)'
<1>1. PICK x \in Threads : x = pc.th
  BY DEF TypeOK, Position
<1> DEFINE b == coll[x][p]
           held == HeldBy(coll, touched, pc, p)
           hold == HeldBy(coll', touched', pc', p)
<1>2. /\ matched[p] \in PerKey /\ held \in PerKey /\ main[p] \in Seq(Rule) /\ prev[p] \in Seq(Rule)
      /\ \A k \in Key, m \in Metric : held[k][m] = HeldNow(p, k, m)
  BY BackedTypes
<1>3. /\ hold \in PerKey
      /\ \A k \in Key, m \in Metric : hold[k][m] = HeldNow(p, k, m)'
  BY NextBackedTypes
<1>4. coll \in Copies /\ b \in Seq(Rule) /\ SameRules(b, main[p])
  <2>1. coll \in Copies
    BY DEF TypeOK, Copies
  <2>2. b \in Seq(Rule)
    BY <2>1 DEF Copies
  <2>3. SameRules(b, main[p])
    BY <1>1 DEF SameAsMain
  <2> QED BY <2>1, <2>2, <2>3
<1>5. coll' \in Copies
  BY DEF TypeOK, Copies
<1>6. /\ main'[p] = AddCounters(main[p], b) /\ prev' = prev /\ matched' = matched
      /\ touched' = touched
      /\ \A t \in Threads : coll'[t][p] = IF t = x THEN ResetCounters(b) ELSE coll[t][p]
  BY <1>1, <1>4 DEF Add, Copies, TypeOK
<1>7. ASSUME NEW k \in Key, NEW m \in Metric
      PROVE  HeldNow(p, k, m)' = HeldNow(p, k, m) - CountIn(b, k, m)
  <2>1. coll \in Copies /\ coll' \in Copies
    BY <1>4, <1>5
  <2>2. \A t \in Threads :
          coll'[t][p] = IF t = x THEN ResetCounters(coll[x][p]) ELSE coll[t][p]
    BY <1>6
  <2>3. HeldSum(coll', touched, pc', p, k, m) =
          HeldSum(coll, touched, pc, p, k, m) - CountIn(coll[x][p], k, m)
    BY <2>1, <2>2, HeldReset
  <2> QED BY <1>6, <2>3 DEF HeldNow
<1>8. \A k \in Key, m \in Metric : hold[k][m] = held[k][m] - CountIn(b, k, m)
  <2> HIDE DEF held, hold, b
  <2> QED BY <1>2, <1>3, <1>7
<1>9. Covers(matched[p], held, main[p], prev[p])
  BY DEF Backed
<1> HIDE DEF held, hold, b
<1>10. Covers(matched[p], hold, AddCounters(main[p], b), prev[p])
  BY <1>2, <1>3, <1>4, <1>8, <1>9, CoversAdd
<1> QED BY <1>6, <1>10 DEF hold, Backed

\* Nothing happens any more once the watcher is dead.
LEMMA DeadStays ==
  ASSUME pc.at = "dead", [Next]_vars
  PROVE  pc'.at = "dead"
<1>1. CASE WatcherStep
  BY <1>1 DEF WatcherStep, CopyPrev, Compare, Sync, Add, AddThrows, Delta, SavePrev, Gate,
              Adopt, Check, Sleep
<1>2. CASE Commands \/ \E t \in Threads, p \in Protos, pkt \in Packets : Receive(t, p, pkt)
  BY <1>2 DEF Commands, CommandAdd, CommandDel, CommandInsert, Command, Receive, Running
<1>3. CASE LoaderStep \/ \E keys \in FileLists : ReadFile(keys)
  BY <1>3 DEF LoaderStep, AssignList, StampChange, ReadFile, Running
<1>4. CASE UNCHANGED vars
  BY <1>4 DEF vars
<1> QED BY <1>1, <1>2, <1>3, <1>4 DEF Next, Commands

LEMMA NextGrown ==
  IInv /\ IInv' /\ EditedInv /\ HeldInv' /\ GrownInv /\ [Next]_vars => GrownInv'
<1> SUFFICES ASSUME IInv, IInv', EditedInv, HeldInv', GrownInv, [Next]_vars, pc'.at # "dead",
                    NEW p \in Protos, p \notin touched', ~(pc'.at = "copy" /\ p >= pc'.pr)
             PROVE  Backed(p)'
  BY DEF GrownInv
<1>1. TypeOK /\ TypeOK'
  BY DEF IInv
<1>2. pc.at # "dead"
  BY DeadStays
<1>3. ASSUME p \notin touched, ~(pc.at = "copy" /\ p >= pc.pr),
             prev'[p] = prev[p], SameCounts(main'[p], main[p])
      PROVE  Backed(p)'
  <2>1. Backed(p)
    BY <1>2, <1>3 DEF GrownInv
  <2> QED BY <1>3, <2>1, BackedKeeps DEF SameCounts
<1>4. main'[p] = main[p] => SameCounts(main'[p], main[p])
  BY DEF SameCounts
<1>5. pc.pr \in Protos /\ pc.pr \in Nat /\ p \in Nat /\ NProtos \in Nat /\ p <= NProtos
  BY <1>1, ProtoFacts, NProtosAssumption DEF TypeOK, Position
<1>6. CASE WatcherStep
  <2>1. CASE CopyPrev
    <3>1. /\ pc.at = "copy" /\ main' = main /\ touched' = touched \ {pc.pr}
          /\ \A q \in Protos : prev'[q] = IF q = pc.pr THEN main[q] ELSE prev[q]
      BY <1>1, <1>5, <2>1 DEF CopyPrev, TypeOK
    <3>2. pc.pr < NProtos => pc'.at = "copy" /\ pc'.pr = pc.pr + 1
      BY <2>1 DEF CopyPrev, NextList, Goto
    <3>3. CASE p = pc.pr
      BY <1>1, <3>1, <3>3, BackedFresh
    <3>4. CASE p # pc.pr
      <4>1. p < pc.pr
        BY <1>5, <3>2, <3>4
      <4> QED BY <1>3, <1>4, <1>5, <3>1, <3>4, <4>1
    <3> QED BY <3>3, <3>4
  <2>2. CASE SavePrev
    <3>1. /\ pc.at = "save" /\ main' = main /\ touched' = touched \ {pc.pr}
          /\ \A q \in Protos : prev'[q] = IF q = pc.pr THEN main[q] ELSE prev[q]
      BY <1>1, <1>5, <2>2 DEF SavePrev, TypeOK
    <3>2. CASE p = pc.pr
      BY <1>1, <3>1, <3>2, BackedFresh
    <3>3. CASE p # pc.pr
      BY <1>3, <1>4, <3>1, <3>3
    <3> QED BY <3>2, <3>3
  <2>3. CASE Add
    <3>1. /\ pc.at = "add" /\ prev' = prev /\ touched' = touched
          /\ \A q \in Protos \ {pc.pr} : main'[q] = main[q]
      BY <1>1, <2>3 DEF Add, TypeOK
    <3>2. CASE p = pc.pr
      <4>1. p \notin touched /\ p \notin dirty
        BY <3>1 DEF IInv, SyncInv, EditedInv
      <4>2. SameAsMain(pc.th, p)
        BY <3>1, <4>1 DEF IInv, SyncInv
      <4>3. Backed(p)
        BY <1>2, <3>1, <4>1 DEF GrownInv
      <4> QED BY <1>1, <2>3, <3>2, <4>1, <4>2, <4>3, BackedAdd
    <3>3. CASE p # pc.pr
      BY <1>3, <1>4, <3>1, <3>3
    <3> QED BY <3>2, <3>3
  <2>4. CASE Delta \/ Check
    <3>1. SameCounts(main'[p], main[p])
      BY <1>1, <2>4, DeltaFacts, CheckFacts DEF KeepsCounts, SameCounts
    <3>2. pc.at # "copy" /\ prev' = prev /\ touched' = touched
      BY <2>4 DEF Delta, Check
    <3> QED BY <1>3, <3>1, <3>2
  <2>5. CASE Compare \/ Sync \/ AddThrows \/ Gate \/ Adopt \/ Sleep
    <3>1. pc.at # "copy" /\ main' = main /\ prev' = prev /\ touched \subseteq touched'
      BY <2>5 DEF Compare, Sync, AddThrows, Gate, Adopt, Sleep, history
    <3> QED BY <1>3, <1>4, <3>1
  <2> QED BY <1>6, <2>1, <2>2, <2>3, <2>4, <2>5 DEF WatcherStep
<1>7. CASE Commands
  <2>1. PICK q \in Protos, list \in Seq(Rule) : Command(q, list)
    BY <1>1, <1>7, CommandFacts
  <2>2. /\ pc' = pc /\ prev' = prev /\ touched' = touched \cup {q}
        /\ \A r \in Protos \ {q} : main'[r] = main[r]
    BY <1>1, <2>1 DEF Command, Edit, TypeOK
  <2> QED BY <1>3, <1>4, <2>2
<1>8. CASE AssignList
  <2>1. /\ pc' = pc /\ prev' = prev /\ touched' = touched \cup {loader.pr}
        /\ \A r \in Protos \ {loader.pr} : main'[r] = main[r]
    BY <1>1, <1>8 DEF AssignList, Edit, TypeOK
  <2> QED BY <1>3, <1>4, <2>1
<1>9. CASE StampChange \/ (\E keys \in FileLists : ReadFile(keys))
           \/ \E t \in Threads, q \in Protos, pkt \in Packets : Receive(t, q, pkt)
  <2>1. UNCHANGED <<pc, main, prev, touched>>
    BY <1>9 DEF StampChange, ReadFile, Receive, history
  <2> QED BY <1>3, <1>4, <2>1
<1>10. CASE UNCHANGED vars
  <2>1. UNCHANGED <<pc, main, prev, touched>>
    BY <1>10 DEF vars, history
  <2> QED BY <1>3, <1>4, <2>1
<1> QED BY <1>6, <1>7, <1>8, <1>9, <1>10 DEF Next, Commands, LoaderStep

\* No rate of the list is above what was matched for its rule.
Rates(had, list) ==
  \A i \in DOMAIN list, m \in Metric : list[i].rate[m] <= had[list[i].key][m]

RuleWithin(had) == {r \in Rule : \A m \in Metric : r.rate[m] <= had[r.key][m]}

RateInv ==
  /\ \A p \in Protos \ suspect : Rates(matched[p], main[p])
  /\ \A p \in Protos : \A i \in DOMAIN loader.buff[p] : loader.buff[p][i].rate = Zero

\* Alarms are those of the pass.
AlarmInv == pc.at \notin {"check", "sleep"} => alarms = {}

LEMMA RatesSeq ==
  ASSUME NEW list \in Seq(Rule), NEW had
  PROVE  Rates(had, list) <=> list \in Seq(RuleWithin(had))
<1>1. /\ DOMAIN list = 1 .. Len(list) /\ Len(list) \in Nat /\ list \in [1 .. Len(list) -> Rule]
      /\ \A i \in DOMAIN list : list[i] \in Rule
  BY LenProperties
<1>2. ASSUME Rates(had, list) PROVE list \in Seq(RuleWithin(had))
  <2>1. \A i \in DOMAIN list : list[i] \in RuleWithin(had)
    BY <1>1, <1>2 DEF Rates, RuleWithin
  <2>2. list \in [1 .. Len(list) -> RuleWithin(had)]
    BY <1>1, <2>1
  <2> QED BY <1>1, <2>2, SeqDef
<1>3. ASSUME list \in Seq(RuleWithin(had)) PROVE Rates(had, list)
  <2>1. \A i \in DOMAIN list : list[i] \in RuleWithin(had)
    BY <1>3, LenProperties
  <2> QED BY <2>1 DEF Rates, RuleWithin
<1> QED BY <1>2, <1>3

LEMMA RatesKeep ==
  ASSUME NEW had \in PerKey, NEW have \in PerKey, NEW list \in Seq(Rule), NEW new \in Seq(Rule),
         KeysOf(new) = KeysOf(list), \A i \in DOMAIN list : new[i].rate = list[i].rate,
         \A k \in Key, m \in Metric : had[k][m] <= have[k][m], Rates(had, list)
  PROVE  Rates(have, new)
<1>1. DOMAIN new = DOMAIN list /\ \A i \in DOMAIN list : new[i].key = list[i].key
  BY SameRulesFacts DEF SameRules
<1>2. ASSUME NEW i \in DOMAIN list, NEW m \in Metric
      PROVE  new[i].rate[m] <= have[list[i].key][m]
  <2>1. PICK k \in Key, n \in 0 .. Word - 1 : k = list[i].key /\ n = list[i].rate[m]
    BY CounterRange
  <2>2. PICK x \in Nat, y \in Nat : x = had[k][m] /\ y = have[k][m]
    BY DEF PerKey
  <2>3. n <= x /\ x <= y /\ n \in Int
    BY <2>1, <2>2 DEF Rates
  <2>4. n <= y
    BY <2>3
  <2> QED BY <2>1, <2>2, <2>4
<1> QED BY <1>1, <1>2 DEF Rates

LEMMA RatesNew ==
  ASSUME NEW had \in PerKey, NEW list \in Seq(Rule), \A i \in DOMAIN list : list[i].rate = Zero
  PROVE  Rates(had, list)
<1>1. ASSUME NEW i \in DOMAIN list, NEW m \in Metric
      PROVE  list[i].rate[m] <= had[list[i].key][m]
  <2>1. PICK k \in Key : k = list[i].key
    BY CounterRange
  <2>2. list[i].rate[m] = 0
    BY DEF Zero
  <2>3. had[k][m] \in Nat
    BY DEF PerKey
  <2> QED BY <2>1, <2>2, <2>3
<1> QED BY <1>1 DEF Rates

\* calc_delta finds no more than what was counted since the copy was made.
LEMMA RatesDelta ==
  ASSUME NEW had \in PerKey, NEW held \in PerKey, NEW list \in Seq(Rule), NEW old \in Seq(Rule),
         Covers(had, held, list, old), NEW time \in Nat \ {0}, NEW wild, NEW new \in Seq(Rule),
         new = CalcDelta(list, old, time, wild), KeysOf(new) = KeysOf(list)
  PROVE  Rates(had, new)
<1>1. DOMAIN new = DOMAIN list /\ \A i \in DOMAIN list : new[i].key = list[i].key
  BY SameRulesFacts DEF SameRules
<1>2. SameRules(list, old) /\ Len(list) = Len(old)
  BY SameRulesFacts DEF Covers
<1>3. ASSUME NEW i \in DOMAIN list, NEW m \in Metric
      PROVE  new[i].rate[m] <= had[list[i].key][m]
  <2>1. PICK k \in Key : k = list[i].key
    BY CounterRange
  <2>2. PICK g \in 0 .. Word - 1 : g = Growth(list, old, i, m)
    BY <1>2, GrowthType
  <2>3. PICK n \in 0 .. Word - 1 : n = new[i].rate[m]
    BY <1>1, CounterRange
  <2>4. n <= g
    BY <1>2, <2>2, <2>3, CalcDeltaRates DEF Growth
  <2>5. PICK x \in Nat, y \in Nat : x = held[k][m] /\ y = had[k][m]
    BY DEF PerKey
  <2>6. g + x <= y
    BY <2>1, <2>2, <2>5 DEF Covers
  <2>7. n \in Int /\ g \in Int
    OBVIOUS
  <2>8. n <= y
    BY <2>4, <2>6, <2>7
  <2> QED BY <2>1, <2>3, <2>5, <2>8
<1> QED BY <1>1, <1>3 DEF Rates

\* What was matched never gets less.
LEMMA MatchedGrows ==
  ASSUME TypeOK, TypeOK', [Next]_vars, NEW p \in Protos, NEW k \in Key, NEW m \in Metric
  PROVE  matched[p][k][m] <= matched'[p][k][m]
<1>1. matched[p][k][m] \in Nat
  BY Numbers
<1>2. CASE \E t \in Threads, q \in Protos, pkt \in Packets : Receive(t, q, pkt)
  <2>1. PICK t \in Threads, q \in Protos, pkt \in Packets : Receive(t, q, pkt)
    BY <1>2
  <2>2. PICK more \in Nat : matched'[p][k][m] = matched[p][k][m] + more
    BY <2>1, ReceiveHeld
  <2> QED BY <1>1, <2>2
<1>3. CASE ~ \E t \in Threads, q \in Protos, pkt \in Packets : Receive(t, q, pkt)
  <2>1. matched' = matched
    <3>1. CASE WatcherStep
      BY <3>1 DEF WatcherStep, CopyPrev, Compare, Sync, Add, AddThrows, Delta, SavePrev, Gate,
                  Adopt, Check, Sleep, history
    <3>2. CASE Commands
      BY <3>2 DEF Commands, CommandAdd, CommandDel, CommandInsert, Command, Edit
    <3>3. CASE LoaderStep \/ \E keys \in FileLists : ReadFile(keys)
      BY <3>3 DEF LoaderStep, AssignList, StampChange, ReadFile, Edit, history
    <3>4. CASE UNCHANGED vars
      BY <3>4 DEF vars, history
    <3> QED BY <1>3, <3>1, <3>2, <3>3, <3>4 DEF Next, Commands
  <2> QED BY <1>1, <2>1
<1> QED BY <1>2, <1>3

\* A command keeps rules of the list and adds new ones.
LEMMA CommandElements ==
  ASSUME TypeOK, Commands
  PROVE  \E p \in Protos, list \in Seq(Rule) :
           /\ Command(p, list)
           /\ \A S : main[p] \in Seq(S) /\ (\A k \in Key : NewRule(k) \in S) => list \in Seq(S)
<1> DEFINE Keeps(p, list) ==
             \A S : main[p] \in Seq(S) /\ (\A k \in Key : NewRule(k) \in S) => list \in Seq(S)
<1>1. \A p \in Protos : main[p] \in Seq(Rule)
  BY DEF TypeOK
<1>2. 0 .. MaxLen \subseteq Nat
  BY BoundsAssumption
<1>3. \A p \in Protos, k \in Key :
        AppendRule(main[p], k) \in Seq(Rule) /\ Keeps(p, AppendRule(main[p], k))
  <2> TAKE p \in Protos, k \in Key
  <2>1. AppendRule(main[p], k) \in Seq(Rule)
    BY <1>1, EditType
  <2>2. ASSUME NEW S, main[p] \in Seq(S), \A x \in Key : NewRule(x) \in S
        PROVE  AppendRule(main[p], k) \in Seq(S)
    BY <2>2, EditElements
  <2> QED BY <2>1, <2>2
<1>4. \A p \in Protos, num \in 0 .. MaxLen : ValidNum(main[p], num) =>
        DelRule(main[p], num) \in Seq(Rule) /\ Keeps(p, DelRule(main[p], num))
  <2> TAKE p \in Protos, num \in 0 .. MaxLen
  <2>1. HAVE ValidNum(main[p], num)
  <2>2. DelRule(main[p], num) \in Seq(Rule)
    BY <1>1, <1>2, <2>1, EditType
  <2>3. ASSUME NEW S, main[p] \in Seq(S), \A x \in Key : NewRule(x) \in S
        PROVE  DelRule(main[p], num) \in Seq(S)
    BY <1>2, <2>1, <2>3, EditElements
  <2> QED BY <2>2, <2>3
<1>5. \A p \in Protos, num \in 0 .. MaxLen, k \in Key : ValidNum(main[p], num) =>
        InsertRule(main[p], num, k) \in Seq(Rule) /\ Keeps(p, InsertRule(main[p], num, k))
  <2> TAKE p \in Protos, num \in 0 .. MaxLen, k \in Key
  <2>1. HAVE ValidNum(main[p], num)
  <2>2. InsertRule(main[p], num, k) \in Seq(Rule)
    BY <1>1, <1>2, <2>1, EditType
  <2>3. ASSUME NEW S, main[p] \in Seq(S), \A x \in Key : NewRule(x) \in S
        PROVE  InsertRule(main[p], num, k) \in Seq(S)
    BY <1>2, <2>1, <2>3, EditElements
  <2> QED BY <2>2, <2>3
<1>6. SUFFICES \E p \in Protos, list \in Seq(Rule) : Command(p, list) /\ Keeps(p, list)
  OBVIOUS
<1> HIDE DEF Keeps
<1>7. CASE \E p \in Protos, k \in Key : CommandAdd(p, k)
  BY <1>3, <1>7 DEF CommandAdd
<1>8. CASE \E p \in Protos, num \in 0 .. MaxLen : CommandDel(p, num)
  BY <1>4, <1>8 DEF CommandDel
<1>9. CASE \E p \in Protos, num \in 0 .. MaxLen, k \in Key : CommandInsert(p, num, k)
  BY <1>5, <1>9 DEF CommandInsert
<1> QED BY <1>7, <1>8, <1>9 DEF Commands

LEMMA DeltaRates ==
  ASSUME IInv, IInv', AgeInv, EditedInv, GrownInv, Delta, pc.pr \notin suspect'
  PROVE  Rates(matched[pc.pr], main'[pc.pr])
<1>1. PICK p \in Protos : p = pc.pr
  BY DEF IInv, TypeOK, Position
<1>2. pc.at = "delta" /\ p \notin touched /\ p \notin edited
  BY <1>1 DEF Delta, EditedInv
<1>3. PICK time \in Nat \ {0} : time = age.prev[p] - age.main[p]
  <2>1. age.prev[p] \in Int /\ age.main[p] \in Int
    BY AgeRange DEF IInv
  <2>2. age.prev[p] >= 1 /\ age.main[p] = 0
    BY <1>2 DEF AgeInv
  <2> QED BY <2>1, <2>2
<1>4. TypeOK /\ TypeOK'
  BY DEF IInv
<1>5. PICK held \in PerKey : held = HeldBy(coll, touched, pc, p)
  BY <1>4, BackedTypes
<1>6. Covers(matched[p], held, main[p], prev[p])
  BY <1>2, <1>5 DEF GrownInv, Backed
<1>7. matched[p] \in PerKey /\ main[p] \in Seq(Rule) /\ prev[p] \in Seq(Rule)
  BY <1>4, BackedTypes
<1>8. main'[p] \in Seq(Rule)
  BY <1>4, NextBackedTypes
<1>9. KeysOf(main'[p]) = KeysOf(main[p])
  BY <1>4, DeltaFacts DEF KeepsCounts
<1>10. PICK wild : main'[p] = CalcDelta(main[p], prev[p], time, wild)
  BY <1>1, <1>3, <1>4, DeltaFacts
<1>11. Rates(matched[p], main'[p])
  BY <1>3, <1>5, <1>6, <1>7, <1>8, <1>9, <1>10, RatesDelta
<1> QED BY <1>1, <1>11

LEMMA NextRates ==
  IInv /\ IInv' /\ AgeInv /\ EditedInv /\ GrownInv /\ RateInv /\ [Next]_vars => RateInv'
<1> SUFFICES ASSUME IInv, IInv', AgeInv, EditedInv, GrownInv, RateInv, [Next]_vars
             PROVE  RateInv'
  OBVIOUS
<1>1. TypeOK /\ TypeOK'
  BY DEF IInv
<1>2. \A p \in Protos :
        /\ matched[p] \in PerKey /\ matched'[p] \in PerKey
        /\ main[p] \in Seq(Rule) /\ main'[p] \in Seq(Rule)
        /\ \A k \in Key, m \in Metric : matched[p][k][m] <= matched'[p][k][m]
  BY <1>1, BackedTypes, NextBackedTypes, MatchedGrows
<1>3. ASSUME NEW p \in Protos, p \notin suspect, KeysOf(main'[p]) = KeysOf(main[p]),
             \A i \in DOMAIN main[p] : main'[p][i].rate = main[p][i].rate
      PROVE  Rates(matched'[p], main'[p])
  <2>1. Rates(matched[p], main[p])
    BY <1>3 DEF RateInv
  <2> QED BY <1>2, <1>3, <2>1, RatesKeep
<1>4. ASSUME NEW p \in Protos, p \notin suspect, main'[p] = main[p]
      PROVE  Rates(matched'[p], main'[p])
  BY <1>3, <1>4
<1>5. \A p \in Protos : p \notin suspect' => Rates(matched'[p], main'[p])
  <2> SUFFICES ASSUME NEW p \in Protos, p \notin suspect' PROVE Rates(matched'[p], main'[p])
    OBVIOUS
  <2>1. CASE Delta
    <3>1. matched' = matched /\ \A q \in Protos \ {pc.pr} : q \in suspect => q \in suspect'
      BY <2>1 DEF Delta
    <3>2. CASE p = pc.pr
      BY <2>1, <3>1, <3>2, DeltaRates
    <3>3. CASE p # pc.pr
      <4>1. main'[p] = main[p]
        BY <1>1, <2>1, <3>3, DeltaFacts
      <4> QED BY <1>4, <3>1, <3>3, <4>1
    <3> QED BY <3>2, <3>3
  <2>2. CASE Add
    <3>1. suspect' = suspect /\ \A q \in Protos \ {pc.pr} : main'[q] = main[q]
      BY <1>1, <2>2 DEF Add, TypeOK
    <3>2. CASE p = pc.pr
      <4>1. PICK other \in Seq(Rule) : other = coll[pc.th][p]
        <5>1. coll \in Copies /\ pc.th \in Threads
          BY <1>1 DEF TypeOK, Copies, Position
        <5> QED BY <5>1 DEF Copies
      <4>2. main'[p] = AddCounters(main[p], other) /\ Len(main[p]) = Len(other)
        BY <1>1, <2>2, <3>2, <4>1 DEF Add, TypeOK
      <4>3. KeysOf(main'[p]) = KeysOf(main[p])
        BY <1>2, <4>2, AddCountersType
      <4>4. \A i \in DOMAIN main[p] : main'[p][i].rate = main[p][i].rate
        <5>1. "pps" \in Metric
          BY DEF Metric
        <5> QED BY <1>2, <4>2, <5>1, AddCountersCounts
      <4> QED BY <1>3, <3>1, <4>3, <4>4
    <3>3. CASE p # pc.pr
      BY <1>4, <3>1, <3>3
    <3> QED BY <3>2, <3>3
  <2>3. CASE Check
    <3>1. suspect' = suspect
      BY <2>3 DEF Check
    <3> QED BY <1>1, <1>3, <2>3, <3>1, CheckFacts DEF KeepsCounts
  <2>4. CASE CopyPrev \/ Compare \/ Sync \/ AddThrows \/ SavePrev \/ Gate \/ Adopt \/ Sleep
    <3>1. main' = main /\ suspect' = suspect
      BY <2>4 DEF CopyPrev, Compare, Sync, AddThrows, SavePrev, Gate, Adopt, Sleep, history
    <3> QED BY <1>4, <3>1
  <2>5. CASE Commands
    <3>1. PICK q \in Protos, list \in Seq(Rule) :
            /\ Command(q, list)
            /\ \A S : main[q] \in Seq(S) /\ (\A k \in Key : NewRule(k) \in S) => list \in Seq(S)
      BY <1>1, <2>5, CommandElements
    <3>2. /\ suspect' = suspect /\ matched' = matched
          /\ \A r \in Protos : main'[r] = IF r = q THEN list ELSE main[r]
      BY <1>1, <3>1 DEF Command, Edit, TypeOK
    <3>3. CASE p = q
      <4>1. main[p] \in Seq(RuleWithin(matched[p]))
        BY <1>2, <3>2, RatesSeq DEF RateInv
      <4>2. \A k \in Key : NewRule(k) \in RuleWithin(matched[p])
        <5>1. ASSUME NEW k \in Key, NEW m \in Metric
              PROVE  NewRule(k).rate[m] <= matched[p][k][m]
          <6>1. matched[p][k][m] \in Nat
            BY <1>1, Numbers
          <6>2. NewRule(k).rate[m] = 0
            BY DEF NewRule, Zero
          <6> QED BY <6>1, <6>2
        <5> QED BY <5>1, NewRuleType DEF RuleWithin
      <4>3. list \in Seq(RuleWithin(matched[p]))
        BY <3>1, <3>3, <4>1, <4>2
      <4> QED BY <3>2, <3>3, <4>3, RatesSeq
    <3>4. CASE p # q
      BY <1>4, <3>2, <3>4
    <3> QED BY <3>3, <3>4
  <2>6. CASE AssignList
    <3>1. /\ suspect' = suspect
          /\ \A r \in Protos : main'[r] = IF r = loader.pr THEN loader.buff[r] ELSE main[r]
      BY <1>1, <2>6 DEF AssignList, Edit, TypeOK
    <3>2. CASE p = loader.pr
      <4>1. \A i \in DOMAIN main'[p] : main'[p][i].rate = Zero
        BY <3>1, <3>2 DEF RateInv
      <4> QED BY <1>2, <4>1, RatesNew
    <3>3. CASE p # loader.pr
      BY <1>4, <3>1, <3>3
    <3> QED BY <3>2, <3>3
  <2>7. CASE StampChange \/ (\E keys \in FileLists : ReadFile(keys))
             \/ \E t \in Threads, q \in Protos, pkt \in Packets : Receive(t, q, pkt)
    <3>1. UNCHANGED <<main, suspect>>
      BY <2>7 DEF StampChange, ReadFile, Receive, history
    <3> QED BY <1>4, <3>1
  <2>8. CASE UNCHANGED vars
    <3>1. UNCHANGED <<main, suspect>>
      BY <2>8 DEF vars, history
    <3> QED BY <1>4, <3>1
  <2> QED BY <2>1, <2>2, <2>3, <2>4, <2>5, <2>6, <2>7, <2>8 DEF Next, Commands, LoaderStep, WatcherStep
<1>6. \A p \in Protos : \A i \in DOMAIN loader'.buff[p] : loader'.buff[p][i].rate = Zero
  <2>1. CASE loader'.buff = loader.buff
    BY <2>1 DEF RateInv
  <2>2. CASE \E keys \in FileLists : ReadFile(keys)
    <3>1. PICK keys \in FileLists : ReadFile(keys)
      BY <2>2
    <3>2. \A p \in Protos : keys[p] \in Seq(Key) /\ loader'.buff[p] = NewList(keys[p])
      BY <3>1, ListsAssumption DEF ReadFile
    <3> QED BY <3>2, NewListRates
  <2>3. CASE StampChange
    BY <2>3 DEF StampChange, Empty
  <2>4. CASE WatcherStep \/ Commands \/ AssignList \/ UNCHANGED vars
             \/ \E t \in Threads, q \in Protos, pkt \in Packets : Receive(t, q, pkt)
    <3>1. loader'.buff = loader.buff
      <4>1. loader \in [at : {"idle", "assign", "stamp"}, pr : Protos,
                        buff : [Protos -> Seq(Rule)], age : Ages]
        BY <1>1 DEF TypeOK
      <4>2. CASE WatcherStep
        BY <4>1, <4>2 DEF WatcherStep, CopyPrev, Compare, Sync, Add, AddThrows, Delta, SavePrev,
                    Gate, Adopt, Check, Sleep
      <4>3. CASE Commands
        BY <4>3 DEF Commands, CommandAdd, CommandDel, CommandInsert, Command
      <4>4. CASE AssignList
        BY <4>1, <4>4 DEF AssignList
      <4>5. CASE UNCHANGED vars \/ \E t \in Threads, q \in Protos, pkt \in Packets : Receive(t, q, pkt)
        BY <4>5 DEF vars, Receive
      <4> QED BY <2>4, <4>2, <4>3, <4>4, <4>5
    <3> QED BY <2>1, <3>1
  <2> QED BY <2>1, <2>2, <2>3, <2>4 DEF Next, Commands, LoaderStep
<1> QED BY <1>5, <1>6 DEF RateInv

LEMMA NextAlarms == IInv /\ AlarmInv /\ [Next]_vars => AlarmInv'
<1> SUFFICES ASSUME IInv, AlarmInv, [Next]_vars PROVE AlarmInv'
  OBVIOUS
<1>1. pc \in Position
  BY DEF IInv, TypeOK
<1>2. CASE WatcherStep
  <2>1. CASE Check
    BY <1>1, <2>1, NextListFacts DEF Check, AlarmInv
  <2>2. CASE Sleep
    BY <2>2 DEF Sleep, AlarmInv
  <2>3. CASE ~(Check \/ Sleep)
    BY <1>2, <2>3 DEF WatcherStep, CopyPrev, Compare, Sync, Add, AddThrows, Delta, SavePrev,
                      Gate, Adopt, AlarmInv, history
  <2> QED BY <2>1, <2>2, <2>3
<1>3. CASE Commands \/ \E t \in Threads, p \in Protos, pkt \in Packets : Receive(t, p, pkt)
  BY <1>3 DEF Commands, CommandAdd, CommandDel, CommandInsert, Command, Receive, AlarmInv
<1>4. CASE LoaderStep \/ \E keys \in FileLists : ReadFile(keys)
  BY <1>4 DEF LoaderStep, AssignList, StampChange, ReadFile, AlarmInv, history
<1>5. CASE UNCHANGED vars
  BY <1>5 DEF vars, history, AlarmInv
<1> QED BY <1>2, <1>3, <1>4, <1>5 DEF Next, Commands

\* An alarm at (p, k) comes of real traffic.
Real(mt, p, k) == \E m \in Metric : Trigger[k][m] > 0 /\ mt[p][k][m] > Trigger[k][m]

\* A rule that fires has a rate above its threshold, and as much was matched.
LEMMA FiresReal ==
  ASSUME IInv, RateInv, NEW p \in Protos, p \notin suspect,
         NEW i \in Triggered(main[p], now)
  PROVE  main[p][i].key \in Key /\ Real(matched, p, main[p][i].key)
<1>1. main[p] \in Seq(Rule) /\ matched[p] \in PerKey
  BY BackedTypes DEF IInv
<1>2. i \in DOMAIN main[p] /\ IsTriggered(main[p][i], now)
  BY DEF Triggered
<1>3. PICK m \in Metric : Fires(main[p][i], m, now)
  BY <1>2 DEF IsTriggered, Metric
<1>4. PICK k \in Key : k = main[p][i].key
  BY <1>1, <1>2, CounterRange
<1>5. PICK r \in 0 .. Word - 1 : r = main[p][i].rate[m]
  BY <1>1, <1>2, CounterRange
<1>6. Trigger[k][m] > 0 /\ r > Trigger[k][m]
  BY <1>3, <1>4, <1>5 DEF Fires, Exceeds
<1>7. r <= matched[p][k][m]
  BY <1>2, <1>4, <1>5 DEF RateInv, Rates
<1>8. Trigger[k][m] \in Nat /\ matched[p][k][m] \in Nat /\ r \in Int
  BY <1>1, TriggerAssumption DEF PerKey
<1>9. matched[p][k][m] > Trigger[k][m]
  BY <1>6, <1>7, <1>8
<1> QED BY <1>4, <1>6, <1>9 DEF Real

LEMMA NextReal ==
  ASSUME IInv, IInv', [Next]_vars, NEW p \in Protos, NEW k \in Key, Real(matched, p, k)
  PROVE  Real(matched', p, k)
<1>1. PICK m \in Metric : Trigger[k][m] > 0 /\ matched[p][k][m] > Trigger[k][m]
  BY DEF Real
<1>2. matched[p][k][m] <= matched'[p][k][m]
  BY MatchedGrows DEF IInv
<1>3. matched[p][k][m] \in Nat /\ matched'[p][k][m] \in Nat /\ Trigger[k][m] \in Nat
  BY Numbers, NextNumbers, TriggerAssumption DEF IInv
<1>4. matched'[p][k][m] > Trigger[k][m]
  BY <1>1, <1>2, <1>3
<1> QED BY <1>1, <1>4 DEF Real

LEMMA NextAlarmBacked ==
  IInv /\ IInv' /\ RateInv /\ AlarmInv /\ AlarmBacked /\ [Next]_vars => AlarmBacked'
<1> SUFFICES ASSUME IInv, IInv', RateInv, AlarmInv, AlarmBacked, [Next]_vars,
                    NEW a \in alarms', a[1] \notin suspect'
             PROVE  Real(matched', a[1], a[2])
  BY DEF AlarmBacked, Real
<1>1. TypeOK /\ TypeOK'
  BY DEF IInv
<1>2. a[1] \in Protos /\ a[2] \in Key
  BY <1>1 DEF TypeOK
<1>3. ASSUME a \in alarms, a[1] \notin suspect PROVE Real(matched', a[1], a[2])
  <2>1. Real(matched, a[1], a[2])
    BY <1>3 DEF AlarmBacked, Real
  <2> QED BY <1>2, <2>1, NextReal
<1>4. CASE Check
  <2>1. /\ pc.pr \in Protos /\ suspect' = suspect /\ matched' = matched
        /\ alarms' = alarms \cup {<<pc.pr, main[pc.pr][i].key>> : i \in Triggered(main[pc.pr], now)}
    BY <1>1, <1>4 DEF Check, TypeOK, Position
  <2>2. CASE a \in alarms
    BY <1>3, <2>1, <2>2
  <2>3. CASE a \notin alarms
    <3>1. PICK i \in Triggered(main[pc.pr], now) : a = <<pc.pr, main[pc.pr][i].key>>
      BY <2>1, <2>3
    <3>2. pc.pr \notin suspect
      BY <2>1, <3>1
    <3>3. Real(matched, pc.pr, main[pc.pr][i].key)
      BY <2>1, <3>2, FiresReal
    <3> QED BY <2>1, <3>1, <3>3
  <2> QED BY <2>2, <2>3
<1>5. CASE Delta
  BY <1>5 DEF Delta, AlarmInv
<1>6. CASE Sleep
  BY <1>6 DEF Sleep
<1>7. CASE ~(Check \/ Delta \/ Sleep)
  <2>1. alarms' = alarms /\ suspect' = suspect
    <3>1. CASE WatcherStep
      BY <1>7, <3>1 DEF WatcherStep, CopyPrev, Compare, Sync, Add, AddThrows, SavePrev, Gate,
                        Adopt, history
    <3>2. CASE Commands \/ \E t \in Threads, p \in Protos, pkt \in Packets : Receive(t, p, pkt)
      BY <3>2 DEF Commands, CommandAdd, CommandDel, CommandInsert, Command, Receive
    <3>3. CASE LoaderStep \/ \E keys \in FileLists : ReadFile(keys)
      BY <3>3 DEF LoaderStep, AssignList, StampChange, ReadFile, history
    <3>4. CASE UNCHANGED vars
      BY <3>4 DEF vars, history
    <3> QED BY <3>1, <3>2, <3>3, <3>4 DEF Next, Commands
  <2> QED BY <1>3, <2>1
<1> QED BY <1>4, <1>5, <1>6, <1>7

LEMMA InitAlarms ==
  Init => EditedInv /\ HeldInv /\ GrownInv /\ RateInv /\ AlarmInv /\ AlarmBacked
<1> SUFFICES ASSUME Init
             PROVE  EditedInv /\ HeldInv /\ GrownInv /\ RateInv /\ AlarmInv /\ AlarmBacked
  OBVIOUS
<1>1. TypeOK
  BY InitType
<1>2. pc = [at |-> "copy", th |-> 1, pr |-> 1] /\ alarms = {} /\ edited = {} /\ touched = {}
      /\ matched = [p \in Protos |-> [k \in Key |-> Zero]]
  BY DEF Init
<1>3. EditedInv /\ AlarmInv /\ AlarmBacked
  BY <1>2 DEF EditedInv, AlarmInv, AlarmBacked
<1>4. GrownInv
  <2>1. \A p \in Protos : p >= 1
    BY ProtoFacts
  <2> QED BY <1>2, <2>1 DEF GrownInv
<1>5. HeldInv
  <2> SUFFICES ASSUME NEW p \in Protos, NEW k \in Key, NEW m \in Metric
               PROVE  HeldNow(p, k, m) <= matched[p][k][m]
    BY DEF HeldInv
  <2>1. coll \in Copies /\ matched[p][k][m] = 0
    <3>1. coll \in Copies
      BY <1>1 DEF TypeOK, Copies
    <3>2. matched[p][k][m] = 0
      BY <1>2 DEF Zero
    <3> QED BY <3>1, <3>2
  <2>2. PICK f : f = Held(coll, touched, pc, p, k, m)
    OBVIOUS
  <2>3. \A t \in Threads : f[t] = 0
    <3> TAKE t \in Threads
    <3>1. CountIn(coll[t][p], k, m) = 0
      BY InitCounts
    <3> QED BY <2>1, <2>2, <3>1, HeldFacts
  <2>4. HeldNow(p, k, m) = 0
    BY <2>2, <2>3, ThreadsFinite, SumZero DEF HeldNow, HeldSum
  <2> QED BY <2>1, <2>4
<1>6. RateInv
  <2>1. PICK keys \in InitLists : main = [p \in Protos |-> NewList(keys[p])]
    BY DEF Init
  <2>2. loader.buff = Empty
    BY DEF Init
  <2>3. \A p \in Protos : \A i \in DOMAIN loader.buff[p] : loader.buff[p][i].rate = Zero
    BY <2>2 DEF Empty
  <2>4. ASSUME NEW p \in Protos PROVE Rates(matched[p], main[p])
    <3>1. keys[p] \in Seq(Key) /\ main[p] = NewList(keys[p])
      BY <2>1, ListsAssumption
    <3>2. \A i \in DOMAIN main[p] : main[p][i].rate = Zero
      BY <3>1, NewListRates
    <3>3. main[p] \in Seq(Rule) /\ matched[p] \in PerKey
      BY <1>1, BackedTypes
    <3> QED BY <3>2, <3>3, RatesNew
  <2> QED BY <2>3, <2>4 DEF RateInv
<1> QED BY <1>3, <1>4, <1>5, <1>6

\* A rule that is reported as attacked (check_triggers) did get more packets
\* or bytes than its threshold, unless its rates were computed across an edit
\* of its list: what calc_delta finds is no more than what the threads matched.
THEOREM WatcherAlarmsBacked == Spec => []AlarmBacked
<1>1. Init => AgeInv
  BY InitAge
<1>2. Spec => []AgeInv
  BY <1>1, NextAge, InvHolds, PTL DEF Spec
<1>3. Spec => []EditedInv
  BY InitAlarms, NextEdited, InvHolds, PTL DEF Spec
<1>4. Spec => []HeldInv
  BY InitAlarms, NextHeld, InvHolds, PTL DEF Spec
<1>5. Spec => []GrownInv
  BY <1>3, <1>4, InitAlarms, NextGrown, InvHolds, PTL DEF Spec
<1>6. Spec => []RateInv
  BY <1>2, <1>3, <1>5, InitAlarms, NextRates, InvHolds, PTL DEF Spec
<1>7. Spec => []AlarmInv
  BY InitAlarms, NextAlarms, InvHolds, PTL DEF Spec
<1> QED BY <1>6, <1>7, InitAlarms, NextAlarmBacked, InvHolds, PTL DEF Spec
=============================================================================
