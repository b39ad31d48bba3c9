---------------------------- MODULE ReceiverProofs ----------------------------
(***************************************************************************)
(* The receiver threads, for any number of rings, any number of slots and  *)
(* any number of packets: a thread reads memory that is mapped, looks only *)
(* at slots that are its own, checks the packets of its ring once and in   *)
(* the order of their arrival, and has those that the rules accepted, and  *)
(* no others, forwarded when their slots go back.                          *)
(***************************************************************************)
EXTENDS Receiver, Sums

\* The parts of the state that the properties are about, and their types.
Types ==
  /\ start \in [at : {"open", "start", "running", "failed"}, ring : Rings]
  /\ desc \in [Rings -> Descriptor]
  /\ ring \in [Rings -> [head : Slots, cur : Slots, tail : Slots]]
  /\ slot \in [Rings -> [Slots -> [pkt : Nat, fwd : BOOLEAN]]]
  /\ arrived \in [Rings -> Nat]
  /\ at \in [Rings -> {"off", "loop", "poll", "get", "check", "closed"}]
  /\ cur_slot_id \in [Rings -> Slots]
  /\ verdicts \in [Rings -> Seq([pkt : Nat, hit : BOOLEAN])]

\* A thread's ring is its own, and so is a mapping it will undo; main's
\* mapping, which others may use, is there from before the first thread.
MapInv ==
  /\ start.at \in {"start", "running"} => Main \in mapped
  /\ start.at = "open" => \A t \in Rings : at[t] = "off"
  /\ \A t \in Rings : at[t] # "off" =>
       /\ desc[t].first = t
       /\ desc[t].mem = IF desc[t].done_mmap THEN t ELSE Main
       /\ Main \in mapped
       /\ at[t] # "closed" => desc[t].mem \in mapped

\* Between two steps of its thread head is at cur, and a packet that is looked
\* at is the one at cur.
SlotInv ==
  \A t \in Rings :
    /\ ring[t].head = ring[t].cur
    /\ at[t] = "check" => cur_slot_id[t] = ring[t].cur /\ ring[t].cur # ring[t].tail

\* What lies between cur and tail are the packets that have come and were not
\* checked, the oldest at cur.
Fresh(r) == Ahead(ring[r].cur, ring[r].tail)
RingInv ==
  \A r \in Rings :
    /\ Len(verdicts[r]) + Fresh(r) = arrived[r]
    /\ \A i \in Slots : Ahead(ring[r].cur, i) < Fresh(r) =>
         slot[r][i].pkt = Len(verdicts[r]) + Ahead(ring[r].cur, i) + 1

IInv == Types /\ MapInv /\ SlotInv /\ RingInv /\ CheckedInOrder

-----------------------------------------------------------------------------
(* The ring's arithmetic.                                                  *)

\* nm_ring_next: the next slot is one slot nearer to any slot but the one it
\* leaves.
LEMMA NextNearer ==
  ASSUME NEW i \in Slots, NEW j \in Slots
  PROVE  /\ NextSlot(i) \in Slots
         /\ Ahead(i, j) \in 0 .. NSlots - 1
         /\ i # j => Ahead(NextSlot(i), j) = Ahead(i, j) - 1 /\ Ahead(i, j) > 0
         /\ i = j => Ahead(i, j) = 0 /\ Ahead(NextSlot(i), j) = NSlots - 1
BY NSlotsAssumption DEF Slots, NextSlot, Ahead

\* How far one slot is ahead of another.
LEMMA AheadType == \A i, j \in Slots : Ahead(i, j) \in Nat
BY NSlotsAssumption DEF Slots, Ahead

\* The kernel's tail, moved on by no more slots than are free.
LEMMA TailFurther ==
  ASSUME NEW i \in Slots, NEW j \in Slots, NEW n \in 0 .. NSlots - 1 - Ahead(i, j)
  PROVE  SlotAt(j, n) \in Slots /\ Ahead(i, SlotAt(j, n)) = Ahead(i, j) + n
BY NSlotsAssumption DEF Slots, SlotAt, Ahead

\* Of the slots up to the new tail, those before the old one are as far from
\* cur as ever, and no other slot is written.
LEMMA TailWrites ==
  ASSUME NEW i \in Slots, NEW j \in Slots, NEW k \in Slots,
         NEW n \in 0 .. NSlots - 1 - Ahead(i, j), Ahead(i, k) < Ahead(i, j) + n
  PROVE  IF Ahead(i, k) < Ahead(i, j)
         THEN ~(Ahead(j, k) < n)
         ELSE Ahead(j, k) < n /\ Ahead(j, k) = Ahead(i, k) - Ahead(i, j)
BY NSlotsAssumption DEF Slots, Ahead

\* nm_ring_next: while there is a packet at head, head moves away from any slot
\* that the tail has not come up to.
LEMMA HeadFurther ==
  ASSUME NEW h \in Slots, NEW c \in Slots, NEW e \in Slots, c # e,
         Ahead(h, c) + Ahead(c, e) < NSlots
  PROVE  Ahead(h, NextSlot(c)) = Ahead(h, c) + 1
<1>1. h \in Int /\ 0 <= h /\ h < NSlots /\ c \in Int /\ 0 <= c /\ c < NSlots
      /\ e \in Int /\ 0 <= e /\ e < NSlots /\ NSlots \in Int /\ NSlots > 1
  BY NSlotsAssumption DEF Slots
<1>2. CASE c + 1 = NSlots
  BY <1>1, <1>2 DEF NextSlot, Ahead
<1>3. CASE c + 1 # NSlots
  BY <1>1, <1>3 DEF NextSlot, Ahead
<1> QED BY <1>2, <1>3

\* Two slots are not equally far from a third.
LEMMA OtherSlot ==
  ASSUME NEW h \in Slots, NEW c \in Slots, NEW i \in Slots, i # c, Ahead(h, i) < Ahead(h, c) + 1
  PROVE  Ahead(h, i) < Ahead(h, c)
<1>1. h \in Int /\ 0 <= h /\ h < NSlots /\ c \in Int /\ 0 <= c /\ c < NSlots
      /\ i \in Int /\ 0 <= i /\ i < NSlots /\ NSlots \in Int /\ NSlots > 1
  BY NSlotsAssumption DEF Slots
<1> QED BY <1>1 DEF Ahead

-----------------------------------------------------------------------------
LEMMA InitInv == Init => IInv
<1> SUFFICES ASSUME Init PROVE IInv
  OBVIOUS
<1>1. 0 \in Slots /\ 0 \in Rings
  BY NSlotsAssumption, NRingsAssumption DEF Slots, Rings
<1>2. NoDesc \in Descriptor
  BY NRingsAssumption DEF NoDesc, Descriptor, Mapper, Main, Rings
<1>3. Types
  BY <1>1, <1>2 DEF Init, Types
<1>4. MapInv /\ SlotInv
  BY <1>1 DEF Init, MapInv, SlotInv
<1>5. RingInv
  BY <1>1, NSlotsAssumption DEF Init, RingInv, Fresh, Ahead, Slots
<1>6. CheckedInOrder
  BY DEF Init, CheckedInOrder
<1> QED BY <1>3, <1>4, <1>5, <1>6 DEF IInv

-----------------------------------------------------------------------------
(* Steps that leave the rings alone.                                       *)

\* Without a change of a ring, its slots and verdicts, only a thread that
\* comes to "check" could disturb what is known of them.
LEMMA RingsAlone ==
  ASSUME IInv, UNCHANGED <<ring, slot, arrived, verdicts, cur_slot_id>>,
         \A t \in Rings : at'[t] = "check" => at[t] = "check"
  PROVE  SlotInv' /\ RingInv' /\ CheckedInOrder'
BY DEF IInv, SlotInv, RingInv, Fresh, CheckedInOrder

LEMMA MainStepInv ==
  ASSUME IInv, OpenInterface \/ StartThread \/ OpenFails \/ Interrupt
  PROVE  IInv'
<1> USE DEF IInv
<1>1. CASE OpenInterface
  <2>1. Types'
    BY <1>1 DEF OpenInterface, Types, kernel
  <2>2. \A t \in Rings : at'[t] = "off"
    BY <1>1 DEF OpenInterface, MapInv
  <2>3. MapInv'
    BY <1>1, <2>2 DEF OpenInterface, MapInv, Types
  <2> QED BY <1>1, <2>1, <2>3, RingsAlone DEF OpenInterface, kernel
<1>2. CASE StartThread
  <2> DEFINE t == start.ring
  <2>1. t \in Rings /\ start.at = "start" /\ Main \in mapped /\ Main \notin Rings
    BY <1>2, NRingsAssumption DEF StartThread, Types, MapInv, Main, Rings
  <2>2. PICK same \in BOOLEAN :
          /\ desc' = [desc EXCEPT ![t] =
               [first |-> FirstRing(RequestOf(t)), mem |-> Mapping(t, same).mem,
                done_mmap |-> Mapping(t, same).done_mmap, open |-> TRUE]]
          /\ mapped' = mapped \cup {Mapping(t, same).mem}
    BY <1>2 DEF StartThread
  <2>3. /\ FirstRing(RequestOf(t)) = t
        /\ Mapping(t, same).mem \in {t, Main}
        /\ Mapping(t, same).done_mmap \in BOOLEAN
        /\ Mapping(t, same).mem = IF Mapping(t, same).done_mmap THEN t ELSE Main
    BY DEF FirstRing, RequestOf, Mapping
  <2>4. t \in 0 .. NRings /\ {t, Main} \subseteq Mapper
    BY <2>1, NRingsAssumption DEF Rings, Mapper, Main
  <2>5. desc'[t] \in Descriptor /\ desc' \in [Rings -> Descriptor]
    BY <2>1, <2>2, <2>3, <2>4 DEF Types, Descriptor
  <2>6. /\ at' = [at EXCEPT ![t] = "loop"]
        /\ start'.at \in {"start", "running"}
        /\ start' \in [at : {"open", "start", "running", "failed"}, ring : Rings]
    <3>1. CASE t + 1 < NRings
      <4>1. t + 1 \in Rings
        BY <2>1, <3>1, NRingsAssumption DEF Rings
      <4>2. start' = [start EXCEPT !.ring = t + 1] /\ at' = [at EXCEPT ![t] = "loop"]
        BY <1>2, <3>1 DEF StartThread
      <4> QED BY <2>1, <4>1, <4>2 DEF Types
    <3>2. CASE ~(t + 1 < NRings)
      BY <1>2, <2>1, <3>2 DEF StartThread, Types
    <3> QED BY <3>1, <3>2
  <2>7. Types'
    BY <1>2, <2>5, <2>6 DEF StartThread, Types, kernel
  <2>8. MapInv'
    BY <2>1, <2>2, <2>3, <2>6 DEF MapInv, Types
  <2>9. \A u \in Rings : at'[u] = "check" => at[u] = "check"
    BY <2>1, <2>6 DEF Types
  <2> QED BY <1>2, <2>7, <2>8, <2>9, RingsAlone DEF StartThread, kernel
<1>3. CASE OpenFails \/ Interrupt
  <2>1. /\ start' \in [at : {"open", "start", "running", "failed"}, ring : Rings]
        /\ start'.at \in {start.at, "failed"}
        /\ UNCHANGED <<desc, mapped, at>>
    BY <1>3 DEF OpenFails, Interrupt, Types, opening
  <2>2. Types'
    BY <1>3, <2>1 DEF OpenFails, Interrupt, Types, kernel
  <2>3. MapInv'
    BY <2>1 DEF MapInv
  <2> QED BY <1>3, <2>2, <2>3, RingsAlone DEF OpenFails, Interrupt, kernel
<1> QED BY <1>1, <1>2, <1>3

\* Two descriptors, or one before and after a step, of one mapping.
SameMapping(d, e) == e.first = d.first /\ e.mem = d.mem /\ e.done_mmap = d.done_mmap

\* nm_close takes away no mapping but the thread's own.
LEMMA CloseInv ==
  ASSUME IInv, NEW t \in Rings, at[t] # "off", Goto(t, "closed"), Close(t),
         UNCHANGED <<start, ring, slot, kernel, cur_slot_id, verdicts>>
  PROVE  IInv'
<1>0. Types /\ MapInv
  BY DEF IInv
<1>1. Main \notin Rings
  BY NRingsAssumption DEF Main, Rings
<1>2. /\ at' \in [Rings -> {"off", "loop", "poll", "get", "check", "closed"}]
      /\ at'[t] = "closed" /\ \A u \in Rings \ {t} : at'[u] = at[u]
  <2>1. at' = [at EXCEPT ![t] = "closed"]
    BY DEF Goto
  <2>2. at \in [Rings -> {"off", "loop", "poll", "get", "check", "closed"}]
    BY <1>0 DEF Types
  <2> QED BY <2>1, <2>2
<1>3. desc' \in [Rings -> Descriptor] /\ \A u \in Rings : SameMapping(desc[u], desc'[u])
  <2>1. desc \in [Rings -> Descriptor]
    BY <1>0 DEF Types
  <2>2. PICK d : d = [desc[t] EXCEPT !.open = FALSE]
    OBVIOUS
  <2>3. d \in Descriptor /\ SameMapping(desc[t], d)
    <3>1. desc[t] \in Descriptor
      BY <2>1
    <3> QED BY <2>2, <3>1 DEF Descriptor, SameMapping
  <2>4. desc' = [desc EXCEPT ![t] = d]
    BY <2>2 DEF Close
  <2>5. \A u \in Rings : SameMapping(desc[u], desc[u])
    BY DEF SameMapping
  <2> QED BY <2>1, <2>3, <2>4, <2>5
<1>4. Types'
  <2>1. UNCHANGED <<start, ring, slot, arrived, cur_slot_id, verdicts>>
    BY DEF kernel
  <2> QED BY <1>0, <1>2, <1>3, <2>1 DEF Types
<1>5. mapped' = mapped \/ mapped' = mapped \ {t}
  <2>1. desc[t].done_mmap => desc[t].mem = t
    BY <1>0 DEF MapInv
  <2> QED BY <2>1 DEF Close
<1>6. MapInv'
  <2>1. start' = start /\ (start.at \in {"start", "running"} => Main \in mapped')
    BY <1>0, <1>1, <1>5 DEF MapInv
  <2>2. start.at # "open"
    BY <1>0 DEF MapInv
  <2>3. ASSUME NEW u \in Rings, at'[u] # "off"
        PROVE  /\ desc'[u].first = u
               /\ desc'[u].mem = IF desc'[u].done_mmap THEN u ELSE Main
               /\ Main \in mapped'
               /\ at'[u] # "closed" => desc'[u].mem \in mapped'
    <3>1. at[u] # "off" /\ (at'[u] # "closed" => u # t /\ at[u] # "closed")
      BY <1>2, <2>3
    <3>2. /\ desc[u].first = u /\ desc[u].mem = (IF desc[u].done_mmap THEN u ELSE Main)
          /\ Main \in mapped /\ (at[u] # "closed" => desc[u].mem \in mapped)
      BY <1>0, <3>1 DEF MapInv
    <3>3. SameMapping(desc[u], desc'[u])
      BY <1>3
    <3>4. Main \in mapped' /\ (at'[u] # "closed" => desc[u].mem \in mapped')
      BY <1>1, <1>5, <3>1, <3>2
    <3> QED BY <3>2, <3>3, <3>4 DEF SameMapping
  <2> QED BY <2>1, <2>2, <2>3 DEF MapInv
<1>7. \A u \in Rings : at'[u] = "check" => at[u] = "check"
  BY <1>2
<1>8. SlotInv' /\ RingInv' /\ CheckedInOrder'
  BY <1>7, RingsAlone DEF kernel
<1> QED BY <1>4, <1>6, <1>8 DEF IInv

-----------------------------------------------------------------------------
(* Steps of a thread that goes on.                                         *)

\* Such a step leaves the descriptors and mappings alone.
LEMMA MapsAlone ==
  ASSUME IInv, NEW t \in Rings, NEW step \in {"loop", "poll", "get", "check"},
         at[t] \notin {"off", "closed"}, Goto(t, step), UNCHANGED opening
  PROVE  /\ at' \in [Rings -> {"off", "loop", "poll", "get", "check", "closed"}]
         /\ at'[t] = step /\ \A u \in Rings \ {t} : at'[u] = at[u]
         /\ MapInv'
<1>1. at' = [at EXCEPT ![t] = step] /\ UNCHANGED <<start, desc, mapped>>
  BY DEF Goto, opening
<1>2. at \in [Rings -> {"off", "loop", "poll", "get", "check", "closed"}] /\ MapInv
  BY DEF IInv, Types
<1>3. /\ at' \in [Rings -> {"off", "loop", "poll", "get", "check", "closed"}]
      /\ at'[t] = step /\ \A u \in Rings \ {t} : at'[u] = at[u]
  BY <1>1, <1>2
<1>4. MapInv'
  <2>1. \A u \in Rings : (at'[u] # "off" => at[u] # "off") /\ (at[u] = "closed" => at'[u] = "closed")
    BY <1>3
  <2>2. start.at # "open"
    BY <1>2 DEF MapInv
  <2> QED BY <1>1, <1>2, <2>1, <2>2 DEF MapInv
<1> QED BY <1>3, <1>4

\* Packets come to the end of the ring, whatever lies before them.
LEMMA PollInv ==
  ASSUME IInv, NEW t \in Rings, Poll(t)
  PROVE  IInv'
<1> USE DEF IInv
<1>1. desc[t].first = t /\ at[t] = "poll"
  BY DEF Poll, MapInv
<1> DEFINE c == ring[t].cur
           e == ring[t].tail
<1>2. /\ c \in Slots /\ e \in Slots /\ ring[t].head = c
      /\ arrived[t] \in Nat /\ Len(verdicts[t]) \in Nat
  <2>1. c \in Slots /\ e \in Slots
    BY DEF Types
  <2>2. ring[t].head = c
    BY DEF SlotInv
  <2>3. arrived[t] \in Nat /\ Len(verdicts[t]) \in Nat
    BY LenProperties DEF Types
  <2> QED BY <2>1, <2>2, <2>3
<1>3. PICK n \in 0 .. NSlots - 1 - Ahead(c, e) :
        /\ arrived' = [arrived EXCEPT ![t] = @ + n]
        /\ ring' = [ring EXCEPT ![t].tail = SlotAt(@, n)]
        /\ slot' = [slot EXCEPT ![t] = [i \in Slots |->
             IF Ahead(ring[t].tail, i) < n
             THEN [pkt |-> arrived[t] + Ahead(ring[t].tail, i) + 1, fwd |-> FALSE]
             ELSE @[i]]]
  <2>1. RxSync(t) /\ Ahead(ring[t].head, ring[t].tail) = Ahead(c, e)
    BY <1>1, <1>2 DEF Poll
  <2> QED BY <2>1, Zenon DEF RxSync
<1>4. n \in Nat /\ Ahead(c, e) \in Nat /\ \A i \in Slots : Ahead(e, i) \in Nat
  <2>1. Ahead(c, e) \in 0 .. NSlots - 1 /\ \A i \in Slots : Ahead(e, i) \in 0 .. NSlots - 1
    BY <1>2, NextNearer
  <2>2. n \in 0 .. NSlots - 1 - Ahead(c, e)
    OBVIOUS
  <2> HIDE DEF c, e
  <2> QED BY <2>1, <2>2, NSlotsAssumption
<1>5. SlotAt(e, n) \in Slots /\ Ahead(c, SlotAt(e, n)) = Ahead(c, e) + n
  BY <1>2, TailFurther
<1>6. PICK step \in {"get", "loop"} : Goto(t, step)
  BY DEF Poll
<1>7. /\ at' \in [Rings -> {"off", "loop", "poll", "get", "check", "closed"}]
      /\ \A u \in Rings : at'[u] = "check" => at[u] = "check" /\ u # t
      /\ MapInv'
  BY <1>1, <1>6, MapsAlone DEF Poll
<1>8. /\ ring'[t].cur = c /\ ring'[t].head = c /\ ring'[t].tail = SlotAt(e, n)
      /\ ring'[t] \in [head : Slots, cur : Slots, tail : Slots]
      /\ \A u \in Rings \ {t} : ring'[u] = ring[u]
      /\ arrived'[t] = arrived[t] + n
      /\ \A u \in Rings \ {t} : arrived'[u] = arrived[u] /\ slot'[u] = slot[u]
  <2>1. /\ ring \in [Rings -> [head : Slots, cur : Slots, tail : Slots]]
        /\ DOMAIN arrived = Rings /\ DOMAIN slot = Rings
    BY DEF Types
  <2>2. PICK r : r = [ring[t] EXCEPT !.tail = SlotAt(e, n)]
    OBVIOUS
  <2>3. /\ r.cur = c /\ r.head = c /\ r.tail = SlotAt(e, n)
        /\ r \in [head : Slots, cur : Slots, tail : Slots]
    BY <1>2, <1>5, <2>1, <2>2
  <2>4. ring' = [ring EXCEPT ![t] = r]
    BY <1>3, <2>2
  <2>5. ring'[t] = r /\ \A u \in Rings \ {t} : ring'[u] = ring[u]
    BY <2>1, <2>4
  <2>6. /\ arrived'[t] = arrived[t] + n
        /\ \A u \in Rings \ {t} : arrived'[u] = arrived[u] /\ slot'[u] = slot[u]
    BY <1>3, <2>1
  <2> QED BY <2>3, <2>5, <2>6
<1> DEFINE Num(i) == arrived[t] + Ahead(e, i) + 1
           Written(i) == Ahead(e, i) < n
<1>9. ASSUME NEW i \in Slots, Written(i)
      PROVE  slot'[t][i] = [pkt |-> Num(i), fwd |-> FALSE] /\ slot'[t][i].pkt = Num(i)
  <2>1. slot'[t][i] = [pkt |-> Num(i), fwd |-> FALSE]
    BY <1>3, <1>9 DEF Types
  <2> HIDE DEF Num
  <2> QED BY <2>1
<1>10. ASSUME NEW i \in Slots, ~Written(i)
       PROVE  slot'[t][i] = slot[t][i]
  BY <1>3, <1>10 DEF Types
<1>11. Types'
  <2>1. ring' \in [Rings -> [head : Slots, cur : Slots, tail : Slots]]
    BY <1>3, <1>8 DEF Types
  <2>2. arrived' \in [Rings -> Nat]
    <3>1. arrived[t] + n \in Nat
      BY <1>2, <1>4
    <3> QED BY <1>3, <3>1 DEF Types
  <2>3. slot' \in [Rings -> [Slots -> [pkt : Nat, fwd : BOOLEAN]]]
    <3>1. ASSUME NEW i \in Slots PROVE slot'[t][i] \in [pkt : Nat, fwd : BOOLEAN]
      <4>1. Num(i) \in Nat
        BY <1>2, <1>4
      <4>2. slot[t][i] \in [pkt : Nat, fwd : BOOLEAN]
        BY DEF Types
      <4>3. CASE Written(i)
        <5>1. slot'[t][i] = [pkt |-> Num(i), fwd |-> FALSE]
          BY <1>9, <4>3
        <5> HIDE DEF Num
        <5> QED BY <4>1, <5>1
      <4>4. CASE ~Written(i)
        BY <1>10, <4>2, <4>4
      <4> QED BY <4>3, <4>4
    <3>2. slot'[t] \in [Slots -> [pkt : Nat, fwd : BOOLEAN]]
      BY <1>3, <3>1 DEF Types
    <3> QED BY <1>3, <3>2 DEF Types
  <2> QED BY <1>7, <2>1, <2>2, <2>3 DEF Poll, Types, opening
<1>12. SlotInv'
  BY <1>2, <1>7, <1>8 DEF SlotInv, Poll
<1>13. RingInv'
  <2>1. verdicts' = verdicts
    BY DEF Poll
  <2>2. Len(verdicts[t]) + Ahead(c, e) + n = arrived[t] + n
    <3>1. Len(verdicts[t]) + Fresh(t) = arrived[t]
      BY DEF RingInv
    <3> QED BY <3>1 DEF Fresh
  <2>3. ASSUME NEW i \in Slots, Ahead(c, i) < Ahead(c, e) + n
        PROVE  slot'[t][i].pkt = Len(verdicts[t]) + Ahead(c, i) + 1
    <3>0. Ahead(c, i) \in Nat
      BY <1>2, AheadType
    <3>1. CASE Ahead(c, i) < Ahead(c, e)
      <4>1. slot'[t][i] = slot[t][i]
        <5>1. ~(Ahead(e, i) < n)
          BY <1>2, <2>3, <3>1, TailWrites
        <5> QED BY <1>10, <5>1, Zenon
      <4> QED BY <3>1, <4>1 DEF RingInv, Fresh
    <3>2. CASE ~(Ahead(c, i) < Ahead(c, e))
      <4>1. Ahead(e, i) < n /\ Ahead(e, i) = Ahead(c, i) - Ahead(c, e)
        BY <1>2, <2>3, <3>2, TailWrites
      <4>2. slot'[t][i].pkt = Num(i)
        <5>1. Written(i)
          BY <4>1
        <5> HIDE DEF Num, Written
        <5> QED BY <1>9, <5>1
      <4>3. Num(i) = Len(verdicts[t]) + Ahead(c, i) + 1
        <5>1. /\ arrived[t] \in Nat /\ Len(verdicts[t]) \in Nat
              /\ Ahead(c, i) \in Nat /\ Ahead(c, e) \in Nat /\ Ahead(e, i) \in Nat
              /\ Ahead(e, i) = Ahead(c, i) - Ahead(c, e)
          BY <1>2, <1>4, <3>0, <4>1
        <5>2. Len(verdicts[t]) + Ahead(c, e) = arrived[t]
          BY DEF RingInv, Fresh
        <5> HIDE DEF c, e
        <5> QED BY <5>1, <5>2
      <4> HIDE DEF Num
      <4> QED BY <4>2, <4>3
    <3> QED BY <3>1, <3>2
  <2>4. Fresh(t)' = Ahead(c, e) + n
    BY <1>5, <1>8 DEF Fresh
  <2>5. Len(verdicts'[t]) + Fresh(t)' = arrived'[t]
    <3> HIDE DEF c, e
    <3> QED BY <1>2, <1>4, <1>8, <2>1, <2>2, <2>4
  <2>6. ASSUME NEW u \in Rings \ {t}
        PROVE  /\ Len(verdicts'[u]) + Fresh(u)' = arrived'[u]
               /\ \A i \in Slots : Ahead(ring'[u].cur, i) < Fresh(u)' =>
                    slot'[u][i].pkt = Len(verdicts'[u]) + Ahead(ring'[u].cur, i) + 1
    BY <1>8, <2>1 DEF RingInv, Fresh
  <2> QED BY <1>8, <2>1, <2>3, <2>4, <2>5, <2>6 DEF RingInv
<1>14. CheckedInOrder'
  BY DEF Poll, CheckedInOrder
<1> QED BY <1>7, <1>11, <1>12, <1>13, <1>14

\* The packet at cur is the oldest that was not checked.
LEMMA CheckInv ==
  ASSUME IInv, NEW t \in Rings, CheckPacket(t)
  PROVE  IInv'
<1> USE DEF IInv
<1> DEFINE c == ring[t].cur
           e == ring[t].tail
           Verdict == [pkt : Nat, hit : BOOLEAN]
<1>1. /\ desc[t].first = t /\ at[t] = "check" /\ cur_slot_id[t] = c /\ c # e
      /\ c \in Slots /\ e \in Slots /\ verdicts[t] \in Seq(Verdict)
  BY DEF CheckPacket, MapInv, SlotInv, Types
<1>2. PICK hit \in BOOLEAN :
        /\ verdicts' = [verdicts EXCEPT ![t] = Append(@, [pkt |-> slot[t][c].pkt, hit |-> hit])]
        /\ slot' = [slot EXCEPT ![t][c].fwd = @ \/ Forwards(t, hit)]
  BY <1>1 DEF CheckPacket
<1>3. /\ ring' = [ring EXCEPT ![t] = MoveOn(@, c)] /\ Goto(t, "get")
      /\ UNCHANGED <<opening, kernel, cur_slot_id>>
  BY <1>1 DEF CheckPacket
<1>4. NextSlot(c) \in Slots
  BY <1>1, NextNearer
<1>5. /\ ring'[t].cur = NextSlot(c) /\ ring'[t].head = NextSlot(c) /\ ring'[t].tail = e
      /\ ring'[t] \in [head : Slots, cur : Slots, tail : Slots]
      /\ \A u \in Rings \ {t} : ring'[u] = ring[u] /\ slot'[u] = slot[u]
                                /\ verdicts'[u] = verdicts[u]
  <2>1. /\ ring \in [Rings -> [head : Slots, cur : Slots, tail : Slots]]
        /\ DOMAIN verdicts = Rings /\ DOMAIN slot = Rings
    BY DEF Types
  <2>2. ring' = [ring EXCEPT ![t] = MoveOn(ring[t], c)]
    BY <1>3
  <2>3. PICK r : r = MoveOn(ring[t], c)
    OBVIOUS
  <2>4. /\ r.cur = NextSlot(c) /\ r.head = NextSlot(c) /\ r.tail = e
        /\ r \in [head : Slots, cur : Slots, tail : Slots]
    BY <1>1, <1>4, <2>1, <2>3 DEF MoveOn
  <2>5. ring'[t] = r /\ \A u \in Rings \ {t} : ring'[u] = ring[u]
    BY <2>1, <2>2, <2>3
  <2>6. \A u \in Rings \ {t} : slot'[u] = slot[u] /\ verdicts'[u] = verdicts[u]
    BY <1>2, <2>1
  <2> QED BY <2>4, <2>5, <2>6
<1>6. \A i \in Slots : slot'[t][i].pkt = slot[t][i].pkt
  BY <1>1, <1>2 DEF Types
<1>7. /\ slot[t][c].pkt = Len(verdicts[t]) + 1 /\ Len(verdicts[t]) \in Nat
      /\ slot[t][c].pkt \in Nat
  <2>1. Ahead(c, c) = 0 /\ Ahead(c, e) > 0
    BY <1>1, NextNearer
  <2>2. Ahead(c, c) < Fresh(t) => slot[t][c].pkt = Len(verdicts[t]) + Ahead(c, c) + 1
    BY <1>1 DEF RingInv
  <2>3. slot[t][c].pkt = Len(verdicts[t]) + 0 + 1
    BY <2>1, <2>2 DEF Fresh
  <2>4. PICK n \in Nat : n = Len(verdicts[t])
    BY <1>1, LenProperties
  <2> QED BY <2>3, <2>4
<1>8. LET v == [pkt |-> slot[t][c].pkt, hit |-> hit]
      IN  /\ v \in Verdict /\ verdicts'[t] = Append(verdicts[t], v)
          /\ verdicts'[t] \in Seq(Verdict) /\ Len(verdicts'[t]) = Len(verdicts[t]) + 1
  BY <1>1, <1>2, <1>7 DEF Types
<1>9. /\ at' \in [Rings -> {"off", "loop", "poll", "get", "check", "closed"}]
      /\ at'[t] = "get" /\ \A u \in Rings \ {t} : at'[u] = at[u]
      /\ MapInv'
  BY <1>1, <1>3, MapsAlone
<1>10. Types'
  <2>1. slot' \in [Rings -> [Slots -> [pkt : Nat, fwd : BOOLEAN]]]
    <3>1. slot[t][c] \in [pkt : Nat, fwd : BOOLEAN] /\ Forwards(t, hit) \in BOOLEAN
      BY <1>1 DEF Types, Forwards
    <3> QED BY <1>1, <1>2, <3>1 DEF Types
  <2>2. ring' \in [Rings -> [head : Slots, cur : Slots, tail : Slots]]
    BY <1>3, <1>5 DEF Types
  <2>3. verdicts' \in [Rings -> Seq(Verdict)]
    BY <1>2, <1>8 DEF Types
  <2> QED BY <1>3, <1>9, <2>1, <2>2, <2>3 DEF Types, opening, kernel
<1>11. SlotInv'
  BY <1>3, <1>5, <1>9 DEF SlotInv
<1>12. RingInv'
  <2>1. /\ Ahead(NextSlot(c), e) = Ahead(c, e) - 1 /\ Ahead(c, e) \in Nat
        /\ Len(verdicts[t]) + Ahead(c, e) = arrived[t] /\ arrived' = arrived
    <3>1. /\ Ahead(NextSlot(c), e) = Ahead(c, e) - 1 /\ Ahead(c, e) \in 0 .. NSlots - 1
      BY <1>1, NextNearer
    <3>2. Len(verdicts[t]) + Ahead(c, e) = arrived[t] /\ arrived' = arrived
      BY <1>3 DEF RingInv, Fresh, kernel
    <3> HIDE DEF c, e
    <3> QED BY <3>1, <3>2
  <2>2. ASSUME NEW i \in Slots, Ahead(NextSlot(c), i) < Ahead(NextSlot(c), e)
        PROVE  slot'[t][i].pkt = Len(verdicts'[t]) + Ahead(NextSlot(c), i) + 1
    <3>1. /\ Ahead(NextSlot(c), i) = Ahead(c, i) - 1 /\ Ahead(c, i) \in Nat
          /\ Ahead(c, i) < Ahead(c, e)
      BY <1>1, <2>1, <2>2, NSlotsAssumption, NextNearer
    <3>2. slot[t][i].pkt = Len(verdicts[t]) + Ahead(c, i) + 1
      BY <3>1 DEF RingInv, Fresh
    <3> QED BY <1>6, <1>7, <1>8, <3>1, <3>2
  <2>3. Len(verdicts'[t]) + Ahead(NextSlot(c), e) = arrived'[t]
    BY <1>7, <1>8, <2>1
  <2> QED BY <1>5, <2>1, <2>2, <2>3 DEF RingInv, Fresh
<1>13. CheckedInOrder'
  <2>1. \A i \in DOMAIN verdicts'[t] : verdicts'[t][i].pkt = i
    <3>1. ASSUME NEW i \in 1 .. Len(verdicts[t]) PROVE verdicts'[t][i].pkt = i
      BY <1>1, <1>8, <3>1 DEF CheckedInOrder
    <3>2. verdicts'[t][Len(verdicts[t]) + 1].pkt = Len(verdicts[t]) + 1
      BY <1>1, <1>7, <1>8
    <3> QED BY <1>7, <1>8, <3>1, <3>2
  <2> QED BY <1>5, <2>1 DEF CheckedInOrder
<1> QED BY <1>9, <1>10, <1>11, <1>12, <1>13

LEMMA ThreadInv ==
  ASSUME IInv, NEW t \in Rings, ThreadStep(t)
  PROVE  IInv'
<1> USE DEF IInv
<1>1. CASE Loop(t)
  <2>1. CASE interrupt
    BY <1>1, <2>1, CloseInv DEF Loop
  <2>2. CASE ~interrupt
    <3>1. Goto(t, "poll") /\ UNCHANGED <<opening, ring, slot, kernel, cur_slot_id, verdicts>>
      BY <1>1, <2>2 DEF Loop, opening
    <3>2. /\ at' \in [Rings -> {"off", "loop", "poll", "get", "check", "closed"}]
          /\ at'[t] = "poll" /\ \A u \in Rings \ {t} : at'[u] = at[u]
          /\ MapInv'
      BY <1>1, <3>1, MapsAlone DEF Loop
    <3>3. Types'
      BY <3>1, <3>2 DEF Types, opening, kernel
    <3> QED BY <3>1, <3>2, <3>3, RingsAlone DEF kernel
  <2> QED BY <2>1, <2>2
<1>2. CASE Poll(t)
  BY <1>2, PollInv
<1>3. CASE PollFails(t)
  BY <1>3, CloseInv DEF PollFails
<1>4. CASE GetBuff(t)
  <2>1. /\ desc[t].first = t /\ at[t] = "get" /\ ring[t].cur \in Slots
        /\ UNCHANGED <<opening, ring, slot, kernel, verdicts>>
    BY <1>4 DEF GetBuff, MapInv, Types
  <2>2. CASE RingEmpty(ring[t])
    <3>1. Goto(t, "loop") /\ UNCHANGED cur_slot_id
      BY <1>4, <2>1, <2>2 DEF GetBuff
    <3>2. /\ at' \in [Rings -> {"off", "loop", "poll", "get", "check", "closed"}]
          /\ at'[t] = "loop" /\ \A u \in Rings \ {t} : at'[u] = at[u]
          /\ MapInv'
      BY <2>1, <3>1, MapsAlone
    <3>3. Types'
      BY <2>1, <3>1, <3>2 DEF Types, opening, kernel
    <3> QED BY <2>1, <3>1, <3>2, <3>3, RingsAlone DEF kernel
  <2>3. CASE ~RingEmpty(ring[t])
    <3>1. Goto(t, "check") /\ cur_slot_id' = [cur_slot_id EXCEPT ![t] = ring[t].cur]
      BY <1>4, <2>1, <2>3 DEF GetBuff
    <3>2. /\ at' \in [Rings -> {"off", "loop", "poll", "get", "check", "closed"}]
          /\ at'[t] = "check" /\ \A u \in Rings \ {t} : at'[u] = at[u]
          /\ MapInv'
      BY <2>1, <3>1, MapsAlone
    <3>3. Types'
      BY <2>1, <3>1, <3>2 DEF Types, opening, kernel
    <3>4. SlotInv'
      BY <2>1, <2>3, <3>1, <3>2 DEF SlotInv, RingEmpty, Types
    <3>5. RingInv' /\ CheckedInOrder'
      BY <2>1 DEF RingInv, Fresh, CheckedInOrder, kernel
    <3> QED BY <3>2, <3>3, <3>4, <3>5
  <2> QED BY <2>2, <2>3
<1>5. CASE CheckPacket(t)
  BY <1>5, CheckInv
<1> QED BY <1>1, <1>2, <1>3, <1>4, <1>5 DEF ThreadStep

LEMMA NextInv == IInv /\ [Next]_vars => IInv'
<1> SUFFICES ASSUME IInv, [Next]_vars PROVE IInv'
  OBVIOUS
<1>1. CASE OpenInterface \/ StartThread \/ OpenFails \/ Interrupt
  BY <1>1, MainStepInv
<1>2. ASSUME NEW t \in Rings, ThreadStep(t) PROVE IInv'
  BY <1>2, ThreadInv
<1>3. CASE UNCHANGED vars
  BY <1>3 DEF vars, opening, kernel, IInv, Types, MapInv, SlotInv, RingInv, Fresh, CheckedInOrder
<1> QED BY <1>1, <1>2, <1>3 DEF Next

-----------------------------------------------------------------------------
(* What the kernel takes back, and forwards.                               *)

\* The other variables, and their types.
RestTypes ==
  /\ mapped \subseteq Mapper
  /\ hwcur \in [Rings -> Slots]
  /\ interrupt \in BOOLEAN
  /\ forwarded \in [Rings -> Seq(Nat)]

Verdicts == Seq([pkt : Nat, hit : BOOLEAN])
SlotState == [Slots -> [pkt : Nat, fwd : BOOLEAN]]

\* A ring with hwcur h, head and cur c, tail e, slots s and verdicts v; its
\* first hits are forwarded if own holds: the slots from h to c hold the last
\* that were checked, with the mark their verdict asks for, and those from c
\* on bear no mark yet.
Marked(h, c, e, s, v, own) ==
  /\ Ahead(h, c) + Ahead(c, e) < NSlots
  /\ Ahead(h, c) <= Len(v)
  /\ \A i \in Slots : Ahead(h, i) < Ahead(h, c) =>
       /\ s[i].pkt = Len(v) - Ahead(h, c) + Ahead(h, i) + 1
       /\ s[i].fwd = (own /\ v[Len(v) - Ahead(h, c) + Ahead(h, i) + 1].hit)
  /\ \A i \in Slots : Ahead(c, i) < Ahead(c, e) => s[i].fwd = FALSE

MarkInv ==
  \A r \in Rings : Marked(hwcur[r], ring[r].cur, ring[r].tail, slot[r], verdicts[r], r = 0)

FInv == IInv /\ RestTypes /\ MarkInv /\ ForwardsAccepted

\* The packet at cur is checked, and its slot marked.
Checked(c, s, s2, v, v2, own, hit) ==
  /\ s[c].pkt = Len(v) + 1 /\ s2[c].pkt = s[c].pkt
  /\ s2[c].fwd = (s[c].fwd \/ (hit /\ own))
  /\ \A i \in Slots \ {c} : s2[i] = s[i]
  /\ v2 = Append(v, [pkt |-> s[c].pkt, hit |-> hit])

LEMMA MarkedNext ==
  ASSUME NEW h \in Slots, NEW c \in Slots, NEW e \in Slots, c # e,
         NEW s \in SlotState, NEW s2 \in SlotState, NEW v \in Verdicts, NEW v2 \in Verdicts,
         NEW own \in BOOLEAN, NEW hit \in BOOLEAN,
         Marked(h, c, e, s, v, own), Checked(c, s, s2, v, v2, own, hit)
  PROVE  /\ Marked(h, NextSlot(c), e, s2, v2, own)
         /\ Ahead(h, NextSlot(c)) = Ahead(h, c) + 1
         /\ Len(v2) = Len(v) + 1
         /\ \A n \in 1 .. Len(v) : v2[n] = v[n]
<1> USE DEF Checked
<1>1. /\ NextSlot(c) \in Slots /\ Ahead(h, c) \in Nat /\ Ahead(c, e) \in Nat /\ Len(v) \in Nat
      /\ Ahead(h, NextSlot(c)) = Ahead(h, c) + 1 /\ Ahead(NextSlot(c), e) = Ahead(c, e) - 1
      /\ Ahead(c, e) > 0 /\ Ahead(c, c) = 0
  <2>1. Ahead(h, c) + Ahead(c, e) < NSlots /\ Len(v) \in Nat
    BY DEF Marked, Verdicts
  <2>2. Ahead(h, NextSlot(c)) = Ahead(h, c) + 1
    BY <2>1, HeadFurther
  <2>3. \A i \in Slots, j \in Slots : Ahead(i, j) \in Nat
    BY AheadType
  <2> QED BY <2>1, <2>2, <2>3, NextNearer
<1>2. /\ Len(v2) = Len(v) + 1
      /\ \A n \in 1 .. Len(v) : v2[n] = v[n]
      /\ v2[Len(v) + 1].hit = hit
  BY DEF Verdicts
<1>3. Ahead(h, NextSlot(c)) + Ahead(NextSlot(c), e) < NSlots /\ Ahead(h, NextSlot(c)) <= Len(v2)
  <2>1. Ahead(h, c) + Ahead(c, e) < NSlots /\ Ahead(h, c) <= Len(v)
    BY DEF Marked
  <2> QED BY <1>1, <1>2, <2>1, NSlotsAssumption
<1>4. ASSUME NEW i \in Slots, Ahead(h, i) < Ahead(h, NextSlot(c))
      PROVE  /\ s2[i].pkt = Len(v2) - Ahead(h, NextSlot(c)) + Ahead(h, i) + 1
             /\ s2[i].fwd = (own /\ v2[Len(v2) - Ahead(h, NextSlot(c)) + Ahead(h, i) + 1].hit)
  <2>1. PICK n \in Int : /\ n = Len(v) - Ahead(h, c) + Ahead(h, i) + 1
                         /\ n = Len(v2) - Ahead(h, NextSlot(c)) + Ahead(h, i) + 1
                         /\ Ahead(h, i) \in Nat
    <3>1. Ahead(h, i) \in Nat
      BY AheadType
    <3>2. PICK a \in Nat, b \in Nat, k \in Nat : a = Ahead(h, c) /\ b = Ahead(h, i) /\ k = Len(v)
      <4>1. Ahead(h, c) \in Nat
        BY AheadType
      <4>2. Len(v) \in Nat
        BY LenProperties DEF Verdicts
      <4> QED BY <3>1, <4>1, <4>2
    <3>3. Len(v2) = k + 1 /\ Ahead(h, NextSlot(c)) = a + 1
      BY <1>1, <1>2, <3>2
    <3>4. k - a + b + 1 = (k + 1) - (a + 1) + b + 1 /\ k - a + b + 1 \in Int
      OBVIOUS
    <3> QED BY <3>1, <3>2, <3>3, <3>4
  <2>2. CASE i = c
    <3>1. n = Len(v) + 1
      BY <1>1, <2>1, <2>2
    <3>2. s[c].fwd = FALSE
      BY <1>1 DEF Marked
    <3> QED BY <1>2, <2>1, <2>2, <3>1, <3>2
  <2>3. CASE i # c
    <3>1. Ahead(h, i) < Ahead(h, c)
      BY <1>1, <1>4, <2>3, OtherSlot
    <3>2. s[i].pkt = n /\ s[i].fwd = (own /\ v[n].hit)
      BY <2>1, <3>1 DEF Marked
    <3>3. n \in 1 .. Len(v)
      <4>1. Ahead(h, c) <= Len(v)
        BY DEF Marked
      <4> QED BY <1>1, <2>1, <3>1, <4>1
    <3>4. s2[i] = s[i] /\ v2[n] = v[n]
      BY <1>2, <2>3, <3>3
    <3> QED BY <2>1, <3>2, <3>4
  <2> QED BY <2>2, <2>3
<1>5. ASSUME NEW i \in Slots, Ahead(NextSlot(c), i) < Ahead(NextSlot(c), e)
      PROVE  s2[i].fwd = FALSE
  <2>1. Ahead(c, i) < Ahead(c, e) /\ i # c
    BY <1>1, <1>5, NSlotsAssumption, NextNearer DEF Slots, Ahead, NextSlot
  <2> QED BY <2>1 DEF Marked
<1> QED BY <1>1, <1>2, <1>3, <1>4, <1>5 DEF Marked

\* The kernel takes back what is before head and fills slots from the tail on.
LEMMA MarkedSync ==
  ASSUME NEW h \in Slots, NEW c \in Slots, NEW e \in Slots,
         NEW s \in SlotState, NEW s2 \in SlotState, NEW v \in Verdicts, NEW own \in BOOLEAN,
         NEW n \in 0 .. NSlots - 1 - Ahead(c, e),
         Marked(h, c, e, s, v, own),
         \A i \in Slots : IF Ahead(e, i) < n THEN s2[i].fwd = FALSE ELSE s2[i] = s[i]
  PROVE  Marked(c, c, SlotAt(e, n), s2, v, own)
<1>1. Ahead(c, c) = 0 /\ Len(v) \in Nat
  BY NSlotsAssumption DEF Ahead, Slots, Verdicts
<1>2. SlotAt(e, n) \in Slots /\ Ahead(c, SlotAt(e, n)) = Ahead(c, e) + n
  BY TailFurther
<1>3. Ahead(c, e) \in Nat /\ Ahead(c, e) + n < NSlots
  BY NSlotsAssumption DEF Slots, Ahead
<1>4. \A i \in Slots : ~(Ahead(c, i) < 0)
  BY NSlotsAssumption DEF Slots, Ahead
<1>5. ASSUME NEW i \in Slots, Ahead(c, i) < Ahead(c, SlotAt(e, n)) PROVE s2[i].fwd = FALSE
  <2>1. CASE Ahead(c, i) < Ahead(c, e)
    <3>1. ~(Ahead(e, i) < n)
      BY <1>2, <1>5, <2>1, TailWrites
    <3> QED BY <2>1, <3>1 DEF Marked
  <2>2. CASE ~(Ahead(c, i) < Ahead(c, e))
    <3>1. Ahead(e, i) < n
      BY <1>2, <1>5, <2>2, TailWrites
    <3> QED BY <3>1
  <2> QED BY <2>1, <2>2
<1>6. 0 + Ahead(c, SlotAt(e, n)) < NSlots /\ 0 <= Len(v)
  BY <1>1, <1>2, <1>3
<1> QED BY <1>1, <1>4, <1>5, <1>6 DEF Marked

\* The slot n after h is n ahead of it.
LEMMA SlotAhead ==
  ASSUME NEW h \in Slots, NEW n \in 0 .. NSlots - 1
  PROVE  SlotAt(h, n) \in Slots /\ Ahead(h, SlotAt(h, n)) = n
BY NSlotsAssumption DEF Slots, SlotAt, Ahead

\* The packets of the slots from h to c, and the verdicts' hits among the
\* first m of them.
Back(h, c, s) ==
  Kept(Ahead(h, c), [n \in 1 .. Ahead(h, c) |-> s[SlotAt(h, n - 1)].pkt],
                    [n \in 1 .. Ahead(h, c) |-> s[SlotAt(h, n - 1)].fwd])
Hits(m, v) == Kept(m, [n \in 1 .. m |-> v[n].pkt], [n \in 1 .. m |-> v[n].hit])

\* The packets of the slots that are given back are the last that were checked.
LEMMA MarkedForwards ==
  ASSUME NEW h \in Slots, NEW c \in Slots, NEW e \in Slots,
         NEW s \in SlotState, NEW v \in Verdicts, NEW own \in BOOLEAN,
         Marked(h, c, e, s, v, own), \A n \in 1 .. Len(v) : v[n].pkt = n
  PROVE  /\ Back(h, c, s) \in Seq(Nat)
         /\ own => Hits(Len(v) - Ahead(h, c), v) \o Back(h, c, s) = Hits(Len(v), v)
         /\ ~own => Back(h, c, s) = <<>>
<1>1. PICK k \in Nat, m \in Nat : /\ k = Ahead(h, c) /\ m = Len(v) - k
                                  /\ m + k = Len(v) /\ k < NSlots
  <2>1. Ahead(h, c) \in Nat /\ Ahead(h, c) < NSlots /\ Len(v) \in Nat
    BY NSlotsAssumption DEF Slots, Ahead, Verdicts
  <2>2. Ahead(h, c) <= Len(v)
    BY DEF Marked
  <2>3. Len(v) - Ahead(h, c) \in Nat /\ (Len(v) - Ahead(h, c)) + Ahead(h, c) = Len(v)
    BY <2>1, <2>2
  <2> QED BY <2>1, <2>3
<1> DEFINE pkt == [n \in 1 .. k |-> s[SlotAt(h, n - 1)].pkt]
           fwd == [n \in 1 .. k |-> s[SlotAt(h, n - 1)].fwd]
           allPkt == [n \in 1 .. m + k |-> v[n].pkt]
           allHit == [n \in 1 .. m + k |-> v[n].hit]
<1>0. \A n \in 1 .. m + k : v[n].pkt = n /\ v[n].hit \in BOOLEAN
  <2>1. \A S : \A l \in Seq(S) : \A i \in 1 .. Len(l) : l[i] \in S
    OBVIOUS
  <2>2. \A i \in 1 .. Len(v) : v[i] \in [pkt : Nat, hit : BOOLEAN]
    BY <2>1, Zenon DEF Verdicts
  <2> QED BY <1>1, <2>2
<1>2. Back(h, c, s) = Kept(k, pkt, fwd)
  BY <1>1 DEF Back
<1>3. ASSUME NEW n \in 1 .. k
      PROVE  pkt[n] = s[SlotAt(h, n - 1)].pkt /\ fwd[n] = (own /\ v[m + n].hit)
             /\ pkt[n] = m + n /\ pkt[n] \in Nat
  <2>1. n - 1 \in 0 .. NSlots - 1 /\ n - 1 < k /\ m + (n - 1) + 1 = m + n /\ m + n \in Nat
    <3>1. k \in Nat /\ k < NSlots /\ m \in Nat
      BY <1>1
    <3> QED BY <3>1, NSlotsAssumption
  <2>2. PICK i \in Slots : i = SlotAt(h, n - 1) /\ Ahead(h, i) = n - 1
    BY <2>1, SlotAhead
  <2>3. s[i].pkt = m + (n - 1) + 1 /\ s[i].fwd = (own /\ v[m + (n - 1) + 1].hit)
    BY <1>1, <2>1, <2>2 DEF Marked
  <2> QED BY <2>1, <2>2, <2>3
<1>4. Kept(k, pkt, fwd) \in Seq(Nat)
  <2>1. AllIn(k, pkt, Nat)
    BY <1>3 DEF AllIn
  <2> HIDE DEF pkt, fwd
  <2> QED BY <2>1, KeptType
<1>5. ASSUME ~own PROVE Kept(k, pkt, fwd) = <<>>
  <2>1. \A n \in 1 .. k : ~fwd[n]
    BY <1>3, <1>5
  <2> HIDE DEF pkt, fwd
  <2> QED BY <2>1, KeptNone
<1>6. Hits(m, v) = Kept(m, allPkt, allHit) /\ Hits(m + k, v) = Kept(m + k, allPkt, allHit)
  <2>1. \A n \in 1 .. m : n \in 1 .. m + k
    OBVIOUS
  <2> DEFINE p == [n \in 1 .. m |-> v[n].pkt]
             q == [n \in 1 .. m |-> v[n].hit]
  <2>2. \A n \in 1 .. m : p[n] = allPkt[n] /\ q[n] = allHit[n]
    BY <2>1
  <2>3. Hits(m, v) = Kept(m, p, q)
    BY DEF Hits
  <2> HIDE DEF p, q, allPkt, allHit
  <2>4. Kept(m, p, q) = Kept(m, allPkt, allHit)
    BY <2>2, KeptSame
  <2>5. Hits(m, v) = Kept(m, allPkt, allHit)
    BY <2>3, <2>4
  <2> QED BY <2>5 DEF Hits, allPkt, allHit
<1>7. ASSUME own
      PROVE  Kept(m, allPkt, allHit) \o Kept(k, pkt, fwd) = Kept(m + k, allPkt, allHit)
  <2>1. AllIn(m + k, allPkt, Nat)
    BY <1>0 DEF AllIn
  <2>2. \A n \in 1 .. k : fwd[n] = allHit[m + n]
    <3>1. ASSUME NEW n \in 1 .. k PROVE fwd[n] = allHit[m + n]
      <4>1. m + n \in 1 .. m + k
        OBVIOUS
      <4>2. allHit[m + n] = v[m + n].hit /\ v[m + n].hit \in BOOLEAN
        BY <1>0, <4>1
      <4>3. fwd[n] = (own /\ v[m + n].hit)
        BY <1>3
      <4> QED BY <1>7, <4>2, <4>3
    <3> QED BY <3>1
  <2>3. \A n \in 1 .. k : pkt[n] = allPkt[m + n]
    <3>1. ASSUME NEW n \in 1 .. k PROVE pkt[n] = allPkt[m + n]
      <4>1. m + n \in 1 .. m + k
        OBVIOUS
      <4>2. allPkt[m + n] = m + n
        BY <1>0, <4>1
      <4>3. pkt[n] = m + n
        BY <1>3
      <4> HIDE DEF pkt, allPkt
      <4> QED BY <4>2, <4>3
    <3> QED BY <3>1
  <2> HIDE DEF pkt, fwd, allPkt, allHit
  <2>4. LastOnes(Nat, m, k, allPkt, allHit, pkt, fwd)
    BY <2>1, <2>2, <2>3 DEF LastOnes
  <2> QED BY <2>4, KeptPlus
<1> HIDE DEF pkt, fwd, allPkt, allHit
<1> QED BY <1>1, <1>2, <1>4, <1>5, <1>6, <1>7

-----------------------------------------------------------------------------
LEMMA InitFInv == Init => FInv
<1> SUFFICES ASSUME Init PROVE FInv
  OBVIOUS
<1>1. 0 \in Slots /\ 0 \in Rings
  BY NSlotsAssumption, NRingsAssumption DEF Slots, Rings
<1>2. RestTypes
  <2>1. <<>> \in Seq(Nat)
    OBVIOUS
  <2> QED BY <1>1, <2>1 DEF Init, RestTypes
<1>3. Ahead(0, 0) = 0 /\ \A i \in Slots : ~(Ahead(0, i) < 0)
  BY NSlotsAssumption DEF Slots, Ahead
<1>4. MarkInv
  <2>1. ASSUME NEW r \in Rings
        PROVE  Marked(hwcur[r], ring[r].cur, ring[r].tail, slot[r], verdicts[r], r = 0)
    <3>1. hwcur[r] = 0 /\ ring[r].cur = 0 /\ ring[r].tail = 0 /\ verdicts[r] = <<>>
      BY DEF Init
    <3>2. 0 + 0 < NSlots /\ 0 <= Len(<<>>)
      BY NSlotsAssumption
    <3> QED BY <1>3, <3>1, <3>2 DEF Marked
  <2> QED BY <2>1 DEF MarkInv
<1>5. ForwardsAccepted
  <2>1. ASSUME NEW r \in Rings PROVE Accepted(r, TakenBack(r)) = <<>>
    <3>1. TakenBack(r) = 0
      <4>1. hwcur[r] = 0 /\ ring[r].head = 0 /\ verdicts[r] = <<>>
        BY DEF Init
      <4> QED BY <1>3, <4>1 DEF TakenBack, GivenBack
    <3> QED BY <3>1, KeptNext DEF Accepted
  <2> QED BY <2>1 DEF ForwardsAccepted, Init
<1> QED BY <1>2, <1>4, <1>5, InitInv DEF FInv

\* A step that neither takes packets back nor checks one.
LEMMA MarksAlone ==
  ASSUME FInv, UNCHANGED <<ring, slot, hwcur, verdicts, forwarded>>
  PROVE  MarkInv' /\ ForwardsAccepted'
BY DEF FInv, MarkInv, ForwardsAccepted, Accepted, TakenBack, GivenBack

\* ForwardsAccepted, ring by ring.
LEMMA AcceptedHits ==
  ASSUME NEW r \in Rings
  PROVE  Accepted(r, TakenBack(r)) = Hits(Len(verdicts[r]) - Ahead(hwcur[r], ring[r].head), verdicts[r])
BY DEF Accepted, Hits, TakenBack, GivenBack

LEMMA PollFInv ==
  ASSUME FInv, NEW t \in Rings, Poll(t)
  PROVE  FInv'
<1>1. /\ IInv /\ RestTypes /\ MarkInv /\ ForwardsAccepted /\ IInv'
      /\ Types /\ Types'
  BY PollInv DEF FInv, IInv
<1>2. desc[t].first = t /\ ring[t].head = ring[t].cur
  BY <1>1 DEF Poll, MapInv, SlotInv, IInv
<1>3. PICK h, c, e, s, v : /\ h = hwcur[t] /\ c = ring[t].cur /\ e = ring[t].tail
                           /\ s = slot[t] /\ v = verdicts[t]
  OBVIOUS
<1>4. h \in Slots /\ c \in Slots /\ e \in Slots /\ s \in SlotState /\ v \in Verdicts
  BY <1>1, <1>3 DEF Types, RestTypes, SlotState, Verdicts
<1>5. PICK n \in 0 .. NSlots - 1 - Ahead(c, e) :
        /\ forwarded' = [forwarded EXCEPT ![t] = @ \o Forwarded(t)]
        /\ hwcur' = [hwcur EXCEPT ![t] = ring[t].head]
        /\ ring' = [ring EXCEPT ![t].tail = SlotAt(@, n)]
        /\ slot' = [slot EXCEPT ![t] = [i \in Slots |->
             IF Ahead(ring[t].tail, i) < n
             THEN [pkt |-> arrived[t] + Ahead(ring[t].tail, i) + 1, fwd |-> FALSE]
             ELSE @[i]]]
  <2>1. RxSync(t) /\ Ahead(ring[t].head, ring[t].tail) = Ahead(c, e)
    BY <1>2, <1>3 DEF Poll
  <2> QED BY <2>1, Zenon DEF RxSync
<1>6. /\ ring'[t].cur = c /\ ring'[t].head = c /\ ring'[t].tail = SlotAt(e, n) /\ hwcur'[t] = c
      /\ \A u \in Rings \ {t} : ring'[u] = ring[u] /\ hwcur'[u] = hwcur[u] /\ slot'[u] = slot[u]
                                /\ forwarded'[u] = forwarded[u]
      /\ verdicts' = verdicts
  BY <1>1, <1>2, <1>3, <1>5 DEF Types, RestTypes, Poll
<1>7. PICK s2 : s2 = slot'[t]
  OBVIOUS
<1>8. s2 \in SlotState /\ \A i \in Slots : IF Ahead(e, i) < n THEN s2[i].fwd = FALSE ELSE s2[i] = s[i]
  <2>1. s2 \in SlotState
    BY <1>1, <1>7 DEF Types, SlotState
  <2>2. ASSUME NEW i \in Slots, NEW num, num = arrived[t] + Ahead(e, i) + 1
        PROVE  s2[i] = IF Ahead(e, i) < n THEN [pkt |-> num, fwd |-> FALSE] ELSE s[i]
    BY <1>1, <1>3, <1>5, <1>7, <2>2 DEF Types
  <2>3. ASSUME NEW i \in Slots
        PROVE  IF Ahead(e, i) < n THEN s2[i].fwd = FALSE ELSE s2[i] = s[i]
    <3>1. PICK num : num = arrived[t] + Ahead(e, i) + 1
      OBVIOUS
    <3>2. s2[i] = IF Ahead(e, i) < n THEN [pkt |-> num, fwd |-> FALSE] ELSE s[i]
      BY <2>2, <3>1
    <3> QED BY <3>2
  <2> QED BY <2>1, <2>3
<1>9. Marked(h, c, e, s, v, t = 0)
  BY <1>1, <1>3 DEF MarkInv
<1>10. MarkInv'
  <2>1. Marked(c, c, SlotAt(e, n), s2, v, t = 0)
    BY <1>4, <1>8, <1>9, MarkedSync
  <2>2. ASSUME NEW r \in Rings
        PROVE  Marked(hwcur'[r], ring'[r].cur, ring'[r].tail, slot'[r], verdicts'[r], r = 0)
    <3>1. CASE r = t
      BY <1>3, <1>6, <1>7, <2>1, <3>1
    <3>2. CASE r # t
      BY <1>1, <1>6, <3>2 DEF MarkInv
    <3> QED BY <3>1, <3>2
  <2> QED BY <2>2 DEF MarkInv
<1>11. Forwarded(t) = Back(h, c, s)
  BY <1>2, <1>3 DEF Forwarded, GivenBack, Back
<1>12. /\ Back(h, c, s) \in Seq(Nat)
       /\ t = 0 => Hits(Len(v) - Ahead(h, c), v) \o Back(h, c, s) = Hits(Len(v), v)
       /\ t # 0 => Back(h, c, s) = <<>>
  <2>1. \A i \in 1 .. Len(v) : v[i].pkt = i
    BY <1>1, <1>3, <1>4 DEF IInv, CheckedInOrder, Verdicts
  <2>2. PICK own \in BOOLEAN : own = (t = 0)
    OBVIOUS
  <2>3. Marked(h, c, e, s, v, own)
    BY <1>9, <2>2
  <2>4. /\ Back(h, c, s) \in Seq(Nat)
        /\ own => Hits(Len(v) - Ahead(h, c), v) \o Back(h, c, s) = Hits(Len(v), v)
        /\ ~own => Back(h, c, s) = <<>>
    BY <1>4, <2>1, <2>3, MarkedForwards
  <2> QED BY <2>2, <2>4
<1>13. forwarded'[t] = forwarded[t] \o Back(h, c, s) /\ forwarded[t] \in Seq(Nat)
  BY <1>1, <1>5, <1>11 DEF RestTypes
<1>14. RestTypes'
  <2>1. forwarded' \in [Rings -> Seq(Nat)]
    <3>1. forwarded[t] \o Back(h, c, s) \in Seq(Nat)
      BY <1>12, <1>13, ConcatProperties
    <3>2. forwarded' = [forwarded EXCEPT ![t] = forwarded[t] \o Back(h, c, s)]
      BY <1>5, <1>11
    <3> QED BY <1>1, <3>1, <3>2 DEF RestTypes
  <2>2. hwcur' \in [Rings -> Slots]
    BY <1>1, <1>2, <1>3, <1>4, <1>5 DEF RestTypes
  <2>3. mapped' = mapped /\ interrupt' = interrupt
    BY DEF Poll, opening
  <2> QED BY <1>1, <2>1, <2>2, <2>3 DEF RestTypes
<1>15. ForwardsAccepted'
  <2>1. ASSUME NEW r \in Rings
        PROVE  forwarded'[r] = IF r = 0 THEN Accepted(r, TakenBack(r))' ELSE <<>>
    <3>1. CASE r = t
      <4>1. Accepted(t, TakenBack(t)) = Hits(Len(v) - Ahead(h, c), v)
        BY <1>2, <1>3, AcceptedHits
      <4>2. Accepted(t, TakenBack(t))' = Hits(Len(v), v)
        <5>1. Len(v) - Ahead(c, c) = Len(v)
          <6>1. Ahead(c, c) = 0
            BY <1>4, NextNearer
          <6>2. Len(v) \in Nat
            BY <1>4 DEF Verdicts
          <6> QED BY <6>1, <6>2
        <5>2. Accepted(t, TakenBack(t))' = Hits(Len(verdicts'[t]) - Ahead(hwcur'[t], ring'[t].head), verdicts'[t])
          BY DEF Accepted, Hits, TakenBack, GivenBack
        <5> QED BY <1>3, <1>6, <5>1, <5>2
      <4>3. forwarded[t] = IF t = 0 THEN Hits(Len(v) - Ahead(h, c), v) ELSE <<>>
        BY <1>1, <4>1 DEF ForwardsAccepted
      <4>4. <<>> \o <<>> = <<>>
        OBVIOUS
      <4> QED BY <1>12, <1>13, <3>1, <4>2, <4>3, <4>4
    <3>2. CASE r # t
      <4>1. Accepted(r, TakenBack(r))' = Accepted(r, TakenBack(r))
        BY <1>6, <3>2 DEF Accepted, TakenBack, GivenBack
      <4> QED BY <1>1, <1>6, <3>2, <4>1 DEF ForwardsAccepted
    <3> QED BY <3>1, <3>2
  <2> QED BY <2>1 DEF ForwardsAccepted
<1> QED BY <1>1, <1>10, <1>14, <1>15 DEF FInv

LEMMA CheckFInv ==
  ASSUME FInv, NEW t \in Rings, CheckPacket(t)
  PROVE  FInv'
<1>1. /\ IInv /\ RestTypes /\ MarkInv /\ ForwardsAccepted /\ IInv'
      /\ Types /\ Types'
  BY CheckInv DEF FInv, IInv
<1>2. PICK h, c, e, s, v : /\ h = hwcur[t] /\ c = ring[t].cur /\ e = ring[t].tail
                           /\ s = slot[t] /\ v = verdicts[t]
  OBVIOUS
<1>3. h \in Slots /\ c \in Slots /\ e \in Slots /\ s \in SlotState /\ v \in Verdicts
  BY <1>1, <1>2 DEF Types, RestTypes, SlotState, Verdicts
<1>4. /\ desc[t].first = t /\ cur_slot_id[t] = c /\ c # e /\ ring[t].head = c
  BY <1>1, <1>2 DEF CheckPacket, MapInv, SlotInv, IInv
<1>5. PICK hit \in BOOLEAN :
        /\ verdicts' = [verdicts EXCEPT ![t] = Append(@, [pkt |-> slot[t][c].pkt, hit |-> hit])]
        /\ slot' = [slot EXCEPT ![t][c].fwd = @ \/ Forwards(t, hit)]
  BY <1>4 DEF CheckPacket
<1>6. /\ ring' = [ring EXCEPT ![t] = MoveOn(@, c)]
      /\ UNCHANGED <<opening, kernel, cur_slot_id, interrupt>>
  BY <1>4 DEF CheckPacket
<1>7. PICK s2, v2 : s2 = slot'[t] /\ v2 = verdicts'[t]
  OBVIOUS
<1>8. /\ s2 \in SlotState /\ v2 \in Verdicts
      /\ v2 = Append(v, [pkt |-> s[c].pkt, hit |-> hit])
  BY <1>1, <1>2, <1>5, <1>7 DEF Types, SlotState, Verdicts
<1>9. PICK own \in BOOLEAN : own = (t = 0) /\ Forwards(t, hit) = (hit /\ own)
  BY DEF Forwards
<1>10. /\ s2[c].pkt = s[c].pkt /\ s2[c].fwd = (s[c].fwd \/ (hit /\ own))
       /\ \A i \in Slots \ {c} : s2[i] = s[i]
  <2>1. s2 = [s EXCEPT ![c].fwd = @ \/ Forwards(t, hit)]
    BY <1>1, <1>2, <1>5, <1>7 DEF Types
  <2>2. PICK mark : mark = (s[c].fwd \/ Forwards(t, hit))
    OBVIOUS
  <2>3. s2 = [s EXCEPT ![c].fwd = mark]
    BY <2>1, <2>2, Zenon
  <2>4. /\ s2[c].pkt = s[c].pkt /\ s2[c].fwd = mark
        /\ \A i \in Slots \ {c} : s2[i] = s[i]
    BY <1>3, <2>3 DEF SlotState
  <2>5. mark = (s[c].fwd \/ (hit /\ own))
    BY <1>9, <2>2, Zenon
  <2> QED BY <2>4, <2>5
<1>11. /\ ring'[t].cur = NextSlot(c) /\ ring'[t].head = NextSlot(c) /\ ring'[t].tail = e
       /\ hwcur' = hwcur /\ forwarded' = forwarded
       /\ \A u \in Rings \ {t} : ring'[u] = ring[u] /\ slot'[u] = slot[u]
                                 /\ verdicts'[u] = verdicts[u]
  <2>1. /\ ring \in [Rings -> [head : Slots, cur : Slots, tail : Slots]]
        /\ DOMAIN verdicts = Rings /\ DOMAIN slot = Rings
    BY <1>1 DEF Types
  <2>2. ring' = [ring EXCEPT ![t] = MoveOn(ring[t], c)] /\ UNCHANGED kernel
    BY <1>6
  <2>3. PICK r : r = MoveOn(ring[t], c)
    OBVIOUS
  <2>4. r.cur = NextSlot(c) /\ r.head = NextSlot(c) /\ r.tail = e
    BY <1>2, <2>1, <2>3 DEF MoveOn
  <2>5. ring'[t] = r /\ \A u \in Rings \ {t} : ring'[u] = ring[u]
    BY <2>1, <2>2, <2>3
  <2>6. \A u \in Rings \ {t} : slot'[u] = slot[u] /\ verdicts'[u] = verdicts[u]
    BY <1>5, <2>1
  <2> QED BY <2>2, <2>4, <2>5, <2>6 DEF kernel
<1>12. s[c].pkt = Len(v) + 1
  <2>1. Ahead(c, c) = 0 /\ Ahead(c, e) > 0
    BY <1>3, <1>4, NextNearer
  <2>2. s[c].pkt = Len(v) + 0 + 1 /\ Len(v) \in Nat
    <3>1. s[c].pkt = Len(v) + Ahead(c, c) + 1
      BY <1>1, <1>2, <1>3, <2>1 DEF RingInv, Fresh, IInv
    <3>2. Len(v) \in Nat
      BY <1>3 DEF Verdicts
    <3> QED BY <2>1, <3>1, <3>2
  <2> QED BY <2>2
<1>13. Marked(h, c, e, s, v, own)
  <2>1. Marked(h, c, e, s, v, t = 0)
    BY <1>1, <1>2 DEF MarkInv
  <2> QED BY <1>9, <2>1
<1>14. /\ Marked(h, NextSlot(c), e, s2, v2, own)
       /\ Ahead(h, NextSlot(c)) = Ahead(h, c) + 1
       /\ Len(v2) = Len(v) + 1
       /\ \A n \in 1 .. Len(v) : v2[n] = v[n]
  <2>1. c # e
    BY <1>4
  <2>2. s2 \in SlotState /\ v2 \in Verdicts
    BY <1>8
  <2>3. Checked(c, s, s2, v, v2, own, hit)
    BY <1>8, <1>10, <1>12, Zenon DEF Checked
  <2> QED BY <1>3, <1>13, <2>1, <2>2, <2>3, MarkedNext
<1>15. MarkInv'
  <2>1. ASSUME NEW r \in Rings
        PROVE  Marked(hwcur'[r], ring'[r].cur, ring'[r].tail, slot'[r], verdicts'[r], r = 0)
    <3>1. CASE r = t
      BY <1>2, <1>7, <1>9, <1>11, <1>14, <3>1
    <3>2. CASE r # t
      BY <1>1, <1>11, <3>2 DEF MarkInv
    <3> QED BY <3>1, <3>2
  <2> QED BY <2>1 DEF MarkInv
<1>16. RestTypes'
  BY <1>1, <1>6 DEF RestTypes, opening, kernel
<1>17. ForwardsAccepted'
  <2>1. PICK m \in Nat : m = Len(v) - Ahead(h, c) /\ m = Len(v2) - Ahead(h, NextSlot(c)) /\ m <= Len(v)
    <3>1. Ahead(h, c) \in Nat /\ Len(v) \in Nat
      BY <1>3, NSlotsAssumption DEF Slots, Ahead, Verdicts
    <3>2. Ahead(h, c) <= Len(v)
      BY <1>13 DEF Marked
    <3>3. /\ Len(v) - Ahead(h, c) \in Nat /\ Len(v) - Ahead(h, c) <= Len(v)
          /\ Len(v) - Ahead(h, c) = Len(v2) - Ahead(h, NextSlot(c))
      BY <1>14, <3>1, <3>2
    <3> QED BY <3>3
  <2>2. Hits(m, v2) = Hits(m, v)
    <3> DEFINE p == [n \in 1 .. m |-> v[n].pkt]
               q == [n \in 1 .. m |-> v[n].hit]
               p2 == [n \in 1 .. m |-> v2[n].pkt]
               q2 == [n \in 1 .. m |-> v2[n].hit]
    <3>1. \A n \in 1 .. m : n \in 1 .. Len(v)
      <4>1. Len(v) \in Nat
        BY <1>3 DEF Verdicts
      <4> QED BY <2>1, <4>1
    <3>2. \A n \in 1 .. m : p2[n] = p[n] /\ q2[n] = q[n]
      BY <1>14, <3>1
    <3>3. Hits(m, v) = Kept(m, p, q) /\ Hits(m, v2) = Kept(m, p2, q2)
      BY DEF Hits
    <3> HIDE DEF p, q, p2, q2
    <3> QED BY <3>2, <3>3, KeptSame
  <2>3. Accepted(t, TakenBack(t)) = Hits(m, v)
    BY <1>2, <1>4, <2>1, AcceptedHits
  <2>4. Accepted(t, TakenBack(t))' = Hits(m, v2)
    <3>1. Accepted(t, TakenBack(t))' = Hits(Len(verdicts'[t]) - Ahead(hwcur'[t], ring'[t].head), verdicts'[t])
      BY DEF Accepted, Hits, TakenBack, GivenBack
    <3> QED BY <1>2, <1>7, <1>11, <2>1, <3>1
  <2>5. ASSUME NEW r \in Rings
        PROVE  Accepted(r, TakenBack(r))' = Accepted(r, TakenBack(r))
    <3>1. CASE r = t
      BY <2>2, <2>3, <2>4, <3>1
    <3>2. CASE r # t
      BY <1>11, <3>2 DEF Accepted, TakenBack, GivenBack
    <3> QED BY <3>1, <3>2
  <2> QED BY <1>1, <1>11, <2>5 DEF ForwardsAccepted
<1> QED BY <1>1, <1>15, <1>16, <1>17 DEF FInv

\* Every other step takes nothing back and checks nothing.
LEMMA OtherFInv ==
  ASSUME FInv, IInv', UNCHANGED <<ring, slot, hwcur, verdicts, forwarded>>,
         mapped' \subseteq Mapper, interrupt' \in BOOLEAN
  PROVE  FInv'
<1>1. RestTypes'
  BY DEF FInv, RestTypes
<1> QED BY <1>1, MarksAlone DEF FInv

LEMMA NextFInv == FInv /\ [Next]_vars => FInv'
<1> SUFFICES ASSUME FInv, [Next]_vars PROVE FInv'
  OBVIOUS
<1>1. IInv /\ IInv' /\ Types /\ mapped \subseteq Mapper /\ interrupt \in BOOLEAN
  BY NextInv DEF FInv, IInv, RestTypes
<1>2. CASE OpenInterface
  <2>1. mapped' \subseteq Mapper
    BY <1>2 DEF OpenInterface, Mapper
  <2> QED BY <1>1, <1>2, <2>1, OtherFInv DEF OpenInterface, kernel
<1>3. CASE StartThread
  <2>1. start.ring \in Rings
    BY <1>1 DEF Types
  <2>2. \A same \in BOOLEAN : Mapping(start.ring, same).mem \in Mapper
    BY <2>1 DEF Mapping, Mapper
  <2>3. mapped' \subseteq Mapper
    BY <1>1, <1>3, <2>2 DEF StartThread
  <2> QED BY <1>1, <1>3, <2>3, OtherFInv DEF StartThread, kernel
<1>4. CASE OpenFails
  BY <1>1, <1>4, OtherFInv DEF OpenFails, kernel
<1>5. CASE Interrupt
  BY <1>1, <1>5, OtherFInv DEF Interrupt, kernel, opening
<1>6. ASSUME NEW t \in Rings, ThreadStep(t) PROVE FInv'
  <2>1. CASE Loop(t)
    <3>1. mapped' \subseteq Mapper
      BY <1>1, <2>1 DEF Loop, Close
    <3> QED BY <1>1, <2>1, <3>1, OtherFInv DEF Loop, kernel
  <2>2. CASE Poll(t)
    BY <2>2, PollFInv
  <2>3. CASE PollFails(t)
    <3>1. mapped' \subseteq Mapper
      BY <1>1, <2>3 DEF PollFails, Close
    <3> QED BY <1>1, <2>3, <3>1, OtherFInv DEF PollFails, kernel
  <2>4. CASE GetBuff(t)
    BY <1>1, <2>4, OtherFInv DEF GetBuff, kernel, opening
  <2>5. CASE CheckPacket(t)
    BY <2>5, CheckFInv
  <2> QED BY <1>6, <2>1, <2>2, <2>3, <2>4, <2>5 DEF ThreadStep
<1>7. CASE UNCHANGED vars
  BY <1>1, <1>7, OtherFInv DEF vars, opening, kernel
<1> QED BY <1>2, <1>3, <1>4, <1>5, <1>6, <1>7 DEF Next

-----------------------------------------------------------------------------
(* The theorems.                                                           *)

\* collector.cpp:21-42: a thread checks each packet of its ring once, in the
\* order of arrival, however often the ring turns.
THEOREM ReceiverChecksInOrder == Spec => []CheckedInOrder
<1>1. IInv => CheckedInOrder
  BY DEF IInv
<1> QED BY <1>1, InitInv, NextInv, PTL DEF Spec

\* collector.cpp:29-42: the slot a thread looks at is not the kernel's.
THEOREM ReceiverOwnsSlot == Spec => []SlotIsOurs
<1>1. IInv => SlotIsOurs
  BY DEF IInv, SlotIsOurs, MapInv, SlotInv
<1> QED BY <1>1, InitInv, NextInv, PTL DEF Spec

\* sys/net/netmap_user.h:850-894, collector.cpp:144: whichever threads have
\* ended, those that go on read memory that is mapped.
THEOREM ReceiverMemoryMapped == Spec => []MemoryMapped
<1>1. IInv => MemoryMapped
  BY DEF IInv, MemoryMapped, MapInv
<1> QED BY <1>1, InitInv, NextInv, PTL DEF Spec

\* collector.cpp:5-148, sys/net/netmap_user.h:122-147: a slot's number stays
\* below num_slots, and what a thread has opened, read and closed is described.
THEOREM ReceiverTypes == Spec => []TypeOK
<1>1. FInv => TypeOK
  BY DEF FInv, IInv, Types, RestTypes, TypeOK
<1> QED BY <1>1, InitFInv, NextFInv, PTL DEF Spec

\* collector.cpp:126-137, sys/net/netmap.h:175-182: what the rules accepted on
\* ring 0, and nothing else, goes to the host stack, once and in order, when the
\* kernel takes the slots back.
THEOREM ReceiverForwardsAccepted == Spec => []ForwardsAccepted
<1>1. FInv => ForwardsAccepted
  BY DEF FInv
<1> QED BY <1>1, InitFInv, NextFInv, PTL DEF Spec
=============================================================================
