------------------------------- MODULE Receiver -------------------------------
(***************************************************************************)
(* NetmapReceiver and NetmapPoller (collector.cpp) on the netmap API       *)
(* (sys/net/netmap_user.h, netmap.h): main opens the interface and starts  *)
(* a thread per rx ring; a thread waits in poll, walks the slots between   *)
(* cur and tail, and gives them back by moving head.                       *)
(*                                                                         *)
(* A ring is touched by its thread and, while the thread is in poll, by    *)
(* the kernel, so what the thread does to one slot is one step.  Packets   *)
(* of a ring are numbered as they arrive; whether check_packet accepts one *)
(* is a choice, since the watcher changes the thread's rules.  verdicts    *)
(* and forwarded are history variables.                                    *)
(***************************************************************************)
EXTENDS Integers, Sequences, Functions, Filter

CONSTANTS
  NRings,     \* nr_rx_rings of the interface
  NSlots,     \* num_slots of a ring
  Port,       \* what the interface's name asks for: [reg, ring]
  MaxPackets  \* bound: packets that arrive

Rings == 0 .. NRings - 1
Slots == 0 .. NSlots - 1
Regs == {"all", "one", "sw", "nic_sw"}
Request == [reg : Regs, ring : Rings]

ASSUME NRingsAssumption == NRings \in Nat \ {0}
ASSUME NSlotsAssumption == NSlots \in Nat /\ NSlots > 1
ASSUME PortAssumption == Port \in Request
ASSUME MaxPacketsAssumption == MaxPackets \in Nat

VARIABLES
  start,      \* NetmapReceiver::start: the step and its ring
  desc,       \* descriptors: first_rx_ring, who mapped the memory
  mapped,     \* who has a mapping of the rings' memory that is in place
  ring,       \* struct netmap_ring: head, cur, tail
  slot,       \* its slots: the packet and NS_FORWARD
  hwcur,      \* the first slot the kernel has not taken back
  arrived,    \* packets that have been put into a ring
  at,         \* where a thread is
  cur_slot_id,
  interrupt,  \* threads.interrupt_all() has been called
  verdicts,   \* what was checked, by ring: the packet and the answer
  forwarded   \* packets of a ring passed to the host stack

kernel == <<hwcur, arrived, forwarded>>
opening == <<start, desc, mapped>>
vars == <<opening, ring, slot, kernel, at, cur_slot_id, interrupt, verdicts>>

\* Who maps the memory of the rings: thread t, or main.
Main == NRings
Mapper == Rings \cup {Main}
NoDesc == [first |-> 0, mem |-> Main, done_mmap |-> FALSE, open |-> FALSE]
\* The host ring, NRings, is the first ring of a request for it.
Descriptor == [first : 0 .. NRings, mem : Mapper, done_mmap : BOOLEAN, open : BOOLEAN]

TypeOK ==
  /\ start \in [at : {"open", "start", "running", "failed"}, ring : Rings]
  /\ desc \in [Rings -> Descriptor]
  /\ mapped \subseteq Mapper
  /\ ring \in [Rings -> [head : Slots, cur : Slots, tail : Slots]]
  /\ slot \in [Rings -> [Slots -> [pkt : Nat, fwd : BOOLEAN]]]
  /\ hwcur \in [Rings -> Slots]
  /\ arrived \in [Rings -> Nat]
  /\ at \in [Rings -> {"off", "loop", "poll", "get", "check", "closed"}]
  /\ cur_slot_id \in [Rings -> Slots]
  /\ interrupt \in BOOLEAN
  /\ verdicts \in [Rings -> Seq([pkt : Nat, hit : BOOLEAN])]
  /\ forwarded \in [Rings -> Seq(Nat)]

Init ==
  /\ start = [at |-> "open", ring |-> 0]
  /\ desc = [t \in Rings |-> NoDesc]
  /\ mapped = {}
  /\ ring = [r \in Rings |-> [head |-> 0, cur |-> 0, tail |-> 0]]
  /\ slot = [r \in Rings |-> [i \in Slots |-> [pkt |-> 0, fwd |-> FALSE]]]
  /\ hwcur = [r \in Rings |-> 0] /\ arrived = [r \in Rings |-> 0]
  /\ at = [t \in Rings |-> "off"]
  /\ cur_slot_id = [t \in Rings |-> 0]
  /\ interrupt = FALSE
  /\ verdicts = [r \in Rings |-> <<>>] /\ forwarded = [r \in Rings |-> <<>>]

-----------------------------------------------------------------------------
(* NetmapReceiver::start in main, and what nm_open makes of its arguments. *)

\* The end of nm_open: which ring is the descriptor's first.
FirstRing(req) ==
  CASE req.reg = "one" -> req.ring
    [] req.reg = "sw"  -> NRings
    [] OTHER           -> 0

\* Faulty variant: the request is that of the interface's name.
RequestOfName(t) == Port

\* nmd.req, which NM_OPEN_IFNAME puts in the place of what the name says.
RequestOf(t) == [reg |-> "one", ring |-> t]

\* nm_mmap: the parent's memory if the kernel gave both the same block, and
\* a mapping of its own if not.
Mapping(t, same) ==
  IF same THEN [mem |-> Main, done_mmap |-> FALSE]
          ELSE [mem |-> t, done_mmap |-> TRUE]

\* main_nmd stays open: nobody ever closes it.
OpenInterface ==
  /\ start.at = "open"
  /\ start' = [start EXCEPT !.at = "start"]
  /\ mapped' = {Main}
  /\ UNCHANGED <<desc, ring, slot, kernel, at, cur_slot_id, interrupt, verdicts>>

\* The next ring's descriptor, copied from main_nmd, and its thread.
StartThread ==
  LET t == start.ring
  IN  /\ start.at = "start"
      /\ \E same \in BOOLEAN :
           LET map == Mapping(t, same)
           IN  /\ desc' = [desc EXCEPT ![t] =
                    [first |-> FirstRing(RequestOf(t)), mem |-> map.mem,
                     done_mmap |-> map.done_mmap, open |-> TRUE]]
               /\ mapped' = mapped \cup {map.mem}
      /\ at' = [at EXCEPT ![t] = "loop"]
      /\ start' = IF t + 1 < NRings THEN [start EXCEPT !.ring = t + 1]
                                    ELSE [start EXCEPT !.at = "running"]
      /\ UNCHANGED <<ring, slot, kernel, cur_slot_id, interrupt, verdicts>>

\* Either nm_open fails: a NetmapException, and main returns 1.
OpenFails ==
  /\ start.at \in {"open", "start"}
  /\ start' = [start EXCEPT !.at = "failed"]
  /\ UNCHANGED <<desc, mapped, ring, slot, kernel, at, cur_slot_id, interrupt, verdicts>>

\* io_s.run() has returned in main: threads.interrupt_all()
Interrupt ==
  /\ start.at = "running"
  /\ ~interrupt
  /\ interrupt' = TRUE
  /\ UNCHANGED <<opening, ring, slot, kernel, at, cur_slot_id, verdicts>>

-----------------------------------------------------------------------------
(* The ring.                                                               *)

\* Faulty variants: the ring has no end; its last slot is left out.
NextBeyond(i) == i + 1
NextSkipsLast(i) == IF i + 2 >= NSlots THEN 0 ELSE i + 1

\* nm_ring_next
NextSlot(i) == IF i + 1 = NSlots THEN 0 ELSE i + 1

\* Faulty variant: the last packet is left in the ring.
EmptyBut1(r) == NextSlot(r.cur) = r.tail

\* nm_ring_empty
RingEmpty(r) == r.cur = r.tail

\* nm_ring_space for cur = i and tail = j: how far j is ahead of i.
Ahead(i, j) == IF j < i THEN j - i + NSlots ELSE j - i

\* The slot n after i, for n up to NSlots.
SlotAt(i, n) == IF i + n < NSlots THEN i + n ELSE i + n - NSlots

\* The slots given back since the last sync, from hwcur up to head, and those
\* of their packets that are marked NS_FORWARD.
GivenBack(r) == Ahead(hwcur[r], ring[r].head)
Forwarded(r) ==
  Kept(GivenBack(r),
       [n \in 1 .. GivenBack(r) |-> slot[r][SlotAt(hwcur[r], n - 1)].pkt],
       [n \in 1 .. GivenBack(r) |-> slot[r][SlotAt(hwcur[r], n - 1)].fwd])

\* The kernel's part of poll (netmap, outside the repository): slots before
\* head go back to it, those marked NS_FORWARD to the host stack, and new
\* packets are put in front of it as far as there is room.
RxSync(r) ==
  \E n \in 0 .. NSlots - 1 - Ahead(ring[r].head, ring[r].tail) :
    /\ SumFunction(arrived) + n <= MaxPackets
    /\ arrived' = [arrived EXCEPT ![r] = @ + n]
    /\ forwarded' = [forwarded EXCEPT ![r] = @ \o Forwarded(r)]
    /\ hwcur' = [hwcur EXCEPT ![r] = ring[r].head]
    /\ ring' = [ring EXCEPT ![r].tail = SlotAt(@, n)]
    /\ slot' = [slot EXCEPT ![r] = [i \in Slots |->
         IF Ahead(ring[r].tail, i) < n
         THEN [pkt |-> arrived[r] + Ahead(ring[r].tail, i) + 1, fwd |-> FALSE]
         ELSE @[i]]]

-----------------------------------------------------------------------------
(* netmap_thread.                                                          *)

Goto(t, step) == at' = [at EXCEPT ![t] = step]

\* Faulty variant: the memory is unmapped whoever mapped it.
CloseUnmaps(t) ==
  /\ desc' = [desc EXCEPT ![t].open = FALSE]
  /\ mapped' = mapped \ {desc[t].mem}

\* nm_close(nm_descr), after any exception
Close(t) ==
  /\ desc' = [desc EXCEPT ![t].open = FALSE]
  /\ mapped' = IF desc[t].done_mmap THEN mapped \ {desc[t].mem} ELSE mapped

\* Faulty variant: no interruption point; poll is none.
LoopOn(t) ==
  /\ at[t] = "loop"
  /\ Goto(t, "poll")
  /\ UNCHANGED <<start, desc, mapped, ring, slot, kernel, cur_slot_id, interrupt, verdicts>>

\* boost::this_thread::interruption_point()
Loop(t) ==
  /\ at[t] = "loop"
  /\ IF interrupt
     THEN Goto(t, "closed") /\ Close(t)
     ELSE Goto(t, "poll") /\ UNCHANGED <<desc, mapped>>
  /\ UNCHANGED <<start, ring, slot, kernel, cur_slot_id, interrupt, verdicts>>

\* try_poll returns: packets are there, or the second is over.
Poll(t) ==
  LET r == desc[t].first
  IN  /\ at[t] = "poll"
      /\ RxSync(r)
      /\ Goto(t, IF ring'[r].cur # ring'[r].tail THEN "get" ELSE "loop")
      /\ UNCHANGED <<opening, cur_slot_id, interrupt, verdicts>>

\* A signal handler ran in this thread: poll returns -1 and try_poll throws.
PollFails(t) ==
  /\ at[t] = "poll"
  /\ Goto(t, "closed")
  /\ Close(t)
  /\ UNCHANGED <<start, ring, slot, kernel, cur_slot_id, interrupt, verdicts>>

\* get_buff_from_ring
GetBuff(t) ==
  LET r == ring[desc[t].first]
  IN  /\ at[t] = "get"
      /\ IF RingEmpty(r)
         THEN Goto(t, "loop") /\ UNCHANGED cur_slot_id
         ELSE Goto(t, "check") /\ cur_slot_id' = [cur_slot_id EXCEPT ![t] = r.cur]
      /\ UNCHANGED <<opening, ring, slot, kernel, interrupt, verdicts>>

\* Faulty variants: every thread forwards; head stays behind cur.
ForwardsAny(t, hit) == hit
MoveCur(r, i) == [r EXCEPT !.cur = NextSlot(i)]

\* Only ring 0 forwards: NS_FORWARD is not safe from several threads.
Forwards(t, hit) == hit /\ t = 0

\* NetmapPoller::next
MoveOn(r, i) == [r EXCEPT !.cur = NextSlot(i), !.head = NextSlot(i)]

\* check_packet, set_forward and next
CheckPacket(t) ==
  LET r == desc[t].first
      i == cur_slot_id[t]
  IN  /\ at[t] = "check"
      /\ \E hit \in BOOLEAN :
           /\ verdicts' = [verdicts EXCEPT ![r] = Append(@, [pkt |-> slot[r][i].pkt, hit |-> hit])]
           /\ slot' = [slot EXCEPT ![r][i].fwd = @ \/ Forwards(t, hit)]
      /\ ring' = [ring EXCEPT ![r] = MoveOn(@, i)]
      /\ Goto(t, "get")
      /\ UNCHANGED <<opening, kernel, cur_slot_id, interrupt>>

ThreadStep(t) ==
  Loop(t) \/ Poll(t) \/ PollFails(t) \/ GetBuff(t) \/ CheckPacket(t)

-----------------------------------------------------------------------------
Next ==
  \/ OpenInterface \/ StartThread \/ OpenFails \/ Interrupt
  \/ \E t \in Rings : ThreadStep(t)

Spec == Init /\ [][Next]_vars

\* poll returns within a second and no other step of a thread waits; packets
\* that have come to the card are in the ring after some poll.
LiveSpec == Spec /\ \A t \in Rings : WF_vars(ThreadStep(t))

-----------------------------------------------------------------------------
(* Properties.                                                             *)

\* Every packet of a ring is checked by one thread, once, in the order of
\* arrival, over any number of turns of the ring (collector.cpp:21-42).
CheckedInOrder ==
  \A r \in Rings : \A i \in DOMAIN verdicts[r] : verdicts[r][i].pkt = i

\* What a thread looks at is its slot's packet still: the kernel gets a slot
\* back only when head has moved past it.
SlotIsOurs ==
  \A t \in Rings : at[t] = "check" =>
    LET r == ring[desc[t].first]
    IN  /\ cur_slot_id[t] = r.head
        /\ r.head # r.tail

\* The packets the rules accepted on ring 0, and they alone, go to the host
\* stack, once each, when the kernel takes their slots back.
TakenBack(r) == Len(verdicts[r]) - GivenBack(r)
Accepted(r, upTo) ==
  Kept(upTo, [n \in 1 .. upTo |-> verdicts[r][n].pkt], [n \in 1 .. upTo |-> verdicts[r][n].hit])
ForwardsAccepted ==
  \A r \in Rings :
    forwarded[r] = IF r = 0 THEN Accepted(r, TakenBack(r)) ELSE <<>>

\* A thread reads the rings' memory while a mapping of it is in place,
\* whichever of the other threads have been closed (netmap_user.h:850-894).
MemoryMapped ==
  \A t \in Rings : at[t] \in {"poll", "get", "check"} => desc[t].mem \in mapped

\* Interrupted threads end, also in the middle of a full ring: the inner
\* loop ends at a tail that only poll moves, and poll at its second.
Closes == \A t \in Rings : interrupt ~> at[t] = "closed"

\* What is in a ring is checked unless its thread ends.
Served ==
  \A r \in Rings :
    <>[](at[r] \in {"off", "closed"} \/ Len(verdicts[r]) = arrived[r])
===============================================================================
