------------------------------ MODULE JitQueue ------------------------------
(***************************************************************************)
(* The just-in-time queue of clusterduck/src/jitqueue.c: the packets that  *)
(* wait for their departure time, a value of the concentrator's 32-bit     *)
(* microsecond counter.  Every operation holds mx_jit_queue while it works *)
(* on the array, and leaves the array sorted, so the array is the set of   *)
(* its nodes and the index of a node is its rank in that order.            *)
(***************************************************************************)
EXTENDS Integers, FiniteSets

CONSTANTS
  W,                     \* values of the counter (2^32 in the code)
  TX_START_DELAY,        \* delays, in ticks of the counter
  TX_MARGIN_DELAY,
  TX_JIT_DELAY,
  TX_MAX_ADVANCE_DELAY,
  BEACON_GUARD,
  BEACON_RESERVED,
  JIT_QUEUE_MAX,         \* nodes of the array
  TimeOnAir              \* the times on air of downlinks (lgw_time_on_air)

ASSUME JitAssumption ==
  /\ W \in Nat \ {0}
  /\ TX_START_DELAY \in Nat /\ TX_MARGIN_DELAY \in Nat /\ TX_JIT_DELAY \in Nat
  /\ BEACON_GUARD \in Nat /\ BEACON_RESERVED \in Nat
  /\ TX_MAX_ADVANCE_DELAY \in Nat
  /\ JIT_QUEUE_MAX \in Nat
  /\ TimeOnAir \subseteq Nat

VARIABLES nodes, num_beacon

jitVars == <<nodes, num_beacon>>

Downlinks == {"CLASS_A", "CLASS_B", "CLASS_C"}
PktType == Downlinks \cup {"BEACON"}
Counter == 0 .. W - 1
Node == [type : PktType, count : Counter, pre : Nat, post : Nat]

Sub(a, b) == (a - b) % W     \* uint32_t subtraction

\* jit_sort_queue orders by compare: the sign of the wrapped difference.
Before(p, q) == p # q /\ Sub(q.count, p.count) < W \div 2

\* First and last node in that order (some node, should the order be cyclic:
\* nodes spread over more than half of the counter's range).
IsFirst(n, S) == \A m \in S \ {n} : Before(n, m)
IsLast(n, S) == \A m \in S \ {n} : Before(m, n)
First(S) == CHOOSE n \in S : (\E k \in S : IsFirst(k, S)) => IsFirst(n, S)
Last(S) == CHOOSE n \in S : (\E k \in S : IsLast(k, S)) => IsLast(n, S)

Index(n, S) == Cardinality({m \in S : Before(m, n)})

jit_queue_init == nodes = {} /\ num_beacon = 0

jit_queue_is_full == Cardinality(nodes) = JIT_QUEUE_MAX

\* Mutant: the overlap is only tested on one side.
collision_test_OneSided(c1, pre1, post1, c2, pre2, post2) ==
  Sub(c1, c2) <= pre1 + post2 + TX_MARGIN_DELAY

\* jit_collision_test
collision_test(c1, pre1, post1, c2, pre2, post2) ==
  \/ Sub(c1, c2) <= pre1 + post2 + TX_MARGIN_DELAY
  \/ Sub(c2, c1) <= pre2 + post1 + TX_MARGIN_DELAY

\* Mutant: no time reserved to program the packet.
pre_delay_NoJit(type) ==
  IF type = "BEACON" THEN TX_START_DELAY + BEACON_GUARD ELSE TX_START_DELAY

pre_delay(type) ==
  IF type = "BEACON" THEN TX_START_DELAY + BEACON_GUARD + TX_JIT_DELAY
                     ELSE TX_START_DELAY + TX_JIT_DELAY

post_delay(type, toa) == IF type = "BEACON" THEN BEACON_RESERVED ELSE toa

-----------------------------------------------------------------------------
\* Where a class C packet goes: as soon as possible if that collides with
\* nothing, else behind the first packet that leaves room before the next one.
asap_count_us(time_us, pre, post) ==
  LET asap == (time_us + 2 * TX_JIT_DELAY) % W
      Hits(c, n) == collision_test(c, pre, post, n.count, n.pre, n.post)
      Behind(n) ==
        (n.count + n.post + pre + TX_JIT_DELAY + TX_MARGIN_DELAY) % W
      Later(n) == {m \in nodes : Before(n, m)}
      room == {n \in nodes :
                 n = Last(nodes) \/ ~Hits(Behind(n), First(Later(n)))}
  IN  IF \A n \in nodes : ~Hits(asap, n) THEN asap ELSE Behind(First(room))

\* The guard before a beacon is ignored for class A and C.
target_pre_delay(type, n) ==
  IF type \in {"CLASS_A", "CLASS_C"} /\ n.type = "BEACON"
  THEN TX_START_DELAY ELSE n.pre

Colliding(p) ==
  {n \in nodes : collision_test(p.count, p.pre, p.post,
                                n.count, target_pre_delay(p.type, n), n.post)}

\* The node jit_enqueue builds from a request for departure at count.
NewNode(time_us, type, count, toa) ==
  LET pre  == pre_delay(type)
      post == post_delay(type, toa)
  IN  [type |-> type, pre |-> pre, post |-> post,
       count |-> IF type = "CLASS_C" THEN asap_count_us(time_us, pre, post)
                                     ELSE count]

\* What jit_enqueue returns: the criteria in the order they are tested.
jit_error(time_us, p) ==
  LET ahead == Sub(p.count, time_us)
  IN  IF jit_queue_is_full THEN "FULL"
      ELSE IF ahead <= TX_START_DELAY + TX_MARGIN_DELAY + TX_JIT_DELAY
      THEN "TOO_LATE"
      ELSE IF p.type \in {"CLASS_A", "CLASS_B"} /\ ahead > TX_MAX_ADVANCE_DELAY
      THEN "TOO_EARLY"
      ELSE IF Colliding(p) = {} THEN "OK"
      ELSE IF First(Colliding(p)).type = "BEACON" THEN "COLLISION_BEACON"
      ELSE "COLLISION_PACKET"

\* Mutant: the beacon is not counted.
jit_enqueue_Uncounted(time_us, p) ==
  IF jit_error(time_us, p) = "OK"
  THEN nodes' = nodes \cup {p} /\ UNCHANGED num_beacon
  ELSE UNCHANGED jitVars

jit_enqueue(time_us, p) ==
  IF jit_error(time_us, p) = "OK"
  THEN /\ nodes' = nodes \cup {p}
       /\ num_beacon' = IF p.type = "BEACON" THEN num_beacon + 1 ELSE num_beacon
  ELSE UNCHANGED jitVars

-----------------------------------------------------------------------------
\* jit_peek drops the nodes whose time has passed.  A drop restarts the scan at
\* index 1 (the loop's i++ follows its i = 0): the node that a drop moves to
\* index 0 is neither tested nor a candidate in this call.
Outdated(n, time_us) == Sub(n.count, time_us) >= TX_MAX_ADVANCE_DELAY

Skipped(time_us) ==
  IF nodes # {} /\ Outdated(First(nodes), time_us) /\ nodes # {First(nodes)}
  THEN {First(nodes \ {First(nodes)})} ELSE {}

PeekDropped(time_us) ==
  {n \in nodes \ Skipped(time_us) : Outdated(n, time_us)}

\* Mutant: times are compared without the wrap of the counter.
PeekChosen_NoWrap(time_us) ==
  LET candidates == nodes \ (PeekDropped(time_us) \cup Skipped(time_us))
  IN  {n \in candidates :
         /\ n.count - time_us < TX_JIT_DELAY
         /\ \A m \in candidates : n.count <= m.count}

\* The candidate that departs first, if it does so within TX_JIT_DELAY.
PeekChosen(time_us) ==
  LET candidates == nodes \ (PeekDropped(time_us) \cup Skipped(time_us))
  IN  {n \in candidates :
         /\ Sub(n.count, time_us) < TX_JIT_DELAY
         /\ \A m \in candidates : Sub(n.count, time_us) <= Sub(m.count, time_us)}

Beacons(S) == {n \in S : n.type = "BEACON"}

Remove(S) ==
  /\ nodes' = nodes \ S
  /\ num_beacon' = num_beacon - Cardinality(Beacons(S))

\* jit_peek; it hands over an index into the array, or -1.
jit_peek(time_us) == Remove(PeekDropped(time_us))

pkt_idx(time_us) ==
  IF PeekChosen(time_us) = {} THEN -1
  ELSE Index(CHOOSE n \in PeekChosen(time_us) : TRUE,
             nodes \ PeekDropped(time_us))

\* jit_dequeue(index): the caller's index may be older than the queue.
jit_dequeue(index) ==
  \E n \in nodes : Index(n, nodes) = index /\ Remove({n})

-----------------------------------------------------------------------------
\* The queue under any caller: the operations in any order, at any time.
JitInit == jit_queue_init

JitNext ==
  \E time_us \in Counter :
    \/ \E type \in PktType, count \in Counter, toa \in TimeOnAir :
         jit_enqueue(time_us, NewNode(time_us, type, count, toa))
    \/ jit_peek(time_us)
    \/ \E index \in 0 .. JIT_QUEUE_MAX - 1 : jit_dequeue(index)

JitSpec == JitInit /\ [][JitNext]_jitVars

\* The nodes are well formed and never more than the array holds.
JitTypeOK ==
  /\ nodes \subseteq Node
  /\ IsFiniteSet(nodes) /\ Cardinality(nodes) <= JIT_QUEUE_MAX
  /\ num_beacon \in Nat

\* num_beacon counts the beacons in the array exactly, through drops and
\* dequeues: thread_down trusts it to decide how many beacons to preallocate.
BeaconsCounted == num_beacon = Cardinality(Beacons(nodes))

\* Every node reserves at least the start delay before its departure.
StartReserved == \A n \in nodes : n.pre >= TX_START_DELAY

\* Nothing overlaps on the air: between the end of a packet and the start of
\* the next one lies more than the start delay and the margin, in the counter's
\* modular arithmetic and whatever order the packets were queued in.
NoOverlap ==
  \A p, q \in nodes : p # q =>
    Sub(q.count, p.count) > TX_START_DELAY + p.post + TX_MARGIN_DELAY
=============================================================================
