--------------------------- MODULE JitQueueProofs ---------------------------
(***************************************************************************)
(* The JIT queue keeps its array well formed, counts its beacons and never *)
(* holds two packets that overlap, for every counter width, every choice   *)
(* of delays and any sequence of calls; and thread_down, thread_jit and    *)
(* the concentrator together only make steps of that queue.                *)
(*                                                                         *)
(* With the timing of the code, what is queued is sent.  Seen from the     *)
(* counter the packets lie one behind the other, each leaving what it      *)
(* reserves free before it, and none is further ahead than what is asked   *)
(* for and a step for every packet of the queue.  So the sign of the       *)
(* wrapped difference is the order of departure, nothing looks outdated,   *)
(* and the gap before a packet keeps it in the queue until the one before  *)
(* it is off the air.                                                      *)
(***************************************************************************)
EXTENDS JitEmission, FiniteSetTheorems, WellFoundedInduction, TLAPS

\* The wrapped difference is a value of the counter.
LEMMA SubType ==
  ASSUME NEW a \in Int, NEW b \in Int
  PROVE  Sub(a, b) \in Counter /\ Sub(a, b) \in Nat
  BY JitAssumption DEF Sub, Counter

\* A non-empty queue has a first and a last node among its own.
LEMMA FirstLastIn ==
  ASSUME NEW S, S # {}
  PROVE  First(S) \in S /\ Last(S) \in S
<1>1. \E n \in S : (\E k \in S : IsFirst(k, S)) => IsFirst(n, S)
  OBVIOUS
<1>2. \E n \in S : (\E k \in S : IsLast(k, S)) => IsLast(n, S)
  OBVIOUS
<1> QED
  BY <1>1, <1>2 DEF First, Last

\* The slot of a class C packet is a value of the counter.
LEMMA AsapType ==
  ASSUME nodes \subseteq Node, NEW t \in Counter, NEW pre \in Nat, NEW post \in Nat
  PROVE  asap_count_us(t, pre, post) \in Counter
<1> DEFINE Hits(c, n) == collision_test(c, pre, post, n.count, n.pre, n.post)
           Behind(n) ==
             (n.count + n.post + pre + TX_JIT_DELAY + TX_MARGIN_DELAY) % W
           Later(n) == {m \in nodes : Before(n, m)}
           room == {n \in nodes : n = Last(nodes) \/ ~Hits(Behind(n), First(Later(n)))}
           asap == (t + 2 * TX_JIT_DELAY) % W
<1>1. asap \in Counter
  BY JitAssumption DEF Counter
<1>2. ASSUME NEW n \in nodes PROVE Behind(n) \in Counter
  <2>1. n.count \in Nat /\ n.post \in Nat
    BY JitAssumption DEF Node, Counter
  <2> QED
    BY <2>1, JitAssumption DEF Counter
<1>3. ASSUME nodes # {} PROVE First(room) \in nodes
  <2>1. Last(nodes) \in room
    BY <1>3, FirstLastIn
  <2> HIDE DEF room
  <2>2. First(room) \in room
    BY <2>1, FirstLastIn
  <2> QED
    BY <2>2 DEF room
<1>4. asap_count_us(t, pre, post)
        = IF \A n \in nodes : ~Hits(asap, n) THEN asap ELSE Behind(First(room))
  BY DEF asap_count_us
<1> HIDE DEF Hits, Behind, asap, room
<1>5. CASE \A n \in nodes : ~Hits(asap, n)
  BY <1>1, <1>4, <1>5
<1>6. CASE ~(\A n \in nodes : ~Hits(asap, n))
  <2>1. nodes # {}
    BY <1>6
  <2>2. Behind(First(room)) \in Counter
    BY <1>2, <1>3, <2>1
  <2> QED
    BY <1>4, <1>6, <2>2
<1> QED
  BY <1>5, <1>6

\* What jit_enqueue builds is a node that reserves at least the start delay.
LEMMA NewNodeType ==
  ASSUME nodes \subseteq Node, NEW t \in Counter, NEW type \in PktType,
         NEW count \in Counter, NEW toa \in TimeOnAir
  PROVE  /\ NewNode(t, type, count, toa) \in Node
         /\ NewNode(t, type, count, toa).pre >= TX_START_DELAY
<1>1. pre_delay(type) \in Nat /\ pre_delay(type) >= TX_START_DELAY
  BY JitAssumption DEF pre_delay
<1>2. post_delay(type, toa) \in Nat
  BY JitAssumption DEF post_delay
<1>3. asap_count_us(t, pre_delay(type), post_delay(type, toa)) \in Counter
  BY <1>1, <1>2, AsapType
<1> QED
  BY <1>1, <1>2, <1>3 DEF NewNode, Node

-----------------------------------------------------------------------------
JitInv == JitTypeOK /\ StartReserved /\ BeaconsCounted /\ NoOverlap

\* Adding a node that meets every criterion keeps the invariant.
LEMMA EnqueueKeeps ==
  ASSUME JitInv, NEW t \in Counter, NEW p \in Node, p.pre >= TX_START_DELAY,
         jit_enqueue(t, p)
  PROVE  JitInv'
<1>1. CASE jit_error(t, p) = "OK"
  <2>1. /\ nodes' = nodes \cup {p}
        /\ num_beacon' = IF p.type = "BEACON" THEN num_beacon + 1 ELSE num_beacon
    BY <1>1 DEF jit_enqueue
  <2>2. ~jit_queue_is_full /\ Colliding(p) = {}
    BY <1>1 DEF jit_error
  <2>3. p \in Node /\ p.count \in Int /\ p.pre \in Nat /\ p.post \in Nat
    BY JitAssumption DEF Node, Counter
  <2>4. ASSUME NEW n \in nodes
        PROVE  /\ n.count \in Int /\ n.pre \in Nat /\ n.post \in Nat
               /\ n.pre >= TX_START_DELAY
               /\ Sub(p.count, n.count) \in Nat /\ Sub(n.count, p.count) \in Nat
    <3>1. n.count \in Int /\ n.pre \in Nat /\ n.post \in Nat
      BY JitAssumption DEF JitInv, JitTypeOK, Node, Counter
    <3>2. Sub(p.count, n.count) \in Nat /\ Sub(n.count, p.count) \in Nat
      BY <2>3, <3>1, SubType
    <3> QED
      BY <3>1, <3>2 DEF JitInv, StartReserved
  <2>5. ASSUME NEW n \in nodes
        PROVE  /\ Sub(p.count, n.count) > TX_START_DELAY + n.post + TX_MARGIN_DELAY
               /\ Sub(n.count, p.count) > TX_START_DELAY + p.post + TX_MARGIN_DELAY
    <3> DEFINE tpd == target_pre_delay(p.type, n)
    <3>1. tpd \in Nat /\ tpd >= TX_START_DELAY
      BY <2>4, JitAssumption DEF target_pre_delay
    <3>2. ~collision_test(p.count, p.pre, p.post, n.count, tpd, n.post)
      BY <2>2 DEF Colliding
    <3> HIDE DEF tpd
    <3>3. /\ ~(Sub(p.count, n.count) <= p.pre + n.post + TX_MARGIN_DELAY)
          /\ ~(Sub(n.count, p.count) <= tpd + p.post + TX_MARGIN_DELAY)
      BY <3>2 DEF collision_test
    <3> QED
      BY <2>3, <2>4, <3>1, <3>3, JitAssumption
  <2>6. Sub(p.count, p.count) = 0
    BY <2>3, JitAssumption DEF Sub
  <2>7. p \notin nodes
    BY <2>3, <2>5, <2>6, JitAssumption
  <2>8. NoOverlap'
    BY <2>1, <2>5 DEF JitInv, NoOverlap
  <2>9. IsFiniteSet(nodes') /\ Cardinality(nodes') = Cardinality(nodes) + 1
    BY <2>1, <2>7, FS_AddElement DEF JitInv, JitTypeOK
  <2>10. Cardinality(nodes') <= JIT_QUEUE_MAX
    <3>1. Cardinality(nodes) \in Nat /\ Cardinality(nodes) # JIT_QUEUE_MAX
      BY <2>2, FS_CardinalityType DEF jit_queue_is_full, JitInv, JitTypeOK
    <3> QED
      BY <2>9, <3>1, JitAssumption DEF JitInv, JitTypeOK
  <2>11. BeaconsCounted'
    <3>1. IsFiniteSet(Beacons(nodes))
      BY FS_Subset DEF Beacons, JitInv, JitTypeOK
    <3>2. CASE p.type = "BEACON"
      <4>1. Beacons(nodes') = Beacons(nodes) \cup {p} /\ p \notin Beacons(nodes)
        BY <2>1, <2>7, <3>2 DEF Beacons
      <4>2. Cardinality(Beacons(nodes')) = Cardinality(Beacons(nodes)) + 1
        BY <3>1, <4>1, FS_AddElement
      <4> QED
        BY <2>1, <3>2, <4>2 DEF BeaconsCounted, JitInv
    <3>3. CASE p.type # "BEACON"
      <4>1. Beacons(nodes') = Beacons(nodes)
        BY <2>1, <3>3 DEF Beacons
      <4> QED
        BY <2>1, <3>3, <4>1 DEF BeaconsCounted, JitInv
    <3> QED
      BY <3>2, <3>3
  <2>12. num_beacon' \in Nat
    BY <2>1 DEF JitInv, JitTypeOK
  <2>13. StartReserved'
    BY <2>1 DEF StartReserved, JitInv
  <2>14. nodes' \subseteq Node
    BY <2>1 DEF JitInv, JitTypeOK
  <2> QED
    BY <2>8, <2>9, <2>10, <2>11, <2>12, <2>13, <2>14 DEF JitInv, JitTypeOK
<1>2. CASE jit_error(t, p) # "OK"
  BY <1>2 DEF jit_enqueue, jitVars, JitInv, JitTypeOK, StartReserved,
              BeaconsCounted, NoOverlap, Beacons
<1> QED
  BY <1>1, <1>2

\* Taking nodes out keeps the invariant: jit_peek's drops and jit_dequeue.
LEMMA RemoveKeeps ==
  ASSUME JitInv, NEW S \in SUBSET nodes, Remove(S)
  PROVE  JitInv'
<1>1. nodes' = nodes \ S /\ num_beacon' = num_beacon - Cardinality(Beacons(S))
  BY DEF Remove
<1>2. IsFiniteSet(nodes) /\ IsFiniteSet(S) /\ IsFiniteSet(nodes')
  BY <1>1, FS_Subset DEF JitInv, JitTypeOK
<1>3. Cardinality(nodes') <= Cardinality(nodes)
  BY <1>1, <1>2, FS_Subset
<1>4. IsFiniteSet(Beacons(nodes)) /\ IsFiniteSet(Beacons(S)) /\ IsFiniteSet(Beacons(nodes'))
  BY <1>2, FS_Subset DEF Beacons
<1>5. Beacons(nodes') = Beacons(nodes) \ Beacons(S)
  BY <1>1 DEF Beacons
<1>6. Beacons(nodes) \cap Beacons(S) = Beacons(S)
  BY DEF Beacons
<1>7. Cardinality(Beacons(nodes')) = Cardinality(Beacons(nodes)) - Cardinality(Beacons(S))
  BY <1>4, <1>5, <1>6, FS_Difference
<1>8. /\ Cardinality(Beacons(nodes')) \in Nat /\ Cardinality(nodes) \in Nat
      /\ Cardinality(nodes') \in Nat
  BY <1>2, <1>4, FS_CardinalityType
<1>9. BeaconsCounted' /\ num_beacon' \in Nat
  BY <1>1, <1>7, <1>8 DEF JitInv, BeaconsCounted
<1>10. nodes' \subseteq Node /\ Cardinality(nodes') <= JIT_QUEUE_MAX
  BY <1>1, <1>3, <1>8, JitAssumption DEF JitInv, JitTypeOK
<1>11. StartReserved' /\ NoOverlap'
  BY <1>1 DEF JitInv, StartReserved, NoOverlap
<1> QED
  BY <1>2, <1>9, <1>10, <1>11 DEF JitInv, JitTypeOK

\* One call of an operation keeps the invariant.
LEMMA StepKeeps == JitInv /\ [JitNext]_jitVars => JitInv'
<1> SUFFICES ASSUME JitInv, [JitNext]_jitVars PROVE JitInv'
  OBVIOUS
<1>1. ASSUME NEW t \in Counter, NEW type \in PktType, NEW count \in Counter,
             NEW toa \in TimeOnAir,
             jit_enqueue(t, NewNode(t, type, count, toa))
      PROVE  JitInv'
  <2>1. /\ NewNode(t, type, count, toa) \in Node
        /\ NewNode(t, type, count, toa).pre >= TX_START_DELAY
    BY NewNodeType DEF JitInv, JitTypeOK
  <2> QED
    BY <1>1, <2>1, EnqueueKeeps
<1>2. ASSUME NEW t \in Counter, jit_peek(t) PROVE JitInv'
  <2>1. PeekDropped(t) \in SUBSET nodes
    BY DEF PeekDropped
  <2> QED
    BY <1>2, <2>1, RemoveKeeps DEF jit_peek
<1>3. ASSUME NEW i, jit_dequeue(i) PROVE JitInv'
  <2>1. PICK n \in nodes : Remove({n})
    BY <1>3 DEF jit_dequeue
  <2>2. {n} \in SUBSET nodes
    OBVIOUS
  <2> QED
    BY <2>1, <2>2, RemoveKeeps
<1>4. CASE UNCHANGED jitVars
  BY <1>4 DEF jitVars, JitInv, JitTypeOK, StartReserved, BeaconsCounted,
              NoOverlap, Beacons
<1> QED
  BY <1>1, <1>2, <1>3, <1>4 DEF JitNext

\* The empty queue of jit_queue_init meets the invariant.
LEMMA InitKeeps == JitInit => JitInv
<1> SUFFICES ASSUME JitInit PROVE JitInv
  OBVIOUS
<1>1. nodes = {} /\ num_beacon = 0 /\ Beacons(nodes) = {}
  BY DEF JitInit, jit_queue_init, Beacons
<1>2. IsFiniteSet({}) /\ Cardinality({}) = 0
  BY FS_EmptySet
<1> QED
  BY <1>1, <1>2, JitAssumption DEF JitInv, JitTypeOK, StartReserved,
     BeaconsCounted, NoOverlap

\* The inductive invariant holds after any sequence of calls.
LEMMA JitInvariant == JitSpec => []JitInv
  BY InitKeeps, StepKeeps, PTL DEF JitSpec

\* The array stays well formed and within its size.
THEOREM JitTypeCorrect == JitSpec => []JitTypeOK
  BY JitInvariant, PTL DEF JitInv

\* num_beacon is exact after any sequence of calls.
THEOREM BeaconCount == JitSpec => []BeaconsCounted
  BY JitInvariant, PTL DEF JitInv

\* No two queued packets overlap on the air.
THEOREM QueueNoOverlap == JitSpec => []NoOverlap
  BY JitInvariant, PTL DEF JitInv

-----------------------------------------------------------------------------
\* The rank of a node is an index of the array.
LEMMA IndexInArray ==
  ASSUME JitTypeOK, NEW n \in nodes
  PROVE  Index(n, nodes) \in 0 .. JIT_QUEUE_MAX - 1
<1> DEFINE earlier == {m \in nodes : Before(m, n)}
<1>1. earlier \subseteq nodes \ {n}
  BY DEF Before
<1>2. IsFiniteSet(nodes) /\ IsFiniteSet(nodes \ {n}) /\ IsFiniteSet(earlier)
  BY <1>1, FS_Subset DEF JitTypeOK
<1>3. Cardinality(nodes \ {n}) = Cardinality(nodes) - 1
  BY <1>2, FS_RemoveElement
<1>4. Cardinality(earlier) <= Cardinality(nodes \ {n})
  BY <1>1, <1>2, FS_Subset
<1>5. Cardinality(earlier) \in Nat /\ Cardinality(nodes) \in Nat
  BY <1>2, FS_CardinalityType
<1> QED
  BY <1>3, <1>4, <1>5, JitAssumption DEF Index, JitTypeOK

\* thread_down, thread_jit, the modem and the counter together, in any
\* interleaving of their critical sections, use the queue only through its
\* operations: the system implements JitSpec, and so inherits its theorems.
THEOREM EmissionImplementsJit == EmissionSpec => JitSpec
<1> DEFINE Inv == JitInv /\ time \in Counter
<1>1. EmissionInit => JitInit /\ Inv
  BY InitKeeps DEF EmissionInit
<1>2. Inv /\ [EmissionNext]_emissionVars => [JitNext]_jitVars /\ time' \in Counter
  <2> SUFFICES ASSUME Inv, [EmissionNext]_emissionVars
               PROVE  [JitNext]_jitVars /\ time' \in Counter
    OBVIOUS
  <2>0. time \in Int
    BY JitAssumption DEF Counter
  <2>1. CASE Request
    <3>1. PICK type \in DOMAIN Offsets, toa \in TimeOnAir, lag \in 0 .. Lag :
            \E off \in Offsets[type] :
              LET t == Sub(time, lag)
              IN  jit_enqueue(t, NewNode(t, type, (t + off) % W, toa))
      BY <2>1 DEF Request
    <3>2. PICK off \in Offsets[type] :
            jit_enqueue(Sub(time, lag),
              NewNode(Sub(time, lag), type, (Sub(time, lag) + off) % W, toa))
      BY <3>1
    <3>3. Sub(time, lag) \in Counter /\ type \in PktType /\ off \in Counter
      BY <2>0, SubType, EmissionAssumption
    <3>4. (Sub(time, lag) + off) % W \in Counter
      BY <3>3, JitAssumption DEF Counter
    <3>5. JitNext
      BY <3>2, <3>3, <3>4 DEF JitNext
    <3> QED
      BY <2>1, <3>5 DEF Request
  <2>2. CASE Peek
    BY <2>2 DEF Peek, JitNext
  <2>3. CASE Dequeue
    <3>1. PICK n \in nodes : Index(n, nodes) = index
      BY <2>3 DEF Dequeue, jit_dequeue
    <3>2. index \in 0 .. JIT_QUEUE_MAX - 1
      BY <3>1, IndexInArray DEF JitInv
    <3> QED
      BY <2>3, <3>2 DEF Dequeue, JitNext
  <2>4. CASE Status
    BY <2>4 DEF Status, jitVars
  <2>5. CASE Send
    BY <2>5 DEF Send, jitVars
  <2>6. CASE Tick
    <3>1. time' = (time + 1) % W /\ UNCHANGED jitVars
      BY <2>6 DEF Tick, jitVars
    <3> QED
      BY <2>0, <3>1, JitAssumption DEF Counter
  <2>7. CASE UNCHANGED emissionVars
    BY <2>7 DEF emissionVars, jitVars
  <2> QED
    BY <2>1, <2>2, <2>3, <2>4, <2>5, <2>6, <2>7 DEF EmissionNext
<1>3. Inv /\ [EmissionNext]_emissionVars => Inv'
  BY <1>2, StepKeeps
<1> QED
  BY <1>1, <1>2, <1>3, PTL DEF EmissionSpec, JitSpec

\* So no two packets of the running system's queue overlap.
THEOREM SystemNoOverlap == EmissionSpec => []NoOverlap
  BY EmissionImplementsJit, QueueNoOverlap, PTL

-----------------------------------------------------------------------------
\* A set of natural numbers has a least element.
LEMMA LeastElement ==
  ASSUME NEW T, T \subseteq Nat, T # {}
  PROVE  \E x \in T : \A y \in T : x <= y
<1> DEFINE R == OpToRel(<, Nat)
<1>1. IsWellFoundedOn(R, Nat)
  BY NatLessThanWellFounded, Zenon
<1>2. \A x, y \in Nat : y < x => <<y, x>> \in R
  BY SMT DEF OpToRel
<1> HIDE DEF R
<1>3. PICK x \in T : \A y \in T : ~(<<y, x>> \in R)
  BY <1>1, WFMin, Zenon
<1>4. x \in Nat /\ \A y \in T : y \in Nat /\ ~(y < x)
  BY <1>2, <1>3
<1>5. \A y \in T : x <= y
  BY <1>4
<1> QED
  BY <1>5

\* How far ahead of t the node departs.
Dist(n, t) == Sub(n.count, t)

\* Half of the counter's range.
LEMMA HalfFacts ==
  Half \in Nat /\ W \in Nat /\ W > 0 /\ 2 * Half <= W /\ W <= 2 * Half + 1
  BY JitAssumption DEF Half

\* The wrapped difference without the remainder.
LEMMA SubCases ==
  ASSUME NEW a \in Counter, NEW b \in Counter
  PROVE  Sub(a, b) = IF a >= b THEN a - b ELSE a - b + W
<1>1. W \in Nat /\ W > 0 /\ a \in 0 .. W - 1 /\ b \in 0 .. W - 1
  BY JitAssumption DEF Counter
<1>2. PICK x \in Int : x = a - b
  BY <1>1
<1>3. x >= 0 => x % W = x
  BY <1>1, <1>2
<1>4. x < 0 => x % W = x + W
  BY <1>1, <1>2
<1> QED
  BY <1>1, <1>2, <1>3, <1>4 DEF Sub

\* Two times, seen from a third one.
LEMMA SubFrom ==
  ASSUME NEW a \in Counter, NEW b \in Counter, NEW t \in Counter
  PROVE  /\ Sub(a, t) \in Counter /\ Sub(b, t) \in Counter
         /\ Sub(a, b) = IF Sub(a, t) >= Sub(b, t) THEN Sub(a, t) - Sub(b, t)
                        ELSE Sub(a, t) - Sub(b, t) + W
<1>1. W \in Nat /\ W > 0 /\ a \in 0 .. W - 1 /\ b \in 0 .. W - 1 /\ t \in 0 .. W - 1
  BY JitAssumption DEF Counter
<1>2. /\ Sub(a, b) = IF a >= b THEN a - b ELSE a - b + W
      /\ Sub(a, t) = IF a >= t THEN a - t ELSE a - t + W
      /\ Sub(b, t) = IF b >= t THEN b - t ELSE b - t + W
  BY SubCases
<1>3. PICK x, y, z : x = Sub(a, t) /\ y = Sub(b, t) /\ z = Sub(a, b)
  OBVIOUS
<1>4. /\ z = IF a >= b THEN a - b ELSE a - b + W
      /\ x = IF a >= t THEN a - t ELSE a - t + W
      /\ y = IF b >= t THEN b - t ELSE b - t + W
  BY <1>2, <1>3
<1>5. x \in 0 .. W - 1 /\ y \in 0 .. W - 1
  BY <1>1, <1>4
<1>6. z = IF x >= y THEN x - y ELSE x - y + W
  BY <1>1, <1>4
<1> QED
  BY <1>3, <1>5, <1>6 DEF Counter

\* What is k ticks after a, seen from t.
LEMMA SubAhead ==
  ASSUME NEW a \in Counter, NEW t \in Counter, NEW k \in Nat, Sub(a, t) + k < W
  PROVE  (a + k) % W \in Counter /\ Sub((a + k) % W, t) = Sub(a, t) + k
<1>1. W \in Nat /\ W > 0 /\ a \in 0 .. W - 1 /\ t \in 0 .. W - 1
  BY JitAssumption DEF Counter
<1>2. PICK x : x = Sub(a, t)
  OBVIOUS
<1>3. x = IF a >= t THEN a - t ELSE a - t + W
  BY <1>2, SubCases
<1>4. x \in Nat /\ x + k < W
  BY <1>1, <1>2, <1>3
<1>5. PICK s \in Nat : s = a + k
  BY <1>1
<1>6. s < 2 * W
  BY <1>1, <1>3, <1>4, <1>5
<1>7. PICK r : r = s % W
  OBVIOUS
<1>8. r = IF s < W THEN s ELSE s - W
  <2>1. s < W => s % W = s
    BY <1>1
  <2>2. s >= W => s % W = s - W
    BY <1>1, <1>6
  <2> QED
    BY <1>1, <1>7, <2>1, <2>2
<1>9. r \in 0 .. W - 1
  BY <1>1, <1>6, <1>8
<1>10. Sub(r, t) = IF r >= t THEN r - t ELSE r - t + W
  BY <1>9, SubCases DEF Counter
<1>11. PICK y : y = Sub(r, t)
  OBVIOUS
<1>12. y = x + k
  BY <1>1, <1>3, <1>4, <1>5, <1>8, <1>9, <1>10, <1>11
<1> QED
  BY <1>2, <1>5, <1>7, <1>9, <1>11, <1>12 DEF Counter

\* What is ahead of now, seen from a time read k ticks ago.
LEMMA SubEarlier ==
  ASSUME NEW a \in Counter, NEW t \in Counter, NEW k \in Nat, Sub(a, t) + k < W
  PROVE  Sub(t, k) \in Counter /\ Sub(a, Sub(t, k)) = Sub(a, t) + k
<1>1. W \in Nat /\ W > 0 /\ a \in 0 .. W - 1 /\ t \in 0 .. W - 1
  BY JitAssumption DEF Counter
<1>2. PICK x : x = Sub(a, t)
  OBVIOUS
<1>3. x = IF a >= t THEN a - t ELSE a - t + W
  BY <1>2, SubCases
<1>4. x \in Nat /\ x + k < W /\ k \in 0 .. W - 1
  BY <1>1, <1>2, <1>3
<1>5. PICK u : u = Sub(t, k)
  OBVIOUS
<1>6. u = IF t >= k THEN t - k ELSE t - k + W
  BY <1>4, <1>5, SubCases DEF Counter
<1>7. u \in 0 .. W - 1
  BY <1>1, <1>4, <1>6
<1>8. PICK y : y = Sub(a, u)
  OBVIOUS
<1>9. y = IF a >= u THEN a - u ELSE a - u + W
  BY <1>7, <1>8, SubCases DEF Counter
<1>10. y = x + k
  BY <1>1, <1>3, <1>4, <1>6, <1>7, <1>9
<1> QED
  BY <1>2, <1>5, <1>7, <1>8, <1>10 DEF Counter

\* The nodes of S lie within half of the counter's range ahead of t, one behind the other.
Near(S, t) ==
  /\ S \subseteq Node /\ t \in Counter
  /\ \A n \in S : Dist(n, t) < Half
  /\ \A p, q \in S : p # q => Dist(p, t) # Dist(q, t)

\* The distance is one of the counter.
LEMMA DistType ==
  ASSUME NEW n \in Node, NEW t \in Counter
  PROVE  n.count \in Counter /\ Dist(n, t) \in Nat /\ Dist(n, t) < W
<1>1. n.count \in Counter
  BY DEF Node
<1>2. Dist(n, t) \in 0 .. W - 1
  BY <1>1, SubFrom DEF Dist, Counter
<1> QED
  BY <1>1, <1>2, JitAssumption

\* There the order of the array is the order of departure.
LEMMA BeforeIs ==
  ASSUME NEW S, NEW t, Near(S, t), NEW p \in S, NEW q \in S
  PROVE  Before(p, q) <=> Dist(p, t) < Dist(q, t)
<1>1. /\ p.count \in Counter /\ q.count \in Counter /\ t \in Counter
      /\ Dist(p, t) \in Nat /\ Dist(q, t) \in Nat /\ Dist(p, t) < Half /\ Dist(q, t) < Half
      /\ p # q => Dist(p, t) # Dist(q, t)
  BY DistType DEF Near
<1>2. PICK x \in Nat, y \in Nat, z \in {Sub(q.count, p.count)} :
        x = Dist(p, t) /\ y = Dist(q, t)
  BY <1>1
<1>3. z = IF y >= x THEN y - x ELSE y - x + W
  BY <1>1, <1>2, SubFrom DEF Dist
<1>4. z < Half <=> y >= x
  BY <1>1, <1>2, <1>3, HalfFacts
<1>5. Before(p, q) <=> p # q /\ z < Half
  BY <1>2 DEF Before, Half
<1>6. p = q => x = y
  BY <1>2
<1> QED
  BY <1>1, <1>2, <1>4, <1>5, <1>6

\* The first node departs first.
LEMMA FirstDeparts ==
  ASSUME NEW S, NEW t, Near(S, t), S # {}
  PROVE  First(S) \in S /\ \A n \in S : Dist(First(S), t) <= Dist(n, t)
<1> DEFINE T == {Dist(n, t) : n \in S}
<1>1. T \subseteq Nat /\ T # {}
  <2>1. \A n \in S : Dist(n, t) \in Nat
    BY DistType DEF Near
  <2> QED
    BY <2>1
<1>2. PICK x \in T : \A y \in T : x <= y
  <2> HIDE DEF T
  <2> QED
    BY <1>1, LeastElement
<1>3. PICK k \in S : \A n \in S : Dist(k, t) <= Dist(n, t)
  BY <1>2
<1>4. \A n \in S : IsFirst(n, S) <=> \A m \in S \ {n} : Dist(n, t) < Dist(m, t)
  BY BeforeIs DEF IsFirst
<1>5. \A n \in S : Dist(n, t) \in Nat
  BY DistType DEF Near
<1>6. IsFirst(k, S)
  BY <1>3, <1>4, <1>5 DEF Near
<1>7. First(S) \in S /\ IsFirst(First(S), S)
  <2>1. \E n \in S : (\E j \in S : IsFirst(j, S)) => IsFirst(n, S)
    BY <1>6
  <2> QED
    BY <1>6, <2>1 DEF First
<1>8. \A m \in S \ {First(S)} : Dist(First(S), t) < Dist(m, t)
  BY <1>4, <1>7
<1> QED
  BY <1>5, <1>7, <1>8

\* The last node departs last.
LEMMA LastDeparts ==
  ASSUME NEW S, NEW t, Near(S, t), S # {}
  PROVE  Last(S) \in S /\ \A n \in S : Dist(n, t) <= Dist(Last(S), t)
<1> DEFINE T == {Half - Dist(n, t) : n \in S}
<1>0. \A n \in S : Dist(n, t) \in Nat /\ Dist(n, t) < Half
  BY DistType DEF Near
<1>1. T \subseteq Nat /\ T # {}
  BY <1>0, HalfFacts
<1>2. PICK x \in T : \A y \in T : x <= y
  <2> HIDE DEF T
  <2> QED
    BY <1>1, LeastElement
<1>3. PICK k \in S : \A n \in S : Dist(n, t) <= Dist(k, t)
  <2>1. PICK k \in S : x = Half - Dist(k, t)
    OBVIOUS
  <2>2. ASSUME NEW n \in S PROVE Dist(n, t) <= Dist(k, t)
    <3>1. Half - Dist(k, t) <= Half - Dist(n, t)
      BY <1>2, <2>1
    <3> QED
      BY <1>0, <3>1, HalfFacts
  <2> QED
    BY <2>2
<1>4. \A n \in S : IsLast(n, S) <=> \A m \in S \ {n} : Dist(m, t) < Dist(n, t)
  BY BeforeIs DEF IsLast
<1>6. IsLast(k, S)
  BY <1>0, <1>3, <1>4 DEF Near
<1>7. Last(S) \in S /\ IsLast(Last(S), S)
  <2>1. \E n \in S : (\E j \in S : IsLast(j, S)) => IsLast(n, S)
    BY <1>6
  <2> QED
    BY <1>6, <2>1 DEF Last
<1>8. \A m \in S \ {Last(S)} : Dist(m, t) < Dist(Last(S), t)
  BY <1>4, <1>7
<1> QED
  BY <1>0, <1>7, <1>8

\* Index 0 is that of the node that departs first.
LEMMA IndexZero ==
  ASSUME NEW S, NEW t, Near(S, t), IsFiniteSet(S), NEW n \in S
  PROVE  Index(n, S) = 0 <=> \A m \in S : Dist(n, t) <= Dist(m, t)
<1> DEFINE earlier == {m \in S : Before(m, n)}
<1>1. IsFiniteSet(earlier)
  BY FS_Subset
<1>2. Cardinality(earlier) = 0 <=> earlier = {}
  BY <1>1, FS_EmptySet
<1>3. earlier = {m \in S : Dist(m, t) < Dist(n, t)}
  BY BeforeIs
<1>4. \A m \in S : Dist(m, t) \in Nat
  BY DistType DEF Near
<1>5. earlier = {} <=> \A m \in S : ~(Dist(m, t) < Dist(n, t))
  BY <1>3
<1> QED
  BY <1>2, <1>4, <1>5 DEF Index

\* Between two packets lies what the second reserves, the first and the margin.
Spaced(S, t) ==
  \A p, q \in S : Dist(p, t) < Dist(q, t) =>
    Dist(q, t) - Dist(p, t) > q.pre + p.post + TX_MARGIN_DELAY

\* A packet is not far ahead, or not far behind another.
Chained(S, t, far, air) ==
  \A n \in S :
    \/ Dist(n, t) <= far
    \/ \E m \in S : Dist(m, t) < Dist(n, t) /\ Dist(n, t) <= Dist(m, t) + Step(air)

Shaped(S, air) ==
  \A n \in S : /\ n.pre >= TX_START_DELAY + TX_JIT_DELAY
               /\ n.pre <= TX_START_DELAY + BEACON_GUARD + TX_JIT_DELAY
               /\ n.post <= air

\* The queue in order, seen from t.
QueueOK(S, t, far, air) ==
  /\ S \subseteq Node /\ t \in Counter /\ IsFiniteSet(S) /\ Cardinality(S) <= JIT_QUEUE_MAX
  /\ \A p, q \in S : p # q => Dist(p, t) # Dist(q, t)
  /\ Spaced(S, t) /\ Chained(S, t, far, air) /\ Shaped(S, air)

\* The timing and the types of its constants.
LEMMA TimingFacts ==
  ASSUME NEW far \in Nat, NEW air \in Nat, Timing(far, air)
  PROVE  /\ Step(air) \in Nat /\ Step(air) > 0 /\ JIT_QUEUE_MAX \in Nat /\ JIT_QUEUE_MAX >= 1
         /\ TX_MAX_ADVANCE_DELAY \in Nat /\ TX_START_DELAY \in Nat /\ TX_MARGIN_DELAY \in Nat
         /\ TX_JIT_DELAY \in Nat /\ BEACON_GUARD \in Nat /\ BEACON_RESERVED \in Nat /\ Lag \in Nat
         /\ TX_START_DELAY >= 1 /\ TX_JIT_DELAY > TX_START_DELAY + TX_MARGIN_DELAY
         /\ Lag <= TX_START_DELAY + TX_MARGIN_DELAY /\ BEACON_RESERVED <= air
         /\ \A toa \in TimeOnAir : toa \in Nat /\ toa <= air
         /\ TX_MAX_ADVANCE_DELAY <= Half /\ 2 * Step(air) + BEACON_GUARD + Lag < Half
         /\ Step(air) + TX_JIT_DELAY <= far
         /\ Step(air) = air + TX_START_DELAY + 2 * TX_JIT_DELAY + TX_MARGIN_DELAY
  BY JitAssumption, EmissionAssumption DEF Timing, Step

\* n packets depart up to then: no packet is further ahead than n steps.
LEMMA SpanCount ==
  ASSUME NEW far \in Nat, NEW air \in Nat, Timing(far, air),
         NEW S, NEW t, QueueOK(S, t, far, air), NEW n \in S
  PROVE  Dist(n, t) + Step(air) <= far + Step(air) * Cardinality({m \in S : Dist(m, t) <= Dist(n, t)})
<1> DEFINE upto(k) == {m \in S : Dist(m, t) <= Dist(k, t)}
           bad == {k \in S : ~(Dist(k, t) + Step(air) <= far + Step(air) * Cardinality(upto(k)))}
           T == {Dist(k, t) : k \in bad}
<1>1. \A k \in S : Dist(k, t) \in Nat /\ IsFiniteSet(upto(k)) /\ Cardinality(upto(k)) \in Nat
  <2>1. ASSUME NEW k \in S PROVE Dist(k, t) \in Nat /\ IsFiniteSet(upto(k))
    <3>1. upto(k) \subseteq S
      OBVIOUS
    <3>2. k \in Node /\ t \in Counter /\ IsFiniteSet(S)
      BY DEF QueueOK
    <3> QED
      BY <3>1, <3>2, DistType, FS_Subset
  <2>2. \A k \in S : Cardinality(upto(k)) \in Nat
    BY <2>1, FS_CardinalityType
  <2> QED
    BY <2>1, <2>2
<1>2. bad \subseteq S
  OBVIOUS
<1>3. SUFFICES ASSUME bad # {} PROVE FALSE
  OBVIOUS
<1>4. T \subseteq Nat /\ T # {}
  BY <1>1, <1>3
<1>5. PICK k \in bad : \A m \in bad : Dist(k, t) <= Dist(m, t)
  <2>1. PICK x \in T : \A y \in T : x <= y
    <3> HIDE DEF T
    <3> QED
      BY <1>4, LeastElement
  <2> QED
    BY <2>1
<1>6. k \in S /\ ~(Dist(k, t) + Step(air) <= far + Step(air) * Cardinality(upto(k)))
  OBVIOUS
<1> HIDE DEF bad, upto
<1>7. PICK s \in Nat, c \in Nat, x \in Nat : s = Step(air) /\ c = Cardinality(upto(k)) /\ x = Dist(k, t)
  BY <1>1, <1>6, TimingFacts
<1>8. k \in upto(k) /\ IsFiniteSet(upto(k))
  BY <1>1, <1>6 DEF upto
<1>9. c >= 1
  <2>1. Cardinality(upto(k)) # 0
    BY <1>8, FS_EmptySet
  <2> QED
    BY <1>7, <2>1
<1>10. s * c >= s /\ s * c \in Nat
  BY <1>7, <1>9
<1>11. ~(x <= far)
  BY <1>6, <1>7, <1>10
<1>12. PICK m \in S : Dist(m, t) < x /\ x <= Dist(m, t) + s
  BY <1>6, <1>7, <1>11 DEF QueueOK, Chained
<1>13. PICK e \in Nat, y \in Nat : e = Cardinality(upto(m)) /\ y = Dist(m, t)
  BY <1>1
<1>14. y < x /\ x <= y + s
  BY <1>12, <1>13
<1>15. m \notin bad
  BY <1>5, <1>7, <1>13, <1>14
<1>16. y + s <= far + s * e
  BY <1>7, <1>13, <1>15 DEF bad
<1>17. e + 1 <= c
  <2>1. \A j \in upto(m) : Dist(j, t) \in Nat /\ Dist(j, t) <= y /\ j \in S
    BY <1>1, <1>13 DEF upto
  <2>2. \A j \in upto(m) : j # k /\ Dist(j, t) <= x
    BY <1>7, <1>14, <2>1
  <2>3. upto(m) \subseteq upto(k) \ {k}
    BY <1>7, <2>1, <2>2 DEF upto
  <2>4. Cardinality(upto(k) \ {k}) = c - 1 /\ IsFiniteSet(upto(k) \ {k})
    BY <1>7, <1>8, FS_RemoveElement
  <2>5. e <= c - 1
    BY <1>13, <2>3, <2>4, FS_Subset
  <2> QED
    BY <1>7, <1>13, <2>5
<1>18. s * (e + 1) <= s * c /\ s * (e + 1) = s * e + s
  <2>1. PICK f \in Nat : f = e + 1
    BY <1>13
  <2>2. s * f <= s * c
    BY <1>7, <1>17, <2>1
  <2>3. s * f = s * e + s
    BY <1>7, <1>13, <2>1
  <2> QED
    BY <2>1, <2>2, <2>3
<1>19. x + s <= far + s * c
  <2>1. s * e \in Nat
    BY <1>7, <1>13
  <2> QED
    BY <1>7, <1>10, <1>13, <1>14, <1>16, <1>18, <2>1
<1> QED
  BY <1>6, <1>7, <1>19

\* So they all lie within the largest advance, with room for one more unless it is full.
LEMMA Span ==
  ASSUME NEW far \in Nat, NEW air \in Nat, Timing(far, air),
         NEW S, NEW t, QueueOK(S, t, far, air)
  PROVE  /\ \A n \in S : /\ Dist(n, t) \in Nat /\ Dist(n, t) + Lag < TX_MAX_ADVANCE_DELAY
                         /\ Cardinality(S) < JIT_QUEUE_MAX =>
                              Dist(n, t) + Lag + Step(air) < TX_MAX_ADVANCE_DELAY
         /\ Near(S, t)
<1>1. PICK s \in Nat, M \in Nat, c \in Nat, A \in Nat :
        /\ s = Step(air) /\ M = JIT_QUEUE_MAX /\ c = Cardinality(S) /\ A = TX_MAX_ADVANCE_DELAY
        /\ M >= 1 /\ c <= M /\ Lag \in Nat /\ far + (M - 1) * s + Lag < A
  BY TimingFacts, FS_CardinalityType DEF QueueOK, Timing
<1>2. ASSUME NEW n \in S
      PROVE  /\ Dist(n, t) \in Nat /\ Dist(n, t) + Lag < A /\ (c < M => Dist(n, t) + Lag + s < A)
  <2>1. Dist(n, t) \in Nat
    BY DistType DEF QueueOK
  <2>2. PICK e \in Nat : /\ e = Cardinality({m \in S : Dist(m, t) <= Dist(n, t)}) /\ e <= c
    <3> DEFINE upto == {m \in S : Dist(m, t) <= Dist(n, t)}
    <3>1. upto \subseteq S /\ IsFiniteSet(S)
      BY DEF QueueOK
    <3>2. IsFiniteSet(upto) /\ Cardinality(upto) <= Cardinality(S)
      BY <3>1, FS_Subset
    <3>3. Cardinality(upto) \in Nat
      BY <3>2, FS_CardinalityType
    <3> QED
      BY <1>1, <3>2, <3>3
  <2>3. Dist(n, t) + s <= far + s * e
    <3>1. Dist(n, t) + Step(air)
            <= far + Step(air) * Cardinality({m \in S : Dist(m, t) <= Dist(n, t)})
      BY SpanCount
    <3> QED
      BY <1>1, <2>2, <3>1
  <2>4. s * e <= s * c
    BY <1>1, <2>2
  <2>5. c <= M => s * c <= s * M
    BY <1>1
  <2>6. c < M => s * c <= s * (M - 1)
    BY <1>1
  <2>7. s * (M - 1) = (M - 1) * s /\ s * M = (M - 1) * s + s
    BY <1>1
  <2>8. (M - 1) * s \in Nat /\ s * e \in Nat /\ s * c \in Nat
    BY <1>1, <2>2
  <2> QED
    BY <1>1, <2>1, <2>3, <2>4, <2>5, <2>6, <2>7, <2>8
<1>3. Near(S, t)
  <2>1. \A n \in S : Dist(n, t) < Half
    BY <1>1, <1>2, TimingFacts, HalfFacts
  <2> QED
    BY <2>1 DEF Near, QueueOK
<1> QED
  BY <1>1, <1>2, <1>3

\* When two packets do not collide, and what follows when they do not.
LEMMA Collision ==
  ASSUME NEW c \in Counter, NEW t \in Counter, NEW pre \in Nat, NEW post \in Nat,
         NEW d \in Counter, NEW dpre \in Nat, NEW dpost \in Nat
  PROVE  LET x == Sub(c, t)
             y == Sub(d, t)
         IN  /\ ~collision_test(c, pre, post, d, dpre, dpost) =>
                  /\ x >= y => x - y > pre + dpost + TX_MARGIN_DELAY
                  /\ y >= x => y - x > dpre + post + TX_MARGIN_DELAY
             /\ x - y > pre + dpost + TX_MARGIN_DELAY /\ W - (x - y) > dpre + post + TX_MARGIN_DELAY
                  => ~collision_test(c, pre, post, d, dpre, dpost)
             /\ y - x > dpre + post + TX_MARGIN_DELAY /\ W - (y - x) > pre + dpost + TX_MARGIN_DELAY
                  => ~collision_test(c, pre, post, d, dpre, dpost)
<1>0. /\ Sub(c, t) \in Counter /\ Sub(d, t) \in Counter
      /\ Sub(c, d) \in Counter /\ Sub(d, c) \in Counter
  BY SubFrom
<1>1. PICK x \in Nat, y \in Nat, z \in Nat, w \in Nat :
        x = Sub(c, t) /\ y = Sub(d, t) /\ z = Sub(c, d) /\ w = Sub(d, c)
  BY <1>0 DEF Counter
<1>2. /\ z = IF x >= y THEN x - y ELSE x - y + W
      /\ w = IF y >= x THEN y - x ELSE y - x + W
  <2>1. Sub(c, d) = IF Sub(c, t) >= Sub(d, t) THEN Sub(c, t) - Sub(d, t)
                    ELSE Sub(c, t) - Sub(d, t) + W
    BY SubFrom
  <2>2. Sub(d, c) = IF Sub(d, t) >= Sub(c, t) THEN Sub(d, t) - Sub(c, t)
                    ELSE Sub(d, t) - Sub(c, t) + W
    BY SubFrom
  <2> QED
    BY <1>1, <2>1, <2>2
<1>3. x < W /\ y < W /\ W \in Nat
  BY <1>0, <1>1, JitAssumption DEF Counter
<1>4. collision_test(c, pre, post, d, dpre, dpost) <=>
        z <= pre + dpost + TX_MARGIN_DELAY \/ w <= dpre + post + TX_MARGIN_DELAY
  BY <1>1 DEF collision_test
<1>5. TX_MARGIN_DELAY \in Nat
  BY JitAssumption
<1>6. collision_test(c, pre, post, d, dpre, dpost) \in BOOLEAN
  BY DEF collision_test
<1> QED
  BY <1>1, <1>2, <1>3, <1>4, <1>5

\* asap_count_us finds a slot that collides with nothing, even with the guard before the
\* beacons respected, ahead of the delay jit_enqueue asks for, and not far behind another
\* packet.
LEMMA SlotFound ==
  ASSUME NEW far \in Nat, NEW air \in Nat, Timing(far, air), NEW t \in Counter,
         Near(nodes, t), Spaced(nodes, t), Shaped(nodes, air),
         NEW pre, pre = TX_START_DELAY + TX_JIT_DELAY, NEW post \in Nat, post <= air
  PROVE  LET c == asap_count_us(t, pre, post)
         IN  /\ c \in Counter
             /\ \/ Sub(c, t) = 2 * TX_JIT_DELAY
                \/ \E m \in nodes : Dist(m, t) < Sub(c, t) /\ Sub(c, t) <= Dist(m, t) + Step(air)
             /\ Sub(c, t) > TX_START_DELAY + TX_MARGIN_DELAY + TX_JIT_DELAY
             /\ \A n \in nodes : ~collision_test(c, pre, post, n.count, n.pre, n.post)
<1> DEFINE Hits(c, n) == collision_test(c, pre, post, n.count, n.pre, n.post)
           Behind(n) ==
             (n.count + n.post + pre + TX_JIT_DELAY + TX_MARGIN_DELAY) % W
           Later(n) == {m \in nodes : Before(n, m)}
           room == {n \in nodes : n = Last(nodes) \/ ~Hits(Behind(n), First(Later(n)))}
           asap == (t + 2 * TX_JIT_DELAY) % W
           c == asap_count_us(t, pre, post)
<1>1. c = IF \A n \in nodes : ~Hits(asap, n) THEN asap ELSE Behind(First(room))
  BY DEF asap_count_us
<1>2. /\ pre \in Nat /\ W \in Nat /\ Half \in Nat /\ 2 * Half <= W /\ Step(air) \in Nat
      /\ TX_JIT_DELAY \in Nat /\ TX_MARGIN_DELAY \in Nat /\ TX_START_DELAY \in Nat /\ BEACON_GUARD \in Nat
      /\ TX_JIT_DELAY > TX_START_DELAY + TX_MARGIN_DELAY /\ TX_START_DELAY >= 1
      /\ Step(air) = air + TX_START_DELAY + 2 * TX_JIT_DELAY + TX_MARGIN_DELAY
      /\ 2 * Step(air) + BEACON_GUARD < Half
  BY TimingFacts, HalfFacts
<1>3. \A n \in nodes :
        /\ n \in Node /\ n.count \in Counter /\ n.pre \in Nat /\ n.post \in Nat
        /\ Dist(n, t) \in Nat /\ Dist(n, t) < Half /\ n.post <= air
        /\ n.pre >= pre /\ n.pre <= pre + BEACON_GUARD
  <2>1. ASSUME NEW n \in nodes
        PROVE  /\ n \in Node /\ n.count \in Counter /\ n.pre \in Nat /\ n.post \in Nat
               /\ Dist(n, t) \in Nat /\ Dist(n, t) < Half
    BY DistType DEF Near, Node
  <2>2. ASSUME NEW n \in nodes PROVE n.post <= air /\ n.pre >= pre /\ n.pre <= pre + BEACON_GUARD
    <3>1. n.pre \in Nat
      BY <2>1
    <3> QED
      BY <1>2, <3>1 DEF Shaped
  <2> QED
    BY <2>1, <2>2
<1> HIDE DEF Hits, Behind, Later, room, asap, c
<1>4. CASE \A n \in nodes : ~Hits(asap, n)
  <2>1. c = asap
    BY <1>1, <1>4
  <2>2. Sub(t, t) = 0
    <3>1. Sub(t, t) = IF t >= t THEN t - t ELSE t - t + W
      BY SubCases
    <3> QED
      BY <3>1 DEF Counter
  <2>3. PICK k \in Nat : k = 2 * TX_JIT_DELAY /\ k < W
    BY <1>2
  <2>4. c \in Counter /\ Sub(c, t) = k
    <3>1. (t + k) % W \in Counter /\ Sub((t + k) % W, t) = Sub(t, t) + k
      BY <2>2, <2>3, SubAhead
    <3> QED
      BY <2>1, <2>2, <2>3, <3>1 DEF asap
  <2>5. \A n \in nodes : ~collision_test(c, pre, post, n.count, n.pre, n.post)
    BY <1>4, <2>1 DEF Hits
  <2> QED
    BY <1>2, <2>3, <2>4, <2>5 DEF c
<1>5. CASE ~(\A n \in nodes : ~Hits(asap, n))
  <2>1. nodes # {} /\ c = Behind(First(room))
    BY <1>1, <1>5
  <2>2. Last(nodes) \in nodes /\ \A n \in nodes : Dist(n, t) <= Dist(Last(nodes), t)
    BY <2>1, LastDeparts
  <2>3. PICK r : r = First(room)
    OBVIOUS
  <2>4. r \in nodes /\ (r = Last(nodes) \/ ~Hits(Behind(r), First(Later(r))))
    <3>1. Last(nodes) \in room
      BY <2>2 DEF room
    <3>2. r \in room
      BY <2>3, <3>1, FirstLastIn
    <3> QED
      BY <3>2 DEF room
  <2>5. PICK k \in Nat, y \in Nat : k = r.post + pre + TX_JIT_DELAY + TX_MARGIN_DELAY /\ y = Dist(r, t)
    BY <1>2, <1>3, <2>4
  <2>6. k <= Step(air) /\ y < Half
    BY <1>2, <1>3, <2>4, <2>5
  <2>7. PICK x \in Nat : x = y + k /\ c \in Counter /\ Sub(c, t) = x
    <3>1. y + k < W
      BY <1>2, <2>6
    <3>2. r.count + k = r.count + r.post + pre + TX_JIT_DELAY + TX_MARGIN_DELAY
      <4>1. r.count \in Int /\ r.post \in Nat
        BY <1>3, <2>4, JitAssumption DEF Counter
      <4> QED
        BY <1>2, <2>5, <4>1
    <3>3. c = (r.count + k) % W
      BY <2>1, <2>3, <3>2 DEF Behind
    <3>4. r.count \in Counter /\ Sub(r.count, t) = y
      BY <1>3, <2>4, <2>5 DEF Dist
    <3>5. (r.count + k) % W \in Counter /\ Sub((r.count + k) % W, t) = y + k
      BY <3>1, <3>4, SubAhead
    <3> QED
      BY <3>3, <3>5
  <2>8. ASSUME NEW n \in nodes PROVE ~collision_test(c, pre, post, n.count, n.pre, n.post)
    <3>1. PICK z \in Nat : z = Dist(n, t) /\ z < Half /\ z = Sub(n.count, t)
      BY <1>3 DEF Dist
    <3>2. /\ n.count \in Counter /\ n.pre \in Nat /\ n.post \in Nat /\ n.post <= air
          /\ n.pre >= pre /\ n.pre <= pre + BEACON_GUARD
      BY <1>3
    <3>3. /\ x - z > pre + n.post + TX_MARGIN_DELAY /\ W - (x - z) > n.pre + post + TX_MARGIN_DELAY
               => ~collision_test(c, pre, post, n.count, n.pre, n.post)
          /\ z - x > n.pre + post + TX_MARGIN_DELAY /\ W - (z - x) > pre + n.post + TX_MARGIN_DELAY
               => ~collision_test(c, pre, post, n.count, n.pre, n.post)
      BY <1>2, <2>7, <3>1, <3>2, Collision
    <3>4. CASE z <= y
      <4>1. x - z > pre + n.post + TX_MARGIN_DELAY
        <5>1. CASE n = r
          <6>1. z = y /\ r.post = n.post /\ x = y + n.post + pre + TX_JIT_DELAY + TX_MARGIN_DELAY
            <7>1. z = y /\ r.post = n.post
              BY <2>5, <3>1, <5>1
            <7> QED
              BY <1>2, <2>5, <2>7, <3>2, <7>1
          <6> QED
            BY <1>2, <2>5, <3>1, <3>2, <6>1
        <5>2. CASE n # r
          <6>0. Dist(n, t) # Dist(r, t)
            BY <2>4, <5>2, Zenon DEF Near
          <6>1. z < y
            BY <2>5, <3>1, <3>4, <6>0
          <6>2. y - z > r.pre + n.post + TX_MARGIN_DELAY
            BY <2>4, <2>5, <3>1, <6>1 DEF Spaced
          <6>3. r.pre \in Nat /\ r.post \in Nat
            BY <1>3, <2>4
          <6> QED
            BY <1>2, <2>5, <2>7, <3>1, <3>2, <6>2, <6>3
        <5> QED
          BY <5>1, <5>2
      <4>2. W - (x - z) > n.pre + post + TX_MARGIN_DELAY
        BY <1>2, <2>6, <2>7, <3>1, <3>2
      <4> QED
        BY <3>3, <4>1, <4>2
    <3>5. CASE z > y
      <4>1. r # Last(nodes)
        <5>1. Dist(n, t) <= Dist(Last(nodes), t)
          BY <2>2
        <5> QED
          BY <2>5, <3>1, <3>5, <5>1
      <4>2. Later(r) = {m \in nodes : y < Dist(m, t)}
        BY <2>4, <2>5, BeforeIs DEF Later
      <4>3. Near(Later(r), t) /\ n \in Later(r)
        BY <3>1, <3>5, <4>2 DEF Near
      <4>4. PICK f \in nodes : f = First(Later(r)) /\ y < Dist(f, t) /\ Dist(f, t) <= z
        <5>1. First(Later(r)) \in Later(r) /\ \A m \in Later(r) : Dist(First(Later(r)), t) <= Dist(m, t)
          BY <4>3, FirstDeparts
        <5> QED
          BY <3>1, <4>2, <4>3, <5>1
      <4>5. PICK w \in Nat : w = Dist(f, t) /\ w = Sub(f.count, t)
        BY <1>3 DEF Dist
      <4>6. /\ f.count \in Counter /\ f.pre \in Nat /\ f.post \in Nat /\ f.pre >= pre
            /\ r.post \in Nat
        BY <1>3, <2>4
      <4>7. ~collision_test(c, pre, post, f.count, f.pre, f.post)
        BY <2>1, <2>3, <2>4, <4>1, <4>4 DEF Hits
      <4>8. /\ x >= w => x - w > pre + f.post + TX_MARGIN_DELAY
            /\ w >= x => w - x > f.pre + post + TX_MARGIN_DELAY
        <5>1. post \in Nat /\ c \in Counter /\ pre \in Nat /\ x = Sub(c, t) /\ w = Sub(f.count, t)
          BY <1>2, <2>7, <4>5
        <5>2. /\ Sub(c, t) >= Sub(f.count, t) => Sub(c, t) - Sub(f.count, t) > pre + f.post + TX_MARGIN_DELAY
              /\ Sub(f.count, t) >= Sub(c, t) => Sub(f.count, t) - Sub(c, t) > f.pre + post + TX_MARGIN_DELAY
          BY <4>6, <4>7, <5>1, Collision
        <5> QED
          BY <5>1, <5>2
      <4>9. w - y > f.pre + r.post + TX_MARGIN_DELAY
        BY <2>4, <2>5, <4>4, <4>5 DEF Spaced
      <4>10. w - x > f.pre + post + TX_MARGIN_DELAY
        BY <1>2, <2>5, <2>7, <4>5, <4>6, <4>8, <4>9
      <4>11. z - x > n.pre + post + TX_MARGIN_DELAY
        <5>1. CASE n = f
          BY <3>1, <4>5, <4>10, <5>1
        <5>2. CASE n # f
          <6>0. Dist(n, t) # Dist(f, t)
            BY <5>2, Zenon DEF Near
          <6>1. w < z
            BY <3>1, <4>4, <4>5, <6>0
          <6>2. z - w > n.pre + f.post + TX_MARGIN_DELAY
            BY <3>1, <4>5, <6>1 DEF Spaced
          <6> QED
            BY <1>2, <2>7, <3>1, <3>2, <4>5, <4>6, <4>10, <6>2
        <5> QED
          BY <5>1, <5>2
      <4>12. W - (z - x) > pre + n.post + TX_MARGIN_DELAY
        BY <1>2, <2>7, <3>1, <3>2
      <4> QED
        BY <3>3, <4>11, <4>12
    <3> QED
      BY <3>1, <2>5, <3>4, <3>5
  <2>9. Sub(c, t) > TX_START_DELAY + TX_MARGIN_DELAY + TX_JIT_DELAY
    <3>1. r.post \in Nat
      BY <1>3, <2>4
    <3> QED
      BY <1>2, <2>5, <2>7, <3>1
  <2>10. Dist(r, t) < Sub(c, t) /\ Sub(c, t) <= Dist(r, t) + Step(air)
    <3>1. k > 0
      <4>1. r.post \in Nat
        BY <1>3, <2>4
      <4> QED
        BY <1>2, <2>5, <4>1
    <3> QED
      BY <1>2, <2>5, <2>6, <2>7, <3>1
  <2> QED
    BY <2>4, <2>7, <2>8, <2>9, <2>10 DEF c
<1> QED
  BY <1>4, <1>5

\* Departs only after the packet p, which departs at e, is off the air.
After(n, t, e, p) == Dist(n, t) - e > n.pre + p.post + TX_MARGIN_DELAY

\* The packet between the queue and the modem is due, and the queue comes after it.
PktOK(air) ==
  /\ pkt \in Node /\ pkt.pre >= TX_START_DELAY + TX_JIT_DELAY /\ pkt.post <= air
  /\ TX_START_DELAY < Dist(pkt, time) /\ Dist(pkt, time) < TX_JIT_DELAY
  /\ \A n \in nodes : After(n, time, Dist(pkt, time), pkt)

\* So it does after the packet in the modem: one that has not yet departed ...
Departing ==
  /\ 1 <= Dist(tx.pkt, time) /\ Dist(tx.pkt, time) < TX_JIT_DELAY
  /\ \A n \in nodes : After(n, time, Dist(tx.pkt, time), tx.pkt)

\* ... or is on the air.
OnAir ==
  /\ Sub(time, tx.pkt.count) < tx.pkt.post
  /\ \A n \in nodes : After(n, time, 0 - Sub(time, tx.pkt.count), tx.pkt)

\* What the modem is about.
ModemOK(air) ==
  /\ tx \in [status : {"TX_FREE", "TX_SCHEDULED", "TX_EMITTING"}, pkt : Node \cup {NoPkt}]
  /\ tx.status = "TX_FREE" => tx = Free
  /\ tx.status = "TX_SCHEDULED" =>
       /\ tx.pkt \in Node /\ tx.pkt.post <= air
       /\ Departing /\ Dist(tx.pkt, time) > TX_START_DELAY
  /\ tx.status = "TX_EMITTING" =>
       tx.pkt \in Node /\ tx.pkt.post <= air /\ (Departing \/ OnAir)

\* The inductive invariant of the system.
EmissionInv(far, air) ==
  /\ QueueOK(nodes, time, far, air)
  /\ \A n \in nodes : Dist(n, time) > TX_START_DELAY
  /\ phase \in {"peek", "dequeue", "status", "send"}
  /\ index = IF phase = "dequeue" THEN 0 ELSE -1
  /\ phase = "dequeue" => \E n \in nodes : Dist(n, time) < TX_JIT_DELAY
  /\ IF phase \in {"status", "send"} THEN PktOK(air) ELSE pkt = NoPkt
  /\ ModemOK(air) /\ (tx # Free => phase = "peek")
  /\ lost = {}

\* Seen from a time read a little earlier, everything is that much further ahead.
LEMMA Earlier ==
  ASSUME NEW far \in Nat, NEW air \in Nat, Timing(far, air),
         NEW S, NEW t, QueueOK(S, t, far, air), NEW lag \in 0 .. Lag, NEW u, u = Sub(t, lag)
  PROVE  /\ u \in Counter /\ Sub(t, u) = lag
         /\ \A n \in S : Dist(n, u) = Dist(n, t) + lag
         /\ Near(S, u) /\ Spaced(S, u) /\ Shaped(S, air)
<1>1. /\ Lag \in Nat /\ lag \in Nat /\ W \in Nat /\ Half \in Nat /\ 2 * Half <= W
      /\ TX_MAX_ADVANCE_DELAY \in Nat /\ TX_MAX_ADVANCE_DELAY <= Half /\ t \in Counter
      /\ TX_MARGIN_DELAY \in Nat /\ Lag < Half
  BY TimingFacts, HalfFacts DEF QueueOK
<1>2. Sub(t, t) = 0
  <2>1. Sub(t, t) = IF t >= t THEN t - t ELSE t - t + W
    BY <1>1, SubCases
  <2> QED
    BY <1>1, <2>1 DEF Counter
<1>3. u \in Counter /\ Sub(t, u) = lag
  <2>1. Sub(t, t) + lag < W
    BY <1>1, <1>2
  <2>2. Sub(t, lag) \in Counter /\ Sub(t, Sub(t, lag)) = Sub(t, t) + lag
    BY <1>1, <2>1, SubEarlier
  <2> QED
    BY <1>1, <1>2, <2>2
<1>4. \A n \in S : /\ n \in Node /\ n.count \in Counter /\ Dist(n, t) \in Nat
                   /\ Dist(n, t) + lag < TX_MAX_ADVANCE_DELAY
  <2>1. ASSUME NEW n \in S PROVE n \in Node /\ n.count \in Counter
    BY DistType DEF QueueOK
  <2>2. \A n \in S : Dist(n, t) \in Nat /\ Dist(n, t) + Lag < TX_MAX_ADVANCE_DELAY
    BY Span
  <2> QED
    BY <1>1, <2>1, <2>2
<1>5. ASSUME NEW n \in S PROVE Dist(n, u) = Dist(n, t) + lag
  <2>1. Sub(n.count, t) + lag < W
    BY <1>1, <1>4 DEF Dist
  <2>2. Sub(n.count, Sub(t, lag)) = Sub(n.count, t) + lag
    BY <1>1, <1>4, <2>1, SubEarlier
  <2> QED
    BY <2>2 DEF Dist
<1>6. Near(S, u)
  <2>1. \A n \in S : Dist(n, u) < Half
    BY <1>1, <1>4, <1>5
  <2>2. ASSUME NEW p \in S, NEW q \in S, p # q PROVE Dist(p, u) # Dist(q, u)
    <3>1. Dist(p, t) # Dist(q, t)
      BY <2>2, Zenon DEF QueueOK
    <3> QED
      BY <1>1, <1>4, <1>5, <3>1
  <2> QED
    BY <1>3, <2>1, <2>2 DEF Near, QueueOK
<1>7. Spaced(S, u)
  <2>1. ASSUME NEW p \in S, NEW q \in S, Dist(p, u) < Dist(q, u)
        PROVE  Dist(q, u) - Dist(p, u) > q.pre + p.post + TX_MARGIN_DELAY
    <3>1. PICK x \in Nat, y \in Nat : x = Dist(p, t) /\ y = Dist(q, t)
      BY <1>4
    <3>2. Dist(p, u) = x + lag /\ Dist(q, u) = y + lag
      BY <1>5, <3>1
    <3>3. x < y
      BY <1>1, <2>1, <3>1, <3>2
    <3>4. y - x > q.pre + p.post + TX_MARGIN_DELAY
      BY <3>1, <3>3 DEF QueueOK, Spaced
    <3>5. Dist(q, u) - Dist(p, u) = y - x
      BY <1>1, <3>1, <3>2
    <3> QED
      BY <3>4, <3>5
  <2> QED
    BY <2>1 DEF Spaced
<1> QED
  BY <1>3, <1>5, <1>6, <1>7 DEF QueueOK

\* A node that jit_enqueue accepts leaves the delays free and comes at most a step after
\* another or after what was asked for.
Placed(p, t, far, air) ==
  /\ p \in Node /\ p.pre >= TX_START_DELAY + TX_JIT_DELAY
  /\ p.pre <= TX_START_DELAY + BEACON_GUARD + TX_JIT_DELAY /\ p.post <= air
  /\ Dist(p, t) > TX_START_DELAY + TX_MARGIN_DELAY + TX_JIT_DELAY
  /\ \/ Dist(p, t) <= far
     \/ \E m \in nodes : Dist(m, t) < Dist(p, t) /\ Dist(p, t) <= Dist(m, t) + Step(air)
  /\ \A n \in nodes : ~collision_test(p.count, p.pre, p.post, n.count, n.pre, n.post)

\* What a request asks for.
LEMMA Asked ==
  ASSUME NEW far \in Nat, NEW air \in Nat, Timing(far, air), nodes \subseteq Node,
         NEW t \in Counter, NEW type \in DOMAIN Offsets, NEW toa \in TimeOnAir,
         NEW off \in Offsets[type], NEW p, p = NewNode(t, type, (t + off) % W, toa)
  PROVE  /\ p \in Node /\ p.type = type /\ type \in {"CLASS_B", "CLASS_C", "BEACON"}
         /\ p.pre >= TX_START_DELAY + TX_JIT_DELAY
         /\ p.pre <= TX_START_DELAY + BEACON_GUARD + TX_JIT_DELAY /\ p.post <= air
         /\ type = "CLASS_C" => /\ p.pre = TX_START_DELAY + TX_JIT_DELAY
                                /\ p.count = asap_count_us(t, p.pre, p.post)
         /\ type # "CLASS_C" => Dist(p, t) = off
<1>1. /\ type \in PktType /\ off \in Counter /\ off \in Nat /\ (t + off) % W \in Counter
      /\ (t + off) % W \in Nat
  BY EmissionAssumption, JitAssumption DEF Counter
<1>2. p \in Node
  BY <1>1, NewNodeType
<1>3. p.pre = pre_delay(type) /\ p.post = post_delay(type, toa) /\ p.type = type
  BY DEF NewNode
<1>4. type \in {"CLASS_B", "CLASS_C", "BEACON"}
  BY <1>1 DEF Timing, PktType, Downlinks
<1>5. /\ p.pre >= TX_START_DELAY + TX_JIT_DELAY
      /\ p.pre <= TX_START_DELAY + BEACON_GUARD + TX_JIT_DELAY
      /\ type = "CLASS_C" => p.pre = TX_START_DELAY + TX_JIT_DELAY
  BY <1>3, TimingFacts DEF pre_delay
<1>6. p.post <= air
  BY <1>3, TimingFacts DEF post_delay
<1>7. ASSUME type # "CLASS_C" PROVE Dist(p, t) = off
  <2>1. p.count = (t + off) % W
    BY <1>7 DEF NewNode
  <2>2. Sub(t, t) = 0 /\ W \in Nat /\ off < W
    <3>1. Sub(t, t) = IF t >= t THEN t - t ELSE t - t + W
      BY SubCases
    <3> QED
      BY <1>1, <3>1, JitAssumption DEF Counter
  <2>3. Sub((t + off) % W, t) = Sub(t, t) + off
    BY <1>1, <2>2, SubAhead
  <2> QED
    BY <1>1, <2>1, <2>2, <2>3 DEF Dist
<1>8. type = "CLASS_C" => p.count = asap_count_us(t, p.pre, p.post)
  BY <1>3 DEF NewNode
<1> QED
  BY <1>2, <1>3, <1>4, <1>5, <1>6, <1>7, <1>8

\* So is every request that meets the criteria of jit_enqueue.
LEMMA NewPlaced ==
  ASSUME NEW far \in Nat, NEW air \in Nat, Timing(far, air), NEW t \in Counter,
         Near(nodes, t), Spaced(nodes, t), Shaped(nodes, air),
         NEW type \in DOMAIN Offsets, NEW toa \in TimeOnAir, NEW off \in Offsets[type],
         NEW p, p = NewNode(t, type, (t + off) % W, toa), jit_error(t, p) = "OK"
  PROVE  Placed(p, t, far, air)
<1>1. /\ p \in Node /\ p.type = type /\ type \in {"CLASS_B", "CLASS_C", "BEACON"}
      /\ p.pre >= TX_START_DELAY + TX_JIT_DELAY
      /\ p.pre <= TX_START_DELAY + BEACON_GUARD + TX_JIT_DELAY /\ p.post <= air
      /\ type = "CLASS_C" => /\ p.pre = TX_START_DELAY + TX_JIT_DELAY
                             /\ p.count = asap_count_us(t, p.pre, p.post)
      /\ type # "CLASS_C" => Dist(p, t) = off
  <2>1. nodes \subseteq Node
    BY DEF Near
  <2> QED
    BY <2>1, Asked
<1>2. CASE type = "CLASS_C"
  <2>1. p.pre \in Nat /\ p.post \in Nat
    BY <1>1 DEF Node
  <2>2. PICK pre, post \in Nat : pre = p.pre /\ post = p.post
    BY <2>1
  <2>3. /\ \/ Dist(p, t) = 2 * TX_JIT_DELAY
           \/ \E m \in nodes : Dist(m, t) < Dist(p, t) /\ Dist(p, t) <= Dist(m, t) + Step(air)
        /\ Dist(p, t) > TX_START_DELAY + TX_MARGIN_DELAY + TX_JIT_DELAY
        /\ \A n \in nodes : ~collision_test(p.count, p.pre, p.post, n.count, n.pre, n.post)
    <3>1. pre = TX_START_DELAY + TX_JIT_DELAY /\ post <= air /\ p.count = asap_count_us(t, pre, post)
      BY <1>1, <1>2, <2>2
    <3> QED
      BY <2>2, <3>1, SlotFound DEF Dist
  <2>4. 2 * TX_JIT_DELAY <= far
    BY TimingFacts
  <2> QED
    BY <1>1, <2>3, <2>4 DEF Placed
<1>3. CASE type \in {"CLASS_B", "BEACON"}
  <2>1. Dist(p, t) = off /\ off \in Nat
    BY <1>1, <1>3, EmissionAssumption, JitAssumption DEF Counter
  <2>2. /\ ~(off <= TX_START_DELAY + TX_MARGIN_DELAY + TX_JIT_DELAY)
        /\ ~(type = "CLASS_B" /\ off > TX_MAX_ADVANCE_DELAY)
        /\ Colliding(p) = {}
    BY <1>1, <2>1 DEF jit_error, Dist
  <2>3. off <= far
    BY <1>3, <2>2 DEF Timing
  <2>4. ASSUME NEW n \in nodes
        PROVE  ~collision_test(p.count, p.pre, p.post, n.count, n.pre, n.post)
    <3>1. target_pre_delay(p.type, n) = n.pre
      BY <1>1, <1>3 DEF target_pre_delay
    <3> QED
      BY <2>2, <3>1 DEF Colliding
  <2>5. off > TX_START_DELAY + TX_MARGIN_DELAY + TX_JIT_DELAY
    BY <2>1, <2>2, TimingFacts
  <2> QED
    BY <1>1, <2>1, <2>3, <2>4, <2>5 DEF Placed
<1> QED
  BY <1>1, <1>2, <1>3

\* Such a node keeps the queue in order, seen from the time itself.
LEMMA PlacedKeeps ==
  ASSUME NEW far \in Nat, NEW air \in Nat, Timing(far, air),
         QueueOK(nodes, time, far, air), NEW lag \in 0 .. Lag, NEW u, u = Sub(time, lag),
         NEW p, Placed(p, u, far, air), Cardinality(nodes) < JIT_QUEUE_MAX
  PROVE  /\ QueueOK(nodes \cup {p}, time, far, air)
         /\ Dist(p, time) >= TX_JIT_DELAY /\ Dist(p, time) > TX_START_DELAY
<1>1. /\ u \in Counter /\ Sub(time, u) = lag /\ time \in Counter
      /\ \A n \in nodes : Dist(n, u) = Dist(n, time) + lag
  <2>1. time \in Counter
    BY DEF QueueOK
  <2> QED
    BY <2>1, Earlier
<1>2. /\ lag \in Nat /\ lag <= TX_START_DELAY + TX_MARGIN_DELAY /\ W \in Nat
      /\ TX_START_DELAY \in Nat /\ TX_MARGIN_DELAY \in Nat /\ TX_JIT_DELAY \in Nat
      /\ TX_JIT_DELAY > TX_START_DELAY + TX_MARGIN_DELAY /\ Step(air) \in Nat
  BY TimingFacts, JitAssumption
<1>3. /\ p \in Node /\ p.count \in Counter /\ p.pre \in Nat /\ p.post \in Nat
  <2>1. p \in Node
    BY DEF Placed
  <2> QED
    BY <2>1, DistType DEF Node
<1>4. \A n \in nodes : /\ n \in Node /\ n.count \in Counter /\ Dist(n, time) \in Nat
                       /\ n.pre \in Nat /\ n.post \in Nat
  <2>1. ASSUME NEW n \in nodes PROVE n \in Node /\ n.pre \in Nat /\ n.post \in Nat
    BY DEF QueueOK, Node
  <2> QED
    BY <1>1, <2>1, DistType
<1>5. PICK x \in Nat, z \in Nat : /\ x = Dist(p, time) /\ z = Dist(p, u) /\ z = x + lag
                                /\ z > TX_START_DELAY + TX_MARGIN_DELAY + TX_JIT_DELAY
  <2>1. Dist(p, time) \in Nat /\ Dist(p, u) \in Nat
    BY <1>1, <1>3, DistType
  <2>2. Dist(p, u) > TX_START_DELAY + TX_MARGIN_DELAY + TX_JIT_DELAY
    BY DEF Placed
  <2>3. Dist(p, time) = Dist(p, u) - lag
    <3>1. Sub(p.count, time) = IF Sub(p.count, u) >= Sub(time, u) THEN Sub(p.count, u) - Sub(time, u)
                               ELSE Sub(p.count, u) - Sub(time, u) + W
      BY <1>1, <1>3, SubFrom
    <3>2. Dist(p, u) >= lag
      BY <1>2, <2>1, <2>2
    <3> QED
      BY <1>1, <3>1, <3>2 DEF Dist
  <2> QED
    BY <1>2, <2>1, <2>2, <2>3
<1>6. x >= TX_JIT_DELAY /\ x > TX_START_DELAY
  BY <1>2, <1>5
<1>7. ASSUME NEW n \in nodes
      PROVE  /\ x >= Dist(n, time) => x - Dist(n, time) > p.pre + n.post + TX_MARGIN_DELAY
             /\ Dist(n, time) >= x => Dist(n, time) - x > n.pre + p.post + TX_MARGIN_DELAY
  <2>1. PICK y \in Nat : y = Dist(n, time) /\ Dist(n, u) = y + lag
    BY <1>1, <1>4
  <2>2. ~collision_test(p.count, p.pre, p.post, n.count, n.pre, n.post)
    BY DEF Placed
  <2>3. /\ Sub(p.count, u) >= Sub(n.count, u) =>
             Sub(p.count, u) - Sub(n.count, u) > p.pre + n.post + TX_MARGIN_DELAY
        /\ Sub(n.count, u) >= Sub(p.count, u) =>
             Sub(n.count, u) - Sub(p.count, u) > n.pre + p.post + TX_MARGIN_DELAY
    BY <1>1, <1>3, <1>4, <2>2, Collision
  <2>4. Sub(p.count, u) = x + lag /\ Sub(n.count, u) = y + lag
    BY <1>5, <2>1 DEF Dist
  <2>5. (x + lag) - (y + lag) = x - y /\ (y + lag) - (x + lag) = y - x
    BY <1>2
  <2>6. (x >= y => x + lag >= y + lag) /\ (y >= x => y + lag >= x + lag)
    BY <1>2
  <2> QED
    BY <2>1, <2>3, <2>4, <2>5, <2>6
<1>8. \A n \in nodes : Dist(n, time) # x
  BY <1>2, <1>3, <1>4, <1>7
<1>9. p \notin nodes
  BY <1>5, <1>8
<1>10. IsFiniteSet(nodes \cup {p}) /\ Cardinality(nodes \cup {p}) <= JIT_QUEUE_MAX
  <2>1. IsFiniteSet(nodes)
    BY DEF QueueOK
  <2>2. IsFiniteSet(nodes \cup {p}) /\ Cardinality(nodes \cup {p}) = Cardinality(nodes) + 1
    BY <1>9, <2>1, FS_AddElement
  <2>3. Cardinality(nodes) \in Nat /\ JIT_QUEUE_MAX \in Nat
    BY <2>1, FS_CardinalityType, JitAssumption
  <2> QED
    BY <2>2, <2>3
<1>11. \A q, r \in nodes \cup {p} : q # r => Dist(q, time) # Dist(r, time)
  BY <1>5, <1>8 DEF QueueOK
<1>12. Spaced(nodes \cup {p}, time)
  <2>1. ASSUME NEW q \in nodes \cup {p}, NEW r \in nodes \cup {p}, Dist(q, time) < Dist(r, time)
        PROVE  Dist(r, time) - Dist(q, time) > r.pre + q.post + TX_MARGIN_DELAY
    <3>1. CASE q \in nodes /\ r \in nodes
      BY <2>1, <3>1 DEF QueueOK, Spaced
    <3>2. CASE q = p /\ r \in nodes
      BY <1>4, <1>5, <1>7, <2>1, <3>2
    <3>3. CASE q \in nodes /\ r = p
      BY <1>4, <1>5, <1>7, <2>1, <3>3
    <3>4. CASE q = p /\ r = p
      BY <1>5, <2>1, <3>4
    <3> QED
      BY <2>1, <3>1, <3>2, <3>3, <3>4
  <2> QED
    BY <2>1 DEF Spaced
<1>13. Chained(nodes \cup {p}, time, far, air)
  <2>1. \A n \in nodes :
          \/ Dist(n, time) <= far
          \/ \E m \in nodes : Dist(m, time) < Dist(n, time) /\ Dist(n, time) <= Dist(m, time) + Step(air)
    BY DEF QueueOK, Chained
  <2>2. CASE Dist(p, u) <= far
    <3>1. x <= far
      BY <1>2, <1>5, <2>2
    <3> QED
      BY <1>5, <2>1, <3>1 DEF Chained
  <2>3. CASE \E m \in nodes : Dist(m, u) < Dist(p, u) /\ Dist(p, u) <= Dist(m, u) + Step(air)
    <3>1. PICK m \in nodes : Dist(m, u) < Dist(p, u) /\ Dist(p, u) <= Dist(m, u) + Step(air)
      BY <2>3
    <3>2. PICK y \in Nat : y = Dist(m, time) /\ Dist(m, u) = y + lag
      BY <1>1, <1>4
    <3>3. y < x /\ x <= y + Step(air)
      BY <1>2, <1>5, <3>1, <3>2
    <3> QED
      BY <1>5, <2>1, <3>2, <3>3 DEF Chained
  <2> QED
    BY <2>2, <2>3 DEF Placed
<1>14. Shaped(nodes \cup {p}, air)
  BY DEF QueueOK, Shaped, Placed
<1> QED
  BY <1>1, <1>3, <1>4, <1>5, <1>6, <1>10, <1>11, <1>12, <1>13, <1>14 DEF QueueOK

\* jit_enqueue refuses a class C packet only when the array is full.
LEMMA ClassCFits ==
  ASSUME NEW far \in Nat, NEW air \in Nat, Timing(far, air), QueueOK(nodes, time, far, air),
         NEW toa \in TimeOnAir, NEW p, p = NewNode(time, "CLASS_C", 0, toa)
  PROVE  /\ jit_error(time, p) \in {"OK", "FULL"}
         /\ jit_error(time, p) = "OK" => Sub(p.count, time) < W \div 2
<1>1. /\ p.type = "CLASS_C" /\ p.pre = TX_START_DELAY + TX_JIT_DELAY /\ p.post = toa
      /\ p.count = asap_count_us(time, p.pre, p.post)
  BY DEF NewNode, pre_delay, post_delay
<1>2. Near(nodes, time) /\ time \in Counter /\ toa \in Nat /\ toa <= air
  BY Span, TimingFacts DEF QueueOK
<1>3. /\ p.count \in Counter
      /\ \/ Sub(p.count, time) = 2 * TX_JIT_DELAY
         \/ \E m \in nodes : Dist(m, time) < Sub(p.count, time)
                            /\ Sub(p.count, time) <= Dist(m, time) + Step(air)
      /\ Sub(p.count, time) > TX_START_DELAY + TX_MARGIN_DELAY + TX_JIT_DELAY
      /\ \A n \in nodes : ~collision_test(p.count, p.pre, p.post, n.count, n.pre, n.post)
  <2>1. PICK pre : pre = p.pre
    OBVIOUS
  <2>2. /\ pre = TX_START_DELAY + TX_JIT_DELAY /\ p.count = asap_count_us(time, pre, toa)
        /\ p.post = toa
    BY <1>1, <2>1
  <2> QED
    BY <1>2, <2>1, <2>2, SlotFound DEF QueueOK
<1>4. PICK x \in Nat : x = Sub(p.count, time)
  BY <1>2, <1>3, SubFrom DEF Counter
<1>5. Colliding(p) = {}
  <2>1. ASSUME NEW n \in nodes
        PROVE ~collision_test(p.count, p.pre, p.post, n.count, target_pre_delay(p.type, n), n.post)
    <3>1. n \in Node /\ n.count \in Counter /\ n.pre \in Nat /\ n.post \in Nat /\ TX_START_DELAY \in Nat
          /\ n.pre >= TX_START_DELAY /\ TX_MARGIN_DELAY \in Nat
      <4>1. n \in Node
        BY DEF QueueOK
      <4>2. n.pre >= TX_START_DELAY + TX_JIT_DELAY
        BY DEF QueueOK, Shaped
      <4> QED
        BY <4>1, <4>2, DistType, <1>2, JitAssumption DEF Node
    <3>2. PICK tpd \in Nat : tpd = target_pre_delay(p.type, n) /\ tpd <= n.pre
      BY <3>1 DEF target_pre_delay
    <3>3. /\ ~(Sub(p.count, n.count) <= p.pre + n.post + TX_MARGIN_DELAY)
          /\ ~(Sub(n.count, p.count) <= n.pre + p.post + TX_MARGIN_DELAY)
      BY <1>3 DEF collision_test
    <3>4. Sub(n.count, p.count) \in Nat
      BY <1>3, <3>1, SubFrom DEF Counter
    <3>5. ~(Sub(n.count, p.count) <= tpd + p.post + TX_MARGIN_DELAY)
      BY <1>1, <1>2, <3>1, <3>2, <3>3, <3>4
    <3> QED
      BY <3>2, <3>3, <3>5 DEF collision_test
  <2> QED
    BY <2>1 DEF Colliding
<1>6. ~(Sub(p.count, time) <= TX_START_DELAY + TX_MARGIN_DELAY + TX_JIT_DELAY)
  BY <1>3, <1>4, TimingFacts
<1>7. jit_error(time, p) = IF jit_queue_is_full THEN "FULL" ELSE "OK"
  BY <1>1, <1>5, <1>6 DEF jit_error
<1>8. ASSUME ~jit_queue_is_full PROVE x < Half
  <2>1. Cardinality(nodes) < JIT_QUEUE_MAX
    BY <1>8, JitAssumption, FS_CardinalityType DEF QueueOK, jit_queue_is_full
  <2>2. CASE Sub(p.count, time) = 2 * TX_JIT_DELAY
    <3>1. 2 * TX_JIT_DELAY < Half
      BY TimingFacts, HalfFacts
    <3> QED
      BY <1>4, <2>2, <3>1
  <2>3. CASE \E m \in nodes : Dist(m, time) < Sub(p.count, time)
                            /\ Sub(p.count, time) <= Dist(m, time) + Step(air)
    <3>1. PICK m \in nodes : x <= Dist(m, time) + Step(air)
      BY <1>4, <2>3
    <3>2. Dist(m, time) \in Nat /\ Dist(m, time) + Lag + Step(air) < TX_MAX_ADVANCE_DELAY
      BY <2>1, Span
    <3> QED
      BY <1>4, <3>1, <3>2, TimingFacts, HalfFacts
  <2> QED
    BY <1>3, <2>2, <2>3
<1> QED
  BY <1>4, <1>7, <1>8 DEF Half

\* jit_peek drops nothing and hands over the packet that departs first, if it is due.
LEMMA PeekIs ==
  ASSUME NEW far \in Nat, NEW air \in Nat, Timing(far, air), QueueOK(nodes, time, far, air)
  PROVE  /\ PeekDropped(time) = {}
         /\ pkt_idx(time) = IF \E n \in nodes : Dist(n, time) < TX_JIT_DELAY THEN 0 ELSE -1
<1>1. \A n \in nodes : Dist(n, time) \in Nat /\ Dist(n, time) < TX_MAX_ADVANCE_DELAY
  BY Span, TimingFacts
<1>2. \A n \in nodes : ~Outdated(n, time)
  BY <1>1, TimingFacts DEF Outdated, Dist
<1>3. Skipped(time) = {} /\ PeekDropped(time) = {}
  <2>1. nodes # {} => First(nodes) \in nodes
    BY FirstLastIn
  <2> QED
    BY <1>2, <2>1 DEF Skipped, PeekDropped
<1>4. PeekChosen(time) = {n \in nodes : /\ Dist(n, time) < TX_JIT_DELAY
                                        /\ \A m \in nodes : Dist(n, time) <= Dist(m, time)}
  <2>1. nodes \ (PeekDropped(time) \cup Skipped(time)) = nodes
    BY <1>3
  <2> QED
    BY <2>1 DEF PeekChosen, Dist
<1>5. CASE \E n \in nodes : Dist(n, time) < TX_JIT_DELAY
  <2>1. Near(nodes, time) /\ IsFiniteSet(nodes)
    BY Span DEF QueueOK
  <2>2. First(nodes) \in nodes /\ \A m \in nodes : Dist(First(nodes), time) <= Dist(m, time)
    BY <1>5, <2>1, FirstDeparts
  <2>3. First(nodes) \in PeekChosen(time)
    <3>1. PICK n \in nodes : Dist(n, time) < TX_JIT_DELAY
      BY <1>5
    <3>2. Dist(First(nodes), time) < TX_JIT_DELAY
      BY <1>1, <2>2, <3>1, TimingFacts
    <3> QED
      BY <1>4, <2>2, <3>2
  <2>4. PICK k \in PeekChosen(time) : k = CHOOSE n \in PeekChosen(time) : TRUE
    BY <2>3
  <2>5. Index(k, nodes) = 0
    BY <1>4, <2>1, <2>4, IndexZero
  <2>6. nodes \ PeekDropped(time) = nodes
    BY <1>3
  <2> QED
    BY <1>3, <1>5, <2>3, <2>4, <2>5, <2>6 DEF pkt_idx
<1>6. CASE ~(\E n \in nodes : Dist(n, time) < TX_JIT_DELAY)
  BY <1>3, <1>4, <1>6 DEF pkt_idx
<1> QED
  BY <1>3, <1>5, <1>6

\* A tick later, what is ahead is a tick less so, and what is behind a tick more.
LEMMA NextTick ==
  ASSUME NEW far \in Nat, NEW air \in Nat, Timing(far, air),
         NEW a \in Counter, NEW t \in Counter, NEW u, u = (t + 1) % W
  PROVE  /\ u \in Counter
         /\ Sub(a, t) >= 1 => Sub(a, u) = Sub(a, t) - 1
         /\ Sub(a, t) = 1 => Sub(u, a) = 0
         /\ Sub(t, a) + 1 < W => Sub(u, a) = Sub(t, a) + 1
<1>1. W \in Nat /\ W > 1 /\ t \in Nat /\ a \in Nat
  BY TimingFacts, HalfFacts DEF Counter
<1>2. Sub(t, t) = 0
  <2>1. Sub(t, t) = IF t >= t THEN t - t ELSE t - t + W
    BY SubCases
  <2> QED
    BY <1>1, <2>1
<1>3. u \in Counter /\ Sub(u, t) = 1
  <2>1. (t + 1) % W \in Counter /\ Sub((t + 1) % W, t) = Sub(t, t) + 1
    BY <1>1, <1>2, SubAhead
  <2> QED
    BY <1>2, <2>1
<1>4. PICK x \in Nat, y \in Nat : x = Sub(a, t) /\ y = Sub(a, u)
  BY <1>3, SubFrom DEF Counter
<1>5. x >= 1 => y = x - 1
  <2>1. Sub(a, u) = IF Sub(a, t) >= Sub(u, t) THEN Sub(a, t) - Sub(u, t)
                    ELSE Sub(a, t) - Sub(u, t) + W
    BY <1>3, SubFrom
  <2> QED
    BY <1>3, <1>4, <2>1
<1>6. x = 1 => Sub(u, a) = 0
  <2>1. /\ Sub(a, u) = IF a >= u THEN a - u ELSE a - u + W
        /\ Sub(u, a) = IF u >= a THEN u - a ELSE u - a + W
    BY <1>3, SubCases
  <2>2. u \in 0 .. W - 1 /\ a \in 0 .. W - 1
    BY <1>3 DEF Counter
  <2>3. y = 0 => u = a
    BY <1>1, <1>4, <2>1, <2>2
  <2> QED
    BY <1>1, <1>4, <1>5, <2>1, <2>2, <2>3
<1>7. Sub(t, a) + 1 < W => Sub(u, a) = Sub(t, a) + 1
  BY <1>1, SubAhead
<1> QED
  BY <1>3, <1>4, <1>5, <1>6, <1>7

\* At the start the queue is empty and the modem free.
LEMMA EmissionInitInv ==
  ASSUME NEW far \in Nat, NEW air \in Nat, Timing(far, air), EmissionInit
  PROVE  EmissionInv(far, air)
<1>1. nodes = {} /\ IsFiniteSet(nodes) /\ Cardinality(nodes) = 0
  BY FS_EmptySet DEF EmissionInit, JitInit, jit_queue_init
<1>2. QueueOK(nodes, time, far, air)
  BY <1>1, TimingFacts DEF EmissionInit, QueueOK, Spaced, Chained, Shaped
<1>3. ModemOK(air)
  <2>1. tx = Free /\ tx.status = "TX_FREE" /\ NoPkt \in Node \cup {NoPkt}
    BY DEF EmissionInit, Free
  <2> QED
    BY <2>1 DEF ModemOK, Free
<1> QED
  BY <1>1, <1>2, <1>3 DEF EmissionInit, EmissionInv

\* A request leaves the queue in order, and what it adds is ahead.
LEMMA RequestKeeps ==
  ASSUME NEW far \in Nat, NEW air \in Nat, Timing(far, air), Paced,
         EmissionInv(far, air), Request
  PROVE  /\ EmissionInv(far, air)'
         /\ \A n \in nodes' \ nodes : Sub(n.count, time) < W \div 2
<1>1. PICK type \in DOMAIN Offsets, toa \in TimeOnAir, lag \in 0 .. Lag :
        \E off \in Offsets[type] :
          LET t == Sub(time, lag)
          IN  jit_enqueue(t, NewNode(t, type, (t + off) % W, toa))
  BY DEF Request
<1>2. PICK off \in Offsets[type] :
        jit_enqueue(Sub(time, lag), NewNode(Sub(time, lag), type, (Sub(time, lag) + off) % W, toa))
  BY <1>1
<1>3. PICK u, p : u = Sub(time, lag) /\ p = NewNode(u, type, (u + off) % W, toa)
  OBVIOUS
<1>4. phase \in {"peek", "dequeue"} /\ tx = Free /\ UNCHANGED <<time, phase, index, pkt, tx, lost>>
  BY DEF Request
<1>5. /\ QueueOK(nodes, time, far, air) /\ \A n \in nodes : Dist(n, time) > TX_START_DELAY
      /\ IsFiniteSet(nodes) /\ Cardinality(nodes) <= JIT_QUEUE_MAX
  BY DEF EmissionInv, QueueOK
<1>6. CASE jit_error(u, p) = "OK"
  <2>1. nodes' = nodes \cup {p}
    BY <1>2, <1>3, <1>6 DEF jit_enqueue
  <2>2. u \in Counter /\ Near(nodes, u) /\ Spaced(nodes, u) /\ Shaped(nodes, air)
    BY <1>3, <1>5, Earlier
  <2>3. Placed(p, u, far, air)
    BY <1>3, <1>6, <2>2, NewPlaced
  <2>4. Cardinality(nodes) < JIT_QUEUE_MAX
    <3>1. ~jit_queue_is_full
      BY <1>6 DEF jit_error
    <3> QED
      BY <1>5, <3>1, FS_CardinalityType, JitAssumption DEF jit_queue_is_full
  <2>5. /\ QueueOK(nodes \cup {p}, time, far, air)
        /\ Dist(p, time) >= TX_JIT_DELAY /\ Dist(p, time) > TX_START_DELAY
    BY <1>3, <1>5, <2>3, <2>4, PlacedKeeps
  <2>6. \A n \in nodes \cup {p} : Dist(n, time) < Half
    BY <2>5, Span DEF Near
  <2>7. EmissionInv(far, air)'
    <3>1. QueueOK(nodes', time', far, air) /\ \A n \in nodes' : Dist(n, time') > TX_START_DELAY
      BY <1>4, <1>5, <2>1, <2>5
    <3>2. phase = "dequeue" => \E n \in nodes' : Dist(n, time') < TX_JIT_DELAY
      BY <1>4, <2>1 DEF EmissionInv
    <3>3. ModemOK(air)'
      BY <1>4 DEF ModemOK, EmissionInv, Free
    <3> QED
      BY <1>4, <3>1, <3>2, <3>3 DEF EmissionInv, Dist
  <2> QED
    BY <2>1, <2>6, <2>7 DEF Dist, Half
<1>7. CASE jit_error(u, p) # "OK"
  <2>1. nodes' = nodes
    BY <1>2, <1>3, <1>7 DEF jit_enqueue, jitVars
  <2>2. ModemOK(air)'
    BY <1>4 DEF ModemOK, EmissionInv, Free
  <2> QED
    BY <1>4, <2>1, <2>2 DEF EmissionInv, Dist
<1> QED
  BY <1>6, <1>7

\* What follows from a modem that is free.
LEMMA FreeIsOK ==
  ASSUME tx = Free, NEW air
  PROVE  ModemOK(air)
BY DEF ModemOK, Free

\* thread_jit finds nothing to drop; while a packet is in the modem nothing is due.
LEMMA PeekKeeps ==
  ASSUME NEW far \in Nat, NEW air \in Nat, Timing(far, air), EmissionInv(far, air), Peek
  PROVE  EmissionInv(far, air)'
<1>1. /\ QueueOK(nodes, time, far, air) /\ phase = "peek" /\ lost = {} /\ pkt = NoPkt
      /\ ModemOK(air)
  BY DEF EmissionInv, Peek
<1>2. /\ PeekDropped(time) = {}
      /\ pkt_idx(time) = IF \E n \in nodes : Dist(n, time) < TX_JIT_DELAY THEN 0 ELSE -1
  BY <1>1, PeekIs
<1>3. nodes' = nodes /\ lost' = {} /\ index' = pkt_idx(time) /\ UNCHANGED <<time, pkt, tx>>
      /\ phase' = IF pkt_idx(time) > -1 THEN "dequeue" ELSE "peek"
  BY <1>1, <1>2 DEF Peek, jit_peek, Remove
<1>4. ASSUME tx # Free, NEW n \in nodes PROVE ~(Dist(n, time) < TX_JIT_DELAY)
  <2>1. /\ tx.pkt \in Node /\ n \in Node /\ time \in Counter
        /\ Departing \/ OnAir
    BY <1>1, <1>4 DEF ModemOK, QueueOK
  <2>2. /\ n.pre \in Nat /\ tx.pkt.post \in Nat /\ Dist(n, time) \in Nat /\ Dist(tx.pkt, time) \in Nat
        /\ tx.pkt.count \in Counter /\ n.pre >= TX_START_DELAY + TX_JIT_DELAY
    BY <1>1, <2>1, DistType DEF Node, QueueOK, Shaped
  <2>3. CASE Departing
    <3>1. Dist(n, time) - Dist(tx.pkt, time) > n.pre + tx.pkt.post + TX_MARGIN_DELAY
      BY <2>3 DEF Departing, After
    <3>2. PICK x \in Nat, y \in Nat, a \in Nat, b \in Nat :
            /\ x = Dist(n, time) /\ y = Dist(tx.pkt, time) /\ a = n.pre /\ b = tx.pkt.post
            /\ a >= TX_START_DELAY + TX_JIT_DELAY
      BY <2>2
    <3>3. x - y > a + b + TX_MARGIN_DELAY
      BY <3>1, <3>2
    <3>4. TX_MARGIN_DELAY \in Nat /\ TX_START_DELAY \in Nat /\ TX_JIT_DELAY \in Nat
      BY TimingFacts
    <3>5. x > TX_JIT_DELAY
      BY <3>2, <3>3, <3>4
    <3> QED
      BY <3>2, <3>4, <3>5
  <2>4. CASE OnAir
    <3>1. PICK b \in Nat : b = Sub(time, tx.pkt.count)
      <4>1. time \in Counter /\ tx.pkt.count \in Counter
        BY <2>1, <2>2
      <4>2. Sub(time, tx.pkt.count) \in Counter
        BY <4>1, SubFrom
      <4> QED
        BY <4>2 DEF Counter
    <3>2. b < tx.pkt.post /\ Dist(n, time) - (0 - b) > n.pre + tx.pkt.post + TX_MARGIN_DELAY
      BY <2>4, <3>1 DEF OnAir, After
    <3> QED
      BY <2>2, <3>1, <3>2, TimingFacts
  <2> QED
    BY <2>1, <2>3, <2>4
<1>5. ModemOK(air)'
  BY <1>1, <1>3 DEF ModemOK, Departing, OnAir, Dist, After
<1>6. CASE \E n \in nodes : Dist(n, time) < TX_JIT_DELAY
  <2>1. tx = Free /\ index' = 0 /\ phase' = "dequeue"
    BY <1>2, <1>3, <1>4, <1>6
  <2> QED
    BY <1>1, <1>3, <1>5, <1>6, <2>1 DEF EmissionInv, Dist
<1>7. CASE ~(\E n \in nodes : Dist(n, time) < TX_JIT_DELAY)
  <2>1. index' = -1 /\ phase' = "peek"
    BY <1>2, <1>3, <1>7
  <2> QED
    BY <1>1, <1>3, <1>5, <2>1 DEF EmissionInv, Dist
<1> QED
  BY <1>6, <1>7

\* What is dequeued is the packet that departs first, and it is due.
LEMMA DequeueKeeps ==
  ASSUME NEW far \in Nat, NEW air \in Nat, Timing(far, air), EmissionInv(far, air), Dequeue
  PROVE  EmissionInv(far, air)'
<1>1. /\ QueueOK(nodes, time, far, air) /\ phase = "dequeue" /\ index = 0 /\ lost = {}
      /\ ModemOK(air) /\ tx = Free
      /\ \E n \in nodes : Dist(n, time) < TX_JIT_DELAY
      /\ \A n \in nodes : Dist(n, time) > TX_START_DELAY
  BY DEF EmissionInv, Dequeue
<1>2. PICK p \in nodes : Index(p, nodes) = 0 /\ Remove({p})
  BY <1>1 DEF Dequeue, jit_dequeue
<1>3. /\ nodes' = nodes \ {p} /\ pkt' = p /\ phase' = "status" /\ index' = -1
      /\ UNCHANGED <<time, tx, lost>>
  <2>1. nodes' = nodes \ {p}
    BY <1>2 DEF Remove
  <2>2. \A n \in nodes : n \notin nodes' <=> n = p
    BY <2>1
  <2> QED
    BY <2>1, <2>2 DEF Dequeue
<1>4. \A n \in nodes : /\ Dist(n, time) \in Nat /\ Dist(p, time) <= Dist(n, time)
                       /\ (n # p => Dist(n, time) # Dist(p, time))
  <2>1. Near(nodes, time) /\ IsFiniteSet(nodes)
    BY <1>1, Span DEF QueueOK
  <2>2. \A n \in nodes : Dist(p, time) <= Dist(n, time)
    BY <1>2, <2>1, IndexZero
  <2>3. \A n \in nodes : Dist(n, time) \in Nat
    BY <1>1, Span
  <2> QED
    BY <2>1, <2>2, <2>3 DEF Near
<1>5. PICK e \in Nat : e = Dist(p, time) /\ e < TX_JIT_DELAY /\ e > TX_START_DELAY
  <2>1. PICK n \in nodes : Dist(n, time) < TX_JIT_DELAY
    BY <1>1
  <2> QED
    BY <1>1, <1>4, <2>1, TimingFacts
<1>6. \A n \in nodes' : After(n, time, e, p)
  <2>1. ASSUME NEW n \in nodes' PROVE After(n, time, e, p)
    <3>1. n \in nodes /\ e < Dist(n, time)
      BY <1>3, <1>4, <1>5
    <3> QED
      BY <1>1, <1>5, <3>1 DEF QueueOK, Spaced, After
  <2> QED
    BY <2>1
<1>7. PktOK(air)'
  <2>1. p \in Node /\ p.pre >= TX_START_DELAY + TX_JIT_DELAY /\ p.post <= air
    BY <1>1 DEF QueueOK, Shaped
  <2> QED
    BY <1>3, <1>5, <1>6, <2>1 DEF PktOK, Dist, After
<1>8. QueueOK(nodes', time', far, air)
  <2>1. nodes' \subseteq nodes
    BY <1>3
  <2>2. IsFiniteSet(nodes') /\ Cardinality(nodes') <= JIT_QUEUE_MAX
    <3>1. IsFiniteSet(nodes) /\ Cardinality(nodes) <= JIT_QUEUE_MAX
      BY <1>1 DEF QueueOK
    <3>2. IsFiniteSet(nodes') /\ Cardinality(nodes') <= Cardinality(nodes)
      BY <2>1, <3>1, FS_Subset
    <3>3. Cardinality(nodes') \in Nat /\ Cardinality(nodes) \in Nat
      BY <3>1, <3>2, FS_CardinalityType
    <3> QED
      BY <3>1, <3>2, <3>3, TimingFacts
  <2>3. Chained(nodes', time, far, air)
    <3>1. ASSUME NEW n \in nodes', ~(Dist(n, time) <= far)
          PROVE  \E m \in nodes' : Dist(m, time) < Dist(n, time) /\ Dist(n, time) <= Dist(m, time) + Step(air)
      <4>1. PICK m \in nodes : Dist(m, time) < Dist(n, time) /\ Dist(n, time) <= Dist(m, time) + Step(air)
        BY <1>1, <2>1, <3>1 DEF QueueOK, Chained
      <4>2. m # p
        BY <1>4, <1>5, <2>1, <3>1, <4>1, TimingFacts
      <4> QED
        BY <1>3, <4>1, <4>2
    <3> QED
      BY <3>1 DEF Chained
  <2> QED
    BY <1>1, <1>3, <2>1, <2>2, <2>3 DEF QueueOK, Spaced, Shaped
<1>9. ModemOK(air)'
  BY <1>1, <1>3 DEF ModemOK, Free
<1>10. tx' = Free /\ \A n \in nodes' : Dist(n, time') > TX_START_DELAY
  BY <1>1, <1>3
<1> QED
  BY <1>1, <1>3, <1>7, <1>8, <1>9, <1>10 DEF EmissionInv, Dist, Free

\* lgw_status finds the modem free.
LEMMA StatusKeeps ==
  ASSUME NEW far \in Nat, NEW air \in Nat, EmissionInv(far, air), Status
  PROVE  EmissionInv(far, air)'
<1>1. phase = "status" /\ tx = Free /\ tx.status = "TX_FREE" /\ PktOK(air)
  BY DEF EmissionInv, Status, Free
<1>2. phase' = "send" /\ UNCHANGED <<pkt, lost, nodes, num_beacon, time, index, tx>>
  BY <1>1 DEF Status
<1>3. PktOK(air)' /\ ModemOK(air)'
  BY <1>1, <1>2 DEF PktOK, Dist, After, ModemOK, EmissionInv, Free
<1> QED
  BY <1>1, <1>2, <1>3 DEF EmissionInv, Dist, Free

\* lgw_send overwrites nothing.
LEMMA SendKeeps ==
  ASSUME NEW far \in Nat, NEW air \in Nat, Timing(far, air), EmissionInv(far, air), Send
  PROVE  EmissionInv(far, air)'
<1>1. /\ phase = "send" /\ tx = Free /\ tx.status = "TX_FREE" /\ PktOK(air) /\ ModemOK(air)
      /\ QueueOK(nodes, time, far, air) /\ index = -1
  BY DEF EmissionInv, Send, Free
<1>2. /\ phase' = "peek" /\ pkt' = NoPkt /\ UNCHANGED <<nodes, num_beacon, time, index, lost>>
      /\ tx' = [status |-> "TX_SCHEDULED", pkt |-> pkt] \/ tx' = tx
  BY <1>1 DEF Send
<1>3. ModemOK(air)'
  <2>1. CASE tx' = tx
    BY <1>1, <2>1 DEF ModemOK, Free
  <2>2. CASE tx' = [status |-> "TX_SCHEDULED", pkt |-> pkt]
    <3>1. tx'.pkt = pkt /\ tx'.status = "TX_SCHEDULED" /\ pkt \in Node
      BY <1>1, <2>2 DEF PktOK
    <3>2. Dist(pkt, time) \in Nat
      BY <1>1, <3>1, DistType DEF QueueOK
    <3>3. 1 <= Dist(pkt, time)
      BY <1>1, <3>2, TimingFacts DEF PktOK
    <3>4. Departing' /\ Dist(tx'.pkt, time') > TX_START_DELAY /\ tx'.pkt.post <= air
      BY <1>1, <1>2, <3>1, <3>3 DEF PktOK, Departing, Dist, After
    <3> QED
      BY <1>2, <2>2, <3>1, <3>4 DEF ModemOK, Dist
  <2> QED
    BY <1>2, <2>1, <2>2
<1> QED
  BY <1>1, <1>2, <1>3 DEF EmissionInv, Dist

\* A tick moves everything one closer, as nothing is urgent, and the packet in the modem
\* to the air and past its end.
LEMMA TickKeeps ==
  ASSUME NEW far \in Nat, NEW air \in Nat, Timing(far, air), Timely, EmissionInv(far, air), Tick
  PROVE  EmissionInv(far, air)'
<1>1. /\ QueueOK(nodes, time, far, air) /\ ModemOK(air) /\ lost = {} /\ time \in Counter
      /\ UNCHANGED <<nodes, num_beacon, phase, index, pkt, lost>> /\ time' = (time + 1) % W
  BY DEF EmissionInv, Tick, QueueOK
<1>2. time' \in Counter
  BY <1>1, NextTick
<1>3. ASSUME NEW n \in Node, Dist(n, time) >= 1
      PROVE  Dist(n, time') = Dist(n, time) - 1 /\ n.count \in Counter /\ Dist(n, time) \in Nat
  <2>1. n.count \in Counter /\ Dist(n, time) \in Nat
    BY <1>1, DistType
  <2>2. Sub(n.count, time) >= 1
    BY <1>3 DEF Dist
  <2>3. Sub(n.count, time') = Sub(n.count, time) - 1
    BY <1>1, <2>1, <2>2, NextTick
  <2> QED
    BY <2>1, <2>3 DEF Dist
<1>4. ASSUME NEW n, n \in nodes \/ (n = pkt /\ pkt # NoPkt)
      PROVE  /\ n \in Node /\ Dist(n, time) \in Nat /\ Dist(n, time) > TX_START_DELAY + 1
             /\ Dist(n, time') = Dist(n, time) - 1
  <2>1. n \in Node
    BY <1>1, <1>4 DEF EmissionInv, PktOK, QueueOK
  <2>2. ~(Sub(n.count, time) <= TX_START_DELAY + 1)
    BY <1>4 DEF Tick, Urgent
  <2>3. Dist(n, time) \in Nat
    BY <1>1, <2>1, DistType
  <2>4. Dist(n, time) > TX_START_DELAY + 1
    BY <2>2, <2>3, TimingFacts DEF Dist
  <2> QED
    BY <1>3, <2>1, <2>3, <2>4, TimingFacts
<1>5. \A n \in nodes : /\ n \in Node /\ Dist(n, time) \in Nat /\ Dist(n, time') = Dist(n, time) - 1
                       /\ n.pre \in Nat /\ n.post \in Nat
  <2>1. ASSUME NEW n \in nodes PROVE n.pre \in Nat /\ n.post \in Nat
    BY <1>4 DEF Node
  <2> QED
    BY <1>4, <2>1
<1>6. QueueOK(nodes, time', far, air)
  <2>1. ASSUME NEW p \in nodes, NEW q \in nodes, p # q PROVE Dist(p, time') # Dist(q, time')
    <3>1. Dist(p, time) # Dist(q, time)
      BY <1>1, <2>1, Zenon DEF QueueOK
    <3> QED
      BY <1>5, <3>1
  <2>2. ASSUME NEW p \in nodes, NEW q \in nodes, Dist(p, time') < Dist(q, time')
        PROVE  Dist(q, time') - Dist(p, time') > q.pre + p.post + TX_MARGIN_DELAY
    <3>1. PICK x \in Nat, y \in Nat : x = Dist(p, time) /\ y = Dist(q, time)
      BY <1>5
    <3>2. Dist(p, time') = x - 1 /\ Dist(q, time') = y - 1
      BY <1>5, <3>1
    <3>3. y - x > q.pre + p.post + TX_MARGIN_DELAY
      BY <1>1, <2>2, <3>1, <3>2 DEF QueueOK, Spaced
    <3>4. (y - 1) - (x - 1) = y - x
      BY <3>1
    <3> QED
      BY <3>2, <3>3, <3>4
  <2>3. ASSUME NEW n \in nodes
        PROVE  \/ Dist(n, time') <= far
               \/ \E m \in nodes : Dist(m, time') < Dist(n, time') /\ Dist(n, time') <= Dist(m, time') + Step(air)
    <3>1. CASE Dist(n, time) <= far
      BY <1>5, <3>1
    <3>2. CASE \E m \in nodes : Dist(m, time) < Dist(n, time) /\ Dist(n, time) <= Dist(m, time) + Step(air)
      <4>1. PICK m \in nodes : Dist(m, time) < Dist(n, time) /\ Dist(n, time) <= Dist(m, time) + Step(air)
        BY <3>2
      <4>2. Dist(m, time') < Dist(n, time') /\ Dist(n, time') <= Dist(m, time') + Step(air)
        BY <1>5, <4>1, TimingFacts
      <4> QED
        BY <4>2
    <3> QED
      BY <1>1, <3>1, <3>2 DEF QueueOK, Chained
  <2> QED
    BY <1>1, <1>2, <2>1, <2>2, <2>3 DEF QueueOK, Spaced, Chained
<1>7. \A n \in nodes : Dist(n, time') > TX_START_DELAY
  BY <1>4, TimingFacts
\* What comes after a packet keeps doing so.
<1>8. ASSUME NEW p, p.post \in Nat, NEW e \in Int, NEW n \in nodes, After(n, time, e, p)
      PROVE  After(n, time', e - 1, p)
  <2>1. PICK x \in Nat : x = Dist(n, time) /\ Dist(n, time') = x - 1
    BY <1>5
  <2>2. x - e > n.pre + p.post + TX_MARGIN_DELAY
    BY <1>8, <2>1 DEF After
  <2>3. (x - 1) - (e - 1) = x - e
    OBVIOUS
  <2> QED
    BY <2>1, <2>2, <2>3 DEF After
<1>9. phase \in {"status", "send"} => PktOK(air)'
  <2>1. SUFFICES ASSUME phase \in {"status", "send"} PROVE PktOK(air)'
    OBVIOUS
  <2>2. PktOK(air)
    BY <2>1 DEF EmissionInv
  <2>3. pkt \in Node /\ pkt # NoPkt /\ pkt.post \in Nat
    BY <2>2 DEF PktOK, Node, NoPkt, PktType, Downlinks
  <2>4. PICK x \in Nat : x = Dist(pkt, time) /\ x > TX_START_DELAY + 1 /\ Dist(pkt, time') = x - 1
    BY <1>4, <2>3
  <2>5. TX_START_DELAY < x - 1 /\ x - 1 < TX_JIT_DELAY
    BY <2>2, <2>4, TimingFacts DEF PktOK
  <2>6. \A n \in nodes : After(n, time', x - 1, pkt)
    BY <1>8, <2>2, <2>3, <2>4 DEF PktOK
  <2>7. pkt' = pkt /\ nodes' = nodes
    BY <1>1
  <2> QED
    BY <2>2, <2>4, <2>5, <2>6, <2>7 DEF PktOK, Dist, After
<1>10. ModemOK(air)'
  <2>0. nodes' = nodes
    BY <1>1
  <2>1. CASE tx.status = "TX_FREE"
    <3>1. tx' = tx
      BY <2>1 DEF Tick
    <3>2. tx' = Free
      BY <1>1, <2>1, <3>1 DEF ModemOK
    <3> QED
      BY <3>2 DEF ModemOK, Free
  <2>2. CASE tx.status \in {"TX_SCHEDULED", "TX_EMITTING"}
    <3>1. /\ tx.pkt \in Node /\ tx.pkt.count \in Counter /\ tx.pkt.post \in Nat /\ tx.pkt.post <= air
          /\ tx \in [status : {"TX_FREE", "TX_SCHEDULED", "TX_EMITTING"}, pkt : Node \cup {NoPkt}]
          /\ Departing \/ OnAir
      <4>1. tx.pkt \in Node
        BY <1>1, <2>2 DEF ModemOK
      <4>2. tx.pkt.count \in Counter /\ tx.pkt.post \in Nat
        BY <4>1 DEF Node
      <4> QED
        BY <1>1, <2>2, <4>1, <4>2 DEF ModemOK
    <3>2. ASSUME Departing
          PROVE  \/ /\ Dist(tx.pkt, time) >= 2 /\ 1 <= Dist(tx.pkt, time') /\ Dist(tx.pkt, time') < TX_JIT_DELAY
                    /\ \A n \in nodes : After(n, time', Dist(tx.pkt, time'), tx.pkt)
                 \/ /\ Sub(time', tx.pkt.count) = 0
                    /\ \A n \in nodes : After(n, time', 0, tx.pkt)
      <4>1. Dist(tx.pkt, time) >= 1 /\ Dist(tx.pkt, time) < TX_JIT_DELAY
        BY <1>1, <3>1, <3>2, DistType DEF Departing
      <4>2. PICK x \in Nat : x = Dist(tx.pkt, time) /\ Dist(tx.pkt, time') = x - 1 /\ x >= 1
        BY <1>3, <3>1, <4>1
      <4>3. \A n \in nodes : After(n, time', x - 1, tx.pkt)
        BY <1>8, <3>1, <3>2, <4>2 DEF Departing
      <4>4. CASE x >= 2
        <5>1. 1 <= x - 1 /\ x - 1 < TX_JIT_DELAY
          BY <4>1, <4>2, <4>4, TimingFacts
        <5> QED
          BY <4>2, <4>3, <4>4, <5>1
      <4>5. CASE x = 1
        <5>1. Sub(tx.pkt.count, time) = 1
          BY <4>2, <4>5 DEF Dist
        <5>2. Sub(time', tx.pkt.count) = 0
          BY <1>1, <3>1, <5>1, NextTick
        <5>3. x - 1 = 0
          BY <4>5
        <5> QED
          BY <4>3, <5>2, <5>3
      <4> QED
        BY <4>2, <4>4, <4>5
    <3>3. ASSUME OnAir, Sub(time', tx.pkt.count) # tx.pkt.post, tx' = tx PROVE OnAir'
      <4>1. time \in Counter /\ tx.pkt.count \in Counter
        BY <1>1, <3>1
      <4>2. Sub(time, tx.pkt.count) \in Counter
        BY <4>1, SubFrom
      <4>3. PICK b \in Nat : b = Sub(time, tx.pkt.count) /\ b < tx.pkt.post
        BY <3>3, <4>2 DEF OnAir, Counter
      <4>4. air < W /\ air \in Nat /\ W \in Nat
        BY TimingFacts, HalfFacts
      <4>5. b + 1 < W
        BY <3>1, <4>3, <4>4
      <4>6. Sub(time', tx.pkt.count) = b + 1
        BY <1>1, <4>1, <4>3, <4>5, NextTick
      <4>7. b + 1 < tx.pkt.post
        BY <3>1, <3>3, <4>3, <4>6
      <4>8. \A n \in nodes : After(n, time', (0 - b) - 1, tx.pkt)
        <5>1. 0 - b \in Int
          OBVIOUS
        <5>2. \A n \in nodes : After(n, time, 0 - b, tx.pkt)
          BY <3>3, <4>3 DEF OnAir
        <5> QED
          BY <1>8, <3>1, <5>1, <5>2
      <4>9. (0 - b) - 1 = 0 - (b + 1)
        OBVIOUS
      <4> QED
        BY <2>0, <3>3, <4>6, <4>7, <4>8, <4>9 DEF OnAir, After, Dist
    <3>4. CASE tx.status = "TX_SCHEDULED"
      <4>1. Departing /\ Dist(tx.pkt, time) > TX_START_DELAY
        BY <1>1, <3>4 DEF ModemOK
      <4>2. Dist(tx.pkt, time) \in Nat
        BY <1>1, <3>1, DistType
      <4>0. Dist(tx.pkt, time) >= 2
        BY <4>1, <4>2, TimingFacts
      <4>3. PICK x \in Nat : x = Dist(tx.pkt, time) /\ Dist(tx.pkt, time') = x - 1 /\ x > TX_START_DELAY /\ x >= 2
        BY <1>3, <3>1, <4>0, <4>1, <4>2
      <4>4. /\ 1 <= x - 1 /\ x - 1 < TX_JIT_DELAY /\ Dist(tx.pkt, time') = x - 1
            /\ \A n \in nodes : After(n, time', Dist(tx.pkt, time'), tx.pkt)
        <5>1. Dist(tx.pkt, time) < TX_JIT_DELAY /\ \A n \in nodes : After(n, time, x, tx.pkt)
          BY <4>1, <4>3 DEF Departing
        <5>2. \A n \in nodes : After(n, time', x - 1, tx.pkt)
          BY <1>8, <3>1, <5>1
        <5> QED
          BY <4>3, <5>1, <5>2, TimingFacts
      <4>5. CASE Sub(tx.pkt.count, time') = TX_START_DELAY
        <5>1. tx' = [tx EXCEPT !.status = "TX_EMITTING"]
          BY <3>4, <4>5 DEF Tick
        <5>2. tx'.status = "TX_EMITTING" /\ tx'.pkt = tx.pkt
          BY <3>1, <5>1
        <5>3. Departing'
          BY <2>0, <4>4, <5>2 DEF Departing, Dist, After
        <5> QED
          BY <3>1, <5>1, <5>2, <5>3 DEF ModemOK
      <4>6. CASE Sub(tx.pkt.count, time') # TX_START_DELAY
        <5>1. tx' = tx
          BY <3>4, <4>6 DEF Tick
        <5>2. Departing'
          BY <2>0, <4>4, <5>1 DEF Departing, Dist, After
        <5>3. Dist(tx.pkt, time') > TX_START_DELAY
          BY <4>3, <4>6, TimingFacts DEF Dist
        <5> QED
          BY <3>1, <3>4, <5>1, <5>2, <5>3 DEF ModemOK, Dist
      <4> QED
        BY <4>5, <4>6
    <3>5. CASE tx.status = "TX_EMITTING"
      <4>1. CASE Sub(time', tx.pkt.count) = tx.pkt.post
        <5>1. tx' = Free
          BY <3>5, <4>1 DEF Tick
        <5> QED
          BY <5>1 DEF ModemOK, Free
      <4>2. CASE Sub(time', tx.pkt.count) # tx.pkt.post
        <5>1. tx' = tx
          BY <3>5, <4>2 DEF Tick
        <5>2. Departing' \/ OnAir'
          <6>1. CASE OnAir
            BY <3>3, <4>2, <5>1, <6>1
          <6>2. CASE Departing
            <7>1. CASE /\ Dist(tx.pkt, time) >= 2 /\ 1 <= Dist(tx.pkt, time') /\ Dist(tx.pkt, time') < TX_JIT_DELAY
                       /\ \A n \in nodes : After(n, time', Dist(tx.pkt, time'), tx.pkt)
              BY <2>0, <5>1, <7>1 DEF Departing, Dist, After
            <7>2. CASE /\ Sub(time', tx.pkt.count) = 0
                       /\ \A n \in nodes : After(n, time', 0, tx.pkt)
              <8>1. tx.pkt.post # 0
                BY <4>2, <7>2
              <8>2. 0 < tx.pkt.post
                BY <3>1, <8>1
              <8>3. 0 - 0 = 0
                OBVIOUS
              <8> QED
                BY <2>0, <5>1, <7>2, <8>2, <8>3 DEF OnAir, Dist, After
            <7> QED
              BY <3>2, <6>2, <7>1, <7>2
          <6> QED
            BY <3>1, <6>1, <6>2
        <5> QED
          BY <3>1, <3>5, <5>1, <5>2 DEF ModemOK
      <4> QED
        BY <4>1, <4>2
    <3> QED
      BY <2>2, <3>4, <3>5
  <2> QED
    BY <1>1, <2>1, <2>2 DEF ModemOK
<1>11. tx' # Free => tx # Free
  <2>1. tx = Free => tx.status = "TX_FREE"
    BY DEF Free
  <2> QED
    BY <2>1 DEF Tick
<1>12. phase = "dequeue" => \E n \in nodes : Dist(n, time') < TX_JIT_DELAY
  <2>1. SUFFICES ASSUME phase = "dequeue" PROVE \E n \in nodes : Dist(n, time') < TX_JIT_DELAY
    OBVIOUS
  <2>2. PICK n \in nodes : Dist(n, time) < TX_JIT_DELAY
    BY <2>1 DEF EmissionInv
  <2> QED
    BY <1>5, <2>2, TimingFacts
<1> QED
  BY <1>1, <1>6, <1>7, <1>9, <1>10, <1>11, <1>12 DEF EmissionInv, Dist

\* What jit_peek hands over is the packet that departs first of those that are due.
LEMMA PeekHandsOver ==
  ASSUME NEW far \in Nat, NEW air \in Nat, Timing(far, air), QueueOK(nodes, time, far, air), Peek
  PROVE  LET due == {n \in nodes : Sub(n.count, time) < TX_JIT_DELAY}
         IN  due # {} =>
               /\ phase' = "dequeue"
               /\ \E n \in due :
                    /\ \A m \in due : Sub(n.count, time) <= Sub(m.count, time)
                    /\ index' = Index(n, nodes')
<1> DEFINE due == {n \in nodes : Sub(n.count, time) < TX_JIT_DELAY}
<1>1. SUFFICES ASSUME due # {}
               PROVE  /\ phase' = "dequeue"
                      /\ \E n \in due : /\ \A m \in due : Sub(n.count, time) <= Sub(m.count, time)
                                        /\ index' = Index(n, nodes')
  OBVIOUS
<1>2. PICK k \in nodes : Dist(k, time) < TX_JIT_DELAY
  BY <1>1 DEF Dist
<1>3. PeekDropped(time) = {} /\ pkt_idx(time) = 0
  BY <1>2, PeekIs
<1>4. nodes' = nodes /\ index' = 0 /\ phase' = "dequeue"
  BY <1>3 DEF Peek, jit_peek, Remove
<1>5. Near(nodes, time) /\ IsFiniteSet(nodes)
  BY Span DEF QueueOK
<1>6. /\ First(nodes) \in nodes /\ \A m \in nodes : Dist(First(nodes), time) <= Dist(m, time)
      /\ \A m \in nodes : Dist(m, time) \in Nat
  BY <1>2, <1>5, FirstDeparts, Span
<1>7. Index(First(nodes), nodes) = 0
  BY <1>5, <1>6, IndexZero
<1>8. Dist(First(nodes), time) < TX_JIT_DELAY
  BY <1>2, <1>6, TimingFacts
<1>9. First(nodes) \in due
  BY <1>6, <1>8 DEF Dist
<1>10. \A m \in due : Sub(First(nodes).count, time) <= Sub(m.count, time)
  BY <1>6 DEF Dist
<1> QED
  BY <1>4, <1>7, <1>9, <1>10

\* Every step of the system keeps the invariant and the promises about the queue.
LEMMA EmissionStep ==
  ASSUME NEW far \in Nat, NEW air \in Nat, Timing(far, air), Timely, Paced,
         EmissionInv(far, air), [EmissionNext]_emissionVars
  PROVE  /\ EmissionInv(far, air)'
         /\ \A n \in nodes' \ nodes : Sub(n.count, time) < W \div 2
<1>1. CASE Request
  BY <1>1, RequestKeeps
<1>2. CASE Peek
  <2>1. nodes' \subseteq nodes
    BY <1>2 DEF Peek, jit_peek, Remove
  <2> QED
    BY <1>2, <2>1, PeekKeeps
<1>3. CASE Dequeue
  <2>1. nodes' \subseteq nodes
    BY <1>3 DEF Dequeue, jit_dequeue, Remove
  <2> QED
    BY <1>3, <2>1, DequeueKeeps
<1>4. CASE Status
  <2>1. nodes' = nodes
    BY <1>4 DEF Status
  <2> QED
    BY <1>4, <2>1, StatusKeeps
<1>5. CASE Send
  <2>1. nodes' = nodes
    BY <1>5 DEF Send
  <2> QED
    BY <1>5, <2>1, SendKeeps
<1>6. CASE Tick
  <2>1. nodes' = nodes
    BY <1>6 DEF Tick
  <2> QED
    BY <1>6, <2>1, TickKeeps
<1>7. CASE UNCHANGED emissionVars
  BY <1>7 DEF emissionVars, EmissionInv, PktOK, ModemOK, Departing, OnAir, Dist, After
<1> QED
  BY <1>1, <1>2, <1>3, <1>4, <1>5, <1>6, <1>7 DEF EmissionNext

\* What the invariant says of the system.
LEMMA InvGivesRight ==
  ASSUME NEW far \in Nat, NEW air \in Nat, Timing(far, air), EmissionInv(far, air), JitTypeOK
  PROVE  EmissionRight
<1>1. QueueOK(nodes, time, far, air) /\ lost = {}
  BY DEF EmissionInv
<1>2. EmissionTypeOK
  <2>1. index \in -1 .. JIT_QUEUE_MAX - 1
    BY TimingFacts DEF EmissionInv
  <2>2. pkt \in Node \cup {NoPkt}
    BY DEF EmissionInv, PktOK
  <2>3. tx.status \in {"TX_FREE", "TX_SCHEDULED", "TX_EMITTING"}
    BY DEF EmissionInv, ModemOK
  <2> QED
    BY <1>1, <2>1, <2>2, <2>3 DEF EmissionTypeOK, EmissionInv, QueueOK
<1>3. ClassCPlaced
  BY <1>1, ClassCFits DEF ClassCPlaced
<1>4. DequeuesDue
  BY DEF DequeuesDue, EmissionInv, PktOK, Dist
<1> QED
  BY <1>1, <1>2, <1>3, <1>4 DEF EmissionRight, QueuedIsSent

\* Once queued, a packet is sent over the air: with the code's timing thread_jit never finds
\* the modem emitting, overwrites nothing in it and drops nothing from the queue, the index
\* it kept from jit_peek still names the packet that is due, and a class C packet is refused
\* only by a full queue.
THEOREM EmissionCorrect ==
  ASSUME NEW far \in Nat, NEW air \in Nat, Timing(far, air), Timely, Paced
  PROVE  EmissionSpec => []EmissionRight
<1>1. EmissionInit => EmissionInv(far, air)
  BY EmissionInitInv
<1>2. EmissionInv(far, air) /\ [EmissionNext]_emissionVars => EmissionInv(far, air)'
  BY EmissionStep
<1>3. JitInv /\ EmissionInv(far, air) => EmissionRight
  BY InvGivesRight DEF JitInv
<1> QED
  BY <1>1, <1>2, <1>3, EmissionImplementsJit, JitInvariant, PTL DEF EmissionSpec

\* jit_enqueue takes no packet whose time has passed, whatever the counter wraps between
\* thread_down's reading and its call, and jit_peek finds the first packet that is due.
THEOREM QueueStepsCorrect ==
  ASSUME NEW far \in Nat, NEW air \in Nat, Timing(far, air), Timely, Paced
  PROVE  EmissionSpec => QueueStepsRight
<1>1. EmissionInit => EmissionInv(far, air)
  BY EmissionInitInv
<1>2. EmissionInv(far, air) /\ [EmissionNext]_emissionVars => EmissionInv(far, air)'
  BY EmissionStep
<1>3. EmissionInv(far, air) /\ [EmissionNext]_emissionVars =>
        [\A n \in nodes' \ nodes : Sub(n.count, time) < W \div 2]_nodes
  BY EmissionStep
<1>4. EmissionInv(far, air) /\ [EmissionNext]_emissionVars =>
        [Peek => LET due == {n \in nodes : Sub(n.count, time) < TX_JIT_DELAY}
                 IN  due # {} =>
                       /\ phase' = "dequeue"
                       /\ \E n \in due :
                            /\ \A m \in due : Sub(n.count, time) <= Sub(m.count, time)
                            /\ index' = Index(n, nodes')]_emissionVars
  BY PeekHandsOver DEF EmissionInv
<1>5. EmissionSpec => AcceptedIsAhead
  BY <1>1, <1>2, <1>3, PTL DEF EmissionSpec, AcceptedIsAhead
<1>6. EmissionSpec => PeekFindsDue
  BY <1>1, <1>2, <1>4, PTL DEF EmissionSpec, PeekFindsDue
<1> QED
  BY <1>5, <1>6 DEF QueueStepsRight
=============================================================================
