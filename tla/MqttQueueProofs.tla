--------------------------- MODULE MqttQueueProofs ---------------------------
(***************************************************************************)
(* The ring of queued MQTT messages, for every size: its slots are owned   *)
(* as its indices say, and it implements the queue that drops its oldest   *)
(* element.  The client built around it uses it only through its           *)
(* operations, marks a client that is gone, and accounts for every message.*)
(***************************************************************************)
EXTENDS MqttClient, TLAPS

\* An index of the array moves to the next one and from the last one to 0.
LEMMA AdvanceWraps ==
  ASSUME NEW i \in Slots
  PROVE  /\ Advance(i) = IF i + 1 < MQTT_QUEUE_SIZE THEN i + 1 ELSE 0
         /\ Advance(i) \in Slots
<1> DEFINE N == MQTT_QUEUE_SIZE
<1>1. N \in Nat \ {0}
  BY RingAssumption
<1>2. CASE i + 1 < N
  <2>1. (i + 1) % N = i + 1
    BY <1>1, <1>2 DEF Slots
  <2> QED BY <2>1, <1>1, <1>2 DEF Slots, Advance
<1>3. CASE i + 1 = N
  <2>1. N % N = 0
    BY <1>1
  <2> QED BY <2>1, <1>1, <1>3 DEF Slots, Advance
<1> QED BY <1>1, <1>2, <1>3 DEF Slots

\* No slot is a whole turn behind the tail.
LEMMA DistanceBound ==
  ASSUME NEW i \in Slots, NEW tail \in Slots
  PROVE  (IF i >= tail THEN i - tail ELSE i + MQTT_QUEUE_SIZE - tail) < MQTT_QUEUE_SIZE
BY RingAssumption DEF Slots

\* The invariant of the ring: the type invariant needs the ownership of the
\* slots (the count is bounded because a full ring makes room first).
RingInv == RingTypeOK /\ RingOwnership

\* The empty ring meets the invariant.
LEMMA RingInitInv == RingInit => RingInv
BY RingAssumption
   DEF RingInit, RingInv, RingTypeOK, RingOwnership, Distance, Slots

\* mqtt_queue_message keeps it, whether or not the ring was full.
LEMMA QueueMessageInv ==
  ASSUME RingInv, NEW m \in Message, mqtt_queue_message(m)
  PROVE  RingInv'
<1> USE RingAssumption
<1>1. /\ mqtt_queue_head \in Slots /\ mqtt_queue_tail \in Slots
      /\ mqtt_queue_count \in 0 .. MQTT_QUEUE_SIZE
      /\ m # NULL
  BY DEF RingInv, RingTypeOK
<1>2. RingTypeOK'
  <2>1. slotMadeFree \in [Slots -> Message \cup {NULL}]
    BY DEF RingInv, RingTypeOK, slotMadeFree
  <2>2. slot' \in [Slots -> Message \cup {NULL}]
    BY <2>1 DEF mqtt_queue_message
  <2>3. mqtt_queue_head' \in Slots /\ mqtt_queue_tail' \in Slots
    BY <1>1, AdvanceWraps DEF mqtt_queue_message
  <2>4. mqtt_queue_count' \in 0 .. MQTT_QUEUE_SIZE
    BY <1>1 DEF mqtt_queue_message, countMadeFree, Full
  <2> QED BY <2>2, <2>3, <2>4 DEF RingTypeOK
<1>3. CASE Full
  <2>1. /\ mqtt_queue_head = mqtt_queue_tail /\ mqtt_queue_count = MQTT_QUEUE_SIZE
        /\ slot' = [slot EXCEPT ![mqtt_queue_tail] = m]
        /\ mqtt_queue_count' = MQTT_QUEUE_SIZE
        /\ mqtt_queue_head' = mqtt_queue_tail'
    BY <1>1, <1>3
    DEF RingInv, RingTypeOK, RingOwnership, mqtt_queue_message, slotMadeFree,
        countMadeFree, Full, Slots
  <2>2. \A i \in Slots : slot[i] # NULL
    BY <1>1, <2>1 DEF RingInv, RingOwnership, Distance, Slots
  <2>3. \A i \in Slots : slot'[i] # NULL
    BY <1>1, <2>1, <2>2 DEF RingInv, RingTypeOK
  <2>4. \A i \in Slots : Distance(i)' < mqtt_queue_count'
    <3>1. mqtt_queue_tail' \in 0 .. MQTT_QUEUE_SIZE - 1
      BY <1>2 DEF RingTypeOK, Slots
    <3>2. ASSUME NEW i \in Slots PROVE Distance(i)' < MQTT_QUEUE_SIZE
      BY <3>1, DistanceBound DEF Distance, Slots
    <3> QED BY <2>1, <3>2
  <2> QED BY <1>2, <2>1, <2>3, <2>4 DEF RingInv, RingOwnership
<1>4. CASE ~Full
  <2>1. /\ mqtt_queue_count < MQTT_QUEUE_SIZE
        /\ Distance(mqtt_queue_head) = mqtt_queue_count
        /\ slot' = [slot EXCEPT ![mqtt_queue_head] = m]
        /\ mqtt_queue_tail' = mqtt_queue_tail
        /\ mqtt_queue_count' = mqtt_queue_count + 1
        /\ mqtt_queue_head' = Advance(mqtt_queue_head)
    BY <1>1, <1>4
    DEF RingInv, RingTypeOK, RingOwnership, mqtt_queue_message, slotMadeFree,
        countMadeFree, Full, Slots
  <2>2. \A i \in Slots : Distance(i)' = Distance(i)
    BY <2>1 DEF Distance
  <2>3. \A i \in Slots : Distance(i) = mqtt_queue_count <=> i = mqtt_queue_head
    BY <1>1, <2>1 DEF Distance, Slots
  <2>4. \A i \in Slots : slot'[i] # NULL <=> Distance(i)' < mqtt_queue_count'
    <3> SUFFICES ASSUME NEW i \in Slots
                 PROVE  slot'[i] # NULL <=> Distance(i)' < mqtt_queue_count'
      OBVIOUS
    <3>1. slot[i] # NULL <=> Distance(i) < mqtt_queue_count
      BY DEF RingInv, RingOwnership
    <3>2. Distance(i) \in Nat
      BY <1>1 DEF Distance, Slots
    <3>3. slot'[i] = IF i = mqtt_queue_head THEN m ELSE slot[i]
      BY <2>1 DEF RingInv, RingTypeOK
    <3> QED BY <1>1, <2>1, <2>2, <2>3, <3>1, <3>2, <3>3
  <2>5. \/ mqtt_queue_count' = MQTT_QUEUE_SIZE /\ mqtt_queue_head' = mqtt_queue_tail'
        \/ mqtt_queue_count' < MQTT_QUEUE_SIZE
           /\ Distance(mqtt_queue_head)' = mqtt_queue_count'
    BY <1>1, <2>1, AdvanceWraps DEF Distance, Slots
  <2> QED BY <1>2, <2>4, <2>5 DEF RingInv, RingOwnership
<1> QED BY <1>3, <1>4

\* Taking the oldest message out keeps it.
LEMMA DequeueInv ==
  ASSUME RingInv, Dequeue
  PROVE  RingInv'
<1> USE RingAssumption
<1>1. /\ mqtt_queue_head \in Slots /\ mqtt_queue_tail \in Slots
      /\ mqtt_queue_count \in 1 .. MQTT_QUEUE_SIZE
      /\ slot' = [slot EXCEPT ![mqtt_queue_tail] = NULL]
      /\ mqtt_queue_tail' = Advance(mqtt_queue_tail)
      /\ mqtt_queue_count' = mqtt_queue_count - 1
      /\ mqtt_queue_head' = mqtt_queue_head
  BY DEF RingInv, RingTypeOK, Dequeue
<1>2. RingTypeOK'
  BY <1>1, AdvanceWraps DEF RingInv, RingTypeOK, Slots
<1>3. \A i \in Slots : slot'[i] # NULL <=> Distance(i)' < mqtt_queue_count'
  <2> SUFFICES ASSUME NEW i \in Slots
               PROVE  slot'[i] # NULL <=> Distance(i)' < mqtt_queue_count'
    OBVIOUS
  <2>1. slot[i] # NULL <=> Distance(i) < mqtt_queue_count
    BY DEF RingInv, RingOwnership
  <2>2. slot'[i] = IF i = mqtt_queue_tail THEN NULL ELSE slot[i]
    BY <1>1 DEF RingInv, RingTypeOK
  <2>3. Distance(i)' = IF i = mqtt_queue_tail THEN MQTT_QUEUE_SIZE - 1 ELSE Distance(i) - 1
    BY <1>1, AdvanceWraps DEF Distance, Slots
  <2>4. Distance(i) \in Nat
    BY <1>1 DEF Distance, Slots
  <2> QED BY <1>1, <2>1, <2>2, <2>3, <2>4
<1>4. mqtt_queue_count' < MQTT_QUEUE_SIZE /\ Distance(mqtt_queue_head)' = mqtt_queue_count'
  BY <1>1, AdvanceWraps DEF RingInv, RingOwnership, Distance, Slots
<1> QED BY <1>2, <1>3, <1>4 DEF RingInv, RingOwnership

\* When malloc fails, a full ring has lost its oldest message and any other is
\* as it was.
LEMMA QueueFailsCases ==
  ASSUME RingInv, mqtt_queue_message_fails
  PROVE  IF Full THEN Dequeue ELSE UNCHANGED ringVars
<1> USE RingAssumption
<1>1. CASE Full
  <2>1. mqtt_queue_head = mqtt_queue_tail /\ mqtt_queue_count = MQTT_QUEUE_SIZE
    BY <1>1 DEF RingInv, RingTypeOK, RingOwnership, Full
  <2>2. slot' = [slot EXCEPT ![mqtt_queue_tail] = NULL]
    BY <1>1, <2>1 DEF RingInv, RingTypeOK, mqtt_queue_message_fails, slotMadeFree
  <2>3. mqtt_queue_count > 0
    BY <2>1
  <2> QED BY <1>1, <2>2, <2>3 DEF mqtt_queue_message_fails, countMadeFree, Dequeue
<1>2. CASE ~Full
  <2>1. mqtt_queue_head \in Slots /\ slot[mqtt_queue_head] = NULL
    BY <1>2 DEF RingInv, RingTypeOK, RingOwnership, Full, Distance, Slots
  <2>2. slot' = slot
    BY <1>2, <2>1 DEF RingInv, RingTypeOK, mqtt_queue_message_fails, slotMadeFree
  <2> QED BY <1>2, <2>2 DEF mqtt_queue_message_fails, countMadeFree, ringVars
<1> QED BY <1>1, <1>2

\* So every step of the ring keeps it.
LEMMA RingNextInv == RingInv /\ [RingNext]_ringVars => RingInv'
<1> SUFFICES ASSUME RingInv, [RingNext]_ringVars PROVE RingInv'
  OBVIOUS
<1>1. ASSUME UNCHANGED ringVars PROVE RingInv'
  BY <1>1 DEF ringVars, RingInv, RingTypeOK, RingOwnership, Distance
<1>2. CASE mqtt_queue_message_fails
  BY <1>1, <1>2, QueueFailsCases, DequeueInv
<1> QED BY <1>1, <1>2, QueueMessageInv, DequeueInv DEF RingNext

\* The ring never owns a slot it should not, never loses one and never holds
\* more than MQTT_QUEUE_SIZE messages, for every size.
THEOREM RingOwnershipCorrect == RingSpec => [](RingTypeOK /\ RingOwnership)
<1>1. RingSpec => []RingInv
  BY RingInitInv, RingNextInv, PTL DEF RingSpec
<1> QED BY <1>1, PTL DEF RingInv

-----------------------------------------------------------------------------
(* The ring as a queue.                                                    *)

\* The slot of the k-th oldest message.
At(k) == IF mqtt_queue_tail + k - 1 < MQTT_QUEUE_SIZE
         THEN mqtt_queue_tail + k - 1
         ELSE mqtt_queue_tail + k - 1 - MQTT_QUEUE_SIZE

ContentsOK ==
  /\ Contents \in Seq(Message)
  /\ Len(Contents) = mqtt_queue_count
  /\ \A k \in 1 .. mqtt_queue_count :
       At(k) \in Slots /\ Contents[k] = slot[At(k)]

\* The ring stands for a sequence of count messages.
LEMMA ContentsShape == RingInv => ContentsOK
<1> SUFFICES ASSUME RingInv PROVE ContentsOK
  OBVIOUS
<1> USE RingAssumption
<1>1. mqtt_queue_tail \in Slots /\ mqtt_queue_count \in 0 .. MQTT_QUEUE_SIZE
  BY DEF RingInv, RingTypeOK
<1>2. \A k \in 1 .. mqtt_queue_count :
        At(k) \in Slots /\ Distance(At(k)) = k - 1
  BY <1>1 DEF At, Slots, Distance
<1>3. \A k \in 1 .. mqtt_queue_count : slot[At(k)] \in Message
  BY <1>1, <1>2 DEF RingInv, RingTypeOK, RingOwnership
<1>4. Contents = [k \in 1 .. mqtt_queue_count |-> slot[At(k)]]
  BY DEF Contents, At
<1> QED BY <1>1, <1>2, <1>3, <1>4 DEF ContentsOK

\* Dequeue takes the head of that sequence.
LEMMA DequeueTakes ==
  ASSUME RingInv, Dequeue
  PROVE  Contents # <<>> /\ Contents' = Tail(Contents)
<1> USE RingAssumption
<1>1. RingInv'
  BY DequeueInv
<1>2. /\ mqtt_queue_tail \in Slots /\ mqtt_queue_count \in 1 .. MQTT_QUEUE_SIZE
      /\ slot' = [slot EXCEPT ![mqtt_queue_tail] = NULL]
      /\ mqtt_queue_tail' = Advance(mqtt_queue_tail)
      /\ mqtt_queue_count' = mqtt_queue_count - 1
  BY DEF RingInv, RingTypeOK, Dequeue
<1>3. ContentsOK
  BY ContentsShape
<1>4. ContentsOK'
  BY <1>1, ContentsShape, PTL
<1>5. \A k \in 1 .. mqtt_queue_count - 1 :
        At(k)' = At(k + 1) /\ At(k + 1) # mqtt_queue_tail
  BY <1>2, AdvanceWraps DEF At, Slots
<1>6. \A k \in 1 .. mqtt_queue_count - 1 : Contents'[k] = Contents[k + 1]
  BY <1>2, <1>3, <1>4, <1>5, SMTT(30) DEF RingInv, RingTypeOK, ContentsOK
<1> QED BY <1>2, <1>3, <1>4, <1>6 DEF ContentsOK

\* mqtt_queue_message appends to it, after dropping its head if it was full.
LEMMA QueueMessagePuts ==
  ASSUME RingInv, NEW m \in Message, mqtt_queue_message(m)
  PROVE  Contents' = Append(Fifo!Room(Contents), m)
<1> USE RingAssumption
<1>1. RingInv' /\ ContentsOK /\ ContentsOK'
  BY QueueMessageInv, ContentsShape, PTL
<1>2. /\ mqtt_queue_tail \in Slots /\ mqtt_queue_head \in Slots
      /\ mqtt_queue_count \in 0 .. MQTT_QUEUE_SIZE
  BY DEF RingInv, RingTypeOK
<1>3. CASE Full
  <2>1. /\ mqtt_queue_head = mqtt_queue_tail /\ mqtt_queue_count = MQTT_QUEUE_SIZE
        /\ slot' = [slot EXCEPT ![mqtt_queue_tail] = m]
        /\ mqtt_queue_count' = MQTT_QUEUE_SIZE
        /\ mqtt_queue_tail' = Advance(mqtt_queue_tail)
    BY <1>2, <1>3
    DEF RingInv, RingTypeOK, RingOwnership, mqtt_queue_message, slotMadeFree,
        countMadeFree, Full, Slots
  <2>2. \A k \in 1 .. MQTT_QUEUE_SIZE - 1 :
          At(k)' = At(k + 1) /\ At(k + 1) # mqtt_queue_tail
    BY <1>2, <2>1, AdvanceWraps DEF At, Slots
  <2>3. At(MQTT_QUEUE_SIZE)' = mqtt_queue_tail
    BY <1>2, <2>1, AdvanceWraps DEF At, Slots
  <2>4. \A k \in 1 .. MQTT_QUEUE_SIZE - 1 : Contents'[k] = Contents[k + 1]
    BY <1>1, <1>2, <2>1, <2>2 DEF RingInv, RingTypeOK, ContentsOK
  <2>5. Contents'[MQTT_QUEUE_SIZE] = m
    BY <1>1, <1>2, <2>1, <2>3 DEF RingInv, RingTypeOK, ContentsOK
  <2>6. Fifo!Room(Contents) = Tail(Contents)
    BY <1>1, <2>1 DEF ContentsOK, Fifo!Room
  <2> QED BY <1>1, <2>1, <2>4, <2>5, <2>6 DEF ContentsOK
<1>4. CASE ~Full
  <2>1. /\ mqtt_queue_count < MQTT_QUEUE_SIZE
        /\ Distance(mqtt_queue_head) = mqtt_queue_count
        /\ slot' = [slot EXCEPT ![mqtt_queue_head] = m]
        /\ mqtt_queue_tail' = mqtt_queue_tail
        /\ mqtt_queue_count' = mqtt_queue_count + 1
    BY <1>2, <1>4
    DEF RingInv, RingTypeOK, RingOwnership, mqtt_queue_message, slotMadeFree,
        countMadeFree, Full, Slots
  <2>2. \A k \in 1 .. mqtt_queue_count :
          At(k)' = At(k) /\ At(k) # mqtt_queue_head
    BY <1>2, <2>1 DEF At, Slots, Distance
  <2>3. At(mqtt_queue_count)' = mqtt_queue_head
    BY <1>2, <2>1 DEF At, Slots, Distance
  <2>4. \A k \in 1 .. mqtt_queue_count : Contents'[k] = Contents[k]
    BY <1>1, <1>2, <2>1, <2>2 DEF RingInv, RingTypeOK, ContentsOK
  <2>5. Contents'[mqtt_queue_count'] = m
    BY <1>1, <1>2, <2>1, <2>3 DEF RingInv, RingTypeOK, ContentsOK
  <2>6. Fifo!Room(Contents) = Contents
    BY <1>1, <1>2, <2>1 DEF ContentsOK, Fifo!Room
  <2> QED BY <1>1, <1>2, <2>1, <2>4, <2>5, <2>6 DEF ContentsOK
<1> QED BY <1>3, <1>4

\* The ring implements the queue that drops its oldest element: the property
\* RingIsFifo, for every size and every set of messages.
THEOREM RingImplementsFifo == RingSpec => RingIsFifo
<1>1. RingInit => Fifo!QueueInit
  BY RingAssumption DEF RingInit, Fifo!QueueInit, Contents, Slots
<1>2. RingInv /\ [RingNext]_ringVars => [Fifo!QueueNext]_Contents
  <2> SUFFICES ASSUME RingInv, [RingNext]_ringVars
               PROVE  [Fifo!QueueNext]_Contents
    OBVIOUS
  <2>1. ASSUME UNCHANGED ringVars PROVE Contents' = Contents
    BY <2>1 DEF ringVars, Contents
  <2>2. ASSUME NEW m \in Message, mqtt_queue_message(m) PROVE Fifo!Put
    BY <2>2, QueueMessagePuts DEF Fifo!Put
  <2>3. CASE Dequeue
    BY <2>3, DequeueTakes DEF Fifo!QueueNext, Fifo!Take
  <2>4. CASE mqtt_queue_message_fails
    BY <2>1, <2>3, <2>4, QueueFailsCases, DequeueTakes DEF Fifo!QueueNext, Fifo!Take
  <2> QED BY <2>1, <2>2, <2>3, <2>4 DEF RingNext, Fifo!QueueNext
<1>3. RingSpec => []RingInv
  BY RingInitInv, RingNextInv, PTL DEF RingSpec
<1> QED BY <1>1, <1>2, <1>3, PTL DEF RingSpec, RingIsFifo, Fifo!QueueSpec

-----------------------------------------------------------------------------
(* The client around the ring.                                             *)

\* Where thread_duck has a message in hand.
Holding == {"publish", "wait", "send_first", "send"}

\* What thread_duck knows at each place: it has a message in hand exactly while
\* it publishes one; one it waits for was accepted by the client; the client
\* exists while the first drain after a connection runs.
HandOK ==
  /\ pc \in Holding => msg \in Message
  /\ pc \notin Holding => msg = NULL
  /\ pc = "wait" => msg \in inflight \cup acked
  /\ pc \in {"drain_first", "send_first"} => client # "NULL"

\* The mark of a client that is gone holds at pc = "reconnect" too: the failed
\* attempt that follows only keeps it.
MqttInv ==
  /\ MqttTypeOK /\ RingOwnership /\ HandOK
  /\ mqtt_enabled /\ client = "NULL" => mqtt_needs_reconnect

\* The first connection establishes it.
LEMMA MqttInitInv == MqttInit => MqttInv
<1> SUFFICES ASSUME MqttInit PROVE MqttInv
  OBVIOUS
<1>1. RingTypeOK /\ RingOwnership
  BY RingInitInv DEF MqttInit, RingInv
<1>2. initial_delay \in initial_delay .. mqtt_max_reconnect_delay
  BY ClientAssumption
<1> QED BY <1>1, <1>2 DEF MqttInit, MqttInv, MqttTypeOK, HandOK, Holding

\* What Enqueue does to the ring and to the losses: a step of the ring; nothing
\* in the ring goes but the message it drops, and that and the new message
\* are in the ring or among the losses.
LEMMA EnqueueKeeps ==
  ASSUME RingInv, NEW m \in Message, Enqueue(m)
  PROVE  /\ RingNext /\ RingInv'
         /\ lost \subseteq lost'
         /\ lost' \ lost \subseteq {"full", "memory"} \X Message
         /\ \A x \in Queued \cup {m} : x \in Queued' \/ \E l \in lost' : l[2] = x
<1> USE RingAssumption
<1> DEFINE dropped == IF Full THEN {slot[mqtt_queue_tail]} ELSE {}
<1>1. /\ slot \in [Slots -> Message \cup {NULL}]
      /\ mqtt_queue_head \in Slots /\ mqtt_queue_tail \in Slots
      /\ m # NULL
  BY DEF RingInv, RingTypeOK
<1>2. CASE Full
  <2>1. mqtt_queue_head = mqtt_queue_tail
    BY <1>2 DEF RingInv, RingTypeOK, RingOwnership, Full
  <2>2. slot[mqtt_queue_tail] \in Message
    BY <1>1, <1>2 DEF RingInv, RingTypeOK, RingOwnership, Full, Distance, Slots
  <2> DEFINE oldest == slot[mqtt_queue_tail]
  <2>3. dropped = {oldest}
    BY <1>2
  <2> HIDE DEF dropped
  <2>4. CASE mqtt_queue_message(m) /\ lost' = lost \cup Losses("full", dropped)
    <3>1. slot' = [slot EXCEPT ![mqtt_queue_tail] = m]
      BY <1>1, <1>2, <2>1, <2>4 DEF mqtt_queue_message, slotMadeFree
    <3>2. \A x \in Queued \cup {m} : x \in Queued' \/ x = oldest
      BY <1>1, <3>1 DEF Queued
    <3>3. lost' = lost \cup {<<"full", oldest>>}
      BY <2>3, <2>4 DEF Losses
    <3>4. RingNext /\ RingInv'
      BY <2>4, QueueMessageInv DEF RingNext
    <3>5. \E l \in lost' : l[2] = oldest
      <4>1. <<"full", oldest>>[2] = oldest
        OBVIOUS
      <4> QED BY <3>3, <4>1
    <3> QED BY <2>2, <3>2, <3>3, <3>4, <3>5
  <2>5. CASE /\ mqtt_queue_message_fails
             /\ lost' = lost \cup Losses("full", dropped) \cup Losses("memory", {m})
    <3>1. slot' = [slot EXCEPT ![mqtt_queue_tail] = NULL]
      BY <1>1, <1>2, <2>1, <2>5 DEF mqtt_queue_message_fails, slotMadeFree
    <3>2. \A x \in Queued \cup {m} : x \in Queued' \/ x = oldest \/ x = m
      BY <1>1, <3>1 DEF Queued
    <3>3. lost' = lost \cup {<<"full", oldest>>, <<"memory", m>>}
      BY <2>3, <2>5 DEF Losses
    <3>4. RingNext /\ RingInv'
      BY <2>5, RingNextInv DEF RingNext
    <3>5. (\E l \in lost' : l[2] = oldest) /\ (\E l \in lost' : l[2] = m)
      <4>1. <<"full", oldest>>[2] = oldest /\ <<"memory", m>>[2] = m
        OBVIOUS
      <4> QED BY <3>3, <4>1
    <3> QED BY <2>2, <3>2, <3>3, <3>4, <3>5
  <2> QED BY <2>4, <2>5 DEF Enqueue, dropped
<1>3. CASE ~Full
  <2>1. slot[mqtt_queue_head] = NULL
    BY <1>1, <1>3 DEF RingInv, RingTypeOK, RingOwnership, Full, Distance, Slots
  <2>2. dropped = {}
    BY <1>3
  <2> HIDE DEF dropped
  <2>3. CASE mqtt_queue_message(m) /\ lost' = lost \cup Losses("full", dropped)
    <3>1. slot' = [slot EXCEPT ![mqtt_queue_head] = m]
      BY <1>3, <2>3 DEF mqtt_queue_message, slotMadeFree
    <3>2. \A x \in Queued \cup {m} : x \in Queued'
      BY <1>1, <2>1, <3>1 DEF Queued
    <3>3. lost' = lost
      BY <2>2, <2>3 DEF Losses
    <3>4. RingNext /\ RingInv'
      BY <2>3, QueueMessageInv DEF RingNext
    <3> QED BY <3>2, <3>3, <3>4
  <2>4. CASE /\ mqtt_queue_message_fails
             /\ lost' = lost \cup Losses("full", dropped) \cup Losses("memory", {m})
    <3>1. slot' = slot
      BY <1>1, <1>3, <2>1, <2>4 DEF mqtt_queue_message_fails, slotMadeFree
    <3>2. \A x \in Queued : x \in Queued'
      BY <3>1 DEF Queued
    <3>3. lost' = lost \cup {<<"memory", m>>}
      BY <2>2, <2>4 DEF Losses
    <3>4. RingNext /\ RingInv'
      BY <2>4, RingNextInv DEF RingNext
    <3>5. \E l \in lost' : l[2] = m
      <4>1. <<"memory", m>>[2] = m
        OBVIOUS
      <4> QED BY <3>3, <4>1
    <3> QED BY <3>2, <3>3, <3>4, <3>5
  <2> QED BY <2>3, <2>4 DEF Enqueue, dropped
<1> QED BY <1>2, <1>3

\* Accounted, of one step.
Kept == \A m \in Known : m \in Known'

\* Nothing goes when every message of each place goes to one of the places.
LEMMA KeptByPlaces ==
  ASSUME acked \subseteq acked', lost \subseteq lost',
         \A x \in Queued : x \in Known', \A x \in inflight : x \in Known',
         msg # NULL => msg \in Known'
  PROVE  Kept
BY DEF Kept, Known

\* A ring that does not change keeps what is queued.
LEMMA RingStands ==
  ASSUME MqttInv, UNCHANGED ringVars
  PROVE  RingTypeOK' /\ RingOwnership' /\ Queued' = Queued /\ [RingNext]_ringVars
BY DEF MqttInv, MqttTypeOK, ringVars, RingTypeOK, RingOwnership, Distance, Queued

\* Taking the oldest message out: the others stay.
LEMMA DequeueKeeps ==
  ASSUME RingInv, Dequeue
  PROVE  /\ RingNext /\ RingInv'
         /\ slot[mqtt_queue_tail] \in Message
         /\ \A x \in Queued : x \in Queued' \/ x = slot[mqtt_queue_tail]
<1>1. mqtt_queue_tail \in Slots /\ slot \in [Slots -> Message \cup {NULL}]
  BY DEF RingInv, RingTypeOK
<1>2. slot[mqtt_queue_tail] \in Message
  BY <1>1, RingAssumption DEF RingInv, RingTypeOK, RingOwnership, Dequeue, Distance, Slots
<1>3. \A x \in Queued : x \in Queued' \/ x = slot[mqtt_queue_tail]
  BY <1>1 DEF Dequeue, Queued
<1> QED BY <1>2, <1>3, DequeueInv DEF RingNext

\* The delay after a failed attempt stays between its limits.
LEMMA DoubledInRange ==
  ASSUME mqtt_reconnect_delay \in initial_delay .. mqtt_max_reconnect_delay
  PROVE  Doubled \in initial_delay .. mqtt_max_reconnect_delay
BY ClientAssumption DEF Doubled

\* The messages thread_duck and the callback thread publish.
LEMMA UplinkAndResponse == Uplink \subseteq Message /\ Response \subseteq Message
BY ClientAssumption

\* mqtt_publish_message with no usable client, and the response to a command.
LEMMA QueueingKeeps ==
  ASSUME MqttInv, NEW m \in Message, PublishLater(m) \/ mqtt_message_arrived(m)
  PROVE  MqttInv' /\ RingNext /\ Kept
<1>1. /\ RingInv /\ Enqueue(m)
      /\ UNCHANGED <<client, inflight, reachable, mqtt_enabled, mqtt_needs_reconnect,
                     mqtt_reconnect_delay, msg, acked>>
      /\ pc' = pc \/ (pc = "loop" /\ pc' = "reconnect")
  BY DEF MqttInv, MqttTypeOK, RingInv, PublishLater, mqtt_message_arrived, clientVars,
         reconnectVars
<1>2. /\ RingNext /\ RingInv' /\ lost \subseteq lost'
      /\ lost' \ lost \subseteq {"full", "memory"} \X Message
      /\ \A x \in Queued \cup {m} : x \in Queued' \/ \E l \in lost' : l[2] = x
  BY <1>1, EnqueueKeeps
<1>3. MqttInv'
  <2>1. MqttTypeOK' /\ RingOwnership'
    BY <1>1, <1>2 DEF MqttInv, MqttTypeOK, RingInv
  <2>2. HandOK'
    BY <1>1 DEF MqttInv, HandOK, Holding
  <2> QED BY <1>1, <2>1, <2>2 DEF MqttInv
<1>4. \A x \in Queued : x \in Known'
  BY <1>2 DEF Known
<1>5. (\A x \in inflight : x \in Known') /\ (msg # NULL => msg \in Known')
  BY <1>1 DEF Known
<1> QED BY <1>1, <1>2, <1>3, <1>4, <1>5, KeptByPlaces

\* mqtt_publish_message with a client: the message is in thread_duck's hands.
LEMMA PublishNowKeeps ==
  ASSUME MqttInv, NEW m \in Message, PublishNow(m)
  PROVE  MqttInv' /\ UNCHANGED ringVars /\ Kept
<1>1. /\ UNCHANGED <<client, inflight, reachable, mqtt_enabled, mqtt_needs_reconnect,
                     mqtt_reconnect_delay, acked, lost>>
      /\ UNCHANGED ringVars
      /\ pc = "loop" /\ pc' = "publish" /\ msg' = m
  BY DEF PublishNow, clientVars, reconnectVars
<1>2. RingTypeOK' /\ RingOwnership' /\ Queued' = Queued
  BY <1>1, RingStands
<1>3. MqttInv'
  BY <1>1, <1>2 DEF MqttInv, MqttTypeOK, HandOK, Holding
<1>4. msg = NULL
  BY <1>1 DEF MqttInv, HandOK, Holding
<1>5. (\A x \in Queued : x \in Known') /\ (\A x \in inflight : x \in Known')
  BY <1>1, <1>2 DEF Known, MqttInv, MqttTypeOK
<1> QED BY <1>1, <1>3, <1>4, <1>5, KeptByPlaces

\* MQTTClient_publishMessage: the client has the message, or the ring or a loss.
LEMMA PublishMessageKeeps ==
  ASSUME MqttInv, publishMessage
  PROVE  MqttInv' /\ [RingNext]_ringVars /\ Kept
<1>1. /\ UNCHANGED <<client, reachable, mqtt_enabled, mqtt_reconnect_delay, acked>>
      /\ pc = "publish" /\ RingInv
  BY DEF publishMessage, MqttInv, MqttTypeOK, RingInv
<1>2. msg \in Message
  BY <1>1 DEF MqttInv, HandOK, Holding
<1>3. CASE client = "connected"
  <2>1. /\ inflight' = inflight \cup {msg} /\ pc' = "wait"
        /\ UNCHANGED <<mqtt_needs_reconnect, msg, lost>> /\ UNCHANGED ringVars
    BY <1>3 DEF publishMessage
  <2>2. RingTypeOK' /\ RingOwnership' /\ Queued' = Queued
    BY <2>1, RingStands
  <2>3. MqttInv'
    BY <1>1, <1>2, <2>1, <2>2 DEF MqttInv, MqttTypeOK, HandOK, Holding
  <2>4. /\ \A x \in Queued : x \in Known'
        /\ \A x \in inflight : x \in Known'
        /\ msg # NULL => msg \in Known'
    BY <2>1, <2>2 DEF Known
  <2> QED BY <1>1, <2>1, <2>3, <2>4, KeptByPlaces
<1>4. CASE client # "connected"
  <2>1. /\ Enqueue(msg) /\ mqtt_needs_reconnect' = TRUE
        /\ pc' = "loop" /\ msg' = NULL /\ inflight' = inflight
    BY <1>4 DEF publishMessage
  <2>2. /\ RingNext /\ RingInv' /\ lost \subseteq lost'
        /\ lost' \ lost \subseteq {"full", "memory"} \X Message
        /\ \A x \in Queued \cup {msg} : x \in Queued' \/ \E l \in lost' : l[2] = x
    BY <1>1, <1>2, <2>1, EnqueueKeeps
  <2>3. MqttInv'
    BY <1>1, <2>1, <2>2 DEF MqttInv, MqttTypeOK, RingInv, HandOK, Holding
  <2>4. \A x \in Queued \cup {msg} : x \in Known'
    <3>1. \A x \in Queued : x # NULL
      BY DEF Queued
    <3> QED BY <1>2, <2>2, <3>1, RingAssumption DEF Known
  <2>5. \A x \in inflight : x \in Known'
    BY <2>1 DEF Known
  <2> QED BY <1>1, <2>2, <2>3, <2>4, <2>5, KeptByPlaces
<1> QED BY <1>3, <1>4

\* MQTTClient_waitForCompletion: what was not acknowledged in time is queued again.
LEMMA WaitKeeps ==
  ASSUME MqttInv, waitForCompletion
  PROVE  MqttInv' /\ [RingNext]_ringVars /\ Kept
<1>1. /\ UNCHANGED <<client, inflight, reachable, mqtt_enabled, mqtt_reconnect_delay, acked>>
      /\ pc = "wait" /\ RingInv /\ pc' = "loop" /\ msg' = NULL
  BY DEF waitForCompletion, clientVars, MqttInv, MqttTypeOK, RingInv
<1>2. msg \in Message /\ msg \in inflight \cup acked
  BY <1>1 DEF MqttInv, HandOK, Holding
<1>3. \A x \in inflight \cup {msg} : x \in Known'
  BY <1>1, <1>2 DEF Known
<1>4. CASE msg \in inflight
  <2>1. Enqueue(msg) /\ mqtt_needs_reconnect' = TRUE
    BY <1>4 DEF waitForCompletion
  <2>2. /\ RingNext /\ RingInv' /\ lost \subseteq lost'
        /\ lost' \ lost \subseteq {"full", "memory"} \X Message
        /\ \A x \in Queued \cup {msg} : x \in Queued' \/ \E l \in lost' : l[2] = x
    BY <1>1, <1>2, <2>1, EnqueueKeeps
  <2>3. MqttInv'
    BY <1>1, <2>1, <2>2 DEF MqttInv, MqttTypeOK, RingInv, HandOK, Holding
  <2>4. \A x \in Queued : x \in Known'
    BY <2>2 DEF Known
  <2> QED BY <1>1, <1>3, <2>2, <2>3, <2>4, KeptByPlaces
<1>5. CASE msg \notin inflight
  <2>1. UNCHANGED <<lost, mqtt_needs_reconnect>> /\ UNCHANGED ringVars
    BY <1>5 DEF waitForCompletion
  <2>2. RingTypeOK' /\ RingOwnership' /\ Queued' = Queued
    BY <2>1, RingStands
  <2>3. MqttInv'
    BY <1>1, <2>1, <2>2 DEF MqttInv, MqttTypeOK, HandOK, Holding
  <2>4. \A x \in Queued : x \in Known'
    BY <2>2 DEF Known
  <2> QED BY <1>1, <1>3, <2>1, <2>3, <2>4, KeptByPlaces
<1> QED BY <1>4, <1>5

\* The health check and the attempt that comes too soon only move thread_duck.
LEMMA MoveKeeps ==
  ASSUME MqttInv, HealthCheck \/ TooSoon
  PROVE  MqttInv' /\ UNCHANGED ringVars /\ Kept
<1>1. /\ UNCHANGED <<client, inflight, reachable, mqtt_enabled, mqtt_needs_reconnect,
                     mqtt_reconnect_delay, msg, acked, lost>>
      /\ UNCHANGED ringVars
      /\ pc \in {"loop", "reconnect"} /\ pc' \in {"loop", "reconnect", "drain"}
  BY DEF HealthCheck, TooSoon, clientVars, reconnectVars
<1>2. RingTypeOK' /\ RingOwnership' /\ Queued' = Queued
  BY <1>1, RingStands
<1>3. MqttInv'
  <2>1. MqttTypeOK'
    BY <1>1, <1>2 DEF MqttInv, MqttTypeOK
  <2>2. HandOK'
    BY <1>1 DEF MqttInv, HandOK, Holding
  <2> QED BY <1>1, <1>2, <2>1, <2>2 DEF MqttInv
<1> QED BY <1>1, <1>2, <1>3 DEF Kept, Known

\* mqtt_reconnect_with_backoff: what the destroyed client had in flight is queued
\* or lost, and a client that is gone is marked.
LEMMA ReconnectKeeps ==
  ASSUME MqttInv, ReconnectFails \/ ReconnectSucceeds
  PROVE  MqttInv' /\ UNCHANGED ringVars /\ Kept
<1>1. /\ UNCHANGED <<reachable, mqtt_enabled, msg, acked>> /\ UNCHANGED ringVars
      /\ inflight' = {} /\ lost' = lost \cup Losses("destroyed", inflight \ Queued)
      /\ mqtt_needs_reconnect' = (mqtt_needs_reconnect \/ client # "NULL")
      /\ pc = "reconnect"
      /\ \/ client' = "NULL" /\ pc' = "loop" /\ mqtt_reconnect_delay' = Doubled
         \/ client' = "connected" /\ pc' = "drain_first"
            /\ mqtt_reconnect_delay' = initial_delay
  BY DEF ReconnectFails, ReconnectSucceeds, DestroyClient
<1>2. RingTypeOK' /\ RingOwnership' /\ Queued' = Queued
  BY <1>1, RingStands
<1>3. mqtt_reconnect_delay' \in initial_delay .. mqtt_max_reconnect_delay
  BY <1>1, DoubledInRange, ClientAssumption DEF MqttInv, MqttTypeOK
<1>4. /\ lost \subseteq lost' /\ lost' \ lost \subseteq {"destroyed"} \X Message
      /\ \A x \in inflight : x \in Queued \/ \E l \in lost' : l[2] = x
  <2>1. \A x \in inflight \ Queued : <<"destroyed", x>> \in lost' /\ <<"destroyed", x>>[2] = x
    BY <1>1 DEF Losses
  <2>2. \A x \in inflight \ Queued : \E l \in lost' : l[2] = x
    BY <2>1
  <2>3. inflight \subseteq Message
    BY DEF MqttInv, MqttTypeOK
  <2> QED BY <1>1, <2>2, <2>3 DEF Losses
<1>5. MqttInv'
  <2>0. mqtt_needs_reconnect' \in BOOLEAN
    BY <1>1, Zenon
  <2>1. MqttTypeOK'
    <3>1. /\ client' \in {"NULL", "connected", "disconnected"}
          /\ pc' \in {"loop", "publish", "wait", "reconnect", "drain_first", "send_first",
                      "drain", "send"}
      BY <1>1
    <3>2. /\ reachable' \in BOOLEAN /\ mqtt_enabled' \in BOOLEAN
          /\ inflight' \subseteq Message /\ acked' \subseteq Message
          /\ msg' \in Message \cup {NULL}
      BY <1>1 DEF MqttInv, MqttTypeOK
    <3>3. lost' \subseteq {"full", "memory", "destroyed", "refused"} \X Message
      BY <1>4 DEF MqttInv, MqttTypeOK
    <3> QED BY <1>2, <1>3, <2>0, <3>1, <3>2, <3>3 DEF MqttTypeOK
  <2>2. HandOK'
    BY <1>1 DEF MqttInv, HandOK, Holding
  <2>3. (mqtt_enabled /\ client = "NULL" => mqtt_needs_reconnect)'
    BY <1>1 DEF MqttInv
  <2> QED BY <1>2, <2>1, <2>2, <2>3 DEF MqttInv
<1>6. /\ \A x \in Queued : x \in Known'
      /\ msg # NULL => msg \in Known'
  BY <1>1, <1>2 DEF Known
<1>7. \A x \in inflight : x \in Known'
  BY <1>2, <1>4 DEF Known
<1> QED BY <1>1, <1>4, <1>5, <1>6, <1>7, KeptByPlaces

\* One turn of mqtt_publish_queued_messages: the oldest message comes in hand,
\* or is lost for want of memory unless it is queued twice.
LEMMA DrainTakeKeeps ==
  ASSUME MqttInv, DrainTake
  PROVE  MqttInv' /\ [RingNext]_ringVars /\ Kept
<1> DEFINE oldest == slot[mqtt_queue_tail]
<1>1. /\ UNCHANGED <<client, inflight, reachable, mqtt_enabled, mqtt_reconnect_delay, acked>>
      /\ pc \in {"drain_first", "drain"} /\ RingInv
  BY DEF DrainTake, clientVars, MqttInv, MqttTypeOK, RingInv
<1>2. msg = NULL
  BY <1>1 DEF MqttInv, HandOK, Holding
<1>3. \A x \in inflight : x \in Known'
  BY <1>1 DEF Known
<1>4. CASE EndDrain(pc) /\ UNCHANGED <<ringVars, msg, lost>>
  <2>1. RingTypeOK' /\ RingOwnership' /\ Queued' = Queued
    BY <1>4, RingStands
  <2>2. pc' \in {"drain", "loop"} /\ mqtt_needs_reconnect' \in BOOLEAN
        /\ (pc = "drain_first" \/ (mqtt_needs_reconnect => mqtt_needs_reconnect'))
    BY <1>1, <1>4 DEF EndDrain, MqttInv, MqttTypeOK
  <2>3. MqttTypeOK'
    BY <1>1, <1>4, <2>1, <2>2 DEF MqttInv, MqttTypeOK
  <2>4. HandOK'
    BY <1>1, <1>2, <1>4, <2>2 DEF HandOK, Holding
  <2>5. (mqtt_enabled /\ client = "NULL" => mqtt_needs_reconnect)'
    BY <1>1, <2>2 DEF MqttInv, HandOK
  <2>6. \A x \in Queued : x \in Known'
    BY <2>1 DEF Known
  <2> QED BY <1>1, <1>2, <1>3, <1>4, <2>1, <2>3, <2>4, <2>5, <2>6, KeptByPlaces DEF MqttInv
<1>5. ASSUME Dequeue
      PROVE  /\ RingNext /\ RingInv' /\ oldest \in Message
             /\ \A x \in Queued : x \in Queued' \/ x = oldest
  BY <1>1, <1>5, DequeueKeeps
<1> HIDE DEF oldest
<1>6. CASE /\ Dequeue /\ msg' = oldest
           /\ pc' = IF pc = "drain" THEN "send" ELSE "send_first"
           /\ UNCHANGED <<mqtt_needs_reconnect, lost>>
  <2>1. MqttTypeOK' /\ RingOwnership'
    BY <1>1, <1>5, <1>6 DEF MqttInv, MqttTypeOK, RingInv
  <2>2. HandOK'
    BY <1>1, <1>5, <1>6 DEF MqttInv, HandOK, Holding
  <2>3. MqttInv'
    BY <1>1, <1>6, <2>1, <2>2 DEF MqttInv
  <2>4. \A x \in Queued : x \in Known'
    BY <1>5, <1>6, RingAssumption DEF Known
  <2> QED BY <1>1, <1>2, <1>3, <1>5, <1>6, <2>3, <2>4, KeptByPlaces
<1>7. CASE /\ Dequeue /\ lost' = lost \cup Losses("memory", {oldest} \ Queued')
           /\ UNCHANGED <<pc, msg, mqtt_needs_reconnect>>
  <2>1. lost \subseteq lost' /\ lost' \ lost \subseteq {"memory"} \X Message
    BY <1>5, <1>7 DEF Losses
  <2>2. oldest \in Queued' \/ \E l \in lost' : l[2] = oldest
    <3>1. oldest \notin Queued' => <<"memory", oldest>> \in lost'
      BY <1>7 DEF Losses
    <3>2. <<"memory", oldest>>[2] = oldest
      OBVIOUS
    <3> QED BY <3>1, <3>2
  <2>3. MqttTypeOK' /\ RingOwnership'
    BY <1>1, <1>5, <1>7, <2>1 DEF MqttInv, MqttTypeOK, RingInv
  <2>4. HandOK'
    BY <1>1, <1>7 DEF MqttInv, HandOK, Holding
  <2>5. MqttInv'
    BY <1>1, <1>7, <2>3, <2>4 DEF MqttInv
  <2>6. \A x \in Queued : x \in Known'
    BY <1>5, <1>7, <2>2 DEF Known
  <2> QED BY <1>1, <1>2, <1>3, <1>5, <1>7, <2>1, <2>5, <2>6, KeptByPlaces
<1> QED BY <1>4, <1>6, <1>7 DEF DrainTake, oldest

\* Its publication: the client has the message, or the call is refused and the
\* message is lost unless another copy is queued or in flight.
LEMMA DrainPublishKeeps ==
  ASSUME MqttInv, DrainPublish
  PROVE  MqttInv' /\ UNCHANGED ringVars /\ Kept
<1>1. /\ UNCHANGED <<client, reachable, mqtt_enabled, mqtt_reconnect_delay, acked>>
      /\ UNCHANGED ringVars /\ msg' = NULL
      /\ pc \in {"send_first", "send"}
  BY DEF DrainPublish
<1>2. msg \in Message
  BY <1>1 DEF MqttInv, HandOK, Holding
<1>3. RingTypeOK' /\ RingOwnership' /\ Queued' = Queued
  BY <1>1, RingStands
<1>4. \A x \in Queued : x \in Known'
  BY <1>3 DEF Known
<1>5. CASE client = "connected"
  <2>1. /\ inflight' = inflight \cup {msg} /\ pc' \in {"drain", "drain_first"}
        /\ UNCHANGED <<mqtt_needs_reconnect, lost>>
    BY <1>5 DEF DrainPublish
  <2>2. MqttTypeOK'
    BY <1>1, <1>2, <1>3, <2>1 DEF MqttInv, MqttTypeOK
  <2>3. HandOK'
    BY <1>1, <1>5, <2>1 DEF HandOK, Holding
  <2>4. MqttInv'
    BY <1>1, <1>3, <2>1, <2>2, <2>3 DEF MqttInv
  <2>5. \A x \in inflight \cup {msg} : x \in Known'
    BY <2>1 DEF Known
  <2> QED BY <1>1, <1>4, <2>1, <2>4, <2>5, KeptByPlaces
<1>6. CASE client # "connected"
  <2>1. /\ inflight' = inflight
        /\ lost' = lost \cup Losses("refused", {msg} \ (Queued \cup inflight))
        /\ EndDrain(IF pc = "send" THEN "drain" ELSE "drain_first")
    BY <1>6 DEF DrainPublish
  <2>2. pc' \in {"drain", "loop"} /\ mqtt_needs_reconnect' \in BOOLEAN
        /\ (pc = "send_first" \/ (mqtt_needs_reconnect => mqtt_needs_reconnect'))
    BY <1>1, <2>1 DEF EndDrain, MqttInv, MqttTypeOK
  <2>3. lost \subseteq lost' /\ lost' \ lost \subseteq {"refused"} \X Message
    BY <1>2, <2>1 DEF Losses
  <2>4. msg \in Queued \/ msg \in inflight \/ \E l \in lost' : l[2] = msg
    <3>1. msg \notin Queued \cup inflight => <<"refused", msg>> \in lost'
      BY <2>1 DEF Losses
    <3>2. <<"refused", msg>>[2] = msg
      OBVIOUS
    <3> QED BY <3>1, <3>2
  <2>5. MqttTypeOK'
    BY <1>1, <1>3, <2>1, <2>2, <2>3 DEF MqttInv, MqttTypeOK
  <2>6. HandOK'
    BY <1>1, <2>2 DEF HandOK, Holding
  <2>7. (mqtt_enabled /\ client = "NULL" => mqtt_needs_reconnect)'
    BY <1>1, <2>2 DEF MqttInv, HandOK
  <2>8. \A x \in inflight \cup {msg} : x \in Known'
    BY <1>3, <2>1, <2>4 DEF Known
  <2> QED BY <1>1, <1>3, <1>4, <2>3, <2>5, <2>6, <2>7, <2>8, KeptByPlaces DEF MqttInv
<1> QED BY <1>5, <1>6

\* The broker and time: an acknowledged message moves, nothing else does.
LEMMA WorldKeeps ==
  ASSUME MqttInv, Acknowledge \/ ConnectionLost \/ Outage \/ Recovery \/ Second
  PROVE  MqttInv' /\ UNCHANGED ringVars /\ Kept
<1>1. /\ UNCHANGED <<mqtt_enabled, mqtt_needs_reconnect, mqtt_reconnect_delay, pc, msg, lost>>
      /\ UNCHANGED ringVars
      /\ reachable' \in BOOLEAN
      /\ client' = client \/ client' = "disconnected"
  BY DEF Acknowledge, ConnectionLost, Outage, Recovery, Second, clientVars, reconnectVars,
         MqttInv, MqttTypeOK
<1>2. \/ UNCHANGED <<inflight, acked>>
      \/ \E m \in inflight : inflight' = inflight \ {m} /\ acked' = acked \cup {m}
  BY DEF Acknowledge, ConnectionLost, Outage, Recovery, Second, clientVars, reconnectVars
<1>3. /\ inflight' \subseteq Message /\ acked' \subseteq Message
      /\ acked \subseteq acked' /\ inflight \cup acked = inflight' \cup acked'
  BY <1>2 DEF MqttInv, MqttTypeOK
<1>4. RingTypeOK' /\ RingOwnership' /\ Queued' = Queued
  BY <1>1, RingStands
<1>5. MqttTypeOK'
  BY <1>1, <1>3, <1>4 DEF MqttInv, MqttTypeOK
<1>6. HandOK'
  BY <1>1, <1>3 DEF MqttInv, HandOK, Holding
<1>7. MqttInv'
  BY <1>1, <1>4, <1>5, <1>6 DEF MqttInv
<1>8. /\ \A x \in Queued \cup inflight : x \in Known'
      /\ msg # NULL => msg \in Known'
  BY <1>1, <1>3, <1>4 DEF Known
<1> QED BY <1>1, <1>3, <1>7, <1>8, KeptByPlaces

\* So every step of the client keeps the invariant, is a step of the ring or
\* leaves it alone, and forgets no message.
LEMMA MqttStep ==
  ASSUME MqttInv, [MqttNext]_mqttVars
  PROVE  MqttInv' /\ [RingNext]_ringVars /\ [Kept]_mqttVars
<1>1. CASE UNCHANGED mqttVars
  <2>1. UNCHANGED ringVars
        /\ UNCHANGED <<client, inflight, reachable, mqtt_enabled, mqtt_needs_reconnect,
                       mqtt_reconnect_delay, pc, msg, acked, lost>>
    BY <1>1 DEF mqttVars, clientVars, reconnectVars
  <2>2. RingTypeOK' /\ RingOwnership'
    BY <2>1, RingStands
  <2>3. MqttTypeOK' /\ HandOK'
    BY <2>1, <2>2 DEF MqttInv, MqttTypeOK, HandOK
  <2> QED BY <1>1, <2>1, <2>2, <2>3 DEF MqttInv
<1>2. ASSUME NEW m \in Uplink, PublishLater(m) \/ PublishNow(m)
      PROVE  MqttInv' /\ [RingNext]_ringVars /\ Kept
  BY <1>2, QueueingKeeps, PublishNowKeeps, UplinkAndResponse
<1>3. ASSUME NEW m \in Response, mqtt_message_arrived(m)
      PROVE  MqttInv' /\ [RingNext]_ringVars /\ Kept
  BY <1>3, QueueingKeeps, UplinkAndResponse
<1>4. CASE ThreadDuck
  BY <1>4, MoveKeeps, ReconnectKeeps, PublishMessageKeeps, WaitKeeps, DrainTakeKeeps,
     DrainPublishKeeps DEF ThreadDuck, Reconnect
<1>5. CASE Acknowledge \/ ConnectionLost \/ Outage \/ Recovery \/ Second
  BY <1>5, WorldKeeps
<1> QED BY <1>1, <1>2, <1>3, <1>4, <1>5 DEF MqttNext

\* The state of the client is well formed, the ring owns its slots as its indices
\* say, and a client that is gone is marked for the health check, in every
\* interleaving of thread_duck, the callback thread, the broker and time: the
\* safety part of Recovers.
THEOREM MqttMarked == MqttSpec => [](MqttTypeOK /\ RingOwnership /\ GoneIsMarked)
<1>1. MqttInv => MqttTypeOK /\ RingOwnership /\ GoneIsMarked
  BY DEF MqttInv, GoneIsMarked
<1>2. MqttInv /\ [MqttNext]_mqttVars => MqttInv'
  BY MqttStep
<1> QED BY <1>1, <1>2, MqttInitInv, PTL DEF MqttSpec

\* thread_duck and the callback thread use the ring only through its operations,
\* so what they find in it is a queue that drops its oldest message when full.
THEOREM MqttUsesFifo == MqttSpec => RingIsFifo
<1>1. MqttInit => RingInit
  BY DEF MqttInit
<1>2. MqttInv /\ [MqttNext]_mqttVars => MqttInv' /\ [RingNext]_ringVars
  BY MqttStep
<1>3. MqttSpec => RingSpec
  BY <1>1, <1>2, MqttInitInv, PTL DEF MqttSpec, RingSpec
<1> QED BY <1>3, RingImplementsFifo, PTL

\* No message that was accepted is ever forgotten: not by a timeout, a
\* reconnection, a full ring, a failed allocation or a refused publication.
THEOREM MqttAccounted == MqttSpec => Accounted
<1>1. MqttInv /\ [MqttNext]_mqttVars => MqttInv' /\ [Kept]_mqttVars
  BY MqttStep
<1>2. MqttSpec => [][Kept]_mqttVars
  BY <1>1, MqttInitInv, PTL DEF MqttSpec
<1> QED BY <1>2, PTL DEF Kept, Accounted
=============================================================================
