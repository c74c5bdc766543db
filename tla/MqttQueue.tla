------------------------------ MODULE MqttQueue ------------------------------
(***************************************************************************)
(* The ring of MQTT messages that wait for a connection (clusterduckd.c,   *)
(* mqtt_message_queue with mqtt_queue_head, _tail and _count).  A slot is  *)
(* its message pointer: NULL, or the message it owns.  Every operation     *)
(* runs under mqtt_queue_mutex and is one action.                          *)
(***************************************************************************)
EXTENDS Naturals, Sequences

CONSTANTS
  MQTT_QUEUE_SIZE,
  Message,
  NULL

ASSUME RingAssumption ==
  /\ MQTT_QUEUE_SIZE \in Nat \ {0}
  /\ NULL \notin Message

VARIABLES
  slot,               \* mqtt_message_queue[i].message
  mqtt_queue_head,    \* where the next message goes
  mqtt_queue_tail,    \* where the oldest one is
  mqtt_queue_count

ringVars == <<slot, mqtt_queue_head, mqtt_queue_tail, mqtt_queue_count>>

Slots == 0 .. MQTT_QUEUE_SIZE - 1

RingInit ==
  /\ slot = [i \in Slots |-> NULL]
  /\ mqtt_queue_head = 0 /\ mqtt_queue_tail = 0 /\ mqtt_queue_count = 0

Advance(i) == (i + 1) % MQTT_QUEUE_SIZE

Full == mqtt_queue_count >= MQTT_QUEUE_SIZE

\* The ring once the oldest message has been freed, if it was full.
slotMadeFree ==
  IF Full THEN [slot EXCEPT ![mqtt_queue_tail] = NULL] ELSE slot
countMadeFree == IF Full THEN mqtt_queue_count - 1 ELSE mqtt_queue_count

\* Mutant: a full ring drops its oldest message without moving the tail.
mqtt_queue_message_TailStays(m) ==
  /\ slot' = [slotMadeFree EXCEPT ![mqtt_queue_head] = m]
  /\ mqtt_queue_head' = Advance(mqtt_queue_head)
  /\ mqtt_queue_tail' = mqtt_queue_tail
  /\ mqtt_queue_count' = countMadeFree + 1

mqtt_queue_message(m) ==
  /\ slot' = [slotMadeFree EXCEPT ![mqtt_queue_head] = m]
  /\ mqtt_queue_head' = Advance(mqtt_queue_head)
  /\ mqtt_queue_tail' = IF Full THEN Advance(mqtt_queue_tail) ELSE mqtt_queue_tail
  /\ mqtt_queue_count' = countMadeFree + 1

\* malloc fails: -1, after the oldest message of a full ring has been dropped.
mqtt_queue_message_fails ==
  /\ slot' = [slotMadeFree EXCEPT ![mqtt_queue_head] = NULL]
  /\ mqtt_queue_tail' = IF Full THEN Advance(mqtt_queue_tail) ELSE mqtt_queue_tail
  /\ mqtt_queue_count' = countMadeFree
  /\ UNCHANGED mqtt_queue_head

\* One turn of the loop in mqtt_publish_queued_messages takes the oldest out.
Dequeue ==
  /\ mqtt_queue_count > 0
  /\ slot' = [slot EXCEPT ![mqtt_queue_tail] = NULL]
  /\ mqtt_queue_tail' = Advance(mqtt_queue_tail)
  /\ mqtt_queue_count' = mqtt_queue_count - 1
  /\ UNCHANGED mqtt_queue_head

RingNext ==
  \/ \E m \in Message : mqtt_queue_message(m)
  \/ mqtt_queue_message_fails
  \/ Dequeue

RingSpec == RingInit /\ [][RingNext]_ringVars

-----------------------------------------------------------------------------
\* The indices stay in the array and the count within its size.
RingTypeOK ==
  /\ slot \in [Slots -> Message \cup {NULL}]
  /\ mqtt_queue_head \in Slots /\ mqtt_queue_tail \in Slots
  /\ mqtt_queue_count \in 0 .. MQTT_QUEUE_SIZE

\* How far behind the tail a slot lies.
Distance(i) ==
  IF i >= mqtt_queue_tail THEN i - mqtt_queue_tail
                          ELSE i + MQTT_QUEUE_SIZE - mqtt_queue_tail

\* The slots that own a message are exactly the count slots from the tail on,
\* and the head is behind the last of them: no message is overwritten without
\* being freed, none is freed twice, and Dequeue never copies from NULL.
RingOwnership ==
  /\ \A i \in Slots : slot[i] # NULL <=> Distance(i) < mqtt_queue_count
  /\ \/ mqtt_queue_count = MQTT_QUEUE_SIZE /\ mqtt_queue_head = mqtt_queue_tail
     \/ mqtt_queue_count < MQTT_QUEUE_SIZE /\ Distance(mqtt_queue_head) = mqtt_queue_count

\* The queue the ring stands for, oldest message first.
Contents ==
  [k \in 1 .. mqtt_queue_count |->
     slot[IF mqtt_queue_tail + k - 1 < MQTT_QUEUE_SIZE
          THEN mqtt_queue_tail + k - 1
          ELSE mqtt_queue_tail + k - 1 - MQTT_QUEUE_SIZE]]

Fifo == INSTANCE DropOldest WITH
  Element <- Message, Capacity <- MQTT_QUEUE_SIZE, queue <- Contents

\* The ring is a queue that drops its oldest message when full: messages leave
\* in the order they came, through every wrap of head and tail.
RingIsFifo == Fifo!QueueSpec
=============================================================================
