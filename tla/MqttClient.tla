----------------------------- MODULE MqttClient -----------------------------
(***************************************************************************)
(* The gateway's uplink to its MQTT broker (clusterduckd.c): thread_duck   *)
(* publishes what the ducks sent and checks the connection from time to    *)
(* time; the client library's callback thread answers the operator's       *)
(* commands through the same ring of messages.                             *)
(*                                                                         *)
(* The Paho client is external: a client is gone (NULL), connected or      *)
(* disconnected; a publication is refused exactly when it is disconnected; *)
(* what it accepted is in flight until the broker acknowledges it, and     *)
(* is gone when the client is destroyed.  The broker is reachable or not.  *)
(*                                                                         *)
(* mqtt_reconnect_mutex is only ever taken by thread_duck, so it excludes  *)
(* nobody and is left out.  The interval between two health checks         *)
(* (0.5 s with messages queued, 30 s without) is left out: a check may     *)
(* come at any turn of the loop.                                           *)
(***************************************************************************)
EXTENDS MqttQueue, FiniteSets

CONSTANTS
  Uplink,          \* messages of ducks, which thread_duck publishes
  Response,        \* answers to commands, queued on the callback thread
  initial_delay,   \* seconds before the next attempt (5)
  mqtt_max_reconnect_delay,
  MallocMayFail,   \* whether the copy of a message may fail for want of memory
  Outages          \* how often the broker becomes unreachable

ASSUME ClientAssumption ==
  /\ Message = Uplink \cup Response /\ Uplink \cap Response = {}
  /\ initial_delay \in Nat \ {0}
  /\ mqtt_max_reconnect_delay \in Nat /\ initial_delay <= mqtt_max_reconnect_delay
  /\ MallocMayFail \in BOOLEAN /\ Outages \in Nat

VARIABLES
  client,        \* mqtt_client: "NULL", "connected", "disconnected"
  inflight,      \* messages the client accepted and the broker did not acknowledge
  reachable,     \* the broker can be reached
  outages,       \* history: outages so far
  mqtt_enabled,
  mqtt_needs_reconnect,
  mqtt_reconnect_delay,
  waited,        \* time since the last attempt, as far as the delays tell apart
  pc,            \* where thread_duck is
  msg,           \* the message it has in hand
  acked,         \* history: messages the broker acknowledged
  lost           \* history: messages that are gone, and how

clientVars == <<client, inflight, reachable, outages>>
reconnectVars == <<mqtt_enabled, mqtt_needs_reconnect, mqtt_reconnect_delay, waited>>
mqttVars == <<ringVars, clientVars, reconnectVars, pc, msg, acked, lost>>

Queued == {slot[i] : i \in Slots} \ {NULL}

\* Messages that have been accepted for publication.
Known == Queued \cup inflight \cup acked \cup {l[2] : l \in lost} \cup ({msg} \ {NULL})

Losses(why, S) == {why} \X S

\* main: the first connection.  Without it the daemon runs without MQTT.
MqttInit ==
  /\ RingInit
  /\ reachable \in BOOLEAN
  /\ mqtt_enabled = reachable
  /\ client = IF reachable THEN "connected" ELSE "NULL"
  /\ inflight = {} /\ outages = 0
  /\ mqtt_needs_reconnect = FALSE
  /\ mqtt_reconnect_delay = initial_delay
  /\ waited = mqtt_max_reconnect_delay
  /\ pc = "loop" /\ msg = NULL
  /\ acked = {} /\ lost = {}

\* mqtt_queue_message as its callers use it: they ignore its result.
Enqueue(m) ==
  LET dropped == IF Full THEN {slot[mqtt_queue_tail]} ELSE {}
  IN  \/ mqtt_queue_message(m) /\ lost' = lost \cup Losses("full", dropped)
      \/ /\ MallocMayFail
         /\ mqtt_queue_message_fails
         /\ lost' = lost \cup Losses("full", dropped) \cup Losses("memory", {m})

-----------------------------------------------------------------------------
(* thread_duck: a message of a duck                                        *)

\* mqtt_publish_message finds no usable client: the message is queued and a
\* reconnection is attempted.
PublishLater(m) ==
  /\ pc = "loop" /\ mqtt_enabled
  /\ client # "connected" \/ mqtt_needs_reconnect
  /\ Enqueue(m)
  /\ pc' = "reconnect"
  /\ UNCHANGED <<clientVars, reconnectVars, msg, acked>>

\* It is connected, and MQTTClient_publishMessage follows.
PublishNow(m) ==
  /\ pc = "loop" /\ mqtt_enabled
  /\ client = "connected" /\ ~mqtt_needs_reconnect
  /\ pc' = "publish" /\ msg' = m
  /\ UNCHANGED <<ringVars, clientVars, reconnectVars, acked, lost>>

\* Mutant: a message that could not be published is not queued.
publishMessage_Forgets ==
  /\ pc = "publish"
  /\ IF client = "connected"
     THEN inflight' = inflight \cup {msg} /\ pc' = "wait" /\ UNCHANGED <<mqtt_needs_reconnect, msg>>
     ELSE /\ mqtt_needs_reconnect' = TRUE
          /\ pc' = "loop" /\ msg' = NULL /\ UNCHANGED inflight
  /\ UNCHANGED <<ringVars, client, reachable, outages, mqtt_enabled,
                 mqtt_reconnect_delay, waited, acked, lost>>

publishMessage ==
  /\ pc = "publish"
  /\ IF client = "connected"
     THEN /\ inflight' = inflight \cup {msg}
          /\ pc' = "wait"
          /\ UNCHANGED <<ringVars, mqtt_needs_reconnect, msg, lost>>
     ELSE /\ Enqueue(msg)
          /\ mqtt_needs_reconnect' = TRUE
          /\ pc' = "loop" /\ msg' = NULL
          /\ UNCHANGED inflight
  /\ UNCHANGED <<client, reachable, outages, mqtt_enabled, mqtt_reconnect_delay, waited, acked>>

\* MQTTClient_waitForCompletion: acknowledged, or five seconds have passed.
waitForCompletion ==
  /\ pc = "wait"
  /\ IF msg \in inflight
     THEN Enqueue(msg) /\ mqtt_needs_reconnect' = TRUE
     ELSE UNCHANGED <<ringVars, lost, mqtt_needs_reconnect>>
  /\ pc' = "loop" /\ msg' = NULL
  /\ UNCHANGED <<clientVars, mqtt_enabled, mqtt_reconnect_delay, waited, acked>>

-----------------------------------------------------------------------------
(* thread_duck: the health check                                           *)

HealthCheck ==
  /\ pc = "loop" /\ mqtt_enabled
  /\ \/ /\ mqtt_needs_reconnect \/ client = "disconnected"
        /\ pc' = "reconnect"
     \/ /\ ~mqtt_needs_reconnect /\ client = "connected" /\ mqtt_queue_count > 0
        /\ pc' = "drain"
  /\ UNCHANGED <<ringVars, clientVars, reconnectVars, msg, acked, lost>>

\* mqtt_reconnect_with_backoff before the delay has passed.
TooSoon ==
  /\ pc = "reconnect" /\ waited < mqtt_reconnect_delay
  /\ pc' = "loop"
  /\ UNCHANGED <<ringVars, clientVars, reconnectVars, msg, acked, lost>>

\* mqtt_init_and_connect destroys the client it finds, with what it had in
\* flight (unless another copy is queued).
DestroyClient ==
  /\ inflight' = {}
  /\ lost' = lost \cup Losses("destroyed", inflight \ Queued)

Doubled == IF 2 * mqtt_reconnect_delay > mqtt_max_reconnect_delay
           THEN mqtt_max_reconnect_delay ELSE 2 * mqtt_reconnect_delay

\* Mutant: the flag is only kept, not set, when the old client goes.
ReconnectFails_Unmarked ==
  /\ pc = "reconnect" /\ waited >= mqtt_reconnect_delay
  /\ ~reachable
  /\ DestroyClient /\ client' = "NULL"
  /\ waited' = 0 /\ mqtt_reconnect_delay' = Doubled
  /\ pc' = "loop"
  /\ UNCHANGED <<ringVars, reachable, outages, mqtt_enabled, mqtt_needs_reconnect, msg, acked>>

\* mqtt_reconnect_with_backoff with a broker that is out of reach.
ReconnectFails ==
  /\ pc = "reconnect" /\ waited >= mqtt_reconnect_delay
  /\ ~reachable
  /\ mqtt_needs_reconnect' = (mqtt_needs_reconnect \/ client # "NULL")
  /\ DestroyClient /\ client' = "NULL"
  /\ waited' = 0 /\ mqtt_reconnect_delay' = Doubled
  /\ pc' = "loop"
  /\ UNCHANGED <<ringVars, reachable, outages, mqtt_enabled, msg, acked>>

\* The same with a broker in reach: connected, subscribed; the queue is drained
\* once inside mqtt_init_and_connect and once after it.
ReconnectSucceeds ==
  /\ pc = "reconnect" /\ waited >= mqtt_reconnect_delay
  /\ reachable
  /\ mqtt_needs_reconnect' = (mqtt_needs_reconnect \/ client # "NULL")
  /\ DestroyClient /\ client' = "connected"
  /\ waited' = 0 /\ mqtt_reconnect_delay' = initial_delay
  /\ pc' = "drain_first"
  /\ UNCHANGED <<ringVars, reachable, outages, mqtt_enabled, msg, acked>>

\* The end of a call of mqtt_publish_queued_messages.
EndDrain(at) ==
  IF at = "drain_first"
  THEN pc' = "drain" /\ mqtt_needs_reconnect' = FALSE
  ELSE pc' = "loop" /\ UNCHANGED mqtt_needs_reconnect

\* One turn of its loop: the oldest message is taken out of the ring ...
DrainTake ==
  /\ pc \in {"drain_first", "drain"}
  /\ \/ /\ mqtt_queue_count = 0
        /\ EndDrain(pc) /\ UNCHANGED <<ringVars, msg, lost>>
     \/ /\ Dequeue
        /\ msg' = slot[mqtt_queue_tail]
        /\ pc' = IF pc = "drain" THEN "send" ELSE "send_first"
        /\ UNCHANGED <<mqtt_needs_reconnect, lost>>
     \/ /\ MallocMayFail /\ Dequeue
        /\ lost' = lost \cup Losses("memory", {slot[mqtt_queue_tail]} \ Queued')
        /\ UNCHANGED <<pc, msg, mqtt_needs_reconnect>>
  /\ UNCHANGED <<clientVars, mqtt_enabled, mqtt_reconnect_delay, waited, acked>>

\* ... and published, with no wait for the acknowledgement.  The call that
\* fails returns; the message it had taken out is freed.
DrainPublish ==
  /\ pc \in {"send_first", "send"}
  /\ IF client = "connected"
     THEN /\ inflight' = inflight \cup {msg}
          /\ pc' = IF pc = "send" THEN "drain" ELSE "drain_first"
          /\ UNCHANGED <<mqtt_needs_reconnect, lost>>
     ELSE /\ lost' = lost \cup Losses("refused", {msg} \ (Queued \cup inflight))
          /\ EndDrain(IF pc = "send" THEN "drain" ELSE "drain_first")
          /\ UNCHANGED inflight
  /\ msg' = NULL
  /\ UNCHANGED <<ringVars, client, reachable, outages, mqtt_enabled,
                 mqtt_reconnect_delay, waited, acked>>

-----------------------------------------------------------------------------
(* The callback thread, the broker and time                                *)

\* mqtt_message_arrived: a command was handled and its response is queued.
mqtt_message_arrived(m) ==
  /\ client = "connected"
  /\ Enqueue(m)
  /\ UNCHANGED <<clientVars, reconnectVars, pc, msg, acked>>

Acknowledge ==
  /\ client = "connected" /\ reachable
  /\ \E m \in inflight : inflight' = inflight \ {m} /\ acked' = acked \cup {m}
  /\ UNCHANGED <<ringVars, client, reachable, outages, reconnectVars, pc, msg, lost>>

\* mqtt_connection_lost changes nothing itself.
ConnectionLost ==
  /\ client = "connected" /\ ~reachable
  /\ client' = "disconnected"
  /\ UNCHANGED <<ringVars, inflight, reachable, outages, reconnectVars, pc, msg, acked, lost>>

Outage ==
  /\ reachable /\ outages < Outages
  /\ reachable' = FALSE /\ outages' = outages + 1
  /\ UNCHANGED <<ringVars, client, inflight, reconnectVars, pc, msg, acked, lost>>

Recovery ==
  /\ ~reachable /\ reachable' = TRUE
  /\ UNCHANGED <<ringVars, client, inflight, outages, reconnectVars, pc, msg, acked, lost>>

Second ==
  /\ waited < mqtt_max_reconnect_delay /\ waited' = waited + 1
  /\ UNCHANGED <<ringVars, clientVars, mqtt_enabled, mqtt_needs_reconnect,
                 mqtt_reconnect_delay, pc, msg, acked, lost>>

Reconnect == TooSoon \/ ReconnectFails \/ ReconnectSucceeds
ThreadDuck == HealthCheck \/ Reconnect \/ publishMessage \/ waitForCompletion
              \/ DrainTake \/ DrainPublish

MqttNext ==
  \/ \E m \in Uplink \ Known : PublishLater(m) \/ PublishNow(m)
  \/ ThreadDuck
  \/ \E m \in Response \ Known : mqtt_message_arrived(m)
  \/ Acknowledge \/ ConnectionLost \/ Outage \/ Recovery \/ Second

MqttSpec == MqttInit /\ [][MqttNext]_mqttVars

\* thread_duck keeps running, time passes, a broken connection is noticed and an
\* outage ends; that is all.
MqttFairness ==
  /\ WF_mqttVars(ThreadDuck) /\ WF_mqttVars(Second)
  /\ WF_mqttVars(ConnectionLost) /\ WF_mqttVars(Recovery)

FairMqttSpec == MqttSpec /\ MqttFairness

-----------------------------------------------------------------------------
\* The state is well formed; the delay stays between its two limits however
\* many attempts fail.
MqttTypeOK ==
  /\ RingTypeOK
  /\ client \in {"NULL", "connected", "disconnected"} /\ reachable \in BOOLEAN
  /\ inflight \subseteq Message /\ acked \subseteq Message
  /\ mqtt_enabled \in BOOLEAN /\ mqtt_needs_reconnect \in BOOLEAN
  /\ mqtt_reconnect_delay \in initial_delay .. mqtt_max_reconnect_delay
  /\ pc \in {"loop", "publish", "wait", "reconnect", "drain_first", "send_first",
             "drain", "send"}
  /\ msg \in Message \cup {NULL}
  /\ lost \subseteq {"full", "memory", "destroyed", "refused"} \X Message

\* A client that is gone is marked for reconnection: the health check looks at
\* the flag and at clients that exist, so without the mark it would never
\* connect again.
GoneIsMarked ==
  mqtt_enabled /\ client = "NULL" /\ pc # "reconnect" => mqtt_needs_reconnect

\* Every message that was accepted is somewhere: in the ring, in thread_duck's
\* hands, in flight, acknowledged, or lost in one of the four known ways.
\* Nothing is forgotten between publication, timeout and reconnection.
Accounted ==
  [][ \A m \in Known : m \in Known' ]_mqttVars

\* Once the broker stays reachable, the client connects again and stays so.
Reconnects == mqtt_enabled ~> (<>[](client = "connected" /\ ~mqtt_needs_reconnect))

\* The queue drains: no message waits in it for ever while the broker is there.
QueueDrains == mqtt_queue_count > 0 ~> mqtt_queue_count = 0

\* After every outage the daemon gets back to work: a client that is gone is marked
\* for the health check, it connects again, and what was queued meanwhile is sent.
Recovers == [](MqttTypeOK /\ GoneIsMarked) /\ Reconnects /\ QueueDrains
=============================================================================
