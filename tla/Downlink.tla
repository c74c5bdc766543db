------------------------------ MODULE Downlink ------------------------------
(***************************************************************************)
(* A packet's way from the hub to the JIT queue.  Operator commands come   *)
(* in on Paho's callback thread (mqtt_message_arrived, hub_send_data) and  *)
(* the hub's own replies on thread_duck; both end in the bridge's          *)
(* downlink_queue.  thread_down takes packets from it in two places, the   *)
(* outer loop and the paced inner one, into one buffer whose capacity it   *)
(* passes in and gets back through buf_capacity, and hands them to         *)
(* jit_enqueue with its idea of the concentrator's time.                   *)
(*                                                                         *)
(* Whether jit_enqueue takes the packet is JitQueue's business.  The mesh  *)
(* frequency, which the build fixes for every packet, is taken to lie in   *)
(* the range that the configuration gives the TX chain: otherwise the      *)
(* outer loop rejects every packet before jit_enqueue.                     *)
(***************************************************************************)
EXTENDS Integers, Sequences, FiniteSets

CONSTANTS
  Commands,        \* Commands[n]: the [topic, length] of the n-th command
  ReplyLengths,    \* of the data of the hub's own packets
  MaxReplies,      \* bound on their number
  MaxTime,         \* bound on the concentrator's counter
  HEADER_LENGTH, PACKET_LENGTH,
  FirstPublic,     \* lowest topic an operator may name (20)
  ENCRYPTED_CMD,   \* the exception to it that mqtt_message_arrived makes (8)
  MAX_RESERVED,    \* lowest topic sendData accepts (0x0F)
  MaxCommand,      \* longest command hub_send_data accepts (256)
  BUFFER           \* sizeof duck_payload_buf (256)

MAX_DATA_LENGTH == PACKET_LENGTH - HEADER_LENGTH

ASSUME DownlinkAssumption ==
  /\ Commands \in Seq([topic : 0 .. 255, length : Nat])
  /\ ReplyLengths \subseteq 1 .. MAX_DATA_LENGTH
  /\ MaxReplies \in Nat /\ MaxTime \in Nat
  /\ HEADER_LENGTH \in Nat /\ PACKET_LENGTH \in Nat /\ PACKET_LENGTH <= BUFFER
  /\ FirstPublic \in Nat /\ ENCRYPTED_CMD \in Nat /\ MAX_RESERVED \in Nat
  /\ MaxCommand \in Nat /\ BUFFER \in Nat

VARIABLES
  now,              \* the concentrator's counter
  public,           \* the hub's NetworkState is PUBLIC
  answer,           \* answer[n]: the response to command n; "" before it
                    \* arrived, "ignored" when there is none
  replies,          \* number of packets the hub sent of its own
  enqueued,         \* history: every packet put on downlink_queue
  downlink_queue,
  loop,             \* thread_down: "outer", "inner", "delay", "pace"
  packet,           \* the packet in its buffer; 0 when there is none
  buf_capacity,
  current_concentrator_time,
  requested,        \* history: the calls of jit_enqueue
  lost              \* history: packets pop_downlink removed and refused

hubVars == <<public, answer, replies>>
queueVars == <<enqueued, downlink_queue>>
downVars == <<loop, packet, buf_capacity, current_concentrator_time, requested, lost>>
downlinkVars == <<now, hubVars, queueVars, downVars>>

\* The packet enqueued as number id; a packet is known by that number.
Size(id) == enqueued[id].size

\* current_concentrator_time has no initialiser: it may have any value.
DownlinkInit ==
  /\ now = 0
  /\ public = FALSE /\ answer = [n \in 1 .. Len(Commands) |-> ""] /\ replies = 0
  /\ enqueued = <<>> /\ downlink_queue = <<>>
  /\ loop = "outer" /\ packet = 0 /\ buf_capacity = BUFFER
  /\ current_concentrator_time \in 0 .. MaxTime
  /\ requested = <<>> /\ lost = {}

Tick ==
  /\ now < MaxTime
  /\ now' = now + 1
  /\ UNCHANGED <<hubVars, queueVars, downVars>>

-----------------------------------------------------------------------------
(* The hub                                                                 *)

\* hub_init_and_setup, which main calls after it connected to the broker.
Begin ==
  /\ ~public
  /\ public' = TRUE
  /\ UNCHANGED <<now, answer, replies, queueVars, downVars>>

\* prepareForSending: data_length is a uint8_t.
Prepared(length) == length > 0 /\ length % 256 <= MAX_DATA_LENGTH

\* Mutant: the newest packet is served first.
cdp_bridge_enqueue_downlink_ext_Front(length, command) ==
  /\ enqueued' = Append(enqueued, [size |-> HEADER_LENGTH + length, command |-> command])
  /\ downlink_queue' = <<Len(enqueued) + 1>> \o downlink_queue

cdp_bridge_enqueue_downlink_ext(length, command) ==
  /\ enqueued' = Append(enqueued, [size |-> HEADER_LENGTH + length, command |-> command])
  /\ downlink_queue' = Append(downlink_queue, Len(enqueued) + 1)

\* What Duck::sendData returns.  Before begin() the packet is dropped, and that
\* is no error.
sendData(c) ==
  IF c.topic < MAX_RESERVED THEN "TOPIC_INVALID"
  ELSE IF public /\ ~Prepared(c.length) THEN "SIZE_INVALID"
  ELSE "NONE"

hub_send_data(c) == IF c.length \in 1 .. MaxCommand THEN sendData(c) ELSE "INVALID"

topicAllowed(c) == c.topic >= FirstPublic \/ c.topic = ENCRYPTED_CMD

\* mqtt_message_arrived: a command is forwarded and answered, or ignored.
CommandArrives(n) ==
  LET c == Commands[n]
      result == IF ~topicAllowed(c) THEN "ignored"
                ELSE IF hub_send_data(c) = "NONE" THEN "success" ELSE "error"
  IN  /\ answer[n] = "" /\ \A m \in 1 .. n - 1 : answer[m] # ""
      /\ answer' = [answer EXCEPT ![n] = result]
      /\ IF result = "success" /\ public
         THEN cdp_bridge_enqueue_downlink_ext(c.length, n)
         ELSE UNCHANGED queueVars
      /\ UNCHANGED <<now, public, replies, downVars>>

\* sendReservedTopicData: a pong or a route response.
Reply ==
  /\ public /\ replies < MaxReplies
  /\ replies' = replies + 1
  /\ \E length \in ReplyLengths : cdp_bridge_enqueue_downlink_ext(length, 0)
  /\ UNCHANGED <<now, public, answer, downVars>>

-----------------------------------------------------------------------------
(* thread_down                                                             *)

\* cdp_bridge_pop_downlink: the packet leaves the queue whether it fits or not.
Fits == downlink_queue # <<>> /\ Size(Head(downlink_queue)) <= buf_capacity

PopTooSmall(next) ==
  /\ downlink_queue # <<>> /\ ~Fits
  /\ lost' = lost \cup {Head(downlink_queue)} /\ downlink_queue' = Tail(downlink_queue)
  /\ buf_capacity' = 0
  /\ loop' = next
  /\ UNCHANGED <<packet, current_concentrator_time, requested>>

PopEmpty(next) ==
  /\ downlink_queue = <<>>
  /\ loop' = next
  /\ UNCHANGED <<downlink_queue, packet, buf_capacity, current_concentrator_time,
                 requested, lost>>

\* The outer loop enqueues at once, with the time it last happened to read.
PopOuter ==
  /\ Fits
  /\ downlink_queue' = Tail(downlink_queue)
  /\ requested' = Append(requested, [packet |-> Head(downlink_queue), at |-> now,
                                     time |-> current_concentrator_time])
  /\ buf_capacity' = BUFFER
  /\ loop' = "inner"
  /\ UNCHANGED <<packet, current_concentrator_time, lost>>

\* The inner loop first sleeps 500 ms.
PopInner ==
  /\ Fits
  /\ packet' = Head(downlink_queue) /\ downlink_queue' = Tail(downlink_queue)
  /\ buf_capacity' = Size(packet')
  /\ loop' = "delay"
  /\ UNCHANGED <<current_concentrator_time, requested, lost>>

\* main creates thread_down after hub_init_and_setup.
Outer ==
  /\ public /\ loop = "outer"
  /\ PopOuter \/ PopTooSmall("inner") \/ PopEmpty("inner")
  /\ UNCHANGED <<now, hubVars, enqueued>>

\* Mutant: packets are left to the outer loop.
Inner_NoPop ==
  /\ loop = "inner"
  /\ loop' = "pace"
  /\ UNCHANGED <<now, hubVars, queueVars, packet, buf_capacity,
                 current_concentrator_time, requested, lost>>

Inner ==
  /\ loop = "inner"
  /\ PopInner \/ PopTooSmall("pace") \/ PopEmpty("pace")
  /\ UNCHANGED <<now, hubVars, enqueued>>

\* A beacon to place, when there is a GPS reference, is a reason to read the
\* time.
PlaceBeacon ==
  /\ loop = "inner"
  /\ current_concentrator_time' = now
  /\ UNCHANGED <<now, hubVars, queueVars, loop, packet, buf_capacity, requested, lost>>

\* Mutant: buf_capacity is not reset.
InnerEnqueue_NoReset ==
  /\ loop = "delay"
  /\ current_concentrator_time' = now
  /\ requested' = Append(requested, [packet |-> packet, at |-> now, time |-> now])
  /\ packet' = 0 /\ loop' = "pace"
  /\ UNCHANGED <<now, hubVars, queueVars, buf_capacity, lost>>

InnerEnqueue ==
  /\ loop = "delay"
  /\ current_concentrator_time' = now
  /\ requested' = Append(requested, [packet |-> packet, at |-> now, time |-> now])
  /\ packet' = 0 /\ buf_capacity' = BUFFER /\ loop' = "pace"
  /\ UNCHANGED <<now, hubVars, queueVars, lost>>

\* wait_ms; the inner loop ends when keepalive_time is over.
Pace ==
  /\ loop = "pace"
  /\ loop' \in {"inner", "outer"}
  /\ UNCHANGED <<now, hubVars, queueVars, packet, buf_capacity,
                 current_concentrator_time, requested, lost>>

ThreadDown == Outer \/ Inner \/ InnerEnqueue \/ Pace

DownlinkNext ==
  \/ Tick \/ Begin \/ Reply
  \/ \E n \in 1 .. Len(Commands) : CommandArrives(n)
  \/ ThreadDown \/ PlaceBeacon

DownlinkSpec == DownlinkInit /\ [][DownlinkNext]_downlinkVars

\* thread_down keeps running.
FairDownlinkSpec == DownlinkSpec /\ WF_downlinkVars(ThreadDown)

-----------------------------------------------------------------------------
InSeq(s) == {s[i] : i \in 1 .. Len(s)}

Ids == 1 .. Len(enqueued)
RequestedIds == [i \in 1 .. Len(requested) |-> requested[i].packet]

\* The state is well formed; the capacity in the buffer is never more than the
\* buffer, and never less than the packet in it.
DownlinkTypeOK ==
  /\ now \in 0 .. MaxTime /\ current_concentrator_time \in 0 .. MaxTime
  /\ public \in BOOLEAN /\ replies \in 0 .. MaxReplies
  /\ answer \in [1 .. Len(Commands) -> {"", "success", "error", "ignored"}]
  /\ enqueued \in Seq([size : Nat, command : 0 .. Len(Commands)])
  /\ downlink_queue \in Seq(Ids)
  /\ loop \in {"outer", "inner", "delay", "pace"}
  /\ packet \in 0 .. Len(enqueued) /\ (packet # 0 <=> loop = "delay")
  /\ buf_capacity \in 0 .. BUFFER /\ (packet # 0 => buf_capacity = Size(packet))
  /\ requested \in Seq([packet : Ids, at : 0 .. MaxTime, time : 0 .. MaxTime])
  /\ lost \subseteq Ids

\* Whichever of its two loops takes a packet, thread_down hands packets to
\* jit_enqueue in the order in which the hub sent them, and each one once.
SentInOrder ==
  LET way == RequestedIds \o (IF packet = 0 THEN <<>> ELSE <<packet>>) \o downlink_queue
  IN  \A i, j \in 1 .. Len(way) : i < j => way[i] < way[j]

\* A packet the hub sent is waiting, in thread_down's hands, requested, or was
\* refused for its size.
NoneVanishes ==
  \A id \in Ids :
    id \in InSeq(downlink_queue) \cup {packet} \cup InSeq(RequestedIds) \cup lost

\* No packet is refused for its size before one came that is larger than the
\* buffer: buf_capacity is in and out, and is set back after every packet.
LossNeedsOversize ==
  \A id \in lost : \E big \in lost : big <= id /\ Size(big) > BUFFER

\* A packet on the bridge leaves it, however the two loops share the work.
BridgeIsEmptied ==
  \A id \in 1 .. Len(Commands) + MaxReplies :
    id \in InSeq(downlink_queue) ~> id \notin InSeq(downlink_queue)

\* "Reset buffer capacity for next call": only a packet that is itself larger
\* than the buffer is refused.
OnlyOversizeIsLost == \A id \in lost : Size(id) > BUFFER

\* No packet of the hub is mislaid between the bridge and the queue of the radio.
NoneMislaid == DownlinkTypeOK /\ NoneVanishes /\ LossNeedsOversize
=============================================================================
