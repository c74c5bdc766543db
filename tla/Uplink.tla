------------------------------- MODULE Uplink -------------------------------
(***************************************************************************)
(* A packet's way from the concentrator to the hub: thread_up fetches      *)
(* batches and hands each packet to the bridge, whose callback pushes it   *)
(* on uplink_queue and sets the radio's receive flag; thread_duck polls    *)
(* flag and queue, takes one packet per turn, clears the flag when it      *)
(* finds the queue empty and checks the packet.  The queue has a mutex,    *)
(* the flag has none.                                                      *)
(*                                                                         *)
(* Packets are numbered in the order in which the concentrator received    *)
(* them.                                                                   *)
(***************************************************************************)
EXTENDS Integers, Sequences, FiniteSets

CONSTANTS
  Kind,             \* Kind[n]: "good", "malformed" (too short or a bad data
                    \* CRC) or "invalid" (size or coding rate) for packet n
  NB_PKT_MAX,       \* packets per fetch
  MAX_QUEUE_SIZE,   \* of uplink_queue
  MAX_CONSECUTIVE_RX_ERRORS

ASSUME UplinkAssumption ==
  /\ Kind \in Seq({"good", "malformed", "invalid"})
  /\ NB_PKT_MAX \in Nat \ {0} /\ MAX_QUEUE_SIZE \in Nat \ {0}
  /\ MAX_CONSECUTIVE_RX_ERRORS \in Nat \ {0}

VARIABLES
  received,      \* packets thread_up has fetched so far
  up,            \* thread_up: "fetch", "handle", "flag", "exited"
  rxpkt,         \* the packets of its batch it has not handled yet
  rx_errors,     \* consecutive_rx_errors
  uplink_queue,
  receivedFlag,
  duck,          \* thread_duck: "poll", "pop", "test", "clear", "check"
  packet,        \* the packet it took; 0 when there is none
  handled,       \* history: the packets that reached the hub, in order
  dropped        \* history: packets the full queue dropped

upVars == <<up, rxpkt, rx_errors>>
duckVars == <<duck, packet, handled>>
uplinkVars == <<received, upVars, uplink_queue, receivedFlag, duckVars, dropped>>

InSeq(s) == {s[i] : i \in 1 .. Len(s)}

UplinkInit ==
  /\ received = 0
  /\ up = "fetch" /\ rxpkt = <<>> /\ rx_errors = 0
  /\ uplink_queue = <<>> /\ receivedFlag = FALSE
  /\ duck = "poll" /\ packet = 0 /\ handled = <<>>
  /\ dropped = {}

-----------------------------------------------------------------------------
(* thread_up                                                               *)

\* lgw_receive: the next packets, possibly none.
Fetch ==
  /\ up = "fetch"
  /\ \E n \in 0 .. NB_PKT_MAX :
       /\ received + n <= Len(Kind)
       /\ received' = received + n
       /\ rxpkt' = [i \in 1 .. n |-> received + i]
  /\ rx_errors' = 0
  /\ up' = "handle"
  /\ UNCHANGED <<uplink_queue, receivedFlag, duckVars, dropped>>

\* lgw_receive fails; the process exits when it does so too often in a row.
FetchFails ==
  /\ up = "fetch"
  /\ rx_errors' = rx_errors + 1
  /\ up' = IF rx_errors + 1 >= MAX_CONSECUTIVE_RX_ERRORS THEN "exited" ELSE "fetch"
  /\ UNCHANGED <<received, rxpkt, uplink_queue, receivedFlag, duckVars, dropped>>

BatchDone ==
  /\ up = "handle" /\ rxpkt = <<>>
  /\ up' = "fetch"
  /\ UNCHANGED <<received, rxpkt, rx_errors, uplink_queue, receivedFlag, duckVars, dropped>>

\* Mutant: break where the loop continues.
SkipInvalid_Breaks ==
  /\ up = "handle" /\ rxpkt # <<>> /\ Kind[Head(rxpkt)] = "invalid"
  /\ rxpkt' = <<>>
  /\ UNCHANGED <<received, up, rx_errors, uplink_queue, receivedFlag, duckVars, dropped>>

\* Packets of an impossible size or coding rate are skipped.
SkipInvalid ==
  /\ up = "handle" /\ rxpkt # <<>> /\ Kind[Head(rxpkt)] = "invalid"
  /\ rxpkt' = Tail(rxpkt)
  /\ UNCHANGED <<received, up, rx_errors, uplink_queue, receivedFlag, duckVars, dropped>>

\* uplink_queue with n on it: a full queue first drops its oldest packet.
push_uplink_packet(n) ==
  IF Len(uplink_queue) >= MAX_QUEUE_SIZE THEN Append(Tail(uplink_queue), n)
                                         ELSE Append(uplink_queue, n)

\* cdp_bridge_handle_uplink calls duck_rx_from_forwarder_cb: push the packet ...
cdp_bridge_handle_uplink ==
  /\ up = "handle" /\ rxpkt # <<>> /\ Kind[Head(rxpkt)] # "invalid"
  /\ uplink_queue' = push_uplink_packet(Head(rxpkt))
  /\ dropped' = dropped \cup (InSeq(uplink_queue) \ InSeq(uplink_queue'))
  /\ up' = "flag" /\ rxpkt' = Tail(rxpkt)
  /\ UNCHANGED <<received, rx_errors, receivedFlag, duckVars>>

\* ... then set the flag.
SetReceiveFlag ==
  /\ up = "flag"
  /\ receivedFlag' = TRUE /\ up' = "handle"
  /\ UNCHANGED <<received, rxpkt, rx_errors, uplink_queue, duckVars, dropped>>

ThreadUp ==
  Fetch \/ FetchFails \/ BatchDone \/ SkipInvalid
  \/ cdp_bridge_handle_uplink \/ SetReceiveFlag

-----------------------------------------------------------------------------
(* thread_duck                                                             *)

Alive == up # "exited"

\* Mutant: only the flag is looked at, as in Duck::main.
processPackets_FlagOnly ==
  /\ Alive /\ duck = "poll"
  /\ receivedFlag
  /\ duck' = "pop"
  /\ UNCHANGED <<received, upVars, uplink_queue, receivedFlag, packet, handled, dropped>>

processPackets ==
  /\ Alive /\ duck = "poll"
  /\ receivedFlag \/ uplink_queue # <<>>
  /\ duck' = "pop"
  /\ UNCHANGED <<received, upVars, uplink_queue, receivedFlag, packet, handled, dropped>>

\* Mutant: the newest packet is taken first.
pop_uplink_packet_Newest ==
  /\ Alive /\ duck = "pop"
  /\ IF uplink_queue = <<>>
     THEN duck' = "poll" /\ UNCHANGED <<uplink_queue, packet>>
     ELSE /\ packet' = uplink_queue[Len(uplink_queue)]
          /\ uplink_queue' = SubSeq(uplink_queue, 1, Len(uplink_queue) - 1)
          /\ duck' = "test"
  /\ UNCHANGED <<received, upVars, receivedFlag, handled, dropped>>

\* readReceivedData: no packet is an error that leaves the flag as it is.
pop_uplink_packet ==
  /\ Alive /\ duck = "pop"
  /\ IF uplink_queue = <<>>
     THEN duck' = "poll" /\ UNCHANGED <<uplink_queue, packet>>
     ELSE /\ packet' = Head(uplink_queue) /\ uplink_queue' = Tail(uplink_queue)
          /\ duck' = "test"
  /\ UNCHANGED <<received, upVars, receivedFlag, handled, dropped>>

\* The flag is cleared if has_uplink_packet said no, a moment before.
has_uplink_packet ==
  /\ Alive /\ duck = "test"
  /\ duck' = IF uplink_queue = <<>> THEN "clear" ELSE "check"
  /\ UNCHANGED <<received, upVars, uplink_queue, receivedFlag, packet, handled, dropped>>

ClearReceiveFlag ==
  /\ Alive /\ duck = "clear"
  /\ receivedFlag' = FALSE /\ duck' = "check"
  /\ UNCHANGED <<received, upVars, uplink_queue, packet, handled, dropped>>

\* The length and the CRC of the data decide whether the hub sees the packet.
CheckPacket ==
  /\ Alive /\ duck = "check"
  /\ handled' = IF Kind[packet] = "good" THEN Append(handled, packet) ELSE handled
  /\ packet' = 0 /\ duck' = "poll"
  /\ UNCHANGED <<received, upVars, uplink_queue, receivedFlag, dropped>>

ThreadDuck ==
  \/ processPackets \/ pop_uplink_packet \/ has_uplink_packet
  \/ ClearReceiveFlag \/ CheckPacket

UplinkNext == ThreadUp \/ ThreadDuck

UplinkSpec == UplinkInit /\ [][UplinkNext]_uplinkVars

\* Both threads keep running; a fetch may fail at any time.
FairUplinkSpec == UplinkSpec /\ WF_uplinkVars(ThreadUp) /\ WF_uplinkVars(ThreadDuck)

-----------------------------------------------------------------------------
Packets == 1 .. Len(Kind)

\* The state is well formed; the queue never exceeds its bound.
UplinkTypeOK ==
  /\ received \in 0 .. Len(Kind)
  /\ up \in {"fetch", "handle", "flag", "exited"} /\ rxpkt \in Seq(Packets)
  /\ rx_errors \in 0 .. MAX_CONSECUTIVE_RX_ERRORS
  /\ uplink_queue \in Seq(Packets) /\ Len(uplink_queue) <= MAX_QUEUE_SIZE
  /\ receivedFlag \in BOOLEAN
  /\ duck \in {"poll", "pop", "test", "clear", "check"} /\ packet \in 0 .. Len(Kind)
  /\ handled \in Seq(Packets) /\ dropped \subseteq Packets

\* Everything between the concentrator and the hub, oldest first, is in the
\* order of reception, and the hub gets the packets in that order, whatever the
\* queue drops and however the two threads interleave.
InOrder ==
  LET way == handled \o (IF packet = 0 \/ Kind[packet] # "good" THEN <<>> ELSE <<packet>>)
             \o uplink_queue \o rxpkt
  IN  \A i, j \in 1 .. Len(way) : i < j => way[i] < way[j]

\* Every good packet the concentrator received is on its way, has reached the
\* hub, or was dropped by a queue that was full.
NoneForgotten ==
  \A n \in 1 .. received :
    Kind[n] = "good" =>
      \/ n \in InSeq(rxpkt) \cup InSeq(uplink_queue) \cup InSeq(handled) \cup {packet}
      \/ n \in dropped

\* A packet in the queue leaves it, even when its flag was cleared by mistake:
\* the poll looks at the queue as well.
QueueIsServed ==
  \A n \in Packets : n \in InSeq(uplink_queue) ~> (n \notin InSeq(uplink_queue) \/ ~Alive)

\* The queue keeps within its bound, and nothing but the bound costs a packet.
PacketsKept == UplinkTypeOK /\ NoneForgotten
=============================================================================
