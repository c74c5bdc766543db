----------------------------- MODULE JitEmission ----------------------------
(***************************************************************************)
(* The JIT queue with the two threads that share it and the concentrator:  *)
(* thread_down (here: any requests for departure, class by class) puts     *)
(* packets in, thread_jit peeks, dequeues, reads the TX status and sends.  *)
(* The queue's mutex is released between jit_peek and jit_dequeue, the     *)
(* concentrator's between lgw_status and lgw_send.                         *)
(*                                                                         *)
(* Time is the concentrator's counter, in ticks.                           *)
(***************************************************************************)
EXTENDS JitQueue

CONSTANTS
  Offsets,     \* Offsets[type]: the departures requested for a packet type,
               \* relative to the counter (class C: any, it is computed)
  Lag,         \* ticks between thread_down's reading of the counter and its use
  Timely,      \* TRUE: thread_jit serves a packet before its departure time
  Paced        \* TRUE: requests wait while a packet is beyond the queue, on its
               \* way to the modem or in it

ASSUME EmissionAssumption ==
  /\ DOMAIN Offsets \subseteq PktType
  /\ \A type \in DOMAIN Offsets : Offsets[type] \subseteq Counter
  /\ Lag \in Nat /\ Timely \in BOOLEAN /\ Paced \in BOOLEAN

VARIABLES
  time,    \* the counter
  phase,   \* thread_jit: "peek", "dequeue", "status", "send"
  index,   \* its pkt_index
  pkt,     \* its pkt
  tx,      \* the TX modem: status and the packet it is about
  lost     \* history: how accepted packets failed to be sent

emissionVars == <<nodes, num_beacon, time, phase, index, pkt, tx, lost>>

NoPkt == [type |-> "none", count |-> 0, pre |-> 0, post |-> 0]

Free == [status |-> "TX_FREE", pkt |-> NoPkt]

Loss == {"outdated", "emitting", "overwritten"} \X PktType

EmissionInit ==
  /\ JitInit
  /\ time \in Counter
  /\ phase = "peek" /\ index = -1 /\ pkt = NoPkt
  /\ tx = Free
  /\ lost = {}

\* thread_down hands a packet to jit_enqueue, with a counter value it read up to
\* Lag ticks ago.
Request ==
  /\ Paced => phase \in {"peek", "dequeue"} /\ tx = Free
  /\ \E type \in DOMAIN Offsets, toa \in TimeOnAir, lag \in 0 .. Lag :
       \E off \in Offsets[type] :
         LET t == Sub(time, lag)
         IN  jit_enqueue(t, NewNode(t, type, (t + off) % W, toa))
  /\ UNCHANGED <<time, phase, index, pkt, tx, lost>>

\* thread_jit: lgw_get_instcnt and jit_peek.
Peek ==
  /\ phase = "peek" /\ nodes # {}
  /\ jit_peek(time)
  /\ index' = pkt_idx(time)
  /\ phase' = IF pkt_idx(time) > -1 THEN "dequeue" ELSE "peek"
  /\ lost' = lost \cup {<<"outdated", n.type>> : n \in PeekDropped(time)}
  /\ UNCHANGED <<time, pkt, tx>>

Dequeue ==
  /\ phase = "dequeue"
  /\ jit_dequeue(index)
  /\ pkt' = CHOOSE n \in nodes : n \notin nodes'
  /\ phase' = "status" /\ index' = -1
  /\ UNCHANGED <<time, tx, lost>>

\* lgw_status: a packet that finds the modem emitting is dropped; a failing
\* lgw_status does not stop it.
Status ==
  /\ phase = "status"
  /\ \/ /\ tx.status = "TX_EMITTING"
        /\ phase' = "peek" /\ pkt' = NoPkt
        /\ lost' = lost \cup {<<"emitting", pkt.type>>}
     \/ /\ tx.status # "TX_EMITTING"
        /\ phase' = "send" /\ UNCHANGED <<pkt, lost>>
     \/ /\ phase' = "send" /\ UNCHANGED <<pkt, lost>>
  /\ UNCHANGED <<nodes, num_beacon, time, index, tx>>

\* lgw_send programs the modem, whatever it was about to send before, or fails.
Send ==
  /\ phase = "send"
  /\ \/ /\ tx' = [status |-> "TX_SCHEDULED", pkt |-> pkt]
        /\ lost' = IF tx.status = "TX_FREE" THEN lost
                   ELSE lost \cup {<<"overwritten", tx.pkt.type>>}
     \/ UNCHANGED <<tx, lost>>
  /\ phase' = "peek" /\ pkt' = NoPkt
  /\ UNCHANGED <<nodes, num_beacon, time, index>>

\* A packet thread_jit has to serve before the counter moves on: it polls every
\* 10 ms and a packet is due for TX_JIT_DELAY (40 ms).
Urgent ==
  \E p \in nodes \cup ({pkt} \ {NoPkt}) : Sub(p.count, time) <= TX_START_DELAY + 1

\* The counter advances; the modem starts TX_START_DELAY ahead of the timestamp
\* and is free again after the time on air.
Tick ==
  /\ Timely => ~Urgent
  /\ time' = (time + 1) % W
  /\ tx' = CASE tx.status = "TX_SCHEDULED" /\ Sub(tx.pkt.count, time') = TX_START_DELAY
                  -> [tx EXCEPT !.status = "TX_EMITTING"]
             [] tx.status = "TX_EMITTING" /\ Sub(time', tx.pkt.count) = tx.pkt.post
                  -> Free
             [] OTHER -> tx
  /\ UNCHANGED <<nodes, num_beacon, phase, index, pkt, lost>>

EmissionNext == Request \/ Peek \/ Dequeue \/ Status \/ Send \/ Tick

EmissionSpec == EmissionInit /\ [][EmissionNext]_emissionVars

-----------------------------------------------------------------------------
\* The state is well formed: in particular thread_jit's index is one of the
\* array's, and the array holds no more than JIT_QUEUE_MAX packets.
EmissionTypeOK ==
  /\ JitTypeOK
  /\ time \in Counter
  /\ phase \in {"peek", "dequeue", "status", "send"}
  /\ index \in -1 .. JIT_QUEUE_MAX - 1
  /\ pkt \in Node \cup {NoPkt}
  /\ tx.status \in {"TX_FREE", "TX_SCHEDULED", "TX_EMITTING"}
  /\ lost \subseteq Loss

\* Once a packet is queued, it is sent over the air (jitqueue.h): no packet is
\* overwritten in the modem, meets the modem emitting or outlives its time in
\* the queue.  Only lgw_send itself may fail.
QueuedIsSent == lost = {}

\* A class C packet finds a slot: jit_enqueue refuses it only when the array is
\* full, and the slot lies ahead of the counter.
ClassCPlaced ==
  \A toa \in TimeOnAir :
    LET p == NewNode(time, "CLASS_C", 0, toa)
    IN  /\ jit_error(time, p) \in {"OK", "FULL"}
        /\ jit_error(time, p) = "OK" => Sub(p.count, time) < W \div 2

\* jit_enqueue accepts no packet whose departure time has already passed
\* ("criteria_1: is it already too late to send this packet").
AcceptedIsAhead ==
  [][ \A n \in nodes' \ nodes : Sub(n.count, time) < W \div 2 ]_nodes

\* jit_peek hands over the packet that departs first when one is due.
PeekFindsDue ==
  [][ Peek =>
        LET due == {n \in nodes : Sub(n.count, time) < TX_JIT_DELAY}
        IN  due # {} =>
              /\ phase' = "dequeue"
              /\ \E n \in due :
                   /\ \A m \in due : Sub(n.count, time) <= Sub(m.count, time)
                   /\ index' = Index(n, nodes') ]_emissionVars

\* The packet that thread_jit dequeues is the one it peeked: thread_down, which
\* may enqueue between the two calls, does not shift it to another index.
DequeuesDue ==
  phase \in {"status", "send"} => Sub(pkt.count, time) < TX_JIT_DELAY

\* Every packet that jit_enqueue accepted leaves through the modem at its time,
\* with the state of thread_jit and of the queue well formed on the way.
EmissionRight == EmissionTypeOK /\ QueuedIsSent /\ ClassCPlaced /\ DequeuesDue

\* What each call on the queue does to it: a packet enters ahead of its time, and
\* the one that departs first is handed over when it is due.
QueueStepsRight == PeekFindsDue /\ AcceptedIsAhead

-----------------------------------------------------------------------------
\* Half of the range of the counter.
Half == W \div 2

\* From the departure of a packet to that of a class C packet behind it, at most.
Step(air) == air + TX_START_DELAY + 2 * TX_JIT_DELAY + TX_MARGIN_DELAY

\* The timing that EmissionRight and QueueStepsRight rest on, for requests up to far ahead
\* and air times up to air: class A, which ignores the guard before a beacon, is not asked
\* for, and neither is a beacon in the past; thread_down uses the time it read within the
\* delays that jit_enqueue adds; a full queue of packets one behind the other ends within
\* the largest advance, and that within half the range of the counter.
Timing(far, air) ==
  /\ TX_START_DELAY >= 1 /\ TX_JIT_DELAY > TX_START_DELAY + TX_MARGIN_DELAY
  /\ Lag <= TX_START_DELAY + TX_MARGIN_DELAY
  /\ BEACON_RESERVED <= air /\ \A toa \in TimeOnAir : toa <= air
  /\ "CLASS_A" \notin DOMAIN Offsets
  /\ \A type \in DOMAIN Offsets \ {"CLASS_C"} : \A off \in Offsets[type] :
       off <= far \/ (type = "CLASS_B" /\ off > TX_MAX_ADVANCE_DELAY)
  /\ JIT_QUEUE_MAX >= 1 /\ Step(air) + TX_JIT_DELAY <= far
  /\ far + (JIT_QUEUE_MAX - 1) * Step(air) + Lag < TX_MAX_ADVANCE_DELAY
  /\ TX_MAX_ADVANCE_DELAY <= Half
  /\ 2 * Step(air) + BEACON_GUARD + Lag < Half
=============================================================================
