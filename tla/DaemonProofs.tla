---------------------------- MODULE DaemonProofs ----------------------------
(***************************************************************************)
(* What holds of the daemon's threads for any traffic, any sizes and any   *)
(* number of them: packets reach the hub in the order of reception, only a *)
(* full queue costs one, the threads never wait for each other in a        *)
(* circle, and main has the concentrator to itself when it stops it; a     *)
(* time goes to the counter and back unharmed, beacons are only queued     *)
(* from a right time reference, and every beacon sent is sent on time.     *)
(***************************************************************************)
EXTENDS Uplink, BridgeLocks, Daemon, GpsTime, GpsBeacon, SequenceTheorems, FiniteSetTheorems,
        TLAPS

-----------------------------------------------------------------------------
(* Sequences of increasing numbers                                         *)

Increasing(s) == \A i, j \in 1 .. Len(s) : i < j => s[i] < s[j]

Below(S, T) == \A a \in S, b \in T : a < b

\* The elements of a sequence that grows at its end or loses its head.
LEMMA AppendElements ==
  ASSUME NEW S, NEW s \in Seq(S), NEW e \in S
  PROVE  InSeq(Append(s, e)) = InSeq(s) \cup {e}
  BY AppendProperties, LenProperties DEF InSeq

LEMMA TailElements ==
  ASSUME NEW S, NEW s \in Seq(S), s # <<>>
  PROVE  /\ Head(s) \in InSeq(s)
         /\ InSeq(s) = {Head(s)} \cup InSeq(Tail(s))
<1>1. Len(s) \in Nat \ {0} /\ Head(s) = s[1]
  BY EmptySeq
<1>2. Len(Tail(s)) = Len(s) - 1 /\ \A i \in 1 .. Len(s) - 1 : Tail(s)[i] = s[i + 1]
  BY HeadTailProperties
<1>3. ASSUME NEW i \in 1 .. Len(s), i # 1
      PROVE  s[i] \in InSeq(Tail(s))
  <2>1. i - 1 \in 1 .. Len(Tail(s)) /\ Tail(s)[i - 1] = s[i]
    BY <1>1, <1>2, <1>3
  <2> QED
    BY <2>1 DEF InSeq
<1>4. \A i \in 1 .. Len(Tail(s)) : i + 1 \in 1 .. Len(s) /\ Tail(s)[i] = s[i + 1]
  BY <1>1, <1>2
<1> QED
  BY <1>1, <1>3, <1>4 DEF InSeq

\* An increasing sequence stays so when a larger element is added ...
LEMMA AppendIncreasing ==
  ASSUME NEW s \in Seq(Nat), NEW e \in Nat, Increasing(s), Below(InSeq(s), {e})
  PROVE  Increasing(Append(s, e))
<1>1. /\ Len(Append(s, e)) = Len(s) + 1 /\ Append(s, e)[Len(s) + 1] = e
      /\ \A i \in 1 .. Len(s) : Append(s, e)[i] = s[i]
  BY AppendProperties
<1>2. Len(s) \in Nat /\ \A i \in 1 .. Len(s) : s[i] < e
  BY LenProperties DEF Below, InSeq
<1> QED
  BY <1>1, <1>2 DEF Increasing

\* ... or its head is taken, which is below all that remains.
LEMMA TailIncreasing ==
  ASSUME NEW s \in Seq(Nat), s # <<>>, Increasing(s)
  PROVE  /\ Increasing(Tail(s))
         /\ Below({Head(s)}, InSeq(Tail(s)))
<1>1. Len(s) \in Nat \ {0} /\ Head(s) = s[1]
  BY EmptySeq
<1>2. Len(Tail(s)) = Len(s) - 1 /\ \A i \in 1 .. Len(s) - 1 : Tail(s)[i] = s[i + 1]
  BY HeadTailProperties
<1>3. \A i \in 1 .. Len(Tail(s)) : i + 1 \in 1 .. Len(s) /\ Tail(s)[i] = s[i + 1]
  BY <1>1, <1>2
<1>4. \A i \in 1 .. Len(Tail(s)) : s[1] < s[i + 1]
  BY <1>1, <1>3 DEF Increasing
<1> QED
  BY <1>1, <1>3, <1>4 DEF Increasing, Below, InSeq

\* Two increasing sequences, the first below the second, make one.
LEMMA ConcatIncreasing ==
  ASSUME NEW s \in Seq(Nat), NEW t \in Seq(Nat),
         Increasing(s), Increasing(t), Below(InSeq(s), InSeq(t))
  PROVE  /\ s \o t \in Seq(Nat) /\ Increasing(s \o t)
         /\ InSeq(s \o t) = InSeq(s) \cup InSeq(t)
<1>1. /\ s \o t \in Seq(Nat) /\ Len(s \o t) = Len(s) + Len(t)
      /\ \A i \in 1 .. Len(s) + Len(t) :
           (s \o t)[i] = IF i <= Len(s) THEN s[i] ELSE t[i - Len(s)]
  BY ConcatProperties
<1>2. Len(s) \in Nat /\ Len(t) \in Nat
  BY LenProperties
<1>3. ASSUME NEW i \in 1 .. Len(s \o t), NEW j \in 1 .. Len(s \o t), i < j
      PROVE  (s \o t)[i] < (s \o t)[j]
  <2>1. CASE j <= Len(s)
    BY <1>1, <1>2, <1>3, <2>1 DEF Increasing
  <2>2. CASE i <= Len(s) /\ j > Len(s)
    <3>1. i \in 1 .. Len(s) /\ j - Len(s) \in 1 .. Len(t)
      BY <1>1, <1>2, <2>2
    <3> QED
      BY <1>1, <1>2, <2>2, <3>1, SMTT(30) DEF Below, InSeq
  <2>3. CASE i > Len(s)
    <3>1. /\ i - Len(s) \in 1 .. Len(t) /\ j - Len(s) \in 1 .. Len(t)
          /\ i - Len(s) < j - Len(s) /\ j > Len(s)
      BY <1>1, <1>2, <1>3, <2>3
    <3>2. (s \o t)[i] = t[i - Len(s)] /\ (s \o t)[j] = t[j - Len(s)]
      BY <1>1, <1>2, <2>3, <3>1
    <3> QED
      BY <3>1, <3>2 DEF Increasing
  <2> QED
    BY <1>2, <2>1, <2>2, <2>3, SMTT(30)
<1>4. InSeq(s \o t) = InSeq(s) \cup InSeq(t)
  <2>1. \A i \in 1 .. Len(s) : i \in 1 .. Len(s \o t) /\ (s \o t)[i] = s[i]
    BY <1>1, <1>2
  <2>2. \A i \in 1 .. Len(t) : Len(s) + i \in 1 .. Len(s \o t) /\ (s \o t)[Len(s) + i] = t[i]
    BY <1>1, <1>2
  <2>3. ASSUME NEW i \in 1 .. Len(s \o t)
        PROVE  (s \o t)[i] \in InSeq(s) \cup InSeq(t)
    <3>1. CASE i <= Len(s)
      BY <1>1, <1>2, <3>1 DEF InSeq
    <3>2. CASE i > Len(s)
      <4>1. i - Len(s) \in 1 .. Len(t) /\ (s \o t)[i] = t[i - Len(s)]
        BY <1>1, <1>2, <3>2
      <4> QED
        BY <4>1 DEF InSeq
    <3> QED
      BY <1>1, <1>2, <3>1, <3>2
  <2>4. InSeq(s) \subseteq InSeq(s \o t)
    BY <2>1 DEF InSeq
  <2>5. InSeq(t) \subseteq InSeq(s \o t)
    BY <2>2 DEF InSeq
  <2>6. InSeq(s \o t) \subseteq InSeq(s) \cup InSeq(t)
    BY <2>3 DEF InSeq
  <2> QED
    BY <2>4, <2>5, <2>6
<1> QED
  BY <1>1, <1>3, <1>4 DEF Increasing

-----------------------------------------------------------------------------
(* The uplink path                                                         *)

\* The type invariant, with what makes it inductive: thread_up that still runs
\* has errors to spare and fetches when its batch is handled, and thread_duck has
\* a packet exactly in the steps after the pop.
UplinkTypeInv ==
  /\ UplinkTypeOK
  /\ up # "exited" => rx_errors < MAX_CONSECUTIVE_RX_ERRORS
  /\ up = "fetch" => rxpkt = <<>>
  /\ packet # 0 <=> duck \in {"test", "clear", "check"}

LEMMA UplinkTypeStep ==
  ASSUME UplinkTypeInv, [UplinkNext]_uplinkVars
  PROVE  UplinkTypeInv'
<1> USE UplinkAssumption
<1>0. Len(Kind) \in Nat /\ Packets \subseteq Nat
  BY LenProperties DEF Packets
<1>1. CASE Fetch
  <2>1. PICK n \in 0 .. NB_PKT_MAX : /\ received + n <= Len(Kind)
                                     /\ received' = received + n
                                     /\ rxpkt' = [i \in 1 .. n |-> received + i]
    BY <1>1 DEF Fetch
  <2>2. received \in Nat /\ n \in Nat
    BY <1>0, <2>1 DEF UplinkTypeInv, UplinkTypeOK
  <2>3. \A i \in 1 .. n : received + i \in Packets
    BY <1>0, <2>1, <2>2 DEF Packets
  <2>4. rxpkt' \in Seq(Packets)
    BY <2>1, <2>2, <2>3
  <2>5. received' \in 0 .. Len(Kind)
    BY <1>0, <2>1, <2>2
  <2> QED
    BY <1>0, <1>1, <2>4, <2>5 DEF Fetch, duckVars, UplinkTypeInv, UplinkTypeOK, Packets
<1>2. CASE FetchFails
  BY <1>0, <1>2 DEF FetchFails, duckVars, UplinkTypeInv, UplinkTypeOK, Packets
<1>3. CASE BatchDone
  BY <1>3 DEF BatchDone, duckVars, UplinkTypeInv, UplinkTypeOK, Packets
<1>4. CASE SkipInvalid
  BY <1>4, HeadTailProperties DEF SkipInvalid, duckVars, UplinkTypeInv, UplinkTypeOK, Packets
<1>5. CASE cdp_bridge_handle_uplink
  <2>1. rxpkt # <<>> /\ rxpkt \in Seq(Packets) /\ uplink_queue \in Seq(Packets)
    BY <1>5 DEF cdp_bridge_handle_uplink, UplinkTypeInv, UplinkTypeOK
  <2>2. Head(rxpkt) \in Packets /\ Tail(rxpkt) \in Seq(Packets)
    BY <2>1, HeadTailProperties
  <2>3. /\ push_uplink_packet(Head(rxpkt)) \in Seq(Packets)
        /\ Len(push_uplink_packet(Head(rxpkt))) <= MAX_QUEUE_SIZE
    <3>1. CASE Len(uplink_queue) >= MAX_QUEUE_SIZE
      <4>1. uplink_queue # <<>>
        BY <3>1
      <4>2. Tail(uplink_queue) \in Seq(Packets) /\ Len(Tail(uplink_queue)) = Len(uplink_queue) - 1
        BY <2>1, <4>1, HeadTailProperties
      <4> QED
        BY <2>2, <3>1, <4>2, AppendProperties
           DEF push_uplink_packet, UplinkTypeInv, UplinkTypeOK
    <3>2. CASE Len(uplink_queue) < MAX_QUEUE_SIZE
      BY <2>1, <2>2, <3>2, AppendProperties DEF push_uplink_packet, UplinkTypeInv, UplinkTypeOK
    <3> QED
      BY <2>1, <3>1, <3>2, LenProperties
  <2>4. dropped' \subseteq Packets
    BY <1>5, <2>1 DEF cdp_bridge_handle_uplink, InSeq, UplinkTypeInv, UplinkTypeOK
  <2> QED
    BY <1>5, <2>2, <2>3, <2>4
       DEF cdp_bridge_handle_uplink, duckVars, UplinkTypeInv, UplinkTypeOK, Packets
<1>6. CASE SetReceiveFlag
  BY <1>6 DEF SetReceiveFlag, duckVars, UplinkTypeInv, UplinkTypeOK, Packets
<1>7. CASE processPackets
  BY <1>7 DEF processPackets, upVars, UplinkTypeInv, UplinkTypeOK, Packets
<1>8. CASE pop_uplink_packet
  <2>1. CASE uplink_queue = <<>>
    BY <1>8, <2>1 DEF pop_uplink_packet, upVars, UplinkTypeInv, UplinkTypeOK, Packets
  <2>2. CASE uplink_queue # <<>>
    <3>1. /\ Head(uplink_queue) \in Packets /\ Tail(uplink_queue) \in Seq(Packets)
          /\ Len(Tail(uplink_queue)) = Len(uplink_queue) - 1
      BY <2>2, HeadTailProperties DEF UplinkTypeInv, UplinkTypeOK
    <3>2. packet' \in Packets /\ uplink_queue' = Tail(uplink_queue) /\ duck' = "test"
      BY <1>8, <2>2, <3>1 DEF pop_uplink_packet
    <3>3. Len(uplink_queue') <= MAX_QUEUE_SIZE
      BY <3>1, <3>2, LenProperties DEF UplinkTypeInv, UplinkTypeOK
    <3>4. packet' \in 0 .. Len(Kind) /\ packet' # 0
      BY <1>0, <3>2 DEF Packets
    <3> QED
      BY <1>8, <3>1, <3>2, <3>3, <3>4
         DEF pop_uplink_packet, upVars, UplinkTypeInv, UplinkTypeOK, Packets
  <2> QED
    BY <2>1, <2>2
<1>9. CASE has_uplink_packet
  BY <1>9 DEF has_uplink_packet, upVars, UplinkTypeInv, UplinkTypeOK, Packets
<1>10. CASE ClearReceiveFlag
  BY <1>10 DEF ClearReceiveFlag, upVars, UplinkTypeInv, UplinkTypeOK, Packets
<1>11. CASE CheckPacket
  <2>1. packet \in Packets /\ handled \in Seq(Packets)
    BY <1>0, <1>11 DEF CheckPacket, UplinkTypeInv, UplinkTypeOK, Packets
  <2>2. handled' \in Seq(Packets)
    BY <1>11, <2>1, AppendProperties DEF CheckPacket
  <2> QED
    BY <1>0, <1>11, <2>2 DEF CheckPacket, upVars, UplinkTypeInv, UplinkTypeOK, Packets
<1>12. CASE UNCHANGED uplinkVars
  BY <1>12 DEF uplinkVars, upVars, duckVars, UplinkTypeInv, UplinkTypeOK, Packets
<1> QED
  BY <1>1, <1>2, <1>3, <1>4, <1>5, <1>6, <1>7, <1>8, <1>9, <1>10, <1>11, <1>12
     DEF UplinkNext, ThreadUp, ThreadDuck

\* Uplink's state is well formed in every reachable state.
LEMMA UplinkTypeCorrect == UplinkSpec => []UplinkTypeInv
<1>1. UplinkInit => UplinkTypeInv
  <2>1. /\ Len(Kind) \in Nat /\ MAX_QUEUE_SIZE \in Nat
        /\ MAX_CONSECUTIVE_RX_ERRORS \in Nat /\ 0 < MAX_CONSECUTIVE_RX_ERRORS
    BY UplinkAssumption, LenProperties
  <2>2. <<>> \in Seq(Packets) /\ Len(<<>>) = 0
    BY EmptySeq
  <2> SUFFICES ASSUME UplinkInit PROVE UplinkTypeInv
    OBVIOUS
  <2>3. UplinkTypeOK
    <3>1. /\ received \in 0 .. Len(Kind) /\ packet \in 0 .. Len(Kind)
          /\ rx_errors \in 0 .. MAX_CONSECUTIVE_RX_ERRORS
      BY <2>1 DEF UplinkInit
    <3>2. rxpkt \in Seq(Packets) /\ uplink_queue \in Seq(Packets) /\ handled \in Seq(Packets)
      BY <2>2 DEF UplinkInit
    <3>3. Len(uplink_queue) <= MAX_QUEUE_SIZE
      BY <2>1, <2>2 DEF UplinkInit
    <3> QED
      BY <3>1, <3>2, <3>3 DEF UplinkInit, UplinkTypeOK
  <2> QED
    BY <2>1, <2>3 DEF UplinkInit, UplinkTypeInv
<1>2. UplinkTypeInv /\ [UplinkNext]_uplinkVars => UplinkTypeInv'
  BY UplinkTypeStep
<1> QED
  BY <1>1, <1>2, PTL DEF UplinkSpec

\* The packet in thread_duck's hands.
Held == {packet} \ {0}

\* Everything on the way, of whatever kind, is in the order of reception: the
\* inductive form of InOrder, which leaves out the packet that is about to be
\* rejected and says nothing of what is still to come.
OrderInv ==
  /\ Increasing(handled) /\ Increasing(uplink_queue) /\ Increasing(rxpkt)
  /\ Below(InSeq(handled), Held \cup InSeq(uplink_queue) \cup InSeq(rxpkt))
  /\ Below(Held, InSeq(uplink_queue) \cup InSeq(rxpkt))
  /\ Below(InSeq(uplink_queue), InSeq(rxpkt))
  /\ \A n \in InSeq(handled) \cup Held \cup InSeq(uplink_queue) \cup InSeq(rxpkt) : n <= received

LEMMA OrderStep ==
  ASSUME UplinkTypeInv, OrderInv, [UplinkNext]_uplinkVars
  PROVE  OrderInv'
<1> USE UplinkAssumption
<1>0. /\ Len(Kind) \in Nat /\ received \in Nat
      /\ handled \in Seq(Nat) /\ uplink_queue \in Seq(Nat) /\ rxpkt \in Seq(Nat)
      /\ InSeq(handled) \subseteq Nat /\ InSeq(uplink_queue) \subseteq Nat /\ InSeq(rxpkt) \subseteq Nat
      /\ packet \in Nat
  <2>1. Len(Kind) \in Nat /\ Packets \subseteq Nat
    BY LenProperties DEF Packets
  <2>2. handled \in Seq(Nat) /\ uplink_queue \in Seq(Nat) /\ rxpkt \in Seq(Nat)
    BY <2>1, SeqMonotonic DEF UplinkTypeInv, UplinkTypeOK
  <2> QED
    BY <2>1, <2>2, ElementOfSeq, SMTT(30) DEF UplinkTypeInv, UplinkTypeOK, InSeq
<1>1. CASE Fetch
  <2>1. PICK n \in 0 .. NB_PKT_MAX : /\ received' = received + n
                                     /\ rxpkt' = [i \in 1 .. n |-> received + i]
    BY <1>1 DEF Fetch
  <2>2. n \in Nat /\ Len(rxpkt') = n /\ \A i \in 1 .. n : rxpkt'[i] = received + i
    BY <2>1
  <2>3. Increasing(rxpkt')
    BY <1>0, <2>2 DEF Increasing
  <2>4. \A k \in InSeq(rxpkt') : k > received /\ k <= received' /\ k \in Nat
    BY <1>0, <2>1, <2>2 DEF InSeq
  <2>5. received <= received' /\ received' \in Nat
    BY <1>0, <2>1, <2>2
  <2>6. UNCHANGED <<handled, uplink_queue, packet>>
    BY <1>1 DEF Fetch, duckVars
  <2>7. \A k \in InSeq(handled) \cup Held \cup InSeq(uplink_queue) : k \in Nat /\ k <= received
    BY <1>0 DEF OrderInv, Held
  <2>8. \A k \in InSeq(handled) \cup Held \cup InSeq(uplink_queue), l \in InSeq(rxpkt') : k < l
    BY <1>0, <2>4, <2>7
  <2>9. \A k \in InSeq(handled) \cup Held \cup InSeq(uplink_queue) : k <= received'
    BY <1>0, <2>5, <2>7
  <2> QED
    BY <2>3, <2>4, <2>6, <2>8, <2>9 DEF OrderInv, Below, Held
<1>2. CASE \/ FetchFails \/ BatchDone \/ SetReceiveFlag
           \/ processPackets \/ has_uplink_packet \/ ClearReceiveFlag \/ UNCHANGED uplinkVars
  <2>1. UNCHANGED <<received, rxpkt, uplink_queue, packet, handled>>
    BY <1>2 DEF FetchFails, BatchDone, SetReceiveFlag, processPackets, has_uplink_packet,
                ClearReceiveFlag, uplinkVars, upVars, duckVars
  <2> QED
    BY <2>1 DEF OrderInv, Held
<1>3. CASE SkipInvalid
  <2>1. /\ rxpkt # <<>> /\ rxpkt' = Tail(rxpkt)
        /\ UNCHANGED <<received, uplink_queue, packet, handled>>
    BY <1>3 DEF SkipInvalid, duckVars
  <2>2. Increasing(rxpkt') /\ InSeq(rxpkt') \subseteq InSeq(rxpkt)
    BY <1>0, <2>1, TailIncreasing, TailElements DEF OrderInv
  <2> QED
    BY <2>1, <2>2 DEF OrderInv, Below, Held
<1>4. CASE cdp_bridge_handle_uplink
  <2>1. /\ rxpkt # <<>> /\ rxpkt' = Tail(rxpkt)
        /\ uplink_queue' = push_uplink_packet(Head(rxpkt))
        /\ UNCHANGED <<received, packet, handled>>
    BY <1>4 DEF cdp_bridge_handle_uplink, duckVars
  <2>2. /\ Increasing(rxpkt') /\ Below({Head(rxpkt)}, InSeq(rxpkt'))
        /\ InSeq(rxpkt) = {Head(rxpkt)} \cup InSeq(rxpkt')
        /\ Head(rxpkt) \in Nat
    BY <1>0, <2>1, TailIncreasing, TailElements DEF OrderInv
  <2>3. PICK q \in Seq(Nat) : /\ Increasing(q) /\ InSeq(q) \subseteq InSeq(uplink_queue)
                              /\ uplink_queue' = Append(q, Head(rxpkt))
    <3>1. CASE Len(uplink_queue) >= MAX_QUEUE_SIZE
      <4>1. uplink_queue # <<>>
        BY <3>1
      <4>2. /\ Tail(uplink_queue) \in Seq(Nat) /\ Increasing(Tail(uplink_queue))
            /\ InSeq(Tail(uplink_queue)) \subseteq InSeq(uplink_queue)
        BY <1>0, <4>1, TailIncreasing, TailElements, HeadTailProperties DEF OrderInv
      <4> QED
        BY <2>1, <3>1, <4>2 DEF push_uplink_packet
    <3>2. CASE ~(Len(uplink_queue) >= MAX_QUEUE_SIZE)
      BY <1>0, <2>1, <3>2 DEF push_uplink_packet, OrderInv
    <3> QED
      BY <3>1, <3>2
  <2>4. Below(InSeq(q), {Head(rxpkt)})
    BY <2>2, <2>3 DEF OrderInv, Below
  <2>5. Increasing(uplink_queue')
    BY <2>2, <2>3, <2>4, AppendIncreasing
  <2>6. InSeq(uplink_queue') = InSeq(q) \cup {Head(rxpkt)}
    BY <2>2, <2>3, AppendElements
  <2> QED
    BY <2>1, <2>2, <2>3, <2>5, <2>6 DEF OrderInv, Below, Held
<1>5. CASE pop_uplink_packet
  <2>1. CASE uplink_queue = <<>>
    <3>1. UNCHANGED <<received, rxpkt, uplink_queue, packet, handled>>
      BY <1>5, <2>1 DEF pop_uplink_packet, upVars
    <3> QED
      BY <3>1 DEF OrderInv, Held
  <2>2. CASE uplink_queue # <<>>
    <3>1. /\ packet' = Head(uplink_queue) /\ uplink_queue' = Tail(uplink_queue)
          /\ UNCHANGED <<received, rxpkt, handled>>
      BY <1>5, <2>2 DEF pop_uplink_packet, upVars
    <3>2. /\ Increasing(uplink_queue') /\ Below({packet'}, InSeq(uplink_queue'))
          /\ InSeq(uplink_queue) = {packet'} \cup InSeq(uplink_queue')
      BY <1>0, <2>2, <3>1, TailIncreasing, TailElements DEF OrderInv
    <3>3. Held' \subseteq {packet'}
      BY DEF Held
    <3> QED
      BY <3>1, <3>2, <3>3 DEF OrderInv, Below
  <2> QED
    BY <2>1, <2>2
<1>6. CASE CheckPacket
  <2>1. packet # 0 /\ Held = {packet} /\ Held' = {}
    BY <1>6 DEF CheckPacket, UplinkTypeInv, Held
  <2>2. UNCHANGED <<received, rxpkt, uplink_queue>>
    BY <1>6 DEF CheckPacket, upVars
  <2>3. CASE handled' = handled
    BY <2>1, <2>2, <2>3 DEF OrderInv, Below
  <2>4. CASE handled' = Append(handled, packet)
    <3>1. Below(InSeq(handled), {packet})
      BY <2>1 DEF OrderInv, Below
    <3>2. Increasing(handled') /\ InSeq(handled') = InSeq(handled) \cup {packet}
      BY <1>0, <2>4, <3>1, AppendIncreasing, AppendElements DEF OrderInv
    <3> QED
      BY <2>1, <2>2, <3>2 DEF OrderInv, Below
  <2> QED
    BY <1>6, <2>3, <2>4 DEF CheckPacket
<1> QED
  BY <1>1, <1>2, <1>3, <1>4, <1>5, <1>6 DEF UplinkNext, ThreadUp, ThreadDuck

\* Increasing parts, each below the next, are what InOrder asks for.
LEMMA OrderInvGivesInOrder ==
  ASSUME UplinkTypeInv, OrderInv
  PROVE  InOrder
<1> DEFINE mine == IF packet = 0 \/ Kind[packet] # "good" THEN <<>> ELSE <<packet>>
           way == handled \o mine \o uplink_queue \o rxpkt
<1>1. /\ handled \in Seq(Nat) /\ uplink_queue \in Seq(Nat) /\ rxpkt \in Seq(Nat)
      /\ packet \in Nat
  <2>1. Len(Kind) \in Nat /\ Packets \subseteq Nat
    BY UplinkAssumption, LenProperties DEF Packets
  <2> QED
    <3>1. \A s \in Seq(Packets) : s \in Seq(Nat)
      BY <2>1, SeqMonotonic
    <3>2. packet \in Nat
      BY <2>1 DEF UplinkTypeInv, UplinkTypeOK
    <3> QED
      BY <3>1, <3>2 DEF UplinkTypeInv, UplinkTypeOK
<1>2. mine \in Seq(Nat) /\ Increasing(mine) /\ InSeq(mine) \subseteq Held
  <2>1. CASE packet = 0 \/ Kind[packet] # "good"
    <3>1. mine = <<>>
      BY <2>1
    <3> HIDE DEF mine
    <3>2. <<>> \in Seq(Nat) /\ Len(<<>>) = 0
      BY EmptySeq
    <3>3. mine \in Seq(Nat) /\ Len(mine) = 0
      BY <3>1, <3>2, Zenon
    <3>4. Increasing(mine)
      BY <3>3 DEF Increasing
    <3>5. InSeq(mine) = {}
      BY <3>3 DEF InSeq
    <3> QED
      BY <3>3, <3>4, <3>5
  <2>2. CASE ~(packet = 0 \/ Kind[packet] # "good")
    <3>1. mine = <<packet>> /\ packet # 0
      BY <2>2
    <3> HIDE DEF mine
    <3>2. mine \in Seq(Nat) /\ Len(mine) = 1 /\ mine[1] = packet
      BY <1>1, <3>1
    <3> QED
      BY <1>1, <3>1, <3>2 DEF Increasing, InSeq, Held
  <2> QED
    BY <2>1, <2>2
<1> HIDE DEF mine
<1>3. /\ handled \o mine \in Seq(Nat) /\ Increasing(handled \o mine)
      /\ InSeq(handled \o mine) = InSeq(handled) \cup InSeq(mine)
  <2>1. Below(InSeq(handled), InSeq(mine))
    BY <1>2 DEF OrderInv, Below
  <2> QED
    BY <1>1, <1>2, <2>1, ConcatIncreasing DEF OrderInv
<1>4. /\ handled \o mine \o uplink_queue \in Seq(Nat)
      /\ Increasing(handled \o mine \o uplink_queue)
      /\ InSeq(handled \o mine \o uplink_queue)
           = InSeq(handled) \cup InSeq(mine) \cup InSeq(uplink_queue)
  <2>1. Below(InSeq(handled \o mine), InSeq(uplink_queue))
    BY <1>2, <1>3 DEF OrderInv, Below
  <2> QED
    BY <1>1, <1>3, <2>1, ConcatIncreasing DEF OrderInv
<1>5. Increasing(way)
  <2>1. Below(InSeq(handled \o mine \o uplink_queue), InSeq(rxpkt))
    BY <1>2, <1>4 DEF OrderInv, Below
  <2> QED
    BY <1>1, <1>4, <2>1, ConcatIncreasing DEF OrderInv
<1> QED
  BY <1>5 DEF InOrder, Increasing, mine

\* The hub gets the packets in the order in which the concentrator received them:
\* for any traffic, any size of batches and of the queue, however thread_up and
\* thread_duck interleave and whatever the full queue drops.
THEOREM UplinkInOrder == UplinkSpec => []InOrder
<1>1. UplinkInit => OrderInv
  BY DEF UplinkInit, OrderInv, Increasing, Below, InSeq, Held
<1>2. UplinkTypeInv /\ OrderInv /\ [UplinkNext]_uplinkVars => OrderInv'
  BY OrderStep
<1>3. UplinkTypeInv /\ OrderInv => InOrder
  BY OrderInvGivesInOrder
<1> QED
  BY <1>1, <1>2, <1>3, UplinkTypeCorrect, PTL DEF UplinkSpec

\* The packets that are accounted for.
Accounted(n) ==
  n \in InSeq(rxpkt) \cup InSeq(uplink_queue) \cup InSeq(handled) \cup {packet} \cup dropped

LEMMA NoneForgottenStep ==
  ASSUME UplinkTypeInv, NoneForgotten, [UplinkNext]_uplinkVars
  PROVE  NoneForgotten'
<1> USE UplinkAssumption
<1>0. /\ received \in Nat
      /\ handled \in Seq(Packets) /\ uplink_queue \in Seq(Packets) /\ rxpkt \in Seq(Packets)
  BY LenProperties DEF UplinkTypeInv, UplinkTypeOK
<1> SUFFICES ASSUME NEW n \in (1 .. received)', Kind[n] = "good"
             PROVE  Accounted(n)'
  BY DEF NoneForgotten, Accounted
<1>1. CASE Fetch
  <2>1. PICK k \in 0 .. NB_PKT_MAX : /\ received' = received + k
                                     /\ rxpkt' = [i \in 1 .. k |-> received + i]
    BY <1>1 DEF Fetch
  <2>2. InSeq(rxpkt) = {}
    BY <1>1 DEF Fetch, UplinkTypeInv, InSeq
  <2>3. UNCHANGED <<uplink_queue, handled, packet, dropped>>
    BY <1>1 DEF Fetch, duckVars
  <2>4. CASE n <= received
    <3>1. n \in 1 .. received
      BY <1>0, <2>1, <2>4
    <3> QED
      BY <2>2, <2>3, <3>1 DEF NoneForgotten, Accounted
  <2>5. CASE n > received
    <3>1. k \in Nat /\ n - received \in 1 .. k
      BY <1>0, <2>1, <2>5
    <3>2. Len(rxpkt') = k /\ rxpkt'[n - received] = n
      BY <1>0, <2>1, <3>1
    <3> QED
      BY <3>1, <3>2 DEF Accounted, InSeq
  <2> QED
    BY <1>0, <2>1, <2>4, <2>5
<1>2. ASSUME ~Fetch PROVE Accounted(n)'
  <2>1. n \in 1 .. received /\ Accounted(n)
    <3>1. received' = received
      BY <1>2 DEF UplinkNext, ThreadUp, ThreadDuck, FetchFails, BatchDone, SkipInvalid,
                  cdp_bridge_handle_uplink, SetReceiveFlag, processPackets, pop_uplink_packet,
                  has_uplink_packet, ClearReceiveFlag, CheckPacket, uplinkVars
    <3> QED
      BY <3>1 DEF NoneForgotten, Accounted
  <2>2. CASE SkipInvalid
    <3>1. /\ rxpkt # <<>> /\ rxpkt' = Tail(rxpkt) /\ n # Head(rxpkt)
          /\ UNCHANGED <<uplink_queue, handled, packet, dropped>>
      BY <2>2 DEF SkipInvalid, duckVars
    <3>2. InSeq(rxpkt) = {Head(rxpkt)} \cup InSeq(rxpkt')
      BY <1>0, <3>1, TailElements
    <3> QED
      BY <2>1, <3>1, <3>2 DEF Accounted
  <2>3. CASE cdp_bridge_handle_uplink
    <3>1. /\ rxpkt # <<>> /\ rxpkt' = Tail(rxpkt) /\ UNCHANGED <<handled, packet>>
          /\ dropped' = dropped \cup (InSeq(uplink_queue) \ InSeq(uplink_queue'))
          /\ uplink_queue' = push_uplink_packet(Head(rxpkt))
      BY <2>3 DEF cdp_bridge_handle_uplink, duckVars
    <3>2. InSeq(rxpkt) = {Head(rxpkt)} \cup InSeq(rxpkt') /\ Head(rxpkt) \in Packets
      BY <1>0, <3>1, TailElements, HeadTailProperties
    <3>3. Head(rxpkt) \in InSeq(uplink_queue')
      <4>1. CASE Len(uplink_queue) >= MAX_QUEUE_SIZE
        <5>0. uplink_queue # <<>>
          BY <4>1
        <5>1. Tail(uplink_queue) \in Seq(Packets)
          BY <1>0, <5>0, HeadTailProperties
        <5>2. uplink_queue' = Append(Tail(uplink_queue), Head(rxpkt))
          BY <3>1, <4>1 DEF push_uplink_packet
        <5> DEFINE q == Tail(uplink_queue)
                   h == Head(rxpkt)
        <5>3. q \in Seq(Packets) /\ h \in Packets /\ uplink_queue' = Append(q, h)
          BY <3>2, <5>1, <5>2
        <5> HIDE DEF q, h
        <5>4. h \in InSeq(uplink_queue')
          BY <5>3, AppendElements
        <5> QED
          BY <5>4 DEF h
      <4>2. CASE ~(Len(uplink_queue) >= MAX_QUEUE_SIZE)
        BY <1>0, <3>1, <3>2, <4>2, AppendElements DEF push_uplink_packet
      <4> QED
        BY <4>1, <4>2
    <3> QED
      BY <2>1, <3>1, <3>2, <3>3 DEF Accounted
  <2>4. CASE pop_uplink_packet
    <3>1. UNCHANGED <<rxpkt, handled, dropped>> /\ packet = 0
      BY <2>4 DEF pop_uplink_packet, upVars, UplinkTypeInv
    <3>2. CASE uplink_queue = <<>>
      BY <2>1, <2>4, <3>1, <3>2 DEF pop_uplink_packet, Accounted
    <3>3. CASE uplink_queue # <<>>
      <4>1. InSeq(uplink_queue) = {packet'} \cup InSeq(uplink_queue')
        BY <1>0, <2>4, <3>3, TailElements DEF pop_uplink_packet
      <4>2. n # 0
        BY <2>1
      <4> QED
        BY <2>1, <3>1, <4>1, <4>2 DEF Accounted
    <3> QED
      BY <3>2, <3>3
  <2>5. CASE CheckPacket
    <3>1. /\ UNCHANGED <<rxpkt, uplink_queue, dropped>> /\ packet \in Packets
          /\ handled' = IF Kind[packet] = "good" THEN Append(handled, packet) ELSE handled
      BY <2>5, LenProperties DEF CheckPacket, upVars, UplinkTypeInv, UplinkTypeOK, Packets
    <3>2. InSeq(handled) \subseteq InSeq(handled') /\ (n = packet => n \in InSeq(handled'))
      BY <1>0, <3>1, AppendElements
    <3> QED
      BY <2>1, <3>1, <3>2 DEF Accounted
  <2>6. CASE \/ FetchFails \/ BatchDone \/ SetReceiveFlag
             \/ processPackets \/ has_uplink_packet \/ ClearReceiveFlag \/ UNCHANGED uplinkVars
    <3>1. UNCHANGED <<rxpkt, uplink_queue, packet, handled, dropped>>
      BY <2>6 DEF FetchFails, BatchDone, SetReceiveFlag, processPackets, has_uplink_packet,
                  ClearReceiveFlag, uplinkVars, upVars, duckVars
    <3> QED
      BY <2>1, <3>1 DEF Accounted
  <2> QED
    BY <1>2, <2>2, <2>3, <2>4, <2>5, <2>6 DEF UplinkNext, ThreadUp, ThreadDuck
<1> QED
  BY <1>1, <1>2

\* Whatever the threads do, a good packet that was received is on its way, has
\* reached the hub or was dropped by a full queue, and the queue stays within its
\* bound.
THEOREM UplinkPacketsKept == UplinkSpec => []PacketsKept
<1>1. UplinkInit => NoneForgotten
  BY DEF UplinkInit, NoneForgotten
<1>2. UplinkTypeInv /\ NoneForgotten /\ [UplinkNext]_uplinkVars => NoneForgotten'
  BY NoneForgottenStep
<1>3. UplinkTypeInv /\ NoneForgotten => PacketsKept
  BY DEF UplinkTypeInv, PacketsKept
<1> QED
  BY <1>1, <1>2, <1>3, UplinkTypeCorrect, PTL DEF UplinkSpec

-----------------------------------------------------------------------------
(* The mutexes of the bridge.                                              *)

\* Where a thread can be in a function of the bridge: what is left of it.
Stages ==
  {<<>>, <<Unlock("uplink")>>, <<Lock("uplink"), Unlock("uplink")>>,
   <<Unlock("stats"), Lock("uplink"), Unlock("uplink")>>,
   <<Lock("stats"), Unlock("stats"), Lock("uplink"), Unlock("uplink")>>,
   <<Unlock("stats")>>, <<Lock("stats"), Unlock("stats")>>,
   <<Unlock("downlink")>>, <<Lock("downlink"), Unlock("downlink")>>,
   <<Unlock("stats"), Unlock("downlink")>>,
   <<Lock("stats"), Unlock("stats"), Unlock("downlink")>>,
   <<Lock("downlink"), Lock("stats"), Unlock("stats"), Unlock("downlink")>>}

\* The mutexes held at a stage: those with an unlock to come and no lock.
HeldAt(r) ==
  {m \in Mutexes : Unlock(m) \in InSeq(r) /\ Lock(m) \notin InSeq(r)}

LocksInv ==
  /\ rest \in [Callers -> Stages]
  /\ holder \in [Mutexes -> Callers \cup {"free"}]
  /\ \A m \in Mutexes : holder[m] # "free" => m \in HeldAt(rest[holder[m]])

\* What a concatenation is, element by element.
LEMMA ConcatIs ==
  ASSUME NEW S, NEW s \in Seq(S), NEW t \in Seq(S), NEW z \in Seq(S),
         Len(z) = Len(s) + Len(t),
         \A i \in 1 .. Len(s) : z[i] = s[i],
         \A i \in 1 .. Len(t) : z[Len(s) + i] = t[i]
  PROVE  s \o t = z
<1>1. Len(s) \in Nat /\ Len(t) \in Nat
  BY LenProperties
<1>2.  s \o t \in Seq(S) /\ Len(s \o t) = Len(s) + Len(t)
  BY ConcatProperties
<1>3. ASSUME NEW i \in 1 .. Len(z) PROVE (s \o t)[i] = z[i]
  <2>1. CASE i <= Len(s)
    BY <1>1, <2>1, ConcatProperties
  <2>2. CASE ~(i <= Len(s))
    <3>1. i - Len(s) \in 1 .. Len(t) /\ Len(s) + (i - Len(s)) = i
      BY <1>1, <2>2
    <3>2. z[i] = t[i - Len(s)]
      BY <3>1
    <3> QED
      BY <1>1, <2>2, <3>2, ConcatProperties
  <2> QED
    BY <2>1, <2>2
<1> QED
  BY <1>2, <1>3, SeqEqual

\* The concatenations of Guarded and Body, spelled out.
LEMMA Join11 ==
  ASSUME NEW a, NEW b
  PROVE  <<a>> \o <<b>> = <<a, b>>
<1> DEFINE S == {a, b}
           s == <<a>>
           t == <<b>>
           z == <<a, b>>
<1>1. s \in Seq(S) /\ t \in Seq(S) /\ z \in Seq(S)
  OBVIOUS
<1>2. Len(z) = Len(s) + Len(t)
  OBVIOUS
<1>3. \A i \in 1 .. Len(s) : z[i] = s[i]
  OBVIOUS
<1>4. \A i \in 1 .. Len(t) : z[Len(s) + i] = t[i]
  OBVIOUS
<1> HIDE DEF S, s, t, z
<1>5. s \o t = z
  BY <1>1, <1>2, <1>3, <1>4, ConcatIs
<1> QED
  BY <1>5 DEF s, t, z

LEMMA Join12 ==
  ASSUME NEW a, NEW b, NEW c
  PROVE  <<a>> \o <<b, c>> = <<a, b, c>>
<1> DEFINE S == {a, b, c}
           s == <<a>>
           t == <<b, c>>
           z == <<a, b, c>>
<1>1. s \in Seq(S) /\ t \in Seq(S) /\ z \in Seq(S)
  OBVIOUS
<1>2. Len(z) = Len(s) + Len(t)
  OBVIOUS
<1>3. \A i \in 1 .. Len(s) : z[i] = s[i]
  OBVIOUS
<1>4. \A i \in 1 .. Len(t) : z[Len(s) + i] = t[i]
  OBVIOUS
<1> HIDE DEF S, s, t, z
<1>5. s \o t = z
  BY <1>1, <1>2, <1>3, <1>4, ConcatIs
<1> QED
  BY <1>5 DEF s, t, z

LEMMA Join31 ==
  ASSUME NEW a, NEW b, NEW c, NEW d
  PROVE  <<a, b, c>> \o <<d>> = <<a, b, c, d>>
<1> DEFINE S == {a, b, c, d}
           s == <<a, b, c>>
           t == <<d>>
           z == <<a, b, c, d>>
<1>1. s \in Seq(S) /\ t \in Seq(S) /\ z \in Seq(S)
  OBVIOUS
<1>2. Len(z) = Len(s) + Len(t)
  OBVIOUS
<1>3. \A i \in 1 .. Len(s) : z[i] = s[i]
  OBVIOUS
<1>4. \A i \in 1 .. Len(t) : z[Len(s) + i] = t[i]
  OBVIOUS
<1> HIDE DEF S, s, t, z
<1>5. s \o t = z
  BY <1>1, <1>2, <1>3, <1>4, ConcatIs
<1> QED
  BY <1>5 DEF s, t, z

LEMMA Join22 ==
  ASSUME NEW a, NEW b, NEW c, NEW d
  PROVE  <<a, b>> \o <<c, d>> = <<a, b, c, d>>
<1> DEFINE S == {a, b, c, d}
           s == <<a, b>>
           t == <<c, d>>
           z == <<a, b, c, d>>
<1>1. s \in Seq(S) /\ t \in Seq(S) /\ z \in Seq(S)
  OBVIOUS
<1>2. Len(z) = Len(s) + Len(t)
  OBVIOUS
<1>3. \A i \in 1 .. Len(s) : z[i] = s[i]
  OBVIOUS
<1>4. \A i \in 1 .. Len(t) : z[Len(s) + i] = t[i]
  OBVIOUS
<1> HIDE DEF S, s, t, z
<1>5. s \o t = z
  BY <1>1, <1>2, <1>3, <1>4, ConcatIs
<1> QED
  BY <1>5 DEF s, t, z

\* Every function starts at a stage.
LEMMA BodyIsStage ==
  ASSUME NEW f \in DaemonFunctions
  PROVE  Body(f) \in Stages
<1>1. ASSUME NEW m PROVE Guarded(m, <<>>) = <<Lock(m), Unlock(m)>>
  <2>1. <<Lock(m)>> \in Seq({Lock(m)})
    OBVIOUS
  <2>2. <<Lock(m)>> \o <<>> = <<Lock(m)>>
    BY <2>1, ConcatEmptySeq, Zenon
  <2> QED
    BY <2>2, Join11, Zenon DEF Guarded
<1>2. Guarded("downlink", <<Lock("stats"), Unlock("stats")>>)
        = <<Lock("downlink"), Lock("stats"), Unlock("stats"), Unlock("downlink")>>
  <2>1. <<Lock("downlink")>> \o <<Lock("stats"), Unlock("stats")>>
          = <<Lock("downlink"), Lock("stats"), Unlock("stats")>>
    BY Join12, Zenon
  <2> QED
    BY <2>1, Join31, Zenon DEF Guarded
<1>3. <<Lock("stats"), Unlock("stats")>> \o <<Lock("uplink"), Unlock("uplink")>>
        = <<Lock("stats"), Unlock("stats"), Lock("uplink"), Unlock("uplink")>>
  BY Join22, Zenon
<1>4. CASE f = "handle_uplink"
  <2>1. Body(f) = <<Lock("stats"), Unlock("stats"), Lock("uplink"), Unlock("uplink")>>
    BY <1>1, <1>3, <1>4, Zenon DEF Body
  <2> QED
    BY <2>1, Zenon DEF Stages
<1>5. CASE f \in {"pop_uplink", "has_uplink", "register_rx_callback"}
  <2>1. Body(f) = Guarded("uplink", <<>>)
    BY <1>5 DEF Body
  <2> QED
    BY <1>1, <2>1, Zenon DEF Stages
<1>6. CASE f = "enqueue_downlink"
  <2>1. Body(f) = Guarded("downlink", Guarded("stats", <<>>))
    BY <1>6 DEF Body
  <2> QED
    BY <1>1, <1>2, <2>1, Zenon DEF Stages
<1>7. CASE f = "pop_downlink"
  <2>1. Body(f) = Guarded("downlink", <<>>)
    BY <1>7 DEF Body
  <2> QED
    BY <1>1, <2>1, Zenon DEF Stages
<1>8. CASE f = "reset_stats"
  <2>1. Body(f) = Guarded("stats", <<>>)
    BY <1>8 DEF Body
  <2> QED
    BY <1>1, <2>1, Zenon DEF Stages
<1> QED
  BY <1>4, <1>5, <1>6, <1>7, <1>8 DEF DaemonFunctions

\* A lock and an unlock, and those of two mutexes, are different operations.
LEMMA Operations ==
  ASSUME NEW m, NEW n
  PROVE  /\ Lock(m).do = "lock" /\ Lock(m).mutex = m
         /\ Unlock(m).do = "unlock" /\ Unlock(m).mutex = m
         /\ Lock(m) # Unlock(n)
         /\ m # n => Lock(m) # Lock(n) /\ Unlock(m) # Unlock(n)
<1>1. Lock(m).do = "lock" /\ Lock(m).mutex = m /\ Lock(n).mutex = n
  BY DEF Lock
<1>2. /\ Unlock(m).do = "unlock" /\ Unlock(m).mutex = m
      /\ Unlock(n).do = "unlock" /\ Unlock(n).mutex = n
  BY DEF Unlock
<1> QED
  BY <1>1, <1>2

\* What is held at each stage.
LEMMA HeldAtStages ==
  /\ HeldAt(<<>>) = {}
  /\ HeldAt(<<Unlock("uplink")>>) = {"uplink"}
  /\ HeldAt(<<Lock("uplink"), Unlock("uplink")>>) = {}
  /\ HeldAt(<<Unlock("stats"), Lock("uplink"), Unlock("uplink")>>) = {"stats"}
  /\ HeldAt(<<Lock("stats"), Unlock("stats"), Lock("uplink"), Unlock("uplink")>>) = {}
  /\ HeldAt(<<Unlock("stats")>>) = {"stats"}
  /\ HeldAt(<<Lock("stats"), Unlock("stats")>>) = {}
  /\ HeldAt(<<Unlock("downlink")>>) = {"downlink"}
  /\ HeldAt(<<Lock("downlink"), Unlock("downlink")>>) = {}
  /\ HeldAt(<<Unlock("stats"), Unlock("downlink")>>) = {"stats", "downlink"}
  /\ HeldAt(<<Lock("stats"), Unlock("stats"), Unlock("downlink")>>) = {"downlink"}
  /\ HeldAt(<<Lock("downlink"), Lock("stats"), Unlock("stats"), Unlock("downlink")>>) = {}
<1>0. /\ \A m, n \in Mutexes : Lock(m) # Unlock(n)
      /\ Lock("uplink") # Lock("stats") /\ Lock("uplink") # Lock("downlink")
      /\ Lock("stats") # Lock("downlink")
      /\ Unlock("uplink") # Unlock("stats") /\ Unlock("uplink") # Unlock("downlink")
      /\ Unlock("stats") # Unlock("downlink")
  BY Operations
<1>1. HeldAt(<<>>) = {}
  <2>1. InSeq(<<>>) = {}
    BY DEF InSeq
  <2> QED
    BY <1>0, <2>1 DEF HeldAt, Mutexes
<1>2. HeldAt(<<Unlock("uplink")>>) = {"uplink"}
  <2>1. InSeq(<<Unlock("uplink")>>) = {Unlock("uplink")}
    BY DEF InSeq
  <2> QED
    BY <1>0, <2>1 DEF HeldAt, Mutexes
<1>3. HeldAt(<<Lock("uplink"), Unlock("uplink")>>) = {}
  <2>1. InSeq(<<Lock("uplink"), Unlock("uplink")>>) = {Lock("uplink"), Unlock("uplink")}
    BY DEF InSeq
  <2> QED
    BY <1>0, <2>1 DEF HeldAt, Mutexes
<1>4. HeldAt(<<Unlock("stats"), Lock("uplink"), Unlock("uplink")>>) = {"stats"}
  <2>1. InSeq(<<Unlock("stats"), Lock("uplink"), Unlock("uplink")>>)
          = {Unlock("stats"), Lock("uplink"), Unlock("uplink")}
    BY DEF InSeq
  <2> QED
    BY <1>0, <2>1 DEF HeldAt, Mutexes
<1>5. HeldAt(<<Lock("stats"), Unlock("stats"), Lock("uplink"), Unlock("uplink")>>) = {}
  <2>1. InSeq(<<Lock("stats"), Unlock("stats"), Lock("uplink"), Unlock("uplink")>>)
          = {Lock("stats"), Unlock("stats"), Lock("uplink"), Unlock("uplink")}
    BY DEF InSeq
  <2> QED
    BY <1>0, <2>1 DEF HeldAt, Mutexes
<1>6. HeldAt(<<Unlock("stats")>>) = {"stats"}
  <2>1. InSeq(<<Unlock("stats")>>) = {Unlock("stats")}
    BY DEF InSeq
  <2> QED
    BY <1>0, <2>1 DEF HeldAt, Mutexes
<1>7. HeldAt(<<Lock("stats"), Unlock("stats")>>) = {}
  <2>1. InSeq(<<Lock("stats"), Unlock("stats")>>) = {Lock("stats"), Unlock("stats")}
    BY DEF InSeq
  <2> QED
    BY <1>0, <2>1 DEF HeldAt, Mutexes
<1>8. HeldAt(<<Unlock("downlink")>>) = {"downlink"}
  <2>1. InSeq(<<Unlock("downlink")>>) = {Unlock("downlink")}
    BY DEF InSeq
  <2> QED
    BY <1>0, <2>1 DEF HeldAt, Mutexes
<1>9. HeldAt(<<Lock("downlink"), Unlock("downlink")>>) = {}
  <2>1. InSeq(<<Lock("downlink"), Unlock("downlink")>>) = {Lock("downlink"), Unlock("downlink")}
    BY DEF InSeq
  <2> QED
    BY <1>0, <2>1 DEF HeldAt, Mutexes
<1>10. HeldAt(<<Unlock("stats"), Unlock("downlink")>>) = {"stats", "downlink"}
  <2>1. InSeq(<<Unlock("stats"), Unlock("downlink")>>) = {Unlock("stats"), Unlock("downlink")}
    BY DEF InSeq
  <2> QED
    BY <1>0, <2>1 DEF HeldAt, Mutexes
<1>11. HeldAt(<<Lock("stats"), Unlock("stats"), Unlock("downlink")>>) = {"downlink"}
  <2>1. InSeq(<<Lock("stats"), Unlock("stats"), Unlock("downlink")>>)
          = {Lock("stats"), Unlock("stats"), Unlock("downlink")}
    BY DEF InSeq
  <2> QED
    BY <1>0, <2>1 DEF HeldAt, Mutexes
<1>12. HeldAt(<<Lock("downlink"), Lock("stats"), Unlock("stats"), Unlock("downlink")>>) = {}
  <2>1. InSeq(<<Lock("downlink"), Lock("stats"), Unlock("stats"), Unlock("downlink")>>)
          = {Lock("downlink"), Lock("stats"), Unlock("stats"), Unlock("downlink")}
    BY DEF InSeq
  <2> QED
    BY <1>0, <2>1 DEF HeldAt, Mutexes
<1> QED
  BY <1>1, <1>2, <1>3, <1>4, <1>5, <1>6, <1>7, <1>8, <1>9, <1>10, <1>11, <1>12

\* A step of a function leads from stage to stage; a lock adds its mutex to what
\* is held, an unlock takes it away.
LEMMA StageStep ==
  ASSUME NEW r \in Stages, r # <<>>
  PROVE  /\ Tail(r) \in Stages /\ Head(r).mutex \in Mutexes
         /\ Head(r).do = "lock" => HeldAt(r) \cup {Head(r).mutex} \subseteq HeldAt(Tail(r))
         /\ Head(r).do = "unlock" => HeldAt(r) \ {Head(r).mutex} \subseteq HeldAt(Tail(r))
<1>1. CASE r = <<Unlock("uplink")>>
  <2>1. Head(r) = Unlock("uplink") /\ Tail(r) = <<>>
    BY <1>1
  <2> QED
    BY <1>1, <2>1, HeldAtStages, Operations DEF Stages, Mutexes
<1>2. CASE r = <<Lock("uplink"), Unlock("uplink")>>
  <2>1. Head(r) = Lock("uplink") /\ Tail(r) = <<Unlock("uplink")>>
    BY <1>2
  <2> QED
    BY <1>2, <2>1, HeldAtStages, Operations DEF Stages, Mutexes
<1>3. CASE r = <<Unlock("stats"), Lock("uplink"), Unlock("uplink")>>
  <2>1. Head(r) = Unlock("stats") /\ Tail(r) = <<Lock("uplink"), Unlock("uplink")>>
    BY <1>3
  <2> QED
    BY <1>3, <2>1, HeldAtStages, Operations DEF Stages, Mutexes
<1>4. CASE r = <<Lock("stats"), Unlock("stats"), Lock("uplink"), Unlock("uplink")>>
  <2>1. Head(r) = Lock("stats") /\ Tail(r) = <<Unlock("stats"), Lock("uplink"), Unlock("uplink")>>
    BY <1>4
  <2> QED
    BY <1>4, <2>1, HeldAtStages, Operations DEF Stages, Mutexes
<1>5. CASE r = <<Unlock("stats")>>
  <2>1. Head(r) = Unlock("stats") /\ Tail(r) = <<>>
    BY <1>5
  <2> QED
    BY <1>5, <2>1, HeldAtStages, Operations DEF Stages, Mutexes
<1>6. CASE r = <<Lock("stats"), Unlock("stats")>>
  <2>1. Head(r) = Lock("stats") /\ Tail(r) = <<Unlock("stats")>>
    BY <1>6
  <2> QED
    BY <1>6, <2>1, HeldAtStages, Operations DEF Stages, Mutexes
<1>7. CASE r = <<Unlock("downlink")>>
  <2>1. Head(r) = Unlock("downlink") /\ Tail(r) = <<>>
    BY <1>7
  <2> QED
    BY <1>7, <2>1, HeldAtStages, Operations DEF Stages, Mutexes
<1>8. CASE r = <<Lock("downlink"), Unlock("downlink")>>
  <2>1. Head(r) = Lock("downlink") /\ Tail(r) = <<Unlock("downlink")>>
    BY <1>8
  <2> QED
    BY <1>8, <2>1, HeldAtStages, Operations DEF Stages, Mutexes
<1>9. CASE r = <<Unlock("stats"), Unlock("downlink")>>
  <2>1. Head(r) = Unlock("stats") /\ Tail(r) = <<Unlock("downlink")>>
    BY <1>9
  <2> QED
    BY <1>9, <2>1, HeldAtStages, Operations DEF Stages, Mutexes
<1>10. CASE r = <<Lock("stats"), Unlock("stats"), Unlock("downlink")>>
  <2>1. Head(r) = Lock("stats") /\ Tail(r) = <<Unlock("stats"), Unlock("downlink")>>
    BY <1>10
  <2> QED
    BY <1>10, <2>1, HeldAtStages, Operations, SMTT(30) DEF Stages, Mutexes
<1>11. CASE r = <<Lock("downlink"), Lock("stats"), Unlock("stats"), Unlock("downlink")>>
  <2>1. Head(r) = Lock("downlink") /\ Tail(r) = <<Lock("stats"), Unlock("stats"), Unlock("downlink")>>
    BY <1>11
  <2> QED
    BY <1>11, <2>1, HeldAtStages, Operations DEF Stages, Mutexes
<1> QED
  BY <1>1, <1>2, <1>3, <1>4, <1>5, <1>6, <1>7, <1>8, <1>9, <1>10, <1>11 DEF Stages

\* The one stage at which a function holds a mutex and wants another:
\* enqueue_downlink counts while it holds the queue.
LEMMA HoldAndWait ==
  ASSUME NEW r \in Stages, r # <<>>, Head(r).do = "lock", HeldAt(r) # {}
  PROVE  HeldAt(r) = {"downlink"} /\ Head(r).mutex = "stats"
<1>1. CASE r = <<Unlock("uplink")>>
  <2>1. Head(r) = Unlock("uplink")
    BY <1>1
  <2> QED
    BY <1>1, <2>1, HeldAtStages, Operations
<1>2. CASE r = <<Lock("uplink"), Unlock("uplink")>>
  <2>1. Head(r) = Lock("uplink")
    BY <1>2
  <2> QED
    BY <1>2, <2>1, HeldAtStages, Operations
<1>3. CASE r = <<Unlock("stats"), Lock("uplink"), Unlock("uplink")>>
  <2>1. Head(r) = Unlock("stats")
    BY <1>3
  <2> QED
    BY <1>3, <2>1, HeldAtStages, Operations
<1>4. CASE r = <<Lock("stats"), Unlock("stats"), Lock("uplink"), Unlock("uplink")>>
  <2>1. Head(r) = Lock("stats")
    BY <1>4
  <2> QED
    BY <1>4, <2>1, HeldAtStages, Operations
<1>5. CASE r = <<Unlock("stats")>>
  <2>1. Head(r) = Unlock("stats")
    BY <1>5
  <2> QED
    BY <1>5, <2>1, HeldAtStages, Operations
<1>6. CASE r = <<Lock("stats"), Unlock("stats")>>
  <2>1. Head(r) = Lock("stats")
    BY <1>6
  <2> QED
    BY <1>6, <2>1, HeldAtStages, Operations
<1>7. CASE r = <<Unlock("downlink")>>
  <2>1. Head(r) = Unlock("downlink")
    BY <1>7
  <2> QED
    BY <1>7, <2>1, HeldAtStages, Operations
<1>8. CASE r = <<Lock("downlink"), Unlock("downlink")>>
  <2>1. Head(r) = Lock("downlink")
    BY <1>8
  <2> QED
    BY <1>8, <2>1, HeldAtStages, Operations
<1>9. CASE r = <<Unlock("stats"), Unlock("downlink")>>
  <2>1. Head(r) = Unlock("stats")
    BY <1>9
  <2> QED
    BY <1>9, <2>1, HeldAtStages, Operations
<1>10. CASE r = <<Lock("stats"), Unlock("stats"), Unlock("downlink")>>
  <2>1. Head(r) = Lock("stats")
    BY <1>10
  <2> QED
    BY <1>10, <2>1, HeldAtStages, Operations
<1>11. CASE r = <<Lock("downlink"), Lock("stats"), Unlock("stats"), Unlock("downlink")>>
  <2>1. Head(r) = Lock("downlink")
    BY <1>11
  <2> QED
    BY <1>11, <2>1, HeldAtStages, Operations
<1> QED
  BY <1>1, <1>2, <1>3, <1>4, <1>5, <1>6, <1>7, <1>8, <1>9, <1>10, <1>11 DEF Stages

\* Whoever holds a mutex is at a stage at which its function holds it.
LEMMA LocksStep ==
  ASSUME LocksInv, [LocksNext]_locksVars
  PROVE  LocksInv'
<1>1. ASSUME NEW t \in Callers, Call(t)
      PROVE  LocksInv'
  <2>1. PICK f \in Calls[t] : rest' = [rest EXCEPT ![t] = Body(f)]
    BY <1>1 DEF Call
  <2>2. Body(f) \in Stages
    BY LocksAssumption, BodyIsStage DEF Callers
  <2>3. rest' \in [Callers -> Stages] /\ holder' = holder
    BY <1>1, <2>1, <2>2 DEF Call, LocksInv
  <2>4. ASSUME NEW m \in Mutexes, holder[m] # "free"
        PROVE  m \in HeldAt(rest'[holder[m]])
    <3>1. holder[m] \in Callers /\ m \in HeldAt(rest[holder[m]])
      BY <2>4 DEF LocksInv
    <3>2. holder[m] # t
      BY <1>1, <3>1, HeldAtStages DEF Call
    <3> QED
      BY <2>1, <3>1, <3>2 DEF LocksInv
  <2> QED
    BY <2>3, <2>4 DEF LocksInv
<1>2. ASSUME NEW t \in Callers, Acquire(t)
      PROVE  LocksInv'
  <2> DEFINE r == rest[t]
             n == Head(r).mutex
  <2>1. r \in Stages /\ r # <<>> /\ Head(r).do = "lock"
    BY <1>2 DEF Acquire, LocksInv
  <2>2. /\ Tail(r) \in Stages /\ n \in Mutexes
        /\ HeldAt(r) \cup {n} \subseteq HeldAt(Tail(r))
    BY <2>1, StageStep
  <2>3. rest' = [rest EXCEPT ![t] = Tail(r)] /\ holder' = [holder EXCEPT ![n] = t]
    BY <1>2 DEF Acquire
  <2> HIDE DEF r, n
  <2>4. rest' \in [Callers -> Stages] /\ holder' \in [Mutexes -> Callers \cup {"free"}]
    BY <2>2, <2>3 DEF LocksInv
  <2>5. ASSUME NEW m \in Mutexes, holder'[m] # "free"
        PROVE  m \in HeldAt(rest'[holder'[m]])
    <3>1. CASE m = n
      <4>1. holder'[m] = t /\ rest'[t] = Tail(r)
        BY <2>3, <3>1 DEF LocksInv
      <4> QED
        BY <2>2, <3>1, <4>1
    <3>2. CASE m # n
      <4>1. holder'[m] = holder[m] /\ holder[m] \in Callers /\ m \in HeldAt(rest[holder[m]])
        BY <2>3, <2>5, <3>2 DEF LocksInv
      <4>2. CASE holder[m] = t
        <5>1. rest'[t] = Tail(r)
          BY <2>3 DEF LocksInv
        <5> QED
          BY <2>2, <4>1, <4>2, <5>1 DEF r
      <4>3. CASE holder[m] # t
        <5>1. rest'[holder[m]] = rest[holder[m]]
          BY <2>3, <4>1, <4>3 DEF LocksInv
        <5> QED
          BY <4>1, <5>1
      <4> QED
        BY <4>2, <4>3
    <3> QED
      BY <3>1, <3>2
  <2> QED
    BY <2>4, <2>5 DEF LocksInv
<1>3. ASSUME NEW t \in Callers, Release(t)
      PROVE  LocksInv'
  <2> DEFINE r == rest[t]
             n == Head(r).mutex
  <2>1. r \in Stages /\ r # <<>> /\ Head(r).do = "unlock"
    BY <1>3 DEF Release, LocksInv
  <2>2. /\ Tail(r) \in Stages /\ n \in Mutexes
        /\ HeldAt(r) \ {n} \subseteq HeldAt(Tail(r))
    BY <2>1, StageStep
  <2>3. rest' = [rest EXCEPT ![t] = Tail(r)] /\ holder' = [holder EXCEPT ![n] = "free"]
    BY <1>3 DEF Release
  <2> HIDE DEF r, n
  <2>4. rest' \in [Callers -> Stages] /\ holder' \in [Mutexes -> Callers \cup {"free"}]
    BY <2>2, <2>3 DEF LocksInv
  <2>5. ASSUME NEW m \in Mutexes, holder'[m] # "free"
        PROVE  m \in HeldAt(rest'[holder'[m]])
    <3>1. m # n
      BY <2>3, <2>5 DEF LocksInv
    <3>2. holder'[m] = holder[m] /\ holder[m] \in Callers /\ m \in HeldAt(rest[holder[m]])
      BY <2>3, <2>5, <3>1 DEF LocksInv
    <3>3. CASE holder[m] = t
      <4>1. rest'[t] = Tail(r)
        BY <2>3 DEF LocksInv
      <4> QED
        BY <2>2, <3>1, <3>2, <3>3, <4>1 DEF r
    <3>4. CASE holder[m] # t
      <4>1. rest'[holder[m]] = rest[holder[m]]
        BY <2>3, <3>2, <3>4 DEF LocksInv
      <4> QED
        BY <3>2, <4>1
    <3> QED
      BY <3>3, <3>4
  <2> QED
    BY <2>4, <2>5 DEF LocksInv
<1>4. CASE UNCHANGED locksVars
  BY <1>4 DEF LocksInv, locksVars
<1> QED
  BY <1>1, <1>2, <1>3, <1>4 DEF LocksNext

\* A thread of a circle that holds something holds downlink and wants stats; the
\* one that holds stats would have to hold downlink alone.
LEMMA LocksInvGivesNoCircle ==
  ASSUME LocksInv
  PROVE  NoCircle
<1> SUFFICES ASSUME NEW C \in SUBSET Callers, C # {},
                    \A t \in C : \E u \in C : WaitsFor(t, u)
             PROVE  FALSE
  BY DEF NoCircle
<1>1. ASSUME NEW t \in C, NEW u \in C, WaitsFor(t, u)
      PROVE  /\ rest[t] \in Stages /\ rest[t] # <<>> /\ Head(rest[t]).do = "lock"
             /\ Head(rest[t]).mutex \in HeldAt(rest[u])
  <2>1. rest[t] \in Stages /\ rest[t] # <<>> /\ Head(rest[t]).do = "lock"
    BY <1>1 DEF WaitsFor, LocksInv
  <2>2. Head(rest[t]).mutex \in Mutexes
    BY <2>1, StageStep
  <2>3. holder[Head(rest[t]).mutex] = u /\ u # "free"
    BY <1>1, LocksAssumption DEF WaitsFor, Callers
  <2> QED
    BY <2>1, <2>2, <2>3 DEF LocksInv
<1>2. PICK t1 \in C, t2 \in C : WaitsFor(t1, t2)
  OBVIOUS
<1>3. PICK t3 \in C : WaitsFor(t2, t3)
  OBVIOUS
<1>4. PICK t4 \in C : WaitsFor(t3, t4)
  OBVIOUS
<1>5. Head(rest[t2]).mutex = "stats"
  BY <1>1, <1>2, <1>3, HoldAndWait
<1>6. "stats" \in HeldAt(rest[t3])
  BY <1>1, <1>3, <1>5
<1>7. HeldAt(rest[t3]) = {"downlink"}
  BY <1>1, <1>4, <1>6, HoldAndWait
<1> QED
  BY <1>6, <1>7

\* No threads of the daemon, however many and whatever functions of the bridge
\* each of them calls, wait for each other's mutexes in a circle.
THEOREM LocksNoCircle == LocksSpec => []NoCircle
<1>1. LocksInit => LocksInv
  BY Zenon DEF LocksInit, LocksInv, Stages
<1>2. LocksInv /\ [LocksNext]_locksVars => LocksInv'
  BY LocksStep
<1>3. LocksInv => NoCircle
  BY LocksInvGivesNoCircle
<1> QED
  BY <1>1, <1>2, <1>3, PTL DEF LocksSpec

-----------------------------------------------------------------------------
(* The end of the daemon.  A thread that was joined has ended and stays    *)
(* so, because main creates threads only at the start; the scan is joined  *)
(* only when it was configured, so the invariant also says that it does    *)
(* not exist otherwise.                                                    *)

Joined == {"up", "down", "jit", "ss"}

\* Where main is once a thread has been joined.
End == {"cancel", "exit", "mqtt", "stop", "stopping", "board", "succeeded"}
AfterJit == End \cup {"join_ss"}
AfterDown == AfterJit \cup {"join_jit"}
AfterUp == AfterDown \cup {"join_down"}

ThreadsTyped ==
  thr \in [Workers -> {"none", "loop", "turn", "chip", "ended"}]

Over(t) == thr[t] \in {"none", "ended"}

\* The inductive invariant.
DaemonInv ==
  /\ ThreadsTyped
  /\ setting \in [spi : BOOLEAN, scan : BOOLEAN, gps : BOOLEAN]
  /\ main \in AfterUp => thr["up"] = "ended"
  /\ main \in AfterDown => thr["down"] = "ended"
  /\ main \in AfterJit => thr["jit"] = "ended"
  /\ main \in End => Over("ss")
  /\ ~setting.scan => thr["ss"] = "none"
  /\ chip \in {"stopping", "stopped"} =>
       /\ main \in {"stopping", "board", "succeeded", "failed"}
       /\ \A t \in Joined : Over(t)

\* CreateThread takes the first thread that is missing: there is one.
LEMMA FirstMissing ==
  ASSUME NEW M \in SUBSET (1 .. 7), M # {}
  PROVE  (CHOOSE i \in M : \A j \in M : i <= j) \in M
<1>1. \E i \in M : \A j \in M : i <= j
  <2>1. SUFFICES ASSUME \A i \in M : \E j \in M : j < i PROVE FALSE
    OBVIOUS
  <2>2. 1 \notin M
    BY <2>1
  <2>3. 2 \notin M /\ 3 \notin M
    BY <2>1, <2>2
  <2>4. 4 \notin M /\ 5 \notin M
    BY <2>1, <2>2, <2>3
  <2>5. 6 \notin M /\ 7 \notin M
    BY <2>1, <2>2, <2>3, <2>4
  <2>6. PICK i : i \in M /\ i \in 1 .. 7
    OBVIOUS
  <2> QED
    BY <2>2, <2>3, <2>4, <2>5, <2>6
<1> QED
  BY <1>1

\* A thread is created at the start only, and the scan only when it is wanted.
LEMMA Creation ==
  ASSUME DaemonInv, CreateThread
  PROVE  /\ main = "create" /\ main' \in {"create", "failed"} /\ chip' = chip
         /\ setting' = setting /\ ThreadsTyped'
         /\ ~setting.scan => thr'["ss"] = "none"
<1> DEFINE missing == {i \in 1 .. 7 : /\ CreationOrder[i] \in Wanted
                                      /\ thr[CreationOrder[i]] = "none"}
           i0 == CHOOSE i \in missing : \A j \in missing : i <= j
<1>1. /\ main = "create" /\ missing # {} /\ chip' = chip /\ setting' = setting
      /\ \/ thr' = [thr EXCEPT ![CreationOrder[i0]] = "loop"] /\ main' = main
         \/ main' = "failed" /\ thr' = thr
  BY DEF CreateThread, settings
<1>2. i0 \in missing
  <2> HIDE DEF missing
  <2>1. missing \in SUBSET (1 .. 7)
    BY DEF missing
  <2> QED
    BY <1>1, <2>1, FirstMissing
<1>3. CreationOrder[i0] \in Wanted
  BY <1>2
<1> HIDE DEF i0, missing
<1>4. CASE thr' = thr
  BY <1>1, <1>4 DEF DaemonInv, ThreadsTyped
<1>5. CASE thr' = [thr EXCEPT ![CreationOrder[i0]] = "loop"] /\ main' = main
  <2>1. ThreadsTyped'
    BY <1>5 DEF DaemonInv, ThreadsTyped
  <2>2. ~setting.scan => CreationOrder[i0] # "ss"
    BY <1>3 DEF Wanted
  <2>3. ~setting.scan => thr'["ss"] = "none"
    BY <1>5, <2>2 DEF DaemonInv, ThreadsTyped, Workers
  <2> QED
    BY <1>1, <1>5, <2>1, <2>3
<1> QED
  BY <1>1, <1>4, <1>5

\* A thread that is over stays over, and only its own step changes it.
LEMMA ThreadMoves ==
  ASSUME DaemonInv, NEW t \in Workers, ThreadStep(t)
  PROVE  /\ UNCHANGED <<main, chip, setting>> /\ ThreadsTyped'
         /\ \A u \in Workers : Over(u) => thr'[u] = thr[u]
<1>1. /\ UNCHANGED <<main, chip, setting>> /\ thr[t] \in {"loop", "turn", "chip"}
      /\ \E to \in {"loop", "turn", "chip", "ended"} : thr' = [thr EXCEPT ![t] = to]
  BY DEF ThreadStep, LoopTest, TakeConcentrator, LeaveConcentrator, EndTurn, Cancelled, Moves,
         settings
<1>2. PICK to \in {"loop", "turn", "chip", "ended"} : thr' = [thr EXCEPT ![t] = to]
  BY <1>1
<1> QED
  BY <1>1, <1>2 DEF DaemonInv, ThreadsTyped, Over

LEMMA DaemonStep ==
  ASSUME DaemonInv, [DaemonNext]_daemonVars
  PROVE  DaemonInv'
<1> USE DEF AfterUp, AfterDown, AfterJit, End, Joined
<1>1. CASE CreateThread
  BY <1>1, Creation DEF DaemonInv
<1>2. ASSUME NEW t \in Workers, ThreadStep(t) PROVE DaemonInv'
  <2>1. /\ UNCHANGED <<main, chip, setting>> /\ ThreadsTyped'
        /\ \A u \in Workers : Over(u) => thr'[u] = thr[u]
    BY <1>2, ThreadMoves
  <2>2. \A u \in Joined : u \in Workers
    BY DEF Workers
  <2> QED
    BY <2>1, <2>2 DEF DaemonInv, Over
<1>3. CASE Signal
  BY <1>3 DEF Signal, Installed, Final, DaemonInv, ThreadsTyped, Over, settings
<1>4. CASE GiveUpFetching
  BY <1>4 DEF GiveUpFetching, DaemonInv, ThreadsTyped, Over, settings
<1>5. CASE Join
  BY <1>5 DEF Join, Goes, DaemonInv, ThreadsTyped, Over, settings
<1>6. CASE StopConcentrator
  BY <1>6 DEF StopConcentrator, Goes, DaemonInv, ThreadsTyped, Over, settings
<1>7. CASE StartConcentrator
  BY <1>7 DEF StartConcentrator, GoesOrFails, DaemonInv, ThreadsTyped, Over, settings
<1>8. CASE EnableGps \/ ResetBoard \/ InitHub \/ InstallHandlers \/ LeaveStatistics
  BY <1>8 DEF EnableGps, ResetBoard, InitHub, InstallHandlers, LeaveStatistics, Goes,
              GoesOrFails, DaemonInv, ThreadsTyped, Over, settings
<1>9. CASE CancelGps \/ Exit \/ CloseMqtt \/ Leave
  BY <1>9 DEF CancelGps, Exit, CloseMqtt, Leave, Goes, GoesOrFails, DaemonInv, ThreadsTyped,
              Over, settings
<1>10. CASE UNCHANGED daemonVars
  BY <1>10 DEF daemonVars, settings, DaemonInv, ThreadsTyped, Over
<1> QED
  BY <1>1, <1>2, <1>3, <1>4, <1>5, <1>6, <1>7, <1>8, <1>9, <1>10 DEF DaemonNext, Main

\* From lgw_stop on, which does not take mx_concent, no joined thread is inside a
\* call of the concentrator, whatever was configured and whenever signals came.
THEOREM DaemonConcentratorAlone == DaemonSpec => []ConcentratorAlone
<1>1. DaemonInit => DaemonInv
  BY DaemonAssumption
     DEF DaemonInit, DaemonInv, ThreadsTyped, Over, Workers, End, AfterUp, AfterDown, AfterJit
<1>2. DaemonInv /\ [DaemonNext]_daemonVars => DaemonInv'
  BY DaemonStep
<1>3. DaemonInv => ConcentratorAlone
  BY DEF DaemonInv, ConcentratorAlone, Over, Joined
<1> QED
  BY <1>1, <1>2, <1>3, PTL DEF DaemonSpec

-----------------------------------------------------------------------------
(* Conversions                                                             *)

LEMMA Quotient ==
  ASSUME NEW a \in Int, NEW b \in Nat \ {0}
  PROVE  /\ (a \div b) \in Int /\ (a % b) \in 0 .. b - 1
         /\ a = b * (a \div b) + (a % b)
  OBVIOUS

\* r is the residue of a, and q the quotient.
Turned(a, b, q, r) == r \in 0 .. b - 1 /\ a = b * q + r

LEMMA Turns ==
  ASSUME NEW a \in Int, NEW b \in Nat \ {0}, NEW r, r = a % b
  PROVE  \E q \in Int : Turned(a, b, q, r)
  BY Quotient DEF Turned

LEMMA Distributed ==
  ASSUME NEW a \in Int, NEW b \in Int, NEW c \in Int
  PROVE  (a + b) * c = a * c + b * c
  OBVIOUS

LEMMA QuotientIs ==
  ASSUME NEW a \in Int, NEW b \in Nat \ {0}, NEW q \in Int, NEW r \in 0 .. b - 1,
         a = b * q + r
  PROVE  (a \div b) = q /\ (a % b) = r
<1> DEFINE p == a \div b  s == a % b
<1>1. p \in Int /\ s \in 0 .. b - 1 /\ a = b * p + s
  BY Quotient
<1> HIDE DEF p, s
<1>2. b * p + s = b * q + r
  BY <1>1
<1>3. CASE p < q
  <2>1. b * (p + 1) <= b * q
    BY <1>1, <1>3, SMT
  <2> QED BY <1>1, <1>2, <2>1, SMT
<1>4. CASE q < p
  <2>1. b * (q + 1) <= b * p
    BY <1>1, <1>4, SMT
  <2> QED BY <1>1, <1>2, <2>1, SMT
<1>5. p = q => s = r
  BY <1>1, <1>2
<1> QED BY <1>1, <1>3, <1>4, <1>5 DEF p, s

\* n nanoseconds, of which d are a second, as ticks, of which c are one, where m would be
\* exact
NearTick(c, d, m, n) ==
  n \in 0 .. d - 1 /\ \E e \in {m, m - 1}, r \in 0 .. d - 1 : n * c = d * e + r

\* m ticks are n nanoseconds, and n nanoseconds are m ticks or one less.
LEMMA TicksAndBack ==
  ASSUME NEW c \in Nat \ {0}, NEW d \in Nat \ {0}, c < d, NEW m \in 0 .. c - 1,
         NEW n, n = (m * d) \div c
  PROVE  NearTick(c, d, m, n)
<1> DEFINE s == (m * d) % c
<1>1. m * d \in Int
  OBVIOUS
<1>2. n \in Int /\ s \in 0 .. c - 1 /\ m * d = c * n + s
  BY <1>1, Quotient
<1> HIDE DEF s
<1>3. 0 <= m * d /\ m * d <= (c - 1) * d /\ (c - 1) * d < c * d
  OBVIOUS
<1>4. n >= 0
  <2>1. CASE n < 0
    <3>1. c * n <= c * (-1)
      BY <1>2, <2>1
    <3> QED
      BY <1>2, <1>3, <3>1
  <2> QED
    BY <1>2, <2>1
<1>5. n < d
  <2>1. CASE n >= d
    <3>1. c * d <= c * n
      BY <1>2, <2>1
    <3> QED
      BY <1>1, <1>2, <1>3, <3>1
  <2> QED
    BY <1>2, <2>1
<1>6. n * c = c * n /\ m * d = d * m /\ d * (m - 1) = d * m - d
  BY <1>2
<1>7. CASE s = 0
  <2>1. n * c = d * m + 0
    BY <1>2, <1>6, <1>7
  <2> QED
    BY <1>2, <1>4, <1>5, <2>1 DEF NearTick
<1>8. CASE s # 0
  <2>1. d - s \in 0 .. d - 1
    BY <1>2, <1>8
  <2>2. n * c = d * (m - 1) + (d - s)
    BY <1>1, <1>2, <1>6
  <2> QED
    BY <1>2, <1>4, <1>5, <2>1, <2>2 DEF NearTick
<1> QED
  BY <1>7, <1>8

\* The time that lies q seconds and n nanoseconds after t.
LEMMA Later ==
  ASSUME NEW t \in Times, NEW q \in Nat, NEW n \in 0 .. NSEC - 1
  PROVE  Plus(t, q, n) \in Times /\ Nsec(Plus(t, q, n)) - Nsec(t) = q * NSEC + n
<1> DEFINE a == t.sec  b == t.nsec
<1>1. NSEC \in Nat \ {0} /\ a \in Nat /\ b \in 0 .. NSEC - 1
  BY GpsTimeAssumption DEF Times
<1> HIDE DEF a, b
<1>2. /\ (a + q) * NSEC = a * NSEC + q * NSEC
      /\ (a + q + 1) * NSEC = a * NSEC + q * NSEC + NSEC
      /\ a * NSEC \in Int /\ q * NSEC \in Int
  BY <1>1
<1>3. CASE b + n < NSEC
  <2>1. Plus(t, q, n) = [sec |-> a + q, nsec |-> b + n]
    BY <1>3 DEF Plus, a, b
  <2>2. Nsec(Plus(t, q, n)) = (a + q) * NSEC + (b + n) /\ Nsec(t) = a * NSEC + b
    BY <2>1 DEF Nsec, a, b
  <2>3. b + n \in 0 .. NSEC - 1 /\ a + q \in Nat
    BY <1>1, <1>3
  <2>4. Plus(t, q, n) \in Times
    BY <2>1, <2>3 DEF Times
  <2> QED
    BY <1>1, <1>2, <2>2, <2>4
<1>4. CASE ~(b + n < NSEC)
  <2>1. Plus(t, q, n) = [sec |-> a + q + 1, nsec |-> b + n - NSEC]
    BY <1>4 DEF Plus, a, b
  <2>2. Nsec(Plus(t, q, n)) = (a + q + 1) * NSEC + (b + n - NSEC) /\ Nsec(t) = a * NSEC + b
    BY <2>1 DEF Nsec, a, b
  <2>3. b + n - NSEC \in 0 .. NSEC - 1 /\ a + q + 1 \in Nat
    BY <1>1, <1>4
  <2>4. Plus(t, q, n) \in Times
    BY <2>1, <2>3 DEF Times
  <2> QED
    BY <1>1, <1>2, <2>2, <2>4
<1> QED
  BY <1>3, <1>4

\* From a delay of delta ticks, which is q seconds and m ticks, to nanoseconds and back.
LEMMA DelayAndBack ==
  ASSUME NEW from \in 0 .. WRAP - 1, NEW count \in 0 .. WRAP - 1, NEW delta \in 0 .. WRAP - 1,
         NEW k \in Int, count - from = WRAP * k + delta,
         NEW q \in Int, NEW m \in 0 .. CPS - 1, delta = CPS * q + m,
         NEW n, n = (m * NSEC) \div CPS
  PROVE  /\ q \in Nat /\ n \in 0 .. NSEC - 1
         /\ (from + ((q * NSEC + n) * CPS) \div NSEC) % WRAP \in {count, (count - 1) % WRAP}
<1>1. CPS \in Nat \ {0} /\ NSEC \in Nat \ {0} /\ WRAP \in Nat \ {0} /\ CPS < NSEC
  BY GpsTimeAssumption
<1>2. q \in Nat
  <2>1. CASE q < 0
    <3>1. CPS * q <= CPS * (-1)
      BY <1>1, <2>1
    <3> QED
      BY <1>1, <3>1
  <2> QED
    BY <2>1
<1>3. n \in 0 .. NSEC - 1 /\ NearTick(CPS, NSEC, m, n)
  <2>1. NearTick(CPS, NSEC, m, n)
    BY <1>1, TicksAndBack, Zenon
  <2> QED
    BY <2>1 DEF NearTick
<1>4. PICK e \in {m, m - 1}, r \in 0 .. NSEC - 1 : n * CPS = NSEC * e + r
  BY <1>3 DEF NearTick
<1>5. ((q * NSEC + n) * CPS) \div NSEC = CPS * q + e
  <2>1. q * NSEC \in Int /\ CPS * q \in Int /\ e \in Int
    BY <1>1, <1>4
  <2>2. (q * NSEC + n) * CPS = (q * NSEC) * CPS + n * CPS
    <3>1. n \in Int /\ CPS \in Int
      BY <1>1, <1>3
    <3> QED
      BY <2>1, <3>1, Distributed, Zenon
  <2>3. (q * NSEC) * CPS = NSEC * (CPS * q)
    BY <1>1
  <2>4. NSEC * (CPS * q) + NSEC * e = NSEC * (CPS * q + e)
    BY <1>1, <2>1
  <2>5. NSEC * (CPS * q) \in Int /\ NSEC * e \in Int /\ NSEC * (CPS * q + e) \in Int
    BY <1>1, <2>1
  <2>6. (q * NSEC + n) * CPS = NSEC * (CPS * q + e) + r
    BY <1>4, <2>2, <2>3, <2>4, <2>5
  <2>7. (q * NSEC + n) * CPS \in Int /\ CPS * q + e \in Int
    BY <1>1, <1>3, <2>1
  <2> QED
    BY <1>1, <1>4, <2>6, <2>7, QuotientIs
<1>6. (from + (CPS * q + e)) % WRAP \in {count, (count - 1) % WRAP}
  <2>1. CPS * q \in Int /\ WRAP * k \in Int /\ WRAP * (-k) = -(WRAP * k)
    BY <1>1
  <2>2. CASE e = m
    <3>1. from + (CPS * q + e) = WRAP * (-k) + count
      BY <1>1, <2>1, <2>2
    <3>2. from + (CPS * q + e) \in Int /\ -k \in Int
      BY <1>1, <2>1, <2>2
    <3> QED
      BY <1>1, <3>1, <3>2, QuotientIs
  <2>3. CASE e = m - 1
    <3> DEFINE j == (count - 1) \div WRAP  s == (count - 1) % WRAP
    <3>1. j \in Int /\ s \in 0 .. WRAP - 1 /\ count - 1 = WRAP * j + s
      BY <1>1, Quotient
    <3> HIDE DEF j, s
    <3>2. WRAP * (j - k) = WRAP * j - WRAP * k /\ WRAP * j \in Int
      BY <1>1, <3>1
    <3>3. from + (CPS * q + e) = WRAP * (j - k) + s
      BY <1>1, <2>1, <2>3, <3>1, <3>2
    <3>4. from + (CPS * q + e) \in Int /\ j - k \in Int
      BY <1>1, <2>1, <2>3, <3>1
    <3>5. (from + (CPS * q + e)) % WRAP = s
      BY <1>1, <3>1, <3>3, <3>4, QuotientIs
    <3> QED
      BY <3>5 DEF s
  <2> QED
    BY <1>4, <2>2, <2>3
<1> QED
  BY <1>2, <1>3, <1>5, <1>6

\* From a counter to a time after t and back.
LEMMA ThereAndBack ==
  ASSUME NEW t \in Times, NEW from \in 0 .. WRAP - 1, NEW count \in 0 .. WRAP - 1,
         NEW delta, delta = (count - from) % WRAP,
         NEW q, q = delta \div CPS, NEW n, n = ((delta % CPS) * NSEC) \div CPS
  PROVE  /\ Plus(t, q, n) \in Times /\ Nsec(Plus(t, q, n)) - Nsec(t) = q * NSEC + n
         /\ (from + ((Nsec(Plus(t, q, n)) - Nsec(t)) * CPS) \div NSEC) % WRAP
              \in {count, (count - 1) % WRAP}
<1>1. CPS \in Nat \ {0} /\ NSEC \in Nat \ {0} /\ WRAP \in Nat \ {0}
  BY GpsTimeAssumption
<1>2. count - from \in Int
  BY <1>1
<1>3. PICK k \in Int : delta \in 0 .. WRAP - 1 /\ count - from = WRAP * k + delta
  BY <1>1, <1>2, Quotient
<1>4. PICK m \in 0 .. CPS - 1 : m = delta % CPS /\ q \in Int /\ delta = CPS * q + m
  <2>1. delta \in Int
    BY <1>1, <1>3
  <2>2. /\ (delta \div CPS) \in Int /\ (delta % CPS) \in 0 .. CPS - 1
        /\ delta = CPS * (delta \div CPS) + (delta % CPS)
    BY <1>1, <2>1, Quotient, Zenon
  <2> QED
    BY <2>2, Zenon
<1>5. n = (m * NSEC) \div CPS
  BY <1>4
<1>6. /\ q \in Nat /\ n \in 0 .. NSEC - 1
      /\ (from + ((q * NSEC + n) * CPS) \div NSEC) % WRAP \in {count, (count - 1) % WRAP}
  BY <1>3, <1>4, <1>5, DelayAndBack
<1>7. Plus(t, q, n) \in Times /\ Nsec(Plus(t, q, n)) - Nsec(t) = q * NSEC + n
  BY <1>6, Later
<1> QED
  BY <1>6, <1>7

\* References: what is known of one instant
References == [count : 0 .. WRAP - 1, utc : Times, gps : Times]

\* lgw_cnt2utc, lgw_cnt2gps and their inverses (loragw_gps.c), for any rate of the
\* counter, any reference and any count: back and forth loses at most one tick, over every
\* wrap of the counter and carry of the nanoseconds.
THEOREM ConversionsAreRight ==
  ASSUME NEW known \in References, NEW count \in 0 .. WRAP - 1
  PROVE  ConversionsRight(known, count)
<1> DEFINE delta == (count - known.count) % WRAP
           u == lgw_cnt2utc(known, count)  g == lgw_cnt2gps(known, count)
<1>1. known.count \in 0 .. WRAP - 1 /\ known.utc \in Times /\ known.gps \in Times
  BY DEF References
<1>2. /\ u = Plus(known.utc, delta \div CPS, ((delta % CPS) * NSEC) \div CPS)
      /\ g = Plus(known.gps, delta \div CPS, ((delta % CPS) * NSEC) \div CPS)
  BY DEF lgw_cnt2utc, lgw_cnt2gps
<1> HIDE DEF u, g
<1>3. /\ u \in Times
      /\ Nsec(u) - Nsec(known.utc) = (delta \div CPS) * NSEC + ((delta % CPS) * NSEC) \div CPS
      /\ lgw_utc2cnt(known, u) \in {count, (count - 1) % WRAP}
  BY <1>1, <1>2, ThereAndBack DEF lgw_utc2cnt
<1>4. /\ g \in Times
      /\ Nsec(g) - Nsec(known.gps) = (delta \div CPS) * NSEC + ((delta % CPS) * NSEC) \div CPS
      /\ lgw_gps2cnt(known, g) \in {count, (count - 1) % WRAP}
  BY <1>1, <1>2, ThereAndBack DEF lgw_gps2cnt
<1> QED
  BY <1>3, <1>4 DEF ConversionsRight, u, g

-----------------------------------------------------------------------------
(* The reference                                                           *)

NoReference == [systime |-> 0, count |-> 0, utc |-> 0, gps |-> 0]

\* Nothing was ever taken as the reference.
Unset ==
  time_reference_gps = NoReference /\ ~gps_ref_valid /\ init_cpt = 0 /\ ~xtal_correct_ok

\* It pairs a second with the counter of that second.
CountRight == time_reference_gps.count = (time_reference_gps.gps - Epoch) % RANGE

\* It was taken at most d seconds ago, from messages of that second or the one before.
Recent(d) ==
  /\ sec - time_reference_gps.systime <= d
  /\ time_reference_gps.gps <= time_reference_gps.systime
  /\ time_reference_gps.systime <= time_reference_gps.gps + 1

\* It is right, UTC included, and of a second at most d ago.
Sound(d) ==
  /\ CountRight /\ time_reference_gps.utc = time_reference_gps.gps
  /\ sec - time_reference_gps.utc <= d /\ Recent(d)

\* thread_valid has not counted more than d + 1 valid seconds.
Young(d) == init_cpt + (sec - checked) <= d + 1

\* Right or not: the next pair replaces it, before beacons are queued from a wrong one.
Unsure(d) == aber_min1 /\ aber_min2 /\ (CountRight \/ Young(d)) /\ Recent(d)

\* What a fault of the receiver leaves behind; the same after one right pair; after two.
Shaken(d) == Unset \/ Sound(d) \/ Unsure(d)
Settling(d) == Unset \/ Sound(d)
Steady(d) == Unset \/ (Sound(d) /\ (aber_min1 => Young(d)))

-----------------------------------------------------------------------------
(* The line                                                                *)

Message == [kind : {"RMC", "UBX"}, time : Nat, fix : BOOLEAN]

IsRmc(i, t) == serial[i].kind = "RMC" /\ serial[i].time = t
IsUbx(i, t) == serial[i].kind = "UBX" /\ serial[i].time = t

\* No message leads to a pair.
NoPair ==
  \/ Len(serial) = 0
  \/ Len(serial) = 2 /\ IsRmc(1, sec) /\ IsUbx(2, sec) /\ ~serial[2].fix
  \/ Len(serial) = 1 /\ IsUbx(1, sec) /\ ~serial[1].fix /\ gps_utc = sec
  \/ Len(serial) = 1 /\ IsRmc(1, sec) /\ calm = 0

\* The pair of this second comes, and is right.
RightPair ==
  /\ trig = Counter /\ outage = 0 /\ time_reference_gps.utc < sec
  /\ \/ Len(serial) = 2 /\ IsRmc(1, sec) /\ IsUbx(2, sec) /\ serial[2].fix
     \/ Len(serial) = 1 /\ IsUbx(1, sec) /\ serial[1].fix /\ gps_utc = sec

\* What is left of the second before, and behind it the messages of this one.
LatePair ==
  /\ \/ /\ Len(serial) = 4
        /\ IsRmc(1, sec - 1) /\ IsUbx(2, sec - 1) /\ IsRmc(3, sec) /\ IsUbx(4, sec)
     \/ /\ Len(serial) = 3 /\ gps_utc = sec - 1
        /\ IsUbx(1, sec - 1) /\ IsRmc(2, sec) /\ IsUbx(3, sec)
  /\ Epoch < sec /\ time_reference_gps.utc < sec /\ time_reference_gps.gps < sec
  /\ serial[Len(serial)].fix => trig = Counter /\ outage = 0

\* The pair that comes suffers from a fault: the counter may be that of another second,
\* or UTC is.
FaultPair ==
  /\ calm = 0
  /\ \/ Len(serial) = 2 /\ IsRmc(1, sec) /\ IsUbx(2, sec) /\ serial[2].fix
     \/ Len(serial) = 1 /\ IsUbx(1, sec) /\ (gps_utc = sec \/ trig = Counter)
     \/ LatePair

LineTypes ==
  /\ sec \in Nat /\ Epoch <= sec /\ trig \in 0 .. RANGE - 1 /\ serial \in Seq(Message)
  /\ gps_utc \in Nat /\ gps_utc <= sec /\ (gps_utc = 0 \/ Epoch <= gps_utc)
  /\ gps_tow \in Nat /\ gps_time_ok \in BOOLEAN
  /\ outage \in 0 .. MaxLost /\ calm \in 0 .. Calm

RefTypes ==
  /\ time_reference_gps \in [systime : Nat, count : 0 .. RANGE - 1, utc : Nat, gps : Nat]
  /\ time_reference_gps.utc <= sec /\ time_reference_gps.gps <= sec
  /\ time_reference_gps.systime <= sec
  /\ aber_min1 \in BOOLEAN /\ aber_min2 \in BOOLEAN

ValidTypes ==
  /\ checked \in Nat /\ checked <= sec /\ sec <= checked + 1
  /\ gps_ref_valid \in BOOLEAN /\ init_cpt \in Nat /\ xtal_correct_ok \in BOOLEAN
  /\ xtal_correct_ok => init_cpt > XERR_INIT_AVG

\* How good the reference is depends on how many right pairs came since the last fault;
\* it is at most d seconds old.
ReferenceWithin(d) ==
  \/ NoPair /\ calm = 0 /\ Shaken(d) /\ d <= outage + MaxLost + 2
  \/ NoPair /\ calm = 1 /\ Settling(d) /\ d <= outage
  \/ NoPair /\ calm >= 2 /\ Steady(d) /\ d <= outage
  \/ RightPair /\ calm = 0 /\ Shaken(d) /\ d <= MaxLost + 2
  \/ RightPair /\ calm = 1 /\ Shaken(d)
  \/ RightPair /\ calm = 2 /\ Settling(d) /\ d <= MaxLost + 1
  \/ RightPair /\ calm >= 3 /\ Steady(d) /\ d <= MaxLost + 1
  \/ FaultPair /\ Steady(d) /\ d <= outage + MaxLost + 2

Span == 0 .. 2 * MaxLost + 3
ReferenceOf == \E d \in Span : ReferenceWithin(d)

GpsTypes == LineTypes /\ RefTypes /\ ValidTypes
ReferenceInv == GpsTypes /\ ReferenceOf

-----------------------------------------------------------------------------
(* Arithmetic of pairs                                                     *)

LEMMA GpsConstants ==
  /\ RANGE \in Nat \ {0} /\ Epoch \in Nat /\ RANGE <= Epoch /\ GPS_REF_MAX_AGE \in Nat
  /\ GPS_REF_MAX_AGE < Epoch /\ XERR_INIT_AVG \in Nat \ {0} /\ MaxTime \in Nat
  /\ MaxLost \in Nat /\ Calm \in Nat
  BY GpsBeaconAssumption

LEMMA TurnsAgree ==
  ASSUME NEW b \in Nat \ {0}, NEW t \in Nat, NEW u \in Int, NEW v \in Int,
         NEW j \in Int, NEW k \in Int, NEW c, NEW e, v - u \in Nat, v - u < b,
         Turned(u - t, b, j, c), Turned(v - t, b, k, e)
  PROVE  (e - c) % b = v - u
<1>1. c \in Int /\ e \in Int /\ u - t = b * j + c /\ v - t = b * k + e
  BY DEF Turned
<1>2. b * (j - k) = b * j - b * k /\ b * j \in Int /\ b * k \in Int
  OBVIOUS
<1>3. e - c = b * (j - k) + (v - u)
  BY <1>1, <1>2
<1>4. e - c \in Int /\ j - k \in Int /\ v - u \in 0 .. b - 1
  BY <1>1
<1> QED
  BY <1>3, <1>4, QuotientIs

LEMMA Together ==
  ASSUME NEW b \in Nat \ {0}, NEW t \in Int, NEW u \in Int, NEW v \in Int, NEW e \in Int,
         NEW j \in Int, NEW k \in Int, NEW c, Turned(u - t, b, j, c), Turned(e - c, b, k, v - u)
  PROVE  v - t = b * (j - k) + e /\ j - k \in Int
<1>1. c \in Int /\ u - t = b * j + c /\ e - c = b * k + (v - u)
  BY DEF Turned
<1>2. b * (j - k) = b * j - b * k /\ b * j \in Int /\ b * k \in Int
  OBVIOUS
<1> QED
  BY <1>1, <1>2

\* Two right counts of seconds less than a turn apart differ as the seconds do.
LEMMA RightCountsAgree ==
  ASSUME NEW u \in Int, NEW v \in Int, u <= v, v - u < RANGE
  PROVE  (((v - Epoch) % RANGE) - ((u - Epoch) % RANGE)) % RANGE = v - u
<1>1. RANGE \in Nat \ {0} /\ Epoch \in Nat
  BY GpsConstants
<1>2. u - Epoch \in Int /\ v - Epoch \in Int /\ v - u \in Nat
  BY <1>1
<1> DEFINE c == (u - Epoch) % RANGE  e == (v - Epoch) % RANGE
<1>3. PICK j \in Int : Turned(u - Epoch, RANGE, j, c)
  BY <1>1, <1>2, Turns, Zenon
<1>4. PICK k \in Int : Turned(v - Epoch, RANGE, k, e)
  BY <1>1, <1>2, Turns, Zenon
<1> HIDE DEF c, e
<1>5. (e - c) % RANGE = v - u
  BY <1>1, <1>2, <1>3, <1>4, TurnsAgree, SMTT(30)
<1> QED
  BY <1>5 DEF c, e

\* A count that differs from a right one as the seconds do is right.
LEMMA AgreeingIsRight ==
  ASSUME NEW u \in Int, NEW v \in Int, NEW c, c = (u - Epoch) % RANGE,
         NEW e \in 0 .. RANGE - 1, (e - c) % RANGE = v - u
  PROVE  e = (v - Epoch) % RANGE
<1>1. RANGE \in Nat \ {0} /\ Epoch \in Nat
  BY GpsConstants
<1>2. u - Epoch \in Int /\ v - Epoch \in Int /\ v - u \in Int /\ e \in Int
  BY <1>1
<1>3. PICK j \in Int : Turned(u - Epoch, RANGE, j, c)
  BY <1>1, <1>2, Turns, Zenon
<1>4. e - c \in Int
  BY <1>2, <1>3 DEF Turned
<1>5. PICK k \in Int : Turned(e - c, RANGE, k, v - u)
  BY <1>1, <1>4, Turns, Zenon
<1>6. v - Epoch = RANGE * (j - k) + e /\ j - k \in Int
  <2>1. Epoch \in Int
    BY <1>1
  <2> QED
    BY <1>1, <1>2, <1>3, <1>5, <2>1, Together, Zenon
<1> QED
  BY <1>1, <1>2, <1>6, QuotientIs, Zenon

\* Seconds less than a turn apart have different counts.
LEMMA CountsDiffer ==
  ASSUME NEW u \in Int, NEW v \in Int, u <= v, v - u < RANGE,
         (u - Epoch) % RANGE = (v - Epoch) % RANGE
  PROVE  u = v
<1>1. RANGE \in Nat \ {0} /\ Epoch \in Nat
  BY GpsConstants
<1> DEFINE c == (u - Epoch) % RANGE
<1>2. c \in 0 .. RANGE - 1
  BY <1>1, Quotient
<1>3. (c - c) % RANGE = v - u
  BY RightCountsAgree
<1> HIDE DEF c
<1>4. c - c = RANGE * 0 + 0 /\ c - c \in Int
  BY <1>1, <1>2
<1>5. (c - c) % RANGE = 0
  BY <1>1, <1>4, QuotientIs
<1> QED
  BY <1>3, <1>5

LEMMA CounterIs ==
  ASSUME LineTypes
  PROVE  Counter = (sec - Epoch) % RANGE /\ Counter \in 0 .. RANGE - 1
  BY GpsConstants, Quotient DEF LineTypes, Counter

-----------------------------------------------------------------------------
(* A pair is taken or not                                                  *)

\* What thread_gps leaves alone
KeptBySync == UNCHANGED <<sec, gps_ref_valid, init_cpt, xtal_correct_ok, checked>>

NewReference(count, utc, gps) == [systime |-> sec, count |-> count, utc |-> utc, gps |-> gps]

LEMMA SyncCases ==
  ASSUME NEW count, NEW utc, NEW gps, lgw_gps_sync(count, utc, gps), RefTypes
  PROVE  \/ ~Aberrant(count, utc) /\ time_reference_gps' = NewReference(count, utc, gps)
              /\ ~aber_min1'
         \/ Aberrant(count, utc) /\ aber_min1 /\ aber_min2
              /\ time_reference_gps' = NewReference(count, utc, gps) /\ aber_min1' /\ aber_min2'
         \/ Aberrant(count, utc) /\ ~(aber_min1 /\ aber_min2)
              /\ time_reference_gps' = time_reference_gps
<1> DEFINE aber_n0 == Aberrant(count, utc)
<1>1. /\ time_reference_gps' = IF ~aber_n0 \/ Reset THEN NewReference(count, utc, gps)
                              ELSE time_reference_gps
      /\ aber_min2' = aber_min1 /\ aber_min1' = aber_n0
  BY Zenon DEF lgw_gps_sync, NewReference
<1>2. Reset <=> aber_min1 /\ aber_min2
  BY Zenon DEF Reset
<1> HIDE DEF aber_n0
<1> QED
  BY <1>1, <1>2, Zenon DEF aber_n0

\* Any pair is far from no reference: UTC counts the years, the counter an hour.
LEMMA FarFromNothing ==
  ASSUME NEW count \in 0 .. RANGE - 1, NEW utc \in Nat, utc = 0 \/ Epoch <= utc,
         time_reference_gps = NoReference
  PROVE  Aberrant(count, utc)
<1>1. RANGE \in Nat \ {0} /\ Epoch \in Nat /\ RANGE <= Epoch
  BY GpsConstants
<1>2. time_reference_gps.utc = 0 /\ time_reference_gps.count = 0
  BY DEF NoReference
<1>3. utc - 0 = utc /\ count - 0 = count /\ count \in Int /\ count = RANGE * 0 + count
  BY <1>1
<1>4. (count - 0) % RANGE = count
  <2>1. count % RANGE = count
    BY <1>1, <1>3, QuotientIs
  <2> QED
    BY <1>3, <2>1
<1>5. utc = 0 \/ count # utc
  BY <1>1
<1> QED
  BY <1>2, <1>3, <1>4, <1>5 DEF Aberrant

\* The right pair of a later second agrees with a right reference.
LEMMA RightAgrees ==
  ASSUME LineTypes, RefTypes, NEW d \in Nat, d < RANGE, Sound(d), trig = Counter,
         time_reference_gps.utc < sec
  PROVE  ~Aberrant(trig, sec)
<1> DEFINE u == time_reference_gps.utc
<1>1. u \in Nat /\ sec \in Nat /\ u <= sec /\ sec - u < RANGE /\ sec - u # 0
  BY GpsConstants DEF LineTypes, RefTypes, Sound
<1>2. time_reference_gps.count = (u - Epoch) % RANGE /\ trig = (sec - Epoch) % RANGE
  BY CounterIs DEF Sound, CountRight
<1> HIDE DEF u
<1>3. (((sec - Epoch) % RANGE) - ((u - Epoch) % RANGE)) % RANGE = sec - u
  BY <1>1, RightCountsAgree
<1> QED
  BY <1>1, <1>2, <1>3 DEF Aberrant, u

LEMMA NewFields ==
  ASSUME NEW count, NEW utc, NEW gps, time_reference_gps' = NewReference(count, utc, gps)
  PROVE  /\ time_reference_gps'.systime = sec /\ time_reference_gps'.count = count
         /\ time_reference_gps'.utc = utc /\ time_reference_gps'.gps = gps
  BY DEF NewReference

\* A right pair, once it is the reference
LEMMA TakenIsSound ==
  ASSUME LineTypes, sec' = sec, NEW d \in Nat, NEW g \in Nat, g <= sec, sec <= g + 1, sec - g <= d,
         NEW c, c = (g - Epoch) % RANGE, time_reference_gps' = NewReference(c, g, g)
  PROVE  Sound(d)'
<1>1. /\ time_reference_gps'.systime = sec /\ time_reference_gps'.count = c
      /\ time_reference_gps'.utc = g /\ time_reference_gps'.gps = g
  BY NewFields, Zenon
<1>2. CountRight'
  BY <1>1, Zenon DEF CountRight
<1>3. sec \in Nat
  BY DEF LineTypes
<1>4. Recent(d)'
  BY <1>1, <1>3 DEF Recent
<1> QED
  BY <1>1, <1>2, <1>4 DEF Sound

LEMMA UnsetStays ==
  ASSUME Unset, KeptBySync, time_reference_gps' = time_reference_gps
  PROVE  Unset'
  BY Zenon DEF Unset, KeptBySync

LEMMA SoundStays ==
  ASSUME NEW d, Sound(d), sec' = sec, time_reference_gps' = time_reference_gps
  PROVE  Sound(d)'
  BY Zenon DEF Sound, Recent, CountRight

LEMMA YoungStays ==
  ASSUME NEW d, Young(d), KeptBySync
  PROVE  Young(d)'
  BY Zenon DEF Young, KeptBySync

\* The right pair of this second meets what a fault left behind.
LEMMA RightAfterFault ==
  ASSUME LineTypes, RefTypes, ValidTypes, NEW d \in Nat, d < RANGE, Shaken(d), trig = Counter,
         time_reference_gps.utc < sec, lgw_gps_sync(trig, sec, sec), KeptBySync
  PROVE  Settling(0)'
<1>1. sec \in Nat /\ Epoch <= sec /\ trig \in 0 .. RANGE - 1 /\ sec' = sec
  BY DEF LineTypes, KeptBySync
<1>2. time_reference_gps' = NewReference(trig, sec, sec) => Sound(0)'
  <2>1. trig = (sec - Epoch) % RANGE
    BY CounterIs
  <2>2. sec <= sec /\ sec <= sec + 1 /\ sec - sec <= 0 /\ 0 \in Nat
    BY <1>1
  <2> QED
    BY <1>1, <2>1, <2>2, TakenIsSound
<1>3. CASE Unset
  <2>1. Aberrant(trig, sec)
    BY <1>1, <1>3, FarFromNothing DEF Unset
  <2> QED
    BY <1>2, <1>3, <2>1, SyncCases, UnsetStays, Zenon DEF Settling
<1>4. CASE Sound(d)
  <2>1. ~Aberrant(trig, sec)
    BY <1>4, RightAgrees
  <2> QED
    BY <1>2, <2>1, SyncCases, Zenon DEF Settling
<1>5. CASE Unsure(d)
  BY <1>2, <1>5, SyncCases, Zenon DEF Settling, Unsure
<1> QED
  BY <1>3, <1>4, <1>5 DEF Shaken

\* The next right pair
LEMMA RightAfterRight ==
  ASSUME LineTypes, RefTypes, ValidTypes, NEW d \in Nat, d < RANGE, Settling(d), trig = Counter,
         time_reference_gps.utc < sec, lgw_gps_sync(trig, sec, sec), KeptBySync
  PROVE  Steady(0)'
<1>1. sec \in Nat /\ Epoch <= sec /\ trig \in 0 .. RANGE - 1 /\ sec' = sec
  BY DEF LineTypes, KeptBySync
<1>2. time_reference_gps' = NewReference(trig, sec, sec) => Sound(0)'
  <2>1. trig = (sec - Epoch) % RANGE
    BY CounterIs
  <2>2. sec <= sec /\ sec <= sec + 1 /\ sec - sec <= 0 /\ 0 \in Nat
    BY <1>1
  <2> QED
    BY <1>1, <2>1, <2>2, TakenIsSound
<1>3. CASE Unset
  <2>1. Aberrant(trig, sec)
    BY <1>1, <1>3, FarFromNothing DEF Unset
  <2>2. Young(0)'
    <3>1. Young(0)
      BY <1>1, <1>3 DEF Young, Unset, ValidTypes
    <3> QED
      BY <3>1, YoungStays
  <2> QED
    BY <1>2, <1>3, <2>1, <2>2, SyncCases, UnsetStays, Zenon DEF Steady
<1>4. CASE Sound(d)
  <2>1. ~Aberrant(trig, sec)
    BY <1>4, RightAgrees
  <2> QED
    BY <1>2, <2>1, SyncCases, Zenon DEF Steady
<1> QED
  BY <1>3, <1>4 DEF Settling

\* A pair of a fault: of this second or the one before, with its own counter, or with UTC
\* of its own second.  It is taken in place of a right reference only right after that
\* one was taken.
LEMMA FaultAfterRight ==
  ASSUME LineTypes, RefTypes, ValidTypes, NEW d \in Nat, 1 <= d, d < RANGE, Steady(d),
         NEW g \in Nat, g <= sec, sec <= g + 1, gps_utc <= g,
         gps_utc = g \/ trig = (g - Epoch) % RANGE,
         lgw_gps_sync(trig, gps_utc, g), KeptBySync
  PROVE  Shaken(d)'
<1>1. /\ sec \in Nat /\ Epoch <= sec /\ trig \in 0 .. RANGE - 1 /\ sec' = sec
      /\ gps_utc \in Nat /\ (gps_utc = 0 \/ Epoch <= gps_utc)
  BY DEF LineTypes, KeptBySync
<1>2. time_reference_gps' = NewReference(trig, gps_utc, g) => Recent(d)'
  <2>1. sec - sec <= d
    BY <1>1
  <2> QED
    BY <1>1, <2>1, NewFields DEF Recent
<1>3. CASE Unset
  <2>1. Aberrant(trig, gps_utc)
    BY <1>1, <1>3, FarFromNothing DEF Unset
  <2>2. Young(d)'
    <3>1. Young(d)
      BY <1>1, <1>3 DEF Young, Unset, ValidTypes
    <3> QED
      BY <3>1, YoungStays
  <2> QED
    BY <1>2, <1>3, <2>1, <2>2, SyncCases, UnsetStays, Zenon DEF Shaken, Unsure
<1>4. CASE Sound(d) /\ (aber_min1 => Young(d))
  <2>1. CASE ~Aberrant(trig, gps_utc) /\ time_reference_gps' = NewReference(trig, gps_utc, g)
    <3> DEFINE u == time_reference_gps.utc  c == time_reference_gps.count
    <3>1. /\ u \in Nat /\ u <= sec /\ sec - u <= d /\ c = (u - Epoch) % RANGE
      BY <1>4 DEF Sound, CountRight, RefTypes
    <3>2. (trig - c) % RANGE = gps_utc - u
      BY <2>1 DEF Aberrant
    <3> HIDE DEF u, c
    <3>3. trig = (gps_utc - Epoch) % RANGE
      BY <1>1, <3>1, <3>2, AgreeingIsRight
    <3>4. gps_utc = g
      <4>1. (trig - c) % RANGE \in Nat
        <5>1. c \in Int /\ trig - c \in Int /\ RANGE \in Nat \ {0}
          <6>1. u - Epoch \in Int /\ RANGE \in Nat \ {0}
            BY <3>1, GpsConstants
          <6>2. c \in Int
            BY <3>1, <6>1, Quotient
          <6> QED
            BY <1>1, <6>1, <6>2
        <5> QED
          BY <5>1, Quotient
      <4>2. gps_utc >= u
        BY <1>1, <3>1, <3>2, <4>1
      <4>3. g - gps_utc < RANGE /\ RANGE \in Nat
        BY <1>1, <3>1, <4>2, GpsConstants
      <4>4. CASE trig = (g - Epoch) % RANGE
        BY <1>1, <3>3, <4>3, <4>4, CountsDiffer
      <4> QED
        BY <4>4
    <3>5. sec - g <= d
      BY <1>1
    <3> QED
      BY <1>1, <2>1, <3>3, <3>4, <3>5, TakenIsSound DEF Shaken
  <2>2. CASE /\ aber_min1 /\ aber_min2 /\ aber_min1' /\ aber_min2'
             /\ time_reference_gps' = NewReference(trig, gps_utc, g)
    BY <1>2, <1>4, <2>2, YoungStays, Zenon DEF Shaken, Unsure
  <2>3. CASE time_reference_gps' = time_reference_gps
    BY <1>1, <1>4, <2>3, SoundStays DEF Shaken
  <2> QED
    BY <2>1, <2>2, <2>3, SyncCases, Zenon
<1> QED
  BY <1>3, <1>4 DEF Steady

-----------------------------------------------------------------------------
(* Time passes                                                             *)

\* What a second leaves alone
KeptByPulse == UNCHANGED <<reference, validity>>

LEMMA Ages ==
  ASSUME LineTypes, RefTypes, ValidTypes, NEW d \in Nat, NEW e \in Nat, d + 1 <= e,
         sec' = sec + 1, checked = sec, KeptByPulse
  PROVE  /\ Unset => Unset'
         /\ Sound(d) => Sound(e)'
         /\ Young(d) => Young(e)'
         /\ Recent(d) => Recent(e)'
         /\ CountRight => CountRight'
<1>1. /\ time_reference_gps' = time_reference_gps /\ aber_min1' = aber_min1
      /\ aber_min2' = aber_min2 /\ gps_ref_valid' = gps_ref_valid /\ init_cpt' = init_cpt
      /\ xtal_correct_ok' = xtal_correct_ok /\ checked' = checked
  BY DEF KeptByPulse, reference, validity
<1>2. /\ sec \in Nat /\ time_reference_gps.systime \in Nat /\ time_reference_gps.utc \in Nat
      /\ init_cpt \in Nat
  BY DEF LineTypes, RefTypes, ValidTypes
<1>3. Unset => Unset'
  BY <1>1, Zenon DEF Unset
<1>4. CountRight => CountRight'
  BY <1>1, Zenon DEF CountRight
<1>5. Recent(d) => Recent(e)'
  BY <1>1, <1>2 DEF Recent
<1>6. Young(d) => Young(e)'
  BY <1>1, <1>2 DEF Young
<1>7. Sound(d) => Sound(e)'
  BY <1>1, <1>2, <1>4, <1>5 DEF Sound
<1> QED
  BY <1>3, <1>4, <1>5, <1>6, <1>7

LEMMA AgesAll ==
  ASSUME LineTypes, RefTypes, ValidTypes, NEW d \in Nat, NEW e \in Nat, d + 1 <= e,
         sec' = sec + 1, checked = sec, KeptByPulse
  PROVE  /\ Shaken(d) => Shaken(e)'
         /\ Settling(d) => Settling(e)' /\ Shaken(e)'
         /\ Steady(d) => Steady(e)' /\ Settling(e)' /\ Shaken(e)'
<1>1. aber_min1' = aber_min1 /\ aber_min2' = aber_min2
  BY DEF KeptByPulse, reference
<1> QED
  BY <1>1, Ages, Zenon DEF Shaken, Settling, Steady, Unsure

\* Each condition is weaker than the next, and weaker for more time.
LEMMA Weaker ==
  ASSUME LineTypes, RefTypes, ValidTypes, NEW d \in Nat, NEW e \in Nat, d <= e
  PROVE  /\ Shaken(d) => Shaken(e)
         /\ Settling(d) => Settling(e) /\ Shaken(e)
         /\ Steady(d) => Steady(e) /\ Settling(e) /\ Shaken(e)
<1>1. /\ sec \in Nat /\ time_reference_gps.systime \in Nat /\ time_reference_gps.utc \in Nat
      /\ init_cpt \in Nat /\ checked \in Nat
  BY DEF LineTypes, RefTypes, ValidTypes
<1>2. (Recent(d) => Recent(e)) /\ (Young(d) => Young(e))
  BY <1>1 DEF Recent, Young
<1>3. Sound(d) => Sound(e)
  BY <1>1, <1>2 DEF Sound
<1> QED
  BY <1>2, <1>3, Zenon DEF Shaken, Settling, Steady, Unsure

\* thread_valid counts the second.
LEMMA ValidKeeps ==
  ASSUME LineTypes, RefTypes, ValidTypes, NEW d \in Nat, thread_valid
  PROVE  /\ Shaken(d) => Shaken(d)'
         /\ Settling(d) => Settling(d)'
         /\ Steady(d) => Steady(d)'
<1> DEFINE age == sec - time_reference_gps.systime
           valid == age \in 0 .. GPS_REF_MAX_AGE
<1>1. /\ checked < sec /\ checked' = sec /\ gps_ref_valid' = valid
      /\ ~valid => xtal_correct_ok' = FALSE /\ init_cpt' = 0
      /\ valid => /\ init_cpt' = IF init_cpt <= XERR_INIT_AVG THEN init_cpt + 1 ELSE init_cpt
                  /\ xtal_correct_ok' = (xtal_correct_ok \/ init_cpt = XERR_INIT_AVG)
  BY Zenon DEF thread_valid
<1>2. /\ sec' = sec /\ time_reference_gps' = time_reference_gps /\ aber_min1' = aber_min1
      /\ aber_min2' = aber_min2
  BY DEF thread_valid, receiver, reference
<1>3. Unset => Unset'
  <2>1. SUFFICES ASSUME Unset PROVE Unset'
    OBVIOUS
  <2>2. ~valid
    <3>1. time_reference_gps.systime = 0
      BY <2>1 DEF Unset, NoReference
    <3> QED
      BY <3>1, GpsConstants DEF LineTypes
  <2> HIDE DEF valid
  <2> QED
    BY <1>1, <1>2, <2>1, <2>2, Zenon DEF Unset
<1>4. Young(d) => Young(d)'
  <2>1. init_cpt \in Nat /\ sec \in Nat /\ checked \in Nat /\ sec <= checked + 1
    BY DEF ValidTypes, LineTypes
  <2>2. init_cpt' \in Nat /\ init_cpt' <= init_cpt + 1
    <3> HIDE DEF valid
    <3>1. CASE valid
      BY <1>1, <2>1, <3>1
    <3>2. CASE ~valid
      BY <1>1, <2>1, <3>2
    <3> QED
      BY <3>1, <3>2
  <2>3. checked < sec /\ checked' = sec /\ sec' = sec
    BY <1>1, <1>2, Zenon
  <2>4. sec' - checked' = 0 /\ sec - checked = 1
    BY ONLY <2>1, <2>3
  <2>5. SUFFICES ASSUME Young(d) PROVE Young(d)'
    OBVIOUS
  <2>6. init_cpt + 1 <= d + 1
    BY ONLY <2>4, <2>5 DEF Young
  <2>7. init_cpt' <= d + 1
    <3>1. ASSUME NEW n \in Nat, n <= init_cpt + 1 PROVE n <= d + 1
      BY <2>1, <2>6, <3>1
    <3> QED
      BY <2>2, <3>1, Zenon
  <2> QED
    BY <2>2, <2>4, <2>7 DEF Young
<1>5. (Sound(d) => Sound(d)') /\ (Recent(d) => Recent(d)') /\ (CountRight => CountRight')
  BY <1>2, Zenon DEF Sound, Recent, CountRight
<1> QED
  BY <1>2, <1>3, <1>4, <1>5, Zenon DEF Shaken, Settling, Steady, Unsure

LEMMA ValidTypesStay ==
  ASSUME LineTypes, RefTypes, ValidTypes, thread_valid
  PROVE  ValidTypes'
<1> DEFINE age == sec - time_reference_gps.systime
           valid == age \in 0 .. GPS_REF_MAX_AGE
<1>1. /\ checked' = sec /\ gps_ref_valid' = valid
      /\ ~valid => xtal_correct_ok' = FALSE /\ init_cpt' = 0
      /\ valid => /\ init_cpt' = IF init_cpt <= XERR_INIT_AVG THEN init_cpt + 1 ELSE init_cpt
                  /\ xtal_correct_ok' = (xtal_correct_ok \/ init_cpt = XERR_INIT_AVG)
  BY Zenon DEF thread_valid
<1>2. sec' = sec /\ sec \in Nat /\ init_cpt \in Nat /\ XERR_INIT_AVG \in Nat
  BY GpsConstants DEF thread_valid, receiver, LineTypes, ValidTypes
<1>3. checked' \in Nat /\ checked' <= sec' /\ sec' <= checked' + 1
  BY <1>1, <1>2
<1>4. valid \in BOOLEAN
  OBVIOUS
<1> HIDE DEF valid
<1>5. gps_ref_valid' \in BOOLEAN
  BY <1>1, <1>4
<1>6. init_cpt' \in Nat /\ (~valid \/ init_cpt' = init_cpt \/ init_cpt' = init_cpt + 1)
  BY <1>1, <1>2
<1>7. xtal_correct_ok' \in BOOLEAN
  BY <1>1, Zenon
<1>8. xtal_correct_ok' => init_cpt' > XERR_INIT_AVG
  <2>1. SUFFICES ASSUME xtal_correct_ok' PROVE init_cpt' > XERR_INIT_AVG
    OBVIOUS
  <2>2. valid /\ (xtal_correct_ok \/ init_cpt = XERR_INIT_AVG)
    BY <1>1, <2>1, Zenon
  <2>3. xtal_correct_ok => init_cpt > XERR_INIT_AVG
    BY DEF ValidTypes
  <2> QED
    BY <1>1, <1>2, <2>2, <2>3
<1> QED
  BY <1>3, <1>5, <1>6, <1>7, <1>8 DEF ValidTypes

-----------------------------------------------------------------------------
(* thread_gps keeps the invariant                                          *)

LEMMA Spans ==
  ASSUME NEW d \in Span, FaultsAreRare
  PROVE  d \in Nat /\ d < RANGE /\ d <= 2 * MaxLost + 3
  BY GpsConstants DEF FaultsAreRare, Span

\* A message was taken from the line: the first was an RMC sentence, or a UBX message.
Taken == Len(serial') = Len(serial) - 1 /\ \A i \in 1 .. Len(serial) - 1 : serial'[i] = serial[i + 1]
Rmc == serial[1].kind = "RMC" /\ gps_utc' = serial[1].time /\ UNCHANGED reference
Ubx ==
  /\ serial[1].kind = "UBX" /\ gps_utc' = gps_utc
  /\ IF serial[1].fix THEN lgw_gps_sync(trig, gps_utc, serial[1].time) ELSE UNCHANGED reference

LEMMA GpsStep ==
  ASSUME LineTypes, thread_gps
  PROVE  /\ sec' = sec /\ trig' = trig /\ outage' = outage /\ calm' = calm /\ UNCHANGED validity
         /\ serial # <<>> /\ serial' \in Seq(Message) /\ Taken /\ Len(serial) \in Nat \ {0}
         /\ serial[1] \in Message
         /\ gps_tow' \in Nat /\ gps_time_ok' \in BOOLEAN /\ (Rmc \/ Ubx)
<1>1. serial \in Seq(Message) /\ serial # <<>> /\ serial' = Tail(serial) /\ gps_tow \in Nat
  BY Zenon DEF thread_gps, LineTypes
<1>2. /\ serial' \in Seq(Message) /\ Taken /\ Len(serial) \in Nat \ {0}
      /\ serial[1] \in Message /\ Head(serial) = serial[1]
  BY <1>1 DEF Taken
<1>3. serial[1].time \in Nat /\ serial[1].fix \in BOOLEAN
  BY <1>2 DEF Message
<1>4. CASE /\ Head(serial).kind = "RMC" /\ lgw_parse_nmea(Head(serial))
           /\ UNCHANGED <<gps_tow, reference>>
  <2>1. Rmc /\ gps_time_ok' = serial[1].fix /\ gps_tow' = gps_tow
    BY <1>2, <1>4, Zenon DEF Rmc, lgw_parse_nmea
  <2> QED
    BY <1>1, <1>2, <1>3, <2>1, Zenon DEF thread_gps
<1>5. CASE /\ Head(serial).kind = "UBX" /\ lgw_parse_ubx(Head(serial))
           /\ gps_process_sync /\ UNCHANGED gps_utc
  <2>1. /\ serial[1].kind = "UBX" /\ gps_time_ok' = serial[1].fix /\ gps_utc' = gps_utc
        /\ gps_tow' = (IF serial[1].fix THEN serial[1].time ELSE gps_tow)
        /\ IF gps_time_ok' THEN lgw_gps_sync(trig, gps_utc, gps_tow') ELSE UNCHANGED reference
    BY <1>2, <1>5, Zenon DEF lgw_parse_ubx, gps_process_sync, lgw_gps_get
  <2>2. Ubx /\ gps_tow' \in Nat
    <3>1. CASE serial[1].fix
      <4>1. gps_tow' = serial[1].time
        BY <2>1, <3>1, Zenon
      <4>2. lgw_gps_sync(trig, gps_utc, serial[1].time)
        BY <2>1, <3>1, <4>1, Zenon
      <4> QED
        BY <1>3, <2>1, <3>1, <4>1, <4>2, Zenon DEF Ubx
    <3>2. CASE ~serial[1].fix
      BY <1>1, <2>1, <3>2, Zenon DEF Ubx
    <3> QED
      BY <3>1, <3>2
  <2> QED
    BY <1>1, <1>2, <1>3, <2>1, <2>2, Zenon DEF thread_gps
<1> QED
  BY <1>4, <1>5, Zenon DEF thread_gps

\* The first message is of this second or of the one before.
LEMMA FirstTime ==
  ASSUME LineTypes, ReferenceOf, serial # <<>>
  PROVE  serial[1].time <= sec /\ Epoch <= serial[1].time
<1>1. sec \in Nat /\ Epoch \in Nat /\ Epoch <= sec /\ Len(serial) # 0
  BY GpsConstants DEF LineTypes
<1>2. serial[1].time = sec \/ (serial[1].time = sec - 1 /\ Epoch < sec)
  BY <1>1 DEF ReferenceOf, ReferenceWithin, NoPair, RightPair, FaultPair, LatePair, IsRmc, IsUbx
<1> QED
  BY <1>1, <1>2

LEMMA GpsTypesStay ==
  ASSUME GpsTypes, ReferenceOf, thread_gps
  PROVE  GpsTypes' /\ KeptBySync
<1>1. LineTypes /\ RefTypes /\ ValidTypes
  BY DEF GpsTypes
<1>2. /\ sec' = sec /\ trig' = trig /\ outage' = outage /\ calm' = calm /\ UNCHANGED validity
      /\ serial # <<>> /\ serial' \in Seq(Message) /\ serial[1] \in Message
      /\ gps_tow' \in Nat /\ gps_time_ok' \in BOOLEAN /\ (Rmc \/ Ubx)
  BY <1>1, GpsStep, Zenon
<1>3. serial[1].time <= sec /\ Epoch <= serial[1].time /\ serial[1].time \in Nat
  BY <1>1, <1>2, FirstTime DEF Message
<1>4. gps_utc' \in Nat /\ gps_utc' <= sec' /\ (gps_utc' = 0 \/ Epoch <= gps_utc')
  <2>1. gps_utc' = serial[1].time \/ gps_utc' = gps_utc
    BY <1>2, Zenon DEF Rmc, Ubx
  <2> QED
    BY <1>1, <1>2, <1>3, <2>1 DEF LineTypes
<1>5. LineTypes'
  BY <1>1, <1>2, <1>4 DEF LineTypes
<1>6. ValidTypes' /\ KeptBySync
  <2>1. /\ checked' = checked /\ gps_ref_valid' = gps_ref_valid /\ init_cpt' = init_cpt
        /\ xtal_correct_ok' = xtal_correct_ok
    BY <1>2, Zenon DEF validity
  <2>2. ValidTypes'
    BY <1>1, <1>2, <2>1, Zenon DEF ValidTypes
  <2> QED
    BY <1>2, <2>1, <2>2, Zenon DEF KeptBySync
<1>7. RefTypes'
  <2>1. CASE UNCHANGED reference
    BY <1>1, <1>2, <2>1, Zenon DEF RefTypes, reference
  <2>2. CASE lgw_gps_sync(trig, gps_utc, serial[1].time)
    <3>1. aber_min1' \in BOOLEAN /\ aber_min2' \in BOOLEAN
      <4>1. aber_min2' = aber_min1 /\ aber_min1' = Aberrant(trig, gps_utc)
        BY <2>2, Zenon DEF lgw_gps_sync
      <4>2. Aberrant(trig, gps_utc) \in BOOLEAN
        BY Zenon DEF Aberrant
      <4> QED
        BY <1>1, <4>1, <4>2, Zenon DEF RefTypes
    <3>2. CASE time_reference_gps' = time_reference_gps
      BY <1>1, <1>2, <3>1, <3>2, Zenon DEF RefTypes
    <3>3. CASE time_reference_gps' = NewReference(trig, gps_utc, serial[1].time)
      <4>1. /\ time_reference_gps'.systime = sec /\ time_reference_gps'.utc = gps_utc
            /\ time_reference_gps'.gps = serial[1].time
        BY <3>3, NewFields, Zenon
      <4>2. sec \in Nat /\ trig \in 0 .. RANGE - 1 /\ gps_utc \in Nat /\ gps_utc <= sec
        BY <1>1 DEF LineTypes
      <4>3. time_reference_gps' \in [systime : Nat, count : 0 .. RANGE - 1, utc : Nat, gps : Nat]
        BY <1>3, <3>3, <4>2 DEF NewReference
      <4>4. /\ time_reference_gps'.utc <= sec' /\ time_reference_gps'.systime <= sec'
            /\ time_reference_gps'.gps <= sec'
        BY <1>2, <1>3, <4>1, <4>2
      <4> QED
        BY <3>1, <4>3, <4>4, Zenon DEF RefTypes
    <3> QED
      BY <1>1, <2>2, <3>2, <3>3, SyncCases, Zenon
  <2> QED
    BY <1>2, <2>1, <2>2, Zenon DEF Rmc, Ubx
<1> QED
  BY <1>5, <1>6, <1>7 DEF GpsTypes

\* A step that leaves the time, the reference and its age alone
LEMMA SameReference ==
  ASSUME NEW d, KeptBySync, UNCHANGED reference
  PROVE  /\ Shaken(d) => Shaken(d)'
         /\ Settling(d) => Settling(d)'
         /\ Steady(d) => Steady(d)'
<1>1. /\ time_reference_gps' = time_reference_gps /\ aber_min1' = aber_min1
      /\ aber_min2' = aber_min2 /\ sec' = sec /\ gps_ref_valid' = gps_ref_valid
      /\ init_cpt' = init_cpt /\ xtal_correct_ok' = xtal_correct_ok /\ checked' = checked
  BY Zenon DEF KeptBySync, reference
<1>2. /\ Unset => Unset'
      /\ Sound(d) => Sound(d)'
      /\ Young(d) => Young(d)'
      /\ Recent(d) => Recent(d)'
      /\ CountRight => CountRight'
  BY <1>1, Zenon DEF Unset, Sound, Young, Recent, CountRight
<1> QED
  BY <1>1, <1>2, Zenon DEF Shaken, Settling, Steady, Unsure

\* No pair comes out of a message.
LEMMA NoPairStep ==
  ASSUME GpsTypes, NoPair, thread_gps
  PROVE  NoPair' /\ UNCHANGED reference
<1>1. LineTypes
  BY DEF GpsTypes
<1>2. /\ sec' = sec /\ calm' = calm /\ Taken /\ Len(serial) \in Nat \ {0} /\ (Rmc \/ Ubx)
  BY <1>1, GpsStep, Zenon
<1>3. CASE Len(serial) = 2 /\ IsRmc(1, sec) /\ IsUbx(2, sec) /\ ~serial[2].fix
  <2>1. Len(serial') = 1 /\ serial'[1] = serial[2]
    BY <1>2, <1>3 DEF Taken
  <2>2. Rmc
    BY <1>2, <1>3 DEF IsRmc, Ubx
  <2>3. gps_utc' = sec
    BY <1>3, <2>2 DEF Rmc, IsRmc
  <2> QED
    BY <1>2, <1>3, <2>1, <2>2, <2>3 DEF NoPair, Rmc, IsUbx
<1>4. CASE Len(serial) = 1
  <2>1. Len(serial') = 0
    BY <1>2, <1>4 DEF Taken
  <2>2. UNCHANGED reference
    <3>1. CASE IsUbx(1, sec) /\ ~serial[1].fix
      BY <1>2, <3>1 DEF Rmc, Ubx
    <3>2. CASE IsRmc(1, sec)
      BY <1>2, <3>2 DEF Rmc, Ubx, IsRmc
    <3> QED
      BY <1>4, <3>1, <3>2 DEF NoPair
  <2> QED
    BY <2>1, <2>2 DEF NoPair
<1> QED
  BY <1>2, <1>3, <1>4 DEF NoPair

\* The right pair is built from two messages.
LEMMA RightPairStep ==
  ASSUME GpsTypes, RightPair, thread_gps
  PROVE  \/ RightPair' /\ UNCHANGED reference
         \/ NoPair' /\ lgw_gps_sync(trig, sec, sec)
<1>1. LineTypes
  BY DEF GpsTypes
<1>2. /\ sec' = sec /\ trig' = trig /\ outage' = outage /\ Taken
      /\ Len(serial) \in Nat \ {0} /\ (Rmc \/ Ubx)
  BY <1>1, GpsStep, Zenon
<1>3. CASE Len(serial) = 2 /\ IsRmc(1, sec) /\ IsUbx(2, sec) /\ serial[2].fix
  <2>1. Len(serial') = 1 /\ serial'[1] = serial[2]
    BY <1>2, <1>3 DEF Taken
  <2>2. Rmc
    BY <1>2, <1>3 DEF IsRmc, Ubx
  <2>3. gps_utc' = sec /\ UNCHANGED reference
    BY <1>3, <2>2 DEF Rmc, IsRmc
  <2>4. time_reference_gps' = time_reference_gps
    BY <2>3 DEF reference
  <2>5. Counter' = Counter
    BY <1>2 DEF Counter
  <2>6. RightPair'
    <3>1. IsUbx(1, sec)' /\ serial'[1].fix
      BY <1>2, <1>3, <2>1 DEF IsUbx
    <3> QED
      BY <1>2, <2>1, <2>3, <2>4, <2>5, <3>1 DEF RightPair
  <2> QED
    BY <2>3, <2>6
<1>4. CASE Len(serial) = 1 /\ IsUbx(1, sec) /\ serial[1].fix /\ gps_utc = sec
  <2>1. Len(serial') = 0
    BY <1>2, <1>4 DEF Taken
  <2>2. lgw_gps_sync(trig, gps_utc, serial[1].time)
    BY <1>2, <1>4 DEF IsUbx, Rmc, Ubx
  <2>3. serial[1].time = sec /\ gps_utc = sec
    BY <1>4 DEF IsUbx
  <2>4. lgw_gps_sync(trig, sec, sec)
    BY <2>2, <2>3, Zenon
  <2> QED
    BY <2>1, <2>4 DEF NoPair
<1> QED
  BY <1>3, <1>4 DEF RightPair

\* A pair that suffers from a fault, and what follows it
FaultSync(g) ==
  /\ g \in Nat /\ g <= sec /\ sec <= g + 1 /\ gps_utc <= g
  /\ (gps_utc = g \/ trig = (g - Epoch) % RANGE)
  /\ lgw_gps_sync(trig, gps_utc, g)

LEMMA FaultPairStep ==
  ASSUME GpsTypes, FaultPair, thread_gps
  PROVE  \/ FaultPair' /\ UNCHANGED reference
         \/ (NoPair' \/ RightPair') /\ (UNCHANGED reference \/ \E g \in Nat : FaultSync(g))
<1>1. LineTypes /\ RefTypes
  BY DEF GpsTypes
<1>2. /\ sec' = sec /\ trig' = trig /\ outage' = outage /\ calm' = calm /\ Taken
      /\ Len(serial) \in Nat \ {0} /\ (Rmc \/ Ubx) /\ serial # <<>>
  BY <1>1, GpsStep, Zenon
<1>3. Counter' = Counter
  BY <1>2 DEF Counter
<1>4. calm = 0 /\ calm' = 0
  BY <1>2 DEF FaultPair
<1>5. CASE Len(serial) = 2 /\ IsRmc(1, sec) /\ IsUbx(2, sec) /\ serial[2].fix
  <2>1. Len(serial') = 1 /\ serial'[1] = serial[2]
    BY <1>2, <1>5 DEF Taken
  <2>2. Rmc
    BY <1>2, <1>5 DEF IsRmc, Ubx
  <2>3. gps_utc' = sec' /\ UNCHANGED reference
    BY <1>2, <1>5, <2>2 DEF Rmc, IsRmc
  <2>4. IsUbx(1, sec)'
    BY <1>2, <1>5, <2>1 DEF IsUbx
  <2>5. FaultPair'
    BY <1>4, <2>1, <2>3, <2>4 DEF FaultPair
  <2> QED
    BY <2>3, <2>5
<1>6. CASE Len(serial) = 1 /\ IsUbx(1, sec) /\ (gps_utc = sec \/ trig = Counter)
  <2>1. Len(serial') = 0
    BY <1>2, <1>6 DEF Taken
  <2>2. Ubx /\ serial[1].time = sec
    BY <1>2, <1>6 DEF IsUbx, Rmc
  <2>3. UNCHANGED reference \/ lgw_gps_sync(trig, gps_utc, sec)
    BY <2>2, Zenon DEF Ubx
  <2>4. /\ sec \in Nat /\ sec <= sec /\ sec <= sec + 1 /\ gps_utc <= sec
        /\ (gps_utc = sec \/ trig = (sec - Epoch) % RANGE)
    BY <1>1, <1>6, CounterIs DEF LineTypes
  <2>5. UNCHANGED reference \/ \E g \in Nat : FaultSync(g)
    BY <2>3, <2>4, Zenon DEF FaultSync
  <2> QED
    BY <2>1, <2>5 DEF NoPair
<1>7. CASE LatePair
  <2>1. /\ Epoch < sec /\ time_reference_gps.utc < sec /\ time_reference_gps.gps < sec
        /\ sec \in Nat /\ Epoch \in Nat
    BY <1>1, <1>7, GpsConstants DEF LatePair, LineTypes
  <2>2. serial[Len(serial)].fix => trig' = Counter' /\ outage' = 0
    BY <1>2, <1>3, <1>7 DEF LatePair
  <2>3. CASE /\ Len(serial) = 4
             /\ IsRmc(1, sec - 1) /\ IsUbx(2, sec - 1) /\ IsRmc(3, sec) /\ IsUbx(4, sec)
    <3>1. /\ Len(serial') = 3 /\ serial'[1] = serial[2] /\ serial'[2] = serial[3]
          /\ serial'[3] = serial[4]
      BY <1>2, <2>3 DEF Taken
    <3>2. Rmc
      BY <1>2, <2>3 DEF IsRmc, Ubx
    <3>3. gps_utc' = sec' - 1 /\ UNCHANGED reference
      BY <1>2, <2>3, <3>2 DEF Rmc, IsRmc
    <3>4. IsUbx(1, sec - 1)' /\ IsRmc(2, sec)' /\ IsUbx(3, sec)'
      BY <1>2, <2>3, <3>1 DEF IsUbx, IsRmc
    <3>5. time_reference_gps' = time_reference_gps
      BY <3>3 DEF reference
    <3>6. serial'[Len(serial')].fix => trig' = Counter' /\ outage' = 0
      BY <2>2, <2>3, <3>1
    <3>7. LatePair'
      BY <1>2, <2>1, <3>1, <3>3, <3>4, <3>5, <3>6 DEF LatePair
    <3> QED
      BY <1>4, <3>3, <3>7 DEF FaultPair
  <2>4. CASE /\ Len(serial) = 3 /\ gps_utc = sec - 1
             /\ IsUbx(1, sec - 1) /\ IsRmc(2, sec) /\ IsUbx(3, sec)
    <3>1. Len(serial') = 2 /\ serial'[1] = serial[2] /\ serial'[2] = serial[3]
      BY <1>2, <2>4 DEF Taken
    <3>2. Ubx /\ serial[1].time = sec - 1
      BY <1>2, <2>4 DEF IsUbx, Rmc
    <3>3. UNCHANGED reference \/ lgw_gps_sync(trig, gps_utc, sec - 1)
      BY <3>2, Zenon DEF Ubx
    <3>4. /\ sec - 1 \in Nat /\ sec - 1 <= sec /\ sec <= (sec - 1) + 1 /\ gps_utc <= sec - 1
          /\ gps_utc = sec - 1
      BY <2>1, <2>4
    <3>5. UNCHANGED reference \/ \E g \in Nat : FaultSync(g)
      BY <3>3, <3>4, Zenon DEF FaultSync
    <3>6. IsRmc(1, sec)' /\ IsUbx(2, sec)'
      BY <1>2, <2>4, <3>1 DEF IsUbx, IsRmc
    <3>7. CASE ~serial'[2].fix
      BY <3>1, <3>5, <3>6, <3>7 DEF NoPair
    <3>8. CASE serial'[2].fix
      <4>1. trig' = Counter' /\ outage' = 0
        BY <2>2, <2>4, <3>1, <3>8
      <4>2. time_reference_gps'.utc < sec'
        <5>1. CASE UNCHANGED reference
          BY <1>2, <2>1, <5>1 DEF reference
        <5>2. CASE lgw_gps_sync(trig, gps_utc, sec - 1)
          <6>1. \/ time_reference_gps' = time_reference_gps
                \/ time_reference_gps' = NewReference(trig, gps_utc, sec - 1)
            BY <1>1, <5>2, SyncCases, Zenon
          <6>2. time_reference_gps'.utc = time_reference_gps.utc \/ time_reference_gps'.utc = gps_utc
            BY <6>1, NewFields, Zenon
          <6> QED
            BY <1>2, <2>1, <3>4, <6>2
        <5> QED
          BY <3>3, <5>1, <5>2
      <4>3. RightPair'
        BY <3>1, <3>6, <3>8, <4>1, <4>2 DEF RightPair
      <4> QED
        BY <3>5, <4>3
    <3> QED
      BY <3>7, <3>8
  <2> QED
    BY <1>7, <2>3, <2>4 DEF LatePair
<1> QED
  BY <1>5, <1>6, <1>7 DEF FaultPair

LEMMA GpsReference ==
  ASSUME FaultsAreRare, GpsTypes, NEW d \in Span, ReferenceWithin(d), thread_gps
  PROVE  ReferenceOf'
<1>1. LineTypes /\ RefTypes /\ ValidTypes /\ KeptBySync
  BY GpsTypesStay, Zenon DEF GpsTypes, ReferenceOf
<1>2. sec' = sec /\ outage' = outage /\ calm' = calm
  BY <1>1, GpsStep, Zenon
<1>3. /\ d \in Nat /\ d < RANGE /\ outage \in Nat /\ outage <= MaxLost /\ MaxLost \in Nat
      /\ calm \in Nat /\ 0 \in Span /\ 0 \in Nat
  BY <1>1, Spans, GpsConstants DEF LineTypes, Span
<1>4. SUFFICES \E e \in Span : ReferenceWithin(e)'
  BY Zenon DEF ReferenceOf
<1>5. UNCHANGED reference => (/\ Shaken(d) => Shaken(d)'
                              /\ Settling(d) => Settling(d)'
                              /\ Steady(d) => Steady(d)')
  BY <1>1, SameReference, Zenon
<1>6. ASSUME NoPair,
             \/ calm = 0 /\ Shaken(d) /\ d <= outage + MaxLost + 2
             \/ calm = 1 /\ Settling(d) /\ d <= outage
             \/ calm >= 2 /\ Steady(d) /\ d <= outage
      PROVE  ReferenceWithin(d)'
  <2>1. NoPair' /\ UNCHANGED reference
    BY <1>6, NoPairStep, Zenon
  <2> QED
    BY <1>2, <1>5, <1>6, <2>1, Zenon DEF ReferenceWithin
<1>7. ASSUME RightPair,
             \/ calm = 0 /\ Shaken(d) /\ d <= MaxLost + 2
             \/ calm = 1 /\ Shaken(d)
             \/ calm = 2 /\ Settling(d) /\ d <= MaxLost + 1
             \/ calm >= 3 /\ Steady(d) /\ d <= MaxLost + 1
      PROVE  ReferenceWithin(d)' \/ ReferenceWithin(0)'
  <2>1. CASE RightPair' /\ UNCHANGED reference
    BY <1>2, <1>5, <1>7, <2>1, Zenon DEF ReferenceWithin
  <2>2. CASE NoPair' /\ lgw_gps_sync(trig, sec, sec)
    <3>1. trig = Counter /\ outage = 0 /\ time_reference_gps.utc < sec
      BY <1>7, Zenon DEF RightPair
    <3>2. Shaken(d) => Settling(0)'
      BY <1>1, <1>3, <2>2, <3>1, RightAfterFault
    <3>3. Settling(d) => Steady(0)'
      BY <1>1, <1>3, <2>2, <3>1, RightAfterRight
    <3>4. Settling(0)' => Shaken(0)'
      BY Zenon DEF Settling, Shaken
    <3>5. Steady(d) => Settling(d)
      BY Zenon DEF Settling, Steady
    <3>6. 0 <= outage /\ 0 <= outage + MaxLost + 2 /\ (calm >= 3 => calm >= 2) /\ 2 >= 2
      BY <1>3
    <3>7. 0 <= outage' /\ 0 <= outage' + MaxLost + 2 /\ (calm >= 3 => calm' >= 2)
      BY <1>2, <3>6, Zenon
    <3>8. CASE calm = 0 /\ Shaken(d)
      BY <1>2, <2>2, <3>2, <3>4, <3>7, <3>8, Zenon DEF ReferenceWithin
    <3>9. CASE calm = 1 /\ Shaken(d)
      BY <1>2, <2>2, <3>2, <3>7, <3>9, Zenon DEF ReferenceWithin
    <3>10. CASE calm = 2 /\ Settling(d)
      <4>1. calm' >= 2
        BY <1>2, <3>10
      <4> QED
        BY <2>2, <3>3, <3>7, <3>10, <4>1, Zenon DEF ReferenceWithin
    <3>11. CASE calm >= 3 /\ Steady(d)
      BY <2>2, <3>3, <3>5, <3>7, <3>11, Zenon DEF ReferenceWithin
    <3> QED
      BY <1>7, <3>8, <3>9, <3>10, <3>11, Zenon
  <2> QED
    BY <1>7, <2>1, <2>2, RightPairStep, Zenon
<1>8. ASSUME FaultPair, Steady(d), d <= outage + MaxLost + 2
      PROVE  \E e \in Span : ReferenceWithin(e)'
  <2>1. CASE FaultPair' /\ UNCHANGED reference
    BY <1>2, <1>5, <1>8, <2>1, Zenon DEF ReferenceWithin
  <2>2. ASSUME NoPair' \/ RightPair', UNCHANGED reference \/ \E g \in Nat : FaultSync(g)
        PROVE  \E e \in Span : ReferenceWithin(e)'
    <3>1. PICK e \in Span : d <= e /\ 1 <= e /\ e <= outage + MaxLost + 2
      <4>1. CASE d = 0
        <5>1. 1 \in Span /\ d <= 1 /\ 1 <= 1 /\ 1 <= outage + MaxLost + 2
          BY <1>3, <4>1 DEF Span
        <5> QED
          BY <5>1, Zenon
      <4>2. CASE d # 0
        <5>1. d <= d /\ 1 <= d
          BY <1>3, <4>2
        <5> QED
          BY <1>8, <5>1, Zenon
      <4> QED
        BY <4>1, <4>2
    <3>2. e \in Nat /\ e < RANGE
      BY Spans
    <3>3. Steady(e) /\ Shaken(e)
      BY <1>1, <1>3, <1>8, <3>1, <3>2, Weaker
    <3>4. Shaken(e)'
      <4>1. CASE UNCHANGED reference
        BY <1>1, <3>3, <4>1, SameReference, Zenon
      <4>2. ASSUME NEW g \in Nat, FaultSync(g) PROVE Shaken(e)'
        <5>1. /\ g <= sec /\ sec <= g + 1 /\ gps_utc <= g
              /\ (gps_utc = g \/ trig = (g - Epoch) % RANGE)
              /\ lgw_gps_sync(trig, gps_utc, g)
          BY <4>2, Zenon DEF FaultSync
        <5> QED
          BY <1>1, <3>1, <3>2, <3>3, <5>1, FaultAfterRight, Zenon
      <4> QED
        BY <2>2, <4>1, <4>2, Zenon
    <3>5. calm' = 0 /\ e <= outage' + MaxLost + 2
      BY <1>2, <1>8, <3>1, Zenon DEF FaultPair
    <3>6. RightPair' => e <= MaxLost + 2
      <4>1. RightPair' => outage' = 0
        BY Zenon DEF RightPair
      <4> QED
        BY <1>3, <3>2, <3>5, <4>1
    <3> QED
      BY <2>2, <3>4, <3>5, <3>6, Zenon DEF ReferenceWithin
  <2> QED
    BY <1>8, <2>1, <2>2, FaultPairStep, Zenon
<1> QED
  BY <1>3, <1>6, <1>7, <1>8, Zenon DEF ReferenceWithin

-----------------------------------------------------------------------------
(* thread_valid and the beacons keep the invariant                         *)

\* The line and what was parsed from it stay as they are.
LineStays == UNCHANGED <<sec, trig, serial, outage, calm, gps_utc, gps_tow, gps_time_ok,
                         time_reference_gps>>

LEMMA SamePairs ==
  ASSUME LineStays
  PROVE  /\ NoPair => NoPair'
         /\ RightPair => RightPair'
         /\ FaultPair => FaultPair'
<1>1. /\ sec' = sec /\ trig' = trig /\ serial' = serial /\ outage' = outage /\ calm' = calm
      /\ gps_utc' = gps_utc /\ time_reference_gps' = time_reference_gps
  BY Zenon DEF LineStays
<1>2. Counter' = Counter
  BY <1>1, Zenon DEF Counter
<1>3. LatePair => LatePair'
  BY <1>1, <1>2, Zenon DEF LatePair, IsRmc, IsUbx
<1>4. NoPair => NoPair'
  BY <1>1, <1>2, Zenon DEF NoPair, IsRmc, IsUbx
<1>5. RightPair => RightPair'
  BY <1>1, <1>2, Zenon DEF RightPair, IsRmc, IsUbx
<1>6. FaultPair => FaultPair'
  BY <1>1, <1>2, <1>3, Zenon DEF FaultPair, IsRmc, IsUbx
<1> QED
  BY <1>4, <1>5, <1>6

LEMMA SameWithin ==
  ASSUME NEW d, ReferenceWithin(d), LineStays,
         /\ Shaken(d) => Shaken(d)'
         /\ Settling(d) => Settling(d)'
         /\ Steady(d) => Steady(d)'
  PROVE  ReferenceWithin(d)'
<1>1. outage' = outage /\ calm' = calm
  BY Zenon DEF LineStays
<1> QED
  BY <1>1, SamePairs, Zenon DEF ReferenceWithin

LEMMA ValidReference ==
  ASSUME ReferenceInv, thread_valid
  PROVE  ReferenceInv'
<1>1. LineTypes /\ RefTypes /\ ValidTypes
  BY DEF ReferenceInv, GpsTypes
<1>2. /\ LineStays /\ aber_min1' = aber_min1 /\ aber_min2' = aber_min2
  BY Zenon DEF thread_valid, receiver, parser, reference, LineStays
<1>3. LineTypes' /\ RefTypes'
  BY <1>1, <1>2, Zenon DEF LineTypes, RefTypes, LineStays
<1>4. ValidTypes'
  BY <1>1, ValidTypesStay, Zenon
<1>5. PICK d \in Span : ReferenceWithin(d)
  BY Zenon DEF ReferenceInv, ReferenceOf
<1>6. d \in Nat
  BY GpsConstants DEF Span
<1>7. ReferenceWithin(d)'
  BY <1>1, <1>2, <1>5, <1>6, ValidKeeps, SameWithin, Zenon
<1> QED
  BY <1>3, <1>4, <1>7, Zenon DEF ReferenceInv, GpsTypes, ReferenceOf

\* The beacons only read the reference.
LEMMA BeaconsReference ==
  ASSUME ReferenceInv, UNCHANGED <<receiver, parser, reference, validity>>
  PROVE  ReferenceInv'
<1>1. LineTypes /\ RefTypes /\ ValidTypes
  BY DEF ReferenceInv, GpsTypes
<1>2. /\ LineStays /\ KeptBySync /\ UNCHANGED reference /\ aber_min1' = aber_min1
      /\ aber_min2' = aber_min2
  BY Zenon DEF receiver, parser, reference, validity, LineStays, KeptBySync
<1>3. LineTypes' /\ RefTypes' /\ ValidTypes'
  BY <1>1, <1>2, Zenon DEF LineTypes, RefTypes, ValidTypes, LineStays, KeptBySync
<1>4. PICK d \in Span : ReferenceWithin(d)
  BY Zenon DEF ReferenceInv, ReferenceOf
<1>5. ReferenceWithin(d)'
  BY <1>2, <1>4, SameReference, SameWithin, Zenon
<1> QED
  BY <1>3, <1>5, Zenon DEF ReferenceInv, GpsTypes, ReferenceOf

-----------------------------------------------------------------------------
(* Pulse keeps the invariant                                               *)

LEMMA MessagesAre ==
  ASSUME NEW fix \in BOOLEAN, sec' \in Nat
  PROVE  /\ Messages(fix) \in Seq(Message) /\ Len(Messages(fix)) = 2
         /\ Messages(fix)[1].kind = "RMC" /\ Messages(fix)[1].time = sec'
         /\ Messages(fix)[2].kind = "UBX" /\ Messages(fix)[2].time = sec'
         /\ Messages(fix)[1].fix = fix /\ Messages(fix)[2].fix = fix
         /\ Messages(fix)[1] \in Message /\ Messages(fix)[2] \in Message
<1> DEFINE a == [kind |-> "RMC", time |-> sec', fix |-> fix]
           b == [kind |-> "UBX", time |-> sec', fix |-> fix]
<1>1. a \in Message /\ b \in Message
  BY DEF Message
<1>2. /\ a.kind = "RMC" /\ a.time = sec' /\ a.fix = fix
      /\ b.kind = "UBX" /\ b.time = sec' /\ b.fix = fix
  OBVIOUS
<1>3. Messages(fix) = <<a, b>>
  BY Zenon DEF Messages
<1> HIDE DEF a, b
<1>4. <<a, b>> \in Seq(Message) /\ Len(<<a, b>>) = 2 /\ <<a, b>>[1] = a /\ <<a, b>>[2] = b
  BY <1>1
<1> QED
  BY <1>1, <1>2, <1>3, <1>4, Zenon

LEMMA TwoMore ==
  ASSUME NEW S, NEW s \in Seq(S), NEW m \in Seq(S), Len(m) = 2
  PROVE  /\ s \o m \in Seq(S) /\ Len(s \o m) = Len(s) + 2
         /\ \A i \in 1 .. Len(s) : (s \o m)[i] = s[i]
         /\ (s \o m)[Len(s) + 1] = m[1] /\ (s \o m)[Len(s) + 2] = m[2]
<1>1. /\ s \o m \in Seq(S) /\ Len(s \o m) = Len(s) + Len(m) /\ Len(s) \in Nat
      /\ \A i \in 1 .. Len(s) + Len(m) : (s \o m)[i] = IF i <= Len(s) THEN s[i] ELSE m[i - Len(s)]
  BY ConcatProperties, LenProperties, Zenon
<1> DEFINE n == Len(s)
           f == s \o m
<1>2. /\ f \in Seq(S) /\ Len(f) = n + 2 /\ n \in Nat
      /\ \A i \in 1 .. n + 2 : f[i] = IF i <= n THEN s[i] ELSE m[i - n]
  BY <1>1
<1> HIDE DEF n, f
<1>3. (\A i \in 1 .. n : f[i] = s[i]) /\ f[n + 1] = m[1] /\ f[n + 2] = m[2]
  BY <1>2
<1> QED
  BY <1>2, <1>3 DEF n, f

\* What the messages of the new second look like behind those that wait
LEMMA Appended ==
  ASSUME NEW fix \in BOOLEAN, sec' \in Nat, serial \in Seq(Message),
         serial' = serial \o Messages(fix)
  PROVE  /\ serial' \in Seq(Message) /\ Len(serial') = Len(serial) + 2
         /\ \A i \in 1 .. Len(serial) : serial'[i] = serial[i]
         /\ serial'[Len(serial) + 1].kind = "RMC" /\ serial'[Len(serial) + 1].time = sec'
         /\ serial'[Len(serial) + 2].kind = "UBX" /\ serial'[Len(serial) + 2].time = sec'
         /\ serial'[Len(serial) + 2].fix = fix
<1>1. /\ Messages(fix) \in Seq(Message) /\ Len(Messages(fix)) = 2
      /\ Messages(fix)[1].kind = "RMC" /\ Messages(fix)[1].time = sec'
      /\ Messages(fix)[2].kind = "UBX" /\ Messages(fix)[2].time = sec'
      /\ Messages(fix)[2].fix = fix
  BY MessagesAre, Zenon
<1>2. /\ serial' \in Seq(Message) /\ Len(serial') = Len(serial) + 2
      /\ \A i \in 1 .. Len(serial) : serial'[i] = serial[i]
      /\ serial'[Len(serial) + 1] = Messages(fix)[1]
      /\ serial'[Len(serial) + 2] = Messages(fix)[2]
  BY <1>1, TwoMore, Zenon
<1> QED
  BY <1>1, <1>2, Zenon

\* The second of the pulse, and what it does to the line
Passes == sec' = sec + 1 /\ checked = sec /\ Len(serial) <= 2 /\ KeptByPulse /\ UNCHANGED parser
OnTime ==
  /\ IF serial = <<>> THEN NoFault ELSE Fault
  /\ trig' = Counter' /\ serial' = serial \o Messages(TRUE) /\ outage' = 0
PulseMissed ==
  serial = <<>> /\ Fault /\ serial' = serial \o Messages(TRUE) /\ outage' = 0 /\ trig' = trig
MessageLost ==
  /\ serial = <<>> /\ Fault /\ trig' = Counter' /\ outage' = 0
  /\ serial' = <<Messages(TRUE)[1]>> \/ serial' = <<Messages(TRUE)[2]>>
OutOfSight ==
  /\ IF serial = <<>> THEN calm' = calm ELSE Fault
  /\ outage < MaxLost /\ outage' = outage + 1
  /\ serial' = serial \o Messages(FALSE) /\ trig' = trig

LEMMA PulseCases ==
  ASSUME LineTypes, Pulse
  PROVE  Passes /\ (OnTime \/ PulseMissed \/ MessageLost \/ OutOfSight)
<1>1. Passes
  BY Zenon DEF Pulse, Passes, KeptByPulse
<1>2. CASE /\ IF serial = <<>> THEN NoFault ELSE Fault
           /\ trig' = Counter' /\ serial' = serial \o Messages(TRUE) /\ outage' = 0
  BY <1>1, <1>2, Zenon DEF OnTime
<1>3. CASE /\ serial = <<>> /\ Fault
           /\ serial' = Messages(TRUE) /\ outage' = 0 /\ UNCHANGED trig
  <2>1. Messages(TRUE) \in Seq(Message)
    <3>1. TRUE \in BOOLEAN /\ sec' \in Nat
      BY <1>1 DEF Passes, LineTypes
    <3> QED
      BY <3>1, MessagesAre, Zenon
  <2>2. ASSUME NEW m \in Seq(Message) PROVE <<>> \o m = m
    OBVIOUS
  <2>3. serial' = serial \o Messages(TRUE)
    BY <1>3, <2>1, <2>2, Zenon
  <2> QED
    BY <1>1, <1>3, <2>3, Zenon DEF PulseMissed
<1>4. CASE /\ serial = <<>> /\ Fault
           /\ \E m \in {1, 2} : serial' = <<Messages(TRUE)[m]>>
           /\ trig' = Counter' /\ outage' = 0
  BY <1>1, <1>4, Zenon DEF MessageLost
<1>5. CASE /\ IF serial = <<>> THEN UNCHANGED calm ELSE Fault
           /\ outage < MaxLost /\ outage' = outage + 1
           /\ serial' = serial \o Messages(FALSE) /\ UNCHANGED trig
  BY <1>1, <1>5, Zenon DEF OutOfSight
<1> QED
  BY <1>2, <1>3, <1>4, <1>5, Zenon DEF Pulse

LEMMA PulseTypes ==
  ASSUME GpsTypes, Pulse
  PROVE  GpsTypes'
<1>1. LineTypes /\ RefTypes /\ ValidTypes
  BY DEF GpsTypes
<1>2. Passes /\ (OnTime \/ PulseMissed \/ MessageLost \/ OutOfSight)
  BY <1>1, PulseCases, Zenon
<1>3. sec \in Nat /\ sec' \in Nat /\ sec' = sec + 1 /\ Epoch <= sec' /\ checked = sec /\ Epoch \in Nat
  BY <1>1, <1>2, GpsConstants DEF Passes, LineTypes
<1>4. Counter' \in 0 .. RANGE - 1
  BY <1>3, GpsConstants, Quotient DEF Counter
<1>5. trig' \in 0 .. RANGE - 1
  BY <1>1, <1>2, <1>4 DEF OnTime, PulseMissed, MessageLost, OutOfSight, LineTypes
<1>6. serial' \in Seq(Message)
  <2>1. serial \in Seq(Message) /\ TRUE \in BOOLEAN /\ FALSE \in BOOLEAN
    BY <1>1, Zenon DEF LineTypes
  <2>2. \/ serial' = serial \o Messages(TRUE) \/ serial' = serial \o Messages(FALSE)
        \/ serial' = <<Messages(TRUE)[1]>> \/ serial' = <<Messages(TRUE)[2]>>
    BY <1>2, Zenon DEF OnTime, PulseMissed, MessageLost, OutOfSight
  <2>3. Messages(TRUE)[1] \in Message /\ Messages(TRUE)[2] \in Message
    BY <1>3, <2>1, MessagesAre, Zenon
  <2>4. ASSUME NEW m \in Message PROVE <<m>> \in Seq(Message)
    OBVIOUS
  <2> QED
    BY <1>3, <2>1, <2>2, <2>3, <2>4, Appended, Zenon
<1>7. outage' \in 0 .. MaxLost
  <2>1. outage' = 0 \/ (outage < MaxLost /\ outage' = outage + 1)
    BY <1>2, Zenon DEF OnTime, PulseMissed, MessageLost, OutOfSight
  <2> QED
    BY <1>1, <2>1, GpsConstants DEF LineTypes
<1>8. calm' \in 0 .. Calm
  <2>1. Fault \/ NoFault \/ calm' = calm
    BY <1>2, Zenon DEF OnTime, PulseMissed, MessageLost, OutOfSight
  <2> QED
    BY <1>1, <2>1, GpsConstants DEF LineTypes, Fault, NoFault
<1>9. LineTypes'
  <2>1. gps_utc' = gps_utc /\ gps_tow' = gps_tow /\ gps_time_ok' = gps_time_ok
    BY <1>2, Zenon DEF Passes, parser
  <2>2. /\ gps_utc' \in Nat /\ gps_utc' <= sec' /\ (gps_utc' = 0 \/ Epoch <= gps_utc')
        /\ gps_tow' \in Nat /\ gps_time_ok' \in BOOLEAN
    BY <1>1, <1>3, <2>1 DEF LineTypes
  <2> QED
    BY <1>3, <1>5, <1>6, <1>7, <1>8, <2>2, Zenon DEF LineTypes
<1>10. RefTypes'
  <2>1. /\ time_reference_gps' = time_reference_gps /\ aber_min1' = aber_min1
        /\ aber_min2' = aber_min2
    BY <1>2, Zenon DEF Passes, KeptByPulse, reference
  <2>2. /\ time_reference_gps'.utc <= sec' /\ time_reference_gps'.systime <= sec'
        /\ time_reference_gps'.gps <= sec'
    BY <1>1, <1>3, <2>1 DEF RefTypes
  <2> QED
    BY <1>1, <2>1, <2>2, Zenon DEF RefTypes
<1>11. ValidTypes'
  <2>1. /\ checked' = checked /\ gps_ref_valid' = gps_ref_valid /\ init_cpt' = init_cpt
        /\ xtal_correct_ok' = xtal_correct_ok
    BY <1>2, Zenon DEF Passes, KeptByPulse, validity
  <2>2. checked' \in Nat /\ checked' <= sec' /\ sec' <= checked' + 1
    BY <1>3, <2>1
  <2> QED
    BY <1>1, <2>1, <2>2, Zenon DEF ValidTypes
<1> QED
  BY <1>9, <1>10, <1>11 DEF GpsTypes

\* A second ends with messages left on the line, in a state without a fault before.
LEMMA LateBegins ==
  ASSUME GpsTypes, Passes, NEW fix \in BOOLEAN, serial' = serial \o Messages(fix),
         fix => trig' = Counter' /\ outage' = 0,
         \/ Len(serial) = 2 /\ IsRmc(1, sec) /\ IsUbx(2, sec)
         \/ Len(serial) = 1 /\ IsUbx(1, sec) /\ gps_utc = sec
  PROVE  LatePair'
<1>1. /\ serial \in Seq(Message) /\ sec \in Nat /\ sec' \in Nat /\ sec' = sec + 1 /\ sec' - 1 = sec
      /\ Epoch <= sec /\ Epoch \in Nat /\ gps_utc' = gps_utc
      /\ time_reference_gps' = time_reference_gps
  BY GpsConstants DEF GpsTypes, LineTypes, Passes, KeptByPulse, reference, parser
<1>2. Epoch < sec' /\ time_reference_gps'.utc < sec' /\ time_reference_gps'.gps < sec'
  BY <1>1 DEF GpsTypes, RefTypes
<1>3. /\ Len(serial') = Len(serial) + 2
      /\ \A i \in 1 .. Len(serial) : serial'[i] = serial[i]
      /\ serial'[Len(serial) + 1].kind = "RMC" /\ serial'[Len(serial) + 1].time = sec'
      /\ serial'[Len(serial) + 2].kind = "UBX" /\ serial'[Len(serial) + 2].time = sec'
      /\ serial'[Len(serial) + 2].fix = fix
  BY <1>1, Appended, Zenon
<1>4. serial'[Len(serial')].fix => trig' = Counter' /\ outage' = 0
  BY <1>3, Zenon
<1>5. CASE Len(serial) = 2 /\ IsRmc(1, sec) /\ IsUbx(2, sec)
  <2>1. /\ Len(serial') = 4 /\ serial'[1] = serial[1] /\ serial'[2] = serial[2]
        /\ serial'[3].kind = "RMC" /\ serial'[3].time = sec'
        /\ serial'[4].kind = "UBX" /\ serial'[4].time = sec'
    BY <1>3, <1>5
  <2>2. IsRmc(1, sec - 1)' /\ IsUbx(2, sec - 1)' /\ IsRmc(3, sec)' /\ IsUbx(4, sec)'
    BY <1>1, <1>5, <2>1, Zenon DEF IsRmc, IsUbx
  <2> QED
    BY <1>2, <1>4, <2>1, <2>2, Zenon DEF LatePair
<1>6. CASE Len(serial) = 1 /\ IsUbx(1, sec) /\ gps_utc = sec
  <2>1. /\ Len(serial') = 3 /\ serial'[1] = serial[1]
        /\ serial'[2].kind = "RMC" /\ serial'[2].time = sec'
        /\ serial'[3].kind = "UBX" /\ serial'[3].time = sec'
    BY <1>3, <1>6
  <2>2. IsUbx(1, sec - 1)' /\ IsRmc(2, sec)' /\ IsUbx(3, sec)' /\ gps_utc' = sec' - 1
    BY <1>1, <1>6, <2>1, Zenon DEF IsRmc, IsUbx
  <2> QED
    BY <1>2, <1>4, <2>1, <2>2, Zenon DEF LatePair
<1> QED
  BY <1>5, <1>6

\* The messages of the new second are the only ones.
LEMMA AloneOnLine ==
  ASSUME GpsTypes, Passes, NEW fix \in BOOLEAN, serial = <<>>, serial' = serial \o Messages(fix)
  PROVE  Len(serial') = 2 /\ IsRmc(1, sec)' /\ IsUbx(2, sec)' /\ serial'[2].fix = fix
<1>1. serial \in Seq(Message) /\ sec' \in Nat /\ Len(serial) = 0
  BY DEF GpsTypes, LineTypes, Passes
<1>2. /\ Len(serial') = Len(serial) + 2
      /\ serial'[Len(serial) + 1].kind = "RMC" /\ serial'[Len(serial) + 1].time = sec'
      /\ serial'[Len(serial) + 2].kind = "UBX" /\ serial'[Len(serial) + 2].time = sec'
      /\ serial'[Len(serial) + 2].fix = fix
  BY <1>1, Appended, Zenon
<1>3. Len(serial) + 2 = 2 /\ Len(serial) + 1 = 1
  BY <1>1
<1> QED
  BY <1>2, <1>3, Zenon DEF IsRmc, IsUbx

\* A fault comes when the reference is steady, to a line that is empty or holds the
\* messages of a second without one.
LEMMA BeforeFault ==
  ASSUME FaultsAreRare, GpsTypes, NEW d \in Span, ReferenceWithin(d), Fault
  PROVE  /\ Steady(d) /\ d <= MaxLost + 1
         /\ \/ serial = <<>>
            \/ Len(serial) = 2 /\ IsRmc(1, sec) /\ IsUbx(2, sec)
            \/ Len(serial) = 1 /\ IsUbx(1, sec) /\ gps_utc = sec
<1>1. /\ calm = Calm /\ Calm >= 3 /\ Calm \in Nat /\ d \in Nat /\ outage \in Nat
      /\ outage <= MaxLost /\ MaxLost \in Nat /\ serial \in Seq(Message)
  BY Spans, GpsConstants DEF Fault, FaultsAreRare, GpsTypes, LineTypes
<1>2. ~(calm = 0) /\ ~(calm = 1) /\ ~(calm = 2)
  BY <1>1
<1>3. \/ NoPair /\ Steady(d) /\ d <= outage
      \/ RightPair /\ Steady(d) /\ d <= MaxLost + 1
  BY <1>2, Zenon DEF ReferenceWithin, FaultPair
<1>4. Len(serial) = 0 => serial = <<>>
  BY <1>1
<1>5. d <= outage => d <= MaxLost + 1
  BY <1>1
<1>6. CASE NoPair
  BY <1>2, <1>3, <1>4, <1>5, <1>6, Zenon DEF NoPair, RightPair
<1>7. CASE RightPair
  BY <1>3, <1>5, <1>7, Zenon DEF RightPair
<1> QED
  BY <1>3, <1>6, <1>7, Zenon

LEMMA PulseReference ==
  ASSUME FaultsAreRare, GpsTypes, NEW d \in Span, ReferenceWithin(d), Pulse
  PROVE  ReferenceOf'
<1>1. LineTypes /\ RefTypes /\ ValidTypes
  BY DEF GpsTypes
<1>2. Passes /\ (OnTime \/ PulseMissed \/ MessageLost \/ OutOfSight)
  BY <1>1, PulseCases, Zenon
<1>3. /\ d \in Nat /\ d <= 2 * MaxLost + 3 /\ outage \in Nat /\ outage <= MaxLost
      /\ MaxLost \in Nat /\ calm \in Nat /\ calm <= Calm /\ Calm \in Nat /\ Calm >= 3
      /\ serial \in Seq(Message) /\ sec \in Nat
  BY <1>1, Spans, GpsConstants DEF LineTypes, FaultsAreRare
<1>4. SUFFICES \E e \in Span : ReferenceWithin(e)'
  BY Zenon DEF ReferenceOf
<1>5. /\ sec' = sec + 1 /\ checked = sec /\ KeptByPulse /\ sec' \in Nat
      /\ time_reference_gps' = time_reference_gps
  BY <1>2, <1>3 DEF Passes, KeptByPulse, reference
<1>6. ASSUME NEW e \in Nat, d + 1 <= e
      PROVE  /\ Shaken(d) => Shaken(e)'
             /\ Settling(d) => Settling(e)' /\ Shaken(e)'
             /\ Steady(d) => Steady(e)' /\ Settling(e)' /\ Shaken(e)'
  BY <1>1, <1>3, <1>5, <1>6, AgesAll, Zenon
<1>7. TRUE \in BOOLEAN /\ FALSE \in BOOLEAN
  OBVIOUS
<1>8. MaxLost + 2 \in Span /\ MaxLost + 2 \in Nat
  BY <1>3 DEF Span
\* A fault
<1>9. ASSUME Fault, FaultPair' \/ (NoPair' /\ calm' = 0) PROVE \E e \in Span : ReferenceWithin(e)'
  <2>1. Steady(d) /\ d <= MaxLost + 1
    BY <1>9, BeforeFault, Zenon
  <2>2. d + 1 <= MaxLost + 2
    BY <1>3, <2>1
  <2>3. Steady(MaxLost + 2)' /\ Shaken(MaxLost + 2)'
    BY <1>6, <1>8, <2>1, <2>2, Zenon
  <2>4. outage' \in Nat
    BY PulseTypes, GpsConstants DEF GpsTypes, LineTypes
  <2>5. MaxLost + 2 <= outage' + MaxLost + 2
    <3>1. ASSUME NEW o \in Nat PROVE MaxLost + 2 <= o + MaxLost + 2
      BY <1>3
    <3> QED
      BY <2>4, <3>1, Zenon
  <2>6. ReferenceWithin(MaxLost + 2)'
    BY <1>9, <2>3, <2>5, Zenon DEF ReferenceWithin
  <2> QED
    BY <1>8, <2>6, Zenon
<1>10. ASSUME Fault, serial # <<>>, NEW fix \in BOOLEAN, serial' = serial \o Messages(fix),
              fix => trig' = Counter' /\ outage' = 0
       PROVE  FaultPair'
  <2>1. \/ Len(serial) = 2 /\ IsRmc(1, sec) /\ IsUbx(2, sec)
        \/ Len(serial) = 1 /\ IsUbx(1, sec) /\ gps_utc = sec
    BY <1>10, BeforeFault, Zenon
  <2>2. LatePair'
    BY <1>2, <1>10, <2>1, LateBegins, Zenon
  <2> QED
    BY <1>10, <2>2, Zenon DEF FaultPair, Fault
\* An empty line: the reference since the last fault
<1>11. ASSUME serial = <<>>
       PROVE  \/ calm = 0 /\ Shaken(d) /\ d <= outage + MaxLost + 2
              \/ calm = 1 /\ Settling(d) /\ d <= outage
              \/ calm >= 2 /\ Steady(d) /\ d <= outage
  <2>1. Len(serial) = 0
    BY <1>11
  <2>2. ~(Len(serial) = 1) /\ ~(Len(serial) = 2) /\ ~(Len(serial) = 3) /\ ~(Len(serial) = 4)
    BY <2>1
  <2>3. ~RightPair /\ ~FaultPair
    BY <2>2, Zenon DEF RightPair, FaultPair, LatePair
  <2> QED
    BY <2>3, Zenon DEF ReferenceWithin
<1>12. CASE OnTime
  <2>1. serial' = serial \o Messages(TRUE) /\ trig' = Counter' /\ outage' = 0
    BY <1>12, Zenon DEF OnTime
  <2>2. CASE serial # <<>>
    <3>1. Fault
      BY <1>12, <2>2, Zenon DEF OnTime
    <3>2. FaultPair'
      BY <1>7, <1>10, <2>1, <2>2, <3>1, Zenon
    <3> QED
      BY <1>9, <3>1, <3>2, Zenon
  <2>3. CASE serial = <<>>
    <3>1. Len(serial') = 2 /\ IsRmc(1, sec)' /\ IsUbx(2, sec)' /\ serial'[2].fix = TRUE
      BY <1>2, <1>7, <2>1, <2>3, AloneOnLine, Zenon
    <3>2. time_reference_gps'.utc < sec'
      BY <1>1, <1>3, <1>5 DEF RefTypes
    <3>3. RightPair'
      BY <2>1, <3>1, <3>2, Zenon DEF RightPair
    <3>4. calm' = IF calm < Calm THEN calm + 1 ELSE calm
      BY <1>12, <2>3, Zenon DEF OnTime, NoFault
    <3>5. CASE calm = 0 /\ Shaken(d) /\ d <= outage + MaxLost + 2
      <4>1. calm' = 1 /\ d + 1 <= 2 * MaxLost + 3 /\ 2 * MaxLost + 3 \in Nat
            /\ 2 * MaxLost + 3 \in Span
        BY <1>3, <3>4, <3>5 DEF Span
      <4>2. Shaken(2 * MaxLost + 3)'
        BY <1>6, <3>5, <4>1, Zenon
      <4>3. ReferenceWithin(2 * MaxLost + 3)'
        BY <3>3, <4>1, <4>2, Zenon DEF ReferenceWithin
      <4> QED
        BY <4>1, <4>3, Zenon
    <3>6. CASE calm = 1 /\ Settling(d) /\ d <= outage
      <4>1. calm' = 2 /\ d + 1 <= MaxLost + 1 /\ MaxLost + 1 \in Nat /\ MaxLost + 1 \in Span
            /\ MaxLost + 1 <= MaxLost + 1
        BY <1>3, <3>4, <3>6 DEF Span
      <4>2. Settling(MaxLost + 1)'
        BY <1>6, <3>6, <4>1, Zenon
      <4>3. ReferenceWithin(MaxLost + 1)'
        BY <3>3, <4>1, <4>2, Zenon DEF ReferenceWithin
      <4> QED
        BY <4>1, <4>3, Zenon
    <3>7. CASE calm >= 2 /\ Steady(d) /\ d <= outage
      <4>1. calm' >= 3 /\ d + 1 <= MaxLost + 1 /\ MaxLost + 1 \in Nat /\ MaxLost + 1 \in Span
            /\ MaxLost + 1 <= MaxLost + 1
        BY <1>3, <3>4, <3>7 DEF Span
      <4>2. Steady(MaxLost + 1)'
        BY <1>6, <3>7, <4>1, Zenon
      <4>3. ReferenceWithin(MaxLost + 1)'
        BY <3>3, <4>1, <4>2, Zenon DEF ReferenceWithin
      <4> QED
        BY <4>1, <4>3, Zenon
    <3> QED
      BY <1>11, <2>3, <3>5, <3>6, <3>7, Zenon
  <2> QED
    BY <2>2, <2>3
<1>13. CASE PulseMissed
  <2>1. Len(serial') = 2 /\ IsRmc(1, sec)' /\ IsUbx(2, sec)' /\ serial'[2].fix = TRUE
    BY <1>2, <1>7, <1>13, AloneOnLine, Zenon DEF PulseMissed
  <2>2. FaultPair' /\ Fault
    BY <1>13, <2>1, Zenon DEF PulseMissed, FaultPair, Fault
  <2> QED
    BY <1>9, <2>2, Zenon
<1>14. CASE MessageLost
  <2>1. /\ Messages(TRUE)[1].kind = "RMC" /\ Messages(TRUE)[1].time = sec'
        /\ Messages(TRUE)[2].kind = "UBX" /\ Messages(TRUE)[2].time = sec'
    BY <1>5, <1>7, MessagesAre, Zenon
  <2>2. ASSUME NEW m PROVE Len(<<m>>) = 1 /\ <<m>>[1] = m
    OBVIOUS
  <2>3. Fault /\ calm' = 0 /\ trig' = Counter'
    BY <1>14, Zenon DEF MessageLost, Fault
  <2>4. CASE serial' = <<Messages(TRUE)[1]>>
    <3>1. Len(serial') = 1 /\ IsRmc(1, sec)'
      BY <2>1, <2>2, <2>4, Zenon DEF IsRmc
    <3>2. NoPair'
      BY <2>3, <3>1, Zenon DEF NoPair
    <3> QED
      BY <1>9, <2>3, <3>2, Zenon
  <2>5. CASE serial' = <<Messages(TRUE)[2]>>
    <3>1. Len(serial') = 1 /\ IsUbx(1, sec)'
      BY <2>1, <2>2, <2>5, Zenon DEF IsUbx
    <3>2. FaultPair'
      BY <2>3, <3>1, Zenon DEF FaultPair
    <3> QED
      BY <1>9, <2>3, <3>2, Zenon
  <2> QED
    BY <1>14, <2>4, <2>5, Zenon DEF MessageLost
<1>15. CASE OutOfSight
  <2>1. serial' = serial \o Messages(FALSE) /\ outage < MaxLost /\ outage' = outage + 1
    BY <1>15, Zenon DEF OutOfSight
  <2>2. CASE serial # <<>>
    <3>1. Fault
      BY <1>15, <2>2, Zenon DEF OutOfSight
    <3>2. FaultPair'
      BY <1>7, <1>10, <2>1, <2>2, <3>1, Zenon
    <3> QED
      BY <1>9, <3>1, <3>2, Zenon
  <2>3. CASE serial = <<>>
    <3>1. Len(serial') = 2 /\ IsRmc(1, sec)' /\ IsUbx(2, sec)' /\ serial'[2].fix = FALSE
      BY <1>2, <1>7, <2>1, <2>3, AloneOnLine, Zenon
    <3>2. NoPair' /\ calm' = calm
      BY <1>15, <2>3, <3>1, Zenon DEF NoPair, OutOfSight
    <3>3. /\ d + 1 \in Nat /\ d + 1 <= d + 1
          /\ d <= outage + MaxLost + 2 => d + 1 <= outage' + MaxLost + 2
          /\ d <= outage => d + 1 <= outage'
          /\ d <= outage \/ d <= outage + MaxLost + 2 => d + 1 \in Span
      BY <1>3, <2>1 DEF Span
    <3>4. /\ Shaken(d) => Shaken(d + 1)'
          /\ Settling(d) => Settling(d + 1)'
          /\ Steady(d) => Steady(d + 1)'
      BY <1>6, <3>3, Zenon
    <3>5. ReferenceWithin(d + 1)' /\ d + 1 \in Span
      BY <1>11, <2>3, <3>2, <3>3, <3>4, Zenon DEF ReferenceWithin
    <3> QED
      BY <3>5, Zenon
  <2> QED
    BY <2>2, <2>3
<1> QED
  BY <1>2, <1>12, <1>13, <1>14, <1>15

-----------------------------------------------------------------------------
(* The theorem                                                             *)

\* What the receiver, the line, the parser and thread_valid keep of the reference: after
\* a fault, it is right, or the next right pair replaces it before beacons are queued.
THEOREM ReferenceInvariant ==
  ASSUME FaultsAreRare PROVE GpsSpec => []ReferenceInv
<1>1. GpsInit => ReferenceInv
  <2>1. SUFFICES ASSUME GpsInit PROVE ReferenceInv
    OBVIOUS
  <2>2. /\ sec = Epoch /\ trig = 0 /\ serial = <<>> /\ outage = 0 /\ calm = Calm /\ gps_utc = 0
        /\ gps_tow = 0 /\ gps_time_ok = FALSE /\ time_reference_gps = NoReference
        /\ aber_min1 = FALSE /\ aber_min2 = FALSE /\ gps_ref_valid = FALSE /\ init_cpt = 0
        /\ xtal_correct_ok = FALSE /\ checked = Epoch
    BY <2>1, Zenon DEF GpsInit, NoReference
  <2>3. LineTypes
    <3>1. /\ sec \in Nat /\ Epoch <= sec /\ trig \in 0 .. RANGE - 1 /\ serial \in Seq(Message)
          /\ gps_utc \in Nat /\ gps_utc <= sec /\ gps_tow \in Nat
          /\ outage \in 0 .. MaxLost /\ calm \in 0 .. Calm
      BY <2>2, GpsConstants
    <3>2. gps_time_ok \in BOOLEAN
      BY <2>2, Zenon
    <3> QED
      BY <2>2, <3>1, <3>2, Zenon DEF LineTypes
  <2>4. RefTypes
    <3>1. time_reference_gps \in [systime : Nat, count : 0 .. RANGE - 1, utc : Nat, gps : Nat]
      BY <2>2, GpsConstants DEF NoReference
    <3>2. /\ time_reference_gps.utc <= sec /\ time_reference_gps.systime <= sec
          /\ time_reference_gps.gps <= sec
      BY <2>2, GpsConstants DEF NoReference
    <3> QED
      BY <2>2, <3>1, <3>2, Zenon DEF RefTypes
  <2>5. ValidTypes
    <3>1. checked \in Nat /\ checked <= sec /\ sec <= checked + 1 /\ init_cpt \in Nat
      BY <2>2, GpsConstants
    <3> QED
      BY <2>2, <3>1, Zenon DEF ValidTypes
  <2>6. 0 \in Span /\ 0 <= outage /\ calm >= 2 /\ Len(serial) = 0
    BY <2>2, GpsConstants DEF Span, FaultsAreRare
  <2>7. ReferenceWithin(0)
    BY <2>2, <2>6, Zenon DEF ReferenceWithin, NoPair, Steady, Unset
  <2> QED
    BY <2>3, <2>4, <2>5, <2>6, <2>7, Zenon DEF ReferenceInv, GpsTypes, ReferenceOf
<1>2. ReferenceInv /\ [GpsNext]_gpsVars => ReferenceInv'
  <2>1. SUFFICES ASSUME ReferenceInv, [GpsNext]_gpsVars PROVE ReferenceInv'
    OBVIOUS
  <2>2. GpsTypes /\ ReferenceOf
    BY <2>1, Zenon DEF ReferenceInv
  <2>3. PICK d \in Span : ReferenceWithin(d)
    BY <2>2, Zenon DEF ReferenceOf
  <2>4. CASE Pulse
    BY <2>2, <2>3, <2>4, PulseTypes, PulseReference, Zenon DEF ReferenceInv
  <2>5. CASE thread_gps
    BY <2>2, <2>3, <2>5, GpsTypesStay, GpsReference, Zenon DEF ReferenceInv
  <2>6. CASE thread_valid
    BY <2>1, <2>6, ValidReference, Zenon
  <2>7. CASE UNCHANGED <<receiver, parser, reference, validity>>
    BY <2>1, <2>7, BeaconsReference, Zenon
  <2>8. BeginLoop \/ ComputeBeacon \/ EnqueueBeacon \/ DropBeacon \/ SendBeacon \/ UNCHANGED gpsVars
          => UNCHANGED <<receiver, parser, reference, validity>>
    BY Zenon DEF BeginLoop, ComputeBeacon, EnqueueBeacon, DropBeacon, SendBeacon, gpsVars
  <2> QED
    BY <2>1, <2>4, <2>5, <2>6, <2>7, <2>8, Zenon DEF GpsNext
<1> QED
  BY <1>1, <1>2, PTL DEF GpsSpec

LEMMA RightWhenReady ==
  ASSUME FaultsAreRare, ReferenceInv PROVE ReferenceRight
<1>1. SUFFICES ASSUME xtal_correct_ok, gps_ref_valid PROVE CountRight
  BY Zenon DEF ReferenceRight, CountRight
<1>2. PICK d \in Span : ReferenceWithin(d)
  BY <1>1, Zenon DEF ReferenceInv, ReferenceOf
<1>3. Shaken(d)
  BY <1>2, Zenon DEF ReferenceWithin, Shaken, Settling, Steady
<1>4. ~Young(d)
  <2>1. /\ init_cpt \in Nat /\ init_cpt > XERR_INIT_AVG /\ sec \in Nat /\ checked \in Nat
        /\ checked <= sec
    BY <1>1, Zenon DEF ReferenceInv, GpsTypes, ValidTypes, LineTypes
  <2>2. d \in Nat /\ d <= 2 * MaxLost + 3 /\ XERR_INIT_AVG >= 2 * MaxLost + 4
    BY Spans DEF FaultsAreRare
  <2> QED
    BY <2>1, <2>2, GpsConstants DEF Young
<1> QED
  BY <1>1, <1>3, <1>4, Zenon DEF Shaken, Unset, Sound, Unsure

\* Whatever faults the receiver has, when thread_down may queue beacons (the reference is
\* valid and thread_valid has averaged it long enough) the reference that lgw_gps_sync
\* keeps pairs a GPS second with the counter of that second.
THEOREM ReferenceStaysRight ==
  ASSUME FaultsAreRare PROVE GpsSpec => []ReferenceRight
<1>1. ReferenceInv => ReferenceRight
  BY RightWhenReady
<1> QED
  BY <1>1, ReferenceInvariant, PTL

-----------------------------------------------------------------------------
(* The beacons                                                             *)

Slot(t) == t \div beacon_period
OnGrid(t) == t % beacon_period = 0
CountOf(t) == (t - Epoch) % RANGE

Beacon == [gps : Nat, count : 0 .. RANGE - 1]
Ready == gps_ref_valid /\ xtal_correct_ok
Future == {b \in queue : b.gps > sec}

\* The oldest second a beacon may be for: thread_down is behind by one pulse at most.
Lag == 2 * MaxLost + 5
Floor == IF behind THEN sec - Lag ELSE sec - Lag + 1

\* A beacon will be sent at its time, or was missed and is dropped.
Due(b) == b.count = CountOf(b.gps) /\ sec <= b.gps /\ b.gps < sec + TX_MAX_ADVANCE_DELAY
Missed(b) == Outdated(b) /\ b.gps < sec

BeaconTypes ==
  /\ down \in {"idle", "compute", "enqueue"} /\ beacon_loop \in Nat /\ retry \in Nat
  /\ last_beacon \in Nat /\ next_beacon \in Beacon /\ behind \in BOOLEAN
  /\ queue \subseteq Beacon /\ IsFiniteSet(queue)

\* The queue holds at most what thread_down has counted.
QueueFits ==
  /\ Cardinality(queue) <= JIT_NUM_BEACON_IN_QUEUE
  /\ down # "idle" => beacon_loop >= 1 /\ Cardinality(queue) + beacon_loop <= JIT_NUM_BEACON_IN_QUEUE

QueueRight == \A b \in queue : OnGrid(b.gps) /\ b.gps <= last_beacon /\ (Due(b) \/ Missed(b))

\* The last beacon is at most one slot further than the beacons in the queue reach.
LastRight ==
  /\ OnGrid(last_beacon) /\ (last_beacon = 0 => queue = {})
  /\ last_beacon # 0 => /\ Floor <= last_beacon
                        /\ Slot(last_beacon) <= Slot(sec) + Cardinality(Future) + 1

\* A retry follows a beacon whose time had come.
ComputeRight ==
  \/ retry = 0
  \/ last_beacon # 0 /\ last_beacon + retry * beacon_period <= sec
  \/ last_beacon = 0 /\ retry = 1 /\ sec <= time_reference_gps.gps + beacon_period

\* The count of the next beacon is the one of its second; or the second had passed when it
\* was computed, and the count is the one of the reference.
CountAimed ==
  \/ next_beacon.count = CountOf(next_beacon.gps)
  \/ /\ last_beacon # 0 /\ next_beacon.gps < sec
     /\ \E g \in Nat : g <= sec /\ Floor <= g /\ next_beacon.count = CountOf(g)

NextRight ==
  /\ OnGrid(next_beacon.gps) /\ last_beacon < next_beacon.gps /\ Floor <= next_beacon.gps
  /\ Slot(next_beacon.gps) <= Slot(sec) + Cardinality(Future) + 2
  /\ CountAimed
  /\ IF last_beacon # 0 THEN next_beacon.gps = last_beacon + (retry + 1) * beacon_period
     ELSE \/ retry = 0 /\ next_beacon.gps <= time_reference_gps.gps + beacon_period
          \/ retry = 1 /\ sec < next_beacon.gps

BeaconSteps ==
  /\ last_beacon # 0 \/ down # "idle" => Ready
  /\ down = "compute" => ComputeRight
  /\ down = "enqueue" => NextRight

BeaconInv == BeaconTypes /\ QueueFits /\ QueueRight /\ LastRight /\ BeaconSteps /\ BeaconOnTime

-----------------------------------------------------------------------------
(* Arithmetic of slots and counts                                          *)

LEMMA BeaconConstants ==
  /\ beacon_period \in Nat \ {0} /\ JIT_NUM_BEACON_IN_QUEUE \in Nat \ {0}
  /\ TX_MAX_ADVANCE_DELAY \in Nat \ {0} /\ TX_MAX_ADVANCE_DELAY <= RANGE /\ RANGE \in Nat \ {0}
  /\ Epoch \in Nat \ {0} /\ MaxLost \in Nat
  BY GpsBeaconAssumption

LEMMA ProductIsNat ==
  ASSUME NEW a \in Nat, NEW k \in Nat PROVE a * k \in Nat
  OBVIOUS

\* A time and the slot it is in
LEMMA SlotIs ==
  ASSUME NEW t \in Int
  PROVE  \E q \in Int, r \in 0 .. beacon_period - 1 :
            t = beacon_period * q + r /\ Slot(t) = q /\ (OnGrid(t) <=> r = 0)
<1>1. beacon_period \in Nat \ {0}
  BY BeaconConstants
<1>2. /\ (t \div beacon_period) \in Int /\ (t % beacon_period) \in 0 .. beacon_period - 1
      /\ t = beacon_period * (t \div beacon_period) + (t % beacon_period)
  BY <1>1, Quotient
<1> QED
  BY <1>2, Zenon DEF Slot, OnGrid

LEMMA InSlot ==
  ASSUME NEW t \in Int, NEW q \in Int, NEW r \in 0 .. beacon_period - 1, t = beacon_period * q + r
  PROVE  Slot(t) = q /\ (OnGrid(t) <=> r = 0)
<1>1. beacon_period \in Nat \ {0}
  BY BeaconConstants
<1>2. (t \div beacon_period) = q /\ (t % beacon_period) = r
  BY <1>1, QuotientIs
<1> QED
  BY <1>2, Zenon DEF Slot, OnGrid

LEMMA Multiples ==
  ASSUME NEW b \in Int, NEW q \in Int, NEW n \in Int
  PROVE  b * (q + n) = b * q + b * n /\ b * q \in Int /\ b * n \in Int /\ b * n = n * b
  OBVIOUS

LEMMA GridSteps ==
  ASSUME NEW t \in Int, NEW n \in Int, OnGrid(t)
  PROVE  /\ OnGrid(t + n * beacon_period) /\ Slot(t + n * beacon_period) = Slot(t) + n
         /\ Slot(t) \in Int
<1>1. PICK q \in Int : t = beacon_period * q /\ Slot(t) = q
  <2>1. PICK q \in Int, r \in 0 .. beacon_period - 1 :
            t = beacon_period * q + r /\ Slot(t) = q /\ (OnGrid(t) <=> r = 0)
    BY SlotIs
  <2> QED
    BY <2>1, BeaconConstants
<1>2. beacon_period \in Int /\ 0 \in 0 .. beacon_period - 1 /\ q + n \in Int
  BY BeaconConstants
<1>3. /\ t + n * beacon_period = beacon_period * (q + n) + 0
      /\ t + n * beacon_period \in Int
  BY <1>1, <1>2, Multiples
<1> QED
  BY <1>1, <1>2, <1>3, InSlot

LEMMA GridStep ==
  ASSUME NEW t \in Int, OnGrid(t)
  PROVE  OnGrid(t + beacon_period) /\ Slot(t + beacon_period) = Slot(t) + 1 /\ Slot(t) \in Int
<1>1. 1 * beacon_period = beacon_period
  BY BeaconConstants
<1>2. OnGrid(t + 1 * beacon_period) /\ Slot(t + 1 * beacon_period) = Slot(t) + 1 /\ Slot(t) \in Int
  BY GridSteps
<1> QED
  BY <1>1, <1>2

LEMMA SlotMonotone ==
  ASSUME NEW t \in Int, NEW u \in Int, t <= u
  PROVE  Slot(t) <= Slot(u) /\ Slot(t) \in Int /\ Slot(u) \in Int
<1>1. PICK q \in Int, r \in 0 .. beacon_period - 1 : t = beacon_period * q + r /\ Slot(t) = q
  BY SlotIs
<1>2. PICK k \in Int, s \in 0 .. beacon_period - 1 : u = beacon_period * k + s /\ Slot(u) = k
  BY SlotIs
<1>3. SUFFICES ASSUME k < q PROVE FALSE
  BY <1>1, <1>2
<1> DEFINE n == q - k - 1
<1>4. n \in Nat /\ q = k + 1 + n /\ k + 1 \in Int
  BY <1>3
<1> HIDE DEF n
<1>5. beacon_period * q = beacon_period * k + beacon_period + beacon_period * n
  <2>1. beacon_period \in Int /\ n \in Int
    BY <1>4, BeaconConstants
  <2>2. /\ beacon_period * (k + 1 + n) = beacon_period * (k + 1) + beacon_period * n
    BY <1>4, <2>1, Multiples
  <2>3. beacon_period * (k + 1) = beacon_period * k + beacon_period
    BY <2>1
  <2> QED
    BY <1>4, <2>2, <2>3
<1>6. beacon_period * n \in Nat /\ beacon_period \in Nat /\ beacon_period * k \in Int
  BY <1>4, ProductIsNat, BeaconConstants
<1> QED
  BY <1>1, <1>2, <1>5, <1>6

LEMMA SlotBound ==
  ASSUME NEW t \in Int, NEW u \in Int, NEW n \in Nat, OnGrid(t), Slot(t) <= Slot(u) + n
  PROVE  t <= u + n * beacon_period
<1>1. PICK q \in Int : t = beacon_period * q /\ Slot(t) = q
  <2>1. PICK q \in Int, r \in 0 .. beacon_period - 1 :
            t = beacon_period * q + r /\ Slot(t) = q /\ (OnGrid(t) <=> r = 0)
    BY SlotIs
  <2> QED
    BY <2>1, BeaconConstants
<1>2. PICK k \in Int, s \in 0 .. beacon_period - 1 : u = beacon_period * k + s /\ Slot(u) = k
  BY SlotIs
<1> DEFINE m == k + n - q
<1>3. m \in Nat /\ k + n = q + m
  BY <1>1, <1>2
<1> HIDE DEF m
<1>4. beacon_period \in Nat /\ beacon_period * m \in Nat
  BY <1>3, ProductIsNat, BeaconConstants
<1>5. /\ beacon_period * (k + n) = beacon_period * k + beacon_period * n
      /\ beacon_period * (q + m) = beacon_period * q + beacon_period * m
      /\ beacon_period * n = n * beacon_period
      /\ beacon_period * k \in Int /\ beacon_period * n \in Int /\ beacon_period * q \in Int
  BY <1>3, <1>4, Multiples
<1> QED
  BY <1>1, <1>2, <1>3, <1>4, <1>5

LEMMA NextSecond ==
  ASSUME NEW t \in Int, OnGrid(t + 1)
  PROVE  Slot(t + 1) = Slot(t) + 1
<1>1. PICK q \in Int : t + 1 = beacon_period * q /\ Slot(t + 1) = q
  <2>1. t + 1 \in Int
    OBVIOUS
  <2>2. PICK q \in Int, r \in 0 .. beacon_period - 1 :
            t + 1 = beacon_period * q + r /\ Slot(t + 1) = q /\ (OnGrid(t + 1) <=> r = 0)
    BY <2>1, SlotIs
  <2> QED
    BY <2>2, BeaconConstants
<1>2. /\ t = beacon_period * (q - 1) + (beacon_period - 1) /\ q - 1 \in Int
      /\ beacon_period - 1 \in 0 .. beacon_period - 1
  <2>1. beacon_period * (q + (-1)) = beacon_period * q + beacon_period * (-1)
    BY BeaconConstants, Multiples
  <2> QED
    BY <1>1, <2>1, BeaconConstants
<1>3. Slot(t) = q - 1
  BY <1>2, InSlot
<1> QED
  BY <1>1, <1>3

\* The first slot after a time
LEMMA FirstIs ==
  ASSUME NEW t \in Nat
  PROVE  /\ FirstBeacon(t) \in Nat /\ t < FirstBeacon(t) /\ FirstBeacon(t) <= t + beacon_period
         /\ OnGrid(FirstBeacon(t)) /\ Slot(FirstBeacon(t)) = Slot(t) + 1 /\ Slot(t) \in Int
<1>1. PICK q \in Int, r \in 0 .. beacon_period - 1 : t = beacon_period * q + r /\ Slot(t) = q
                                                      /\ r = (t % beacon_period)
  BY Quotient, BeaconConstants DEF Slot
<1>2. FirstBeacon(t) = t + (beacon_period - r)
  BY <1>1, Zenon DEF FirstBeacon
<1>3. FirstBeacon(t) \in Nat /\ t < FirstBeacon(t) /\ FirstBeacon(t) <= t + beacon_period
  BY <1>2, BeaconConstants
<1>4. beacon_period * (q + 1) = beacon_period * q + beacon_period * 1
  BY BeaconConstants, Multiples
<1>5. FirstBeacon(t) = beacon_period * (q + 1) + 0 /\ q + 1 \in Int /\ 0 \in 0 .. beacon_period - 1
  BY <1>1, <1>2, <1>4, BeaconConstants
<1> QED
  BY <1>1, <1>3, <1>5, InSlot

LEMMA AheadIs ==
  ASSUME sec \in Nat, NEW g \in Int, sec <= g, g - sec < RANGE
  PROVE  (CountOf(g) - Counter) % RANGE = g - sec
  BY RightCountsAgree DEF CountOf, Counter

LEMMA CountIs ==
  ASSUME NEW g \in Int
  PROVE  CountOf(g) \in 0 .. RANGE - 1 /\ CountOf(g + RANGE) = CountOf(g)
<1>1. RANGE \in Nat \ {0} /\ Epoch \in Int /\ g - Epoch \in Int /\ (g + RANGE) - Epoch \in Int
  BY BeaconConstants
<1>2. PICK q \in Int : Turned(g - Epoch, RANGE, q, CountOf(g))
  BY <1>1, Turns DEF CountOf
<1>3. CountOf(g) \in 0 .. RANGE - 1 /\ g - Epoch = RANGE * q + CountOf(g)
  BY <1>2 DEF Turned
<1>4. RANGE * (q + 1) = RANGE * q + RANGE * 1 /\ RANGE * q \in Int
  BY <1>1, Multiples
<1>5. (g + RANGE) - Epoch = RANGE * (q + 1) + CountOf(g) /\ q + 1 \in Int
  BY <1>1, <1>3, <1>4
<1>6. (((g + RANGE) - Epoch) % RANGE) = CountOf(g)
  BY <1>1, <1>3, <1>5, QuotientIs
<1>7. CountOf(g + RANGE) = (((g + RANGE) - Epoch) % RANGE)
  BY Zenon DEF CountOf
<1> QED
  BY <1>3, <1>6, <1>7, Zenon

LEMMA BehindIs ==
  ASSUME sec \in Nat, NEW g \in Int, g < sec, sec - g <= RANGE
  PROVE  (CountOf(g) - Counter) % RANGE = g + RANGE - sec
<1>1. /\ RANGE \in Nat \ {0} /\ g + RANGE \in Int /\ sec <= g + RANGE
      /\ g + RANGE - sec < RANGE
  BY BeaconConstants
<1>2. (CountOf(g + RANGE) - Counter) % RANGE = g + RANGE - sec
  BY <1>1, AheadIs
<1> QED
  BY <1>2, CountIs

\* A beacon ahead and its count
LEMMA DueIsAhead ==
  ASSUME sec \in Nat, NEW b \in Beacon, Due(b)
  PROVE  /\ (b.count - Counter) % RANGE = b.gps - sec
         /\ ~Outdated(b) /\ (b.count = Counter => b.gps = sec)
<1>1. b.gps \in Nat /\ b.count = CountOf(b.gps) /\ sec <= b.gps /\ b.gps < sec + TX_MAX_ADVANCE_DELAY
  BY DEF Beacon, Due
<1>2. b.gps \in Int /\ b.gps - sec < RANGE /\ b.gps - sec < TX_MAX_ADVANCE_DELAY
  BY <1>1, BeaconConstants
<1>3. (b.count - Counter) % RANGE = b.gps - sec
  BY <1>1, <1>2, AheadIs, Zenon
<1>4. ~Outdated(b)
  BY <1>1, <1>2, <1>3, BeaconConstants DEF Outdated
<1>5. b.count = Counter => b.gps = sec
  <2>1. SUFFICES ASSUME b.count = Counter PROVE b.gps = sec
    OBVIOUS
  <2>2. (Counter - Counter) % RANGE = b.gps - sec
    BY <1>3, <2>1
  <2>3. Counter \in Int /\ Counter - Counter = RANGE * 0 + 0 /\ 0 \in 0 .. RANGE - 1
        /\ RANGE \in Nat \ {0} /\ Counter - Counter \in Int
    BY BeaconConstants, Quotient DEF Counter
  <2>4. (Counter - Counter) % RANGE = 0
    BY <2>3, QuotientIs
  <2> QED
    BY <1>1, <2>2, <2>4
<1> QED
  BY <1>3, <1>4, <1>5

LEMMA OutdatedNotNow ==
  ASSUME sec \in Nat, NEW b, Outdated(b)
  PROVE  b.count # Counter
<1>1. SUFFICES ASSUME b.count = Counter PROVE FALSE
  OBVIOUS
<1>2. Counter \in Int /\ Counter - Counter = RANGE * 0 + 0 /\ 0 \in 0 .. RANGE - 1
      /\ RANGE \in Nat \ {0} /\ Counter - Counter \in Int
  BY BeaconConstants, Quotient DEF Counter
<1>3. (Counter - Counter) % RANGE = 0
  BY <1>2, QuotientIs
<1> QED
  BY <1>1, <1>3, BeaconConstants DEF Outdated

\* The count of a second that has passed
LEMMA PassedIsOutdated ==
  ASSUME BeaconsFit, sec \in Nat, NEW b, NEW g \in Nat, g < sec, sec - Lag <= g,
         b.count = CountOf(g)
  PROVE  Outdated(b)
<1>1. /\ MaxLost \in Nat /\ TX_MAX_ADVANCE_DELAY + 2 * MaxLost + 5 <= RANGE /\ Lag = 2 * MaxLost + 5
      /\ TX_MAX_ADVANCE_DELAY \in Nat \ {0} /\ RANGE \in Nat
  BY BeaconConstants DEF BeaconsFit, Lag
<1>2. sec - g <= RANGE /\ g \in Int /\ (g + RANGE) - sec >= TX_MAX_ADVANCE_DELAY
  BY <1>1
<1>3. (CountOf(g) - Counter) % RANGE = (g + RANGE) - sec
  <2>1. (CountOf(g) - Counter) % RANGE = g + RANGE - sec
    BY <1>2, BehindIs, Zenon
  <2>2. g + RANGE - sec = (g + RANGE) - sec
    BY <1>1
  <2> QED
    BY <2>1, <2>2
<1>4. (b.count - Counter) % RANGE = (g + RANGE) - sec
  BY <1>3, Zenon
<1> QED
  BY <1>2, <1>4 DEF Outdated

-----------------------------------------------------------------------------
(* The reference and the beacons                                           *)

\* While beacons may be queued, the reference is right and recent.
LEMMA ReadyReference ==
  ASSUME FaultsAreRare, ReferenceInv, Ready
  PROVE  /\ time_reference_gps.gps \in Nat /\ time_reference_gps.count = CountOf(time_reference_gps.gps)
         /\ time_reference_gps.gps <= sec /\ sec - Lag + 1 <= time_reference_gps.gps
         /\ time_reference_gps.systime \in Nat /\ time_reference_gps.systime <= sec
         /\ sec - time_reference_gps.systime <= 2 * MaxLost + 3
<1>1. LineTypes /\ RefTypes
  BY Zenon DEF ReferenceInv, GpsTypes
<1>2. time_reference_gps.count = CountOf(time_reference_gps.gps)
  <2>1. ReferenceRight
    BY RightWhenReady
  <2> QED
    BY <2>1, Zenon DEF ReferenceRight, Ready, CountOf
<1>3. PICK d \in Span : ReferenceWithin(d)
  BY Zenon DEF ReferenceInv, ReferenceOf
<1>4. Recent(d)
  <2>1. Shaken(d)
    BY <1>3, Zenon DEF ReferenceWithin, Shaken, Settling, Steady
  <2> QED
    BY <2>1, Zenon DEF Shaken, Unset, Sound, Unsure, Ready
<1>5. d \in Nat /\ d <= 2 * MaxLost + 3 /\ MaxLost \in Nat
  BY Spans, BeaconConstants
<1>6. /\ time_reference_gps.gps \in Nat /\ time_reference_gps.systime \in Nat /\ sec \in Nat
      /\ time_reference_gps.gps <= sec /\ time_reference_gps.systime <= sec
  BY <1>1 DEF RefTypes, LineTypes
<1>7. /\ sec - time_reference_gps.systime <= d
      /\ time_reference_gps.systime <= time_reference_gps.gps + 1
  BY <1>4, Zenon DEF Recent
<1> QED
  BY <1>2, <1>5, <1>6, <1>7 DEF Lag

\* A new reference is of a later second.
LEMMA LaterReference ==
  ASSUME GpsTypes, ReferenceOf, thread_gps
  PROVE  /\ time_reference_gps.gps \in Nat /\ time_reference_gps'.gps \in Nat
         /\ time_reference_gps.gps <= time_reference_gps'.gps
<1>1. LineTypes /\ RefTypes /\ GpsTypes'
  BY GpsTypesStay, Zenon DEF GpsTypes
<1>2. time_reference_gps.gps \in Nat /\ time_reference_gps'.gps \in Nat
  BY <1>1 DEF GpsTypes, RefTypes
<1>3. Len(serial) \in Nat \ {0} /\ (Rmc \/ Ubx)
  BY <1>1, GpsStep, Zenon
<1>4. time_reference_gps.gps <= serial[1].time \/ serial[1].kind = "RMC"
  <2>1. sec \in Nat /\ time_reference_gps.gps <= sec
    BY <1>1 DEF RefTypes, LineTypes
  <2>2. \/ serial[1].kind = "RMC" \/ serial[1].time = sec
        \/ time_reference_gps.gps < sec /\ serial[1].time = sec - 1
    BY <1>3 DEF ReferenceOf, ReferenceWithin, NoPair, RightPair, FaultPair, LatePair, IsRmc, IsUbx
  <2> QED
    BY <1>2, <2>1, <2>2
<1>5. CASE time_reference_gps' = time_reference_gps
  BY <1>2, <1>5
<1>6. CASE Ubx /\ lgw_gps_sync(trig, gps_utc, serial[1].time)
  <2>1. \/ time_reference_gps' = time_reference_gps
        \/ time_reference_gps' = NewReference(trig, gps_utc, serial[1].time)
    BY <1>1, <1>6, SyncCases, Zenon
  <2>2. CASE time_reference_gps' = NewReference(trig, gps_utc, serial[1].time)
    <3>1. time_reference_gps'.gps = serial[1].time
      BY <2>2, NewFields, Zenon
    <3> QED
      BY <1>2, <1>4, <1>6, <3>1 DEF Ubx
  <2> QED
    BY <1>5, <2>1, <2>2
<1> QED
  BY <1>3, <1>5, <1>6, Zenon DEF Rmc, Ubx, reference

\* The threads of the reference leave the beacons alone.
LEMMA SameBeacons ==
  ASSUME BeaconInv, sec' = sec, behind' = behind, UNCHANGED beacons, Ready => Ready',
         time_reference_gps.gps \in Nat, time_reference_gps'.gps \in Nat, sec \in Nat,
         time_reference_gps.gps <= time_reference_gps'.gps
  PROVE  BeaconInv'
<1>1. /\ down' = down /\ beacon_loop' = beacon_loop /\ retry' = retry
      /\ last_beacon' = last_beacon /\ next_beacon' = next_beacon /\ queue' = queue /\ sent' = sent
      /\ sec' = sec /\ behind' = behind
  BY Zenon DEF beacons
<1>2. Counter' = Counter /\ Future' = Future /\ Floor' = Floor
  <2>1. Counter' = Counter
    BY <1>1 DEF Counter
  <2>2. Future' = Future
    BY <1>1 DEF Future
  <2>3. Floor' = Floor
    BY <1>1 DEF Floor
  <2> QED
    BY <2>1, <2>2, <2>3
<1>3. BeaconTypes' /\ QueueFits' /\ LastRight' /\ BeaconOnTime'
  BY <1>1, <1>2, Zenon DEF BeaconInv, BeaconTypes, QueueFits, LastRight, BeaconOnTime
<1>4. QueueRight'
  BY <1>1, <1>2, Zenon DEF BeaconInv, QueueRight, Due, Missed, Outdated
<1>5. ASSUME NEW t \in Nat, t <= time_reference_gps.gps + beacon_period
      PROVE  t <= time_reference_gps'.gps + beacon_period
  BY <1>5, BeaconConstants
<1>6. down = "compute" => ComputeRight'
  BY <1>1, <1>5, Zenon DEF BeaconInv, BeaconSteps, ComputeRight
<1>7. down = "enqueue" => NextRight'
  <2>1. SUFFICES ASSUME down = "enqueue" PROVE NextRight'
    OBVIOUS
  <2>2. NextRight
    BY <2>1, Zenon DEF BeaconInv, BeaconSteps
  <2>3. CountAimed'
    BY <1>1, <1>2, <2>2, Zenon DEF NextRight, CountAimed
  <2>4. next_beacon.gps \in Nat
    BY DEF BeaconInv, BeaconTypes, Beacon
  <2> QED
    BY <1>1, <1>2, <1>5, <2>2, <2>3, <2>4, Zenon DEF NextRight
<1>8. BeaconSteps'
  BY <1>1, <1>6, <1>7, Zenon DEF BeaconInv, BeaconSteps
<1> QED
  BY <1>3, <1>4, <1>8, Zenon DEF BeaconInv

LEMMA ValidBeacons ==
  ASSUME FaultsAreRare, BeaconsFit, ReferenceInv, BeaconInv, thread_valid
  PROVE  BeaconInv'
<1>1. /\ sec' = sec /\ behind' = behind /\ UNCHANGED beacons
      /\ time_reference_gps' = time_reference_gps
  BY Zenon DEF thread_valid, receiver, reference
<1>2. sec \in Nat /\ time_reference_gps.gps \in Nat
  BY DEF ReferenceInv, GpsTypes, LineTypes, RefTypes
<1>3. ASSUME Ready PROVE Ready'
  <2>1. /\ time_reference_gps.systime \in Nat /\ time_reference_gps.systime <= sec
        /\ sec - time_reference_gps.systime <= 2 * MaxLost + 3
    BY <1>3, ReadyReference, Zenon
  <2>2. sec - time_reference_gps.systime \in 0 .. GPS_REF_MAX_AGE
    BY <1>2, <2>1, GpsConstants DEF BeaconsFit
  <2> QED
    BY <1>3, <2>2, Zenon DEF thread_valid, Ready
<1>4. time_reference_gps.gps <= time_reference_gps'.gps
  BY <1>1, <1>2
<1> QED
  BY <1>1, <1>2, <1>3, <1>4, SameBeacons, Zenon

LEMMA GpsBeacons ==
  ASSUME ReferenceInv, BeaconInv, thread_gps
  PROVE  BeaconInv'
<1>1. GpsTypes /\ ReferenceOf
  BY Zenon DEF ReferenceInv
<1>2. /\ sec' = sec /\ behind' = behind /\ UNCHANGED beacons /\ UNCHANGED validity
  BY Zenon DEF thread_gps
<1>3. Ready => Ready'
  BY <1>2, Zenon DEF Ready, validity
<1>4. sec \in Nat
  BY <1>1 DEF GpsTypes, LineTypes
<1> QED
  BY <1>1, <1>2, <1>3, <1>4, LaterReference, SameBeacons, Zenon

\* What thread_down and thread_jit leave alone
KeptByDown == UNCHANGED <<sec, behind, time_reference_gps, gps_ref_valid, xtal_correct_ok>>

LEMMA KeptTerms ==
  ASSUME KeptByDown
  PROVE  /\ sec' = sec /\ behind' = behind /\ time_reference_gps' = time_reference_gps
         /\ Counter' = Counter /\ Floor' = Floor /\ (Ready' <=> Ready)
<1>1. sec' = sec /\ behind' = behind /\ time_reference_gps' = time_reference_gps
  BY Zenon DEF KeptByDown
<1>2. Counter' = Counter
  BY <1>1 DEF Counter
<1>3. Floor' = Floor
  BY <1>1 DEF Floor
<1>4. Ready' <=> Ready
  BY Zenon DEF KeptByDown, Ready
<1> QED
  BY <1>1, <1>2, <1>3, <1>4

\* A beacon whose time has come or passed leaves the queue.
LEMMA Removed ==
  ASSUME BeaconInv, KeptByDown, NEW b \in queue, ~(b.gps > sec), queue' = queue \ {b},
         UNCHANGED <<down, beacon_loop, retry, last_beacon, next_beacon>>
  PROVE  BeaconTypes' /\ QueueFits' /\ QueueRight' /\ LastRight' /\ BeaconSteps'
<1>1. /\ sec' = sec /\ behind' = behind /\ time_reference_gps' = time_reference_gps
      /\ Counter' = Counter /\ Floor' = Floor /\ (Ready' <=> Ready)
  BY KeptTerms, Zenon
<1>2. /\ down' = down /\ beacon_loop' = beacon_loop /\ retry' = retry
      /\ last_beacon' = last_beacon /\ next_beacon' = next_beacon
  OBVIOUS
<1>3. Future' = Future
  <2>1. Future' = {q \in queue' : q.gps > sec}
    BY <1>1 DEF Future
  <2> QED
    BY <2>1, Zenon DEF Future
<1>4. BeaconTypes /\ QueueFits /\ QueueRight /\ LastRight /\ BeaconSteps
  BY Zenon DEF BeaconInv
<1>5. IsFiniteSet(queue') /\ Cardinality(queue') = Cardinality(queue) - 1 /\ Cardinality(queue) \in Nat
  BY <1>4, FS_RemoveElement, FS_CardinalityType DEF BeaconTypes
<1>6. BeaconTypes'
  BY <1>1, <1>2, <1>4, <1>5, Zenon DEF BeaconTypes
<1>7. QueueFits'
  BY <1>2, <1>4, <1>5, BeaconConstants DEF QueueFits, BeaconTypes
<1>8. QueueRight'
  BY <1>1, <1>2, <1>4, Zenon DEF QueueRight, Due, Missed, Outdated
<1>9. LastRight'
  BY <1>1, <1>2, <1>3, <1>4, Zenon DEF LastRight
<1>10. ComputeRight => ComputeRight'
  BY <1>1, <1>2, Zenon DEF ComputeRight
<1>11. NextRight => NextRight'
  <2>1. CountAimed => CountAimed'
    BY <1>1, <1>2, Zenon DEF CountAimed
  <2> QED
    BY <1>1, <1>2, <1>3, <2>1, Zenon DEF NextRight
<1>12. BeaconSteps'
  BY <1>1, <1>2, <1>4, <1>10, <1>11, Zenon DEF BeaconSteps
<1> QED
  BY <1>6, <1>7, <1>8, <1>9, <1>12

LEMMA SendBeacons ==
  ASSUME ReferenceInv, BeaconInv, SendBeacon
  PROVE  BeaconInv'
<1>1. PICK b \in queue : /\ b.count = Counter /\ queue' = queue \ {b}
                         /\ sent' = [gps |-> b.gps, at |-> sec]
                         /\ UNCHANGED <<receiver, parser, reference, validity, down, beacon_loop,
                                        retry, last_beacon, next_beacon>>
  BY Zenon DEF SendBeacon
<1>2. sec \in Nat /\ b \in Beacon /\ OnGrid(b.gps) /\ (Due(b) \/ Missed(b))
  BY DEF ReferenceInv, GpsTypes, LineTypes, BeaconInv, BeaconTypes, QueueRight
<1>3. b.gps = sec
  BY <1>1, <1>2, DueIsAhead, OutdatedNotNow, Zenon DEF Missed
<1>4. KeptByDown /\ UNCHANGED <<down, beacon_loop, retry, last_beacon, next_beacon>>
  BY <1>1, Zenon DEF KeptByDown, receiver, reference, validity
<1>5. ~(b.gps > sec)
  BY <1>2, <1>3
<1>6. BeaconTypes' /\ QueueFits' /\ QueueRight' /\ LastRight' /\ BeaconSteps'
  BY <1>1, <1>4, <1>5, Removed, Zenon
<1>7. BeaconOnTime'
  BY <1>1, <1>2, <1>3 DEF BeaconOnTime, OnGrid
<1> QED
  BY <1>6, <1>7, Zenon DEF BeaconInv

LEMMA DropBeacons ==
  ASSUME ReferenceInv, BeaconInv, DropBeacon
  PROVE  BeaconInv'
<1>1. PICK b \in queue : /\ Outdated(b) /\ queue' = queue \ {b}
                         /\ UNCHANGED <<receiver, parser, reference, validity, down, beacon_loop,
                                        retry, last_beacon, next_beacon, sent>>
  BY Zenon DEF DropBeacon
<1>2. sec \in Nat /\ b \in Beacon /\ b.gps \in Nat /\ (Due(b) \/ Missed(b))
  BY DEF ReferenceInv, GpsTypes, LineTypes, BeaconInv, BeaconTypes, QueueRight, Beacon
<1>3. b.gps < sec
  BY <1>1, <1>2, DueIsAhead, Zenon DEF Missed
<1>4. KeptByDown /\ UNCHANGED <<down, beacon_loop, retry, last_beacon, next_beacon>>
  BY <1>1, Zenon DEF KeptByDown, receiver, reference, validity
<1>5. ~(b.gps > sec)
  BY <1>2, <1>3
<1>6. BeaconTypes' /\ QueueFits' /\ QueueRight' /\ LastRight' /\ BeaconSteps'
  BY <1>1, <1>4, <1>5, Removed, Zenon
<1>7. BeaconOnTime'
  BY <1>1, Zenon DEF BeaconOnTime, BeaconInv
<1> QED
  BY <1>6, <1>7, Zenon DEF BeaconInv

\* A step of thread_down that leaves the queue alone
LEMMA SameQueue ==
  ASSUME BeaconInv, KeptByDown, UNCHANGED <<queue, last_beacon, sent>>
  PROVE  /\ Future' = Future /\ QueueRight' /\ LastRight' /\ BeaconOnTime'
         /\ queue' = queue /\ last_beacon' = last_beacon
<1>1. /\ sec' = sec /\ Counter' = Counter /\ Floor' = Floor
  BY KeptTerms, Zenon
<1>2. queue' = queue /\ last_beacon' = last_beacon /\ sent' = sent
  OBVIOUS
<1>3. Future' = Future
  BY <1>1, <1>2 DEF Future
<1>4. QueueRight'
  BY <1>1, <1>2, Zenon DEF BeaconInv, QueueRight, Due, Missed, Outdated
<1>5. LastRight'
  BY <1>1, <1>2, <1>3, Zenon DEF BeaconInv, LastRight
<1>6. BeaconOnTime'
  BY <1>2, Zenon DEF BeaconInv, BeaconOnTime
<1> QED
  BY <1>2, <1>3, <1>4, <1>5, <1>6

LEMMA BeginBeacons ==
  ASSUME BeaconInv, BeginLoop
  PROVE  BeaconInv'
<1>1. /\ Cardinality(queue) < JIT_NUM_BEACON_IN_QUEUE /\ Ready
      /\ beacon_loop' = JIT_NUM_BEACON_IN_QUEUE - Cardinality(queue) /\ retry' = 0
      /\ down' = "compute" /\ next_beacon' = next_beacon
  BY Zenon DEF BeginLoop, Ready
<1>2. KeptByDown /\ UNCHANGED <<queue, last_beacon, sent>>
  BY Zenon DEF BeginLoop, KeptByDown, receiver, reference, validity
<1>3. /\ QueueRight' /\ LastRight' /\ BeaconOnTime' /\ queue' = queue /\ last_beacon' = last_beacon
  BY <1>2, SameQueue, Zenon
<1>4. behind' = behind /\ Ready'
  BY <1>1, <1>2, KeptTerms, Zenon
<1>5. BeaconTypes /\ IsFiniteSet(queue)
  BY Zenon DEF BeaconInv, BeaconTypes
<1>6. Cardinality(queue) \in Nat
  BY <1>5, FS_CardinalityType, Zenon
<1>7. /\ beacon_loop' \in Nat /\ beacon_loop' >= 1
      /\ Cardinality(queue) + beacon_loop' <= JIT_NUM_BEACON_IN_QUEUE
      /\ Cardinality(queue) <= JIT_NUM_BEACON_IN_QUEUE
  BY <1>1, <1>6, BeaconConstants
<1>8. BeaconTypes'
  <2>1. retry' \in Nat /\ down' \in {"idle", "compute", "enqueue"}
    BY <1>1
  <2> QED
    BY <1>1, <1>3, <1>4, <1>5, <1>7, <2>1, Zenon DEF BeaconTypes
<1>9. QueueFits'
  BY <1>3, <1>7, Zenon DEF QueueFits
<1>10. BeaconSteps'
  <2>1. down' # "enqueue"
    BY <1>1
  <2> QED
    BY <1>1, <1>4, <2>1, Zenon DEF BeaconSteps, ComputeRight
<1> QED
  BY <1>3, <1>8, <1>9, <1>10, Zenon DEF BeaconInv

-----------------------------------------------------------------------------
(* thread_down computes a beacon                                           *)

NextGps == (IF last_beacon = 0 THEN FirstBeacon(time_reference_gps.gps)
            ELSE last_beacon + beacon_period) + retry * beacon_period

LEMMA CountMoves ==
  ASSUME NEW g \in Int, NEW d \in Int
  PROVE  (CountOf(g) + d) % RANGE = CountOf(g + d)
<1>1. RANGE \in Nat \ {0} /\ Epoch \in Int /\ g - Epoch \in Int /\ (g + d) - Epoch \in Int
  BY BeaconConstants
<1>2. PICK q \in Int : Turned(g - Epoch, RANGE, q, CountOf(g))
  BY <1>1, Turns DEF CountOf
<1>3. PICK k \in Int : Turned((g + d) - Epoch, RANGE, k, CountOf(g + d))
  BY <1>1, Turns DEF CountOf
<1>4. /\ CountOf(g) \in Int /\ CountOf(g + d) \in 0 .. RANGE - 1
      /\ g - Epoch = RANGE * q + CountOf(g) /\ (g + d) - Epoch = RANGE * k + CountOf(g + d)
  BY <1>2, <1>3 DEF Turned
<1>5. RANGE * (k + (-q)) = RANGE * k + RANGE * (-q) /\ RANGE * (-q) = -(RANGE * q)
      /\ RANGE * k \in Int /\ RANGE * q \in Int
  <2>1. RANGE * (-q) = -(RANGE * q) /\ RANGE * q \in Int
    BY <1>1
  <2> QED
    BY <1>1, <2>1, Multiples
<1>6. CountOf(g) + d = RANGE * (k + (-q)) + CountOf(g + d) /\ k + (-q) \in Int
      /\ CountOf(g) + d \in Int
  BY <1>1, <1>4, <1>5
<1> QED
  BY <1>1, <1>4, <1>6, QuotientIs

\* The time of the next beacon
LEMMA NextGpsIs ==
  ASSUME FaultsAreRare, ReferenceInv, BeaconInv, down = "compute"
  PROVE  /\ NextGps \in Nat /\ OnGrid(NextGps) /\ last_beacon < NextGps /\ Floor <= NextGps
         /\ Slot(NextGps) <= Slot(sec) + Cardinality(Future) + 2
         /\ last_beacon = 0 => time_reference_gps.gps <= NextGps
         /\ IF last_beacon # 0 THEN NextGps = last_beacon + (retry + 1) * beacon_period
            ELSE \/ retry = 0 /\ NextGps <= time_reference_gps.gps + beacon_period
                 \/ retry = 1 /\ sec < NextGps
<1> DEFINE now == time_reference_gps.gps
<1>1. Ready /\ ComputeRight /\ LastRight /\ BeaconTypes
  <2>1. down # "idle"
    OBVIOUS
  <2> QED
    BY <2>1, Zenon DEF BeaconInv, BeaconSteps
<1>2. now \in Nat /\ now <= sec /\ sec - Lag + 1 <= now
  BY <1>1, ReadyReference, Zenon
<1>3. sec \in Nat /\ last_beacon \in Nat /\ retry \in Nat /\ beacon_period \in Nat \ {0} /\ Lag \in Nat
  BY <1>1, BeaconConstants DEF ReferenceInv, GpsTypes, LineTypes, BeaconTypes, Lag
<1>4. Floor \in Int /\ Floor <= sec - Lag + 1
  BY <1>3 DEF Floor
<1>5. Cardinality(Future) \in Nat
  <2>1. IsFiniteSet(queue) /\ Future \subseteq queue
    BY <1>1, Zenon DEF BeaconTypes, Future
  <2> QED
    BY <2>1, FS_Subset, FS_CardinalityType
<1>6. retry * beacon_period \in Nat
  BY <1>3, ProductIsNat
<1>7. CASE last_beacon = 0
  <2> DEFINE first == FirstBeacon(now)
  <2>1. /\ first \in Nat /\ now < first /\ first <= now + beacon_period
        /\ OnGrid(first) /\ Slot(first) = Slot(now) + 1 /\ Slot(now) \in Int
    BY <1>2, FirstIs
  <2>2. NextGps = first + retry * beacon_period
    BY <1>7, Zenon DEF NextGps
  <2>3. Slot(now) <= Slot(sec) /\ Slot(sec) \in Int
    BY <1>2, <1>3, SlotMonotone
  <2> HIDE DEF first, now
  <2>4. (retry = 0) \/ (retry = 1 /\ sec <= now + beacon_period)
    BY <1>1, <1>7, Zenon DEF ComputeRight, now
  <2>5. OnGrid(NextGps) /\ Slot(NextGps) = Slot(first) + retry
    <3>1. first \in Int /\ retry \in Int
      BY <1>3, <2>1
    <3> QED
      BY <2>1, <2>2, <3>1, GridSteps, Zenon
  <2>6. NextGps \in Nat /\ last_beacon < NextGps /\ Floor <= NextGps /\ now <= NextGps
    BY <1>2, <1>3, <1>4, <1>6, <1>7, <2>1, <2>2
  <2>7. Slot(NextGps) <= Slot(sec) + Cardinality(Future) + 2
    BY <1>3, <1>5, <2>1, <2>3, <2>4, <2>5
  <2>8. \/ retry = 0 /\ NextGps <= now + beacon_period
        \/ retry = 1 /\ sec < NextGps
    <3>1. CASE retry = 0
      <4>1. 0 * beacon_period = 0
        BY <1>3
      <4> QED
        BY <1>3, <2>1, <2>2, <3>1, <4>1
    <3>2. CASE retry = 1 /\ sec <= now + beacon_period
      <4>1. 1 * beacon_period = beacon_period
        BY <1>3
      <4> QED
        BY <1>2, <1>3, <2>1, <2>2, <3>2, <4>1
    <3> QED
      BY <2>4, <3>1, <3>2
  <2> QED
    BY <1>7, <2>5, <2>6, <2>7, <2>8, Zenon DEF now
<1>8. CASE last_beacon # 0
  <2>1. NextGps = last_beacon + beacon_period + retry * beacon_period
    BY <1>8, Zenon DEF NextGps
  <2>2. (retry + 1) * beacon_period = retry * beacon_period + beacon_period
    BY <1>3
  <2>3. NextGps = last_beacon + (retry + 1) * beacon_period
    BY <1>3, <1>6, <2>1, <2>2
  <2>4. OnGrid(last_beacon) /\ Floor <= last_beacon
        /\ Slot(last_beacon) <= Slot(sec) + Cardinality(Future) + 1
    BY <1>1, <1>8, Zenon DEF LastRight
  <2>5. OnGrid(NextGps) /\ Slot(NextGps) = Slot(last_beacon) + (retry + 1) /\ Slot(last_beacon) \in Int
    <3>1. last_beacon \in Int /\ retry + 1 \in Int
      BY <1>3
    <3> QED
      BY <2>3, <2>4, <3>1, GridSteps, Zenon
  <2>6. NextGps \in Nat /\ last_beacon < NextGps /\ Floor <= NextGps
    BY <1>3, <1>4, <1>6, <2>1, <2>4
  <2>7. Slot(sec) \in Int
    BY <1>3, SlotMonotone
  <2>8. Slot(NextGps) <= Slot(sec) + Cardinality(Future) + 2
    <3>1. CASE retry = 0
      BY <1>5, <2>4, <2>5, <2>7, <3>1
    <3>2. CASE last_beacon + retry * beacon_period <= sec
      <4>1. last_beacon + retry * beacon_period \in Int
        BY <1>3, <1>6
      <4>2. /\ OnGrid(last_beacon + retry * beacon_period)
            /\ Slot(last_beacon + retry * beacon_period) = Slot(last_beacon) + retry
        <5>1. last_beacon \in Int /\ retry \in Int
          BY <1>3
        <5> QED
          BY <2>4, <5>1, GridSteps, Zenon
      <4>3. Slot(last_beacon + retry * beacon_period) <= Slot(sec)
        BY <1>3, <3>2, <4>1, SlotMonotone
      <4> QED
        BY <1>3, <1>5, <2>5, <2>7, <4>2, <4>3
    <3> QED
      BY <1>1, <1>8, <3>1, <3>2, Zenon DEF ComputeRight
  <2> QED
    BY <1>8, <2>3, <2>5, <2>6, <2>8, Zenon
<1> QED
  BY <1>7, <1>8

LEMMA ComputeBeacons ==
  ASSUME FaultsAreRare, ReferenceInv, BeaconInv, ComputeBeacon
  PROVE  BeaconInv'
<1> DEFINE now == time_reference_gps.gps
<1>1. down = "compute" /\ Ready /\ BeaconTypes /\ down # "idle"
  <2>1. down = "compute"
    BY Zenon DEF ComputeBeacon
  <2>2. down # "idle"
    BY <2>1
  <2> QED
    BY <2>1, <2>2, Zenon DEF BeaconInv, BeaconSteps
<1>2. PICK c \in BeaconCounts(NextGps) : next_beacon' = [gps |-> NextGps, count |-> c]
  BY <1>1, Zenon DEF ComputeBeacon, NextGps, Ready
<1>3. /\ down' = "enqueue" /\ beacon_loop' = beacon_loop /\ retry' = retry /\ KeptByDown
      /\ UNCHANGED <<queue, last_beacon, sent>>
  BY <1>1, Zenon DEF ComputeBeacon, Ready, KeptByDown, receiver, reference, validity
<1>4. /\ Future' = Future /\ QueueRight' /\ LastRight' /\ BeaconOnTime' /\ queue' = queue
      /\ last_beacon' = last_beacon
  BY <1>3, SameQueue, Zenon
<1>5. /\ sec' = sec /\ behind' = behind /\ time_reference_gps' = time_reference_gps
      /\ Floor' = Floor /\ (Ready' <=> Ready)
  BY <1>3, KeptTerms, Zenon
<1>6. /\ now \in Nat /\ time_reference_gps.count = CountOf(now) /\ now <= sec
      /\ sec - Lag + 1 <= now
  BY <1>1, ReadyReference, Zenon
<1>7. /\ NextGps \in Nat /\ OnGrid(NextGps) /\ last_beacon < NextGps /\ Floor <= NextGps
      /\ Slot(NextGps) <= Slot(sec) + Cardinality(Future) + 2
      /\ last_beacon = 0 => now <= NextGps
      /\ IF last_beacon # 0 THEN NextGps = last_beacon + (retry + 1) * beacon_period
         ELSE \/ retry = 0 /\ NextGps <= now + beacon_period
              \/ retry = 1 /\ sec < NextGps
  BY <1>1, NextGpsIs, Zenon
<1>8. sec \in Nat /\ Lag \in Nat
  BY BeaconConstants DEF ReferenceInv, GpsTypes, LineTypes, Lag
<1>9. Floor <= now
  BY <1>6, <1>8 DEF Floor
<1>10. /\ c \in 0 .. RANGE - 1
       /\ \/ c = CountOf(NextGps)
          \/ NextGps < now /\ c = CountOf(now)
  <2>1. PICK s \in Saturates :
             c = (time_reference_gps.count
                  + (IF s /\ NextGps - now < 0 THEN 0 ELSE NextGps - now)) % RANGE
    BY <1>2, Zenon DEF BeaconCounts
  <2>2. CASE s /\ NextGps - now < 0
    <3>1. c = (CountOf(now) + 0) % RANGE
      BY <1>6, <2>1, <2>2, Zenon
    <3>2. NextGps < now /\ now \in Int /\ 0 \in Int /\ now + 0 = now
      BY <1>6, <1>7, <2>2
    <3>3. (CountOf(now) + 0) % RANGE = CountOf(now + 0)
      BY <3>2, CountMoves, Zenon
    <3>4. c = CountOf(now)
      BY <3>1, <3>2, <3>3, Zenon
    <3> QED
      BY <3>2, <3>4, CountIs, Zenon
  <2>3. CASE ~(s /\ NextGps - now < 0)
    <3>1. c = (CountOf(now) + (NextGps - now)) % RANGE
      BY <1>6, <2>1, <2>3, Zenon
    <3>2. now \in Int /\ NextGps - now \in Int /\ now + (NextGps - now) = NextGps /\ NextGps \in Int
      BY <1>6, <1>7
    <3>3. (CountOf(now) + (NextGps - now)) % RANGE = CountOf(now + (NextGps - now))
      BY <3>2, CountMoves, Zenon
    <3>4. c = CountOf(NextGps)
      BY <3>1, <3>2, <3>3, Zenon
    <3> QED
      BY <3>2, <3>4, CountIs, Zenon
  <2> QED
    BY <2>2, <2>3
<1>11. next_beacon'.gps = NextGps /\ next_beacon'.count = c /\ next_beacon' \in Beacon
  BY <1>2, <1>7, <1>10 DEF Beacon
<1>12. CountAimed'
  <2>1. CASE c = CountOf(NextGps)
    BY <1>11, <2>1, Zenon DEF CountAimed
  <2>2. CASE NextGps < now /\ c = CountOf(now)
    <3>1. NextGps < sec /\ last_beacon # 0
      BY <1>6, <1>7, <1>8, <2>2
    <3> HIDE DEF now
    <3> QED
      BY <1>4, <1>5, <1>6, <1>9, <1>11, <2>2, <3>1, Zenon DEF CountAimed
  <2> QED
    BY <1>10, <2>1, <2>2
<1>13. NextRight'
  BY <1>3, <1>4, <1>5, <1>7, <1>11, <1>12, Zenon DEF NextRight
<1>14. BeaconTypes'
  <2>1. down' \in {"idle", "compute", "enqueue"}
    BY <1>3
  <2> QED
    BY <1>1, <1>3, <1>4, <1>5, <1>11, <2>1, Zenon DEF BeaconTypes
<1>15. QueueFits'
  BY <1>1, <1>3, <1>4, Zenon DEF BeaconInv, QueueFits
<1>16. BeaconSteps'
  <2>1. down' # "compute"
    BY <1>3
  <2> QED
    BY <1>1, <1>5, <1>13, <2>1, Zenon DEF BeaconSteps
<1> QED
  BY <1>4, <1>14, <1>15, <1>16, Zenon DEF BeaconInv

-----------------------------------------------------------------------------
(* thread_down queues a beacon                                             *)

LEMMA NextFacts ==
  ASSUME ReferenceInv, BeaconInv, down = "enqueue"
  PROVE  /\ sec \in Nat /\ next_beacon \in Beacon /\ next_beacon.gps \in Nat /\ last_beacon \in Nat
         /\ Ready /\ NextRight /\ IsFiniteSet(queue) /\ queue \subseteq Beacon
         /\ IsFiniteSet(Future) /\ Cardinality(Future) \in Nat /\ Cardinality(queue) \in Nat
         /\ Cardinality(Future) <= Cardinality(queue) /\ beacon_loop \in Nat /\ beacon_loop >= 1
         /\ Cardinality(queue) + beacon_loop <= JIT_NUM_BEACON_IN_QUEUE
<1>1. down # "idle"
  OBVIOUS
<1>2. BeaconTypes /\ Ready /\ NextRight /\ beacon_loop >= 1
      /\ Cardinality(queue) + beacon_loop <= JIT_NUM_BEACON_IN_QUEUE
  BY <1>1, Zenon DEF BeaconInv, BeaconSteps, QueueFits
<1>3. /\ sec \in Nat /\ next_beacon \in Beacon /\ next_beacon.gps \in Nat /\ last_beacon \in Nat
      /\ IsFiniteSet(queue) /\ queue \subseteq Beacon /\ beacon_loop \in Nat
  BY <1>2 DEF ReferenceInv, GpsTypes, LineTypes, BeaconTypes, Beacon
<1>4. Future \subseteq queue
  BY Zenon DEF Future
<1>5. /\ IsFiniteSet(Future) /\ Cardinality(Future) \in Nat /\ Cardinality(queue) \in Nat
      /\ Cardinality(Future) <= Cardinality(queue)
  BY <1>3, <1>4, FS_Subset, FS_CardinalityType
<1> QED
  BY <1>2, <1>3, <1>5

\* A beacon that is ahead lies within the horizon.
LEMMA NextIsDue ==
  ASSUME BeaconsFit, ReferenceInv, BeaconInv, down = "enqueue", next_beacon.gps > sec
  PROVE  Due(next_beacon)
<1>1. /\ sec \in Nat /\ next_beacon.gps \in Nat /\ NextRight /\ Cardinality(Future) \in Nat
      /\ Cardinality(queue) \in Nat /\ Cardinality(Future) <= Cardinality(queue)
      /\ beacon_loop \in Nat /\ beacon_loop >= 1
      /\ Cardinality(queue) + beacon_loop <= JIT_NUM_BEACON_IN_QUEUE
  BY NextFacts, Zenon
<1>2. /\ OnGrid(next_beacon.gps) /\ CountAimed
      /\ Slot(next_beacon.gps) <= Slot(sec) + Cardinality(Future) + 2
  BY <1>1, Zenon DEF NextRight
<1>3. ~(next_beacon.gps < sec)
  BY <1>1
<1>4. next_beacon.count = CountOf(next_beacon.gps)
  BY <1>2, <1>3, Zenon DEF CountAimed
<1> DEFINE n == JIT_NUM_BEACON_IN_QUEUE + 1
<1>5. n \in Nat /\ Slot(next_beacon.gps) <= Slot(sec) + n
  <2>1. Slot(sec) \in Int /\ Slot(next_beacon.gps) \in Int
    BY <1>1, SlotMonotone
  <2> QED
    BY <1>1, <1>2, <2>1, BeaconConstants
<1>6. n * beacon_period < TX_MAX_ADVANCE_DELAY
  BY DEF BeaconsFit
<1> HIDE DEF n
<1>7. next_beacon.gps <= sec + n * beacon_period
  <2>1. next_beacon.gps \in Int /\ sec \in Int
    BY <1>1
  <2> QED
    BY <1>2, <1>5, <2>1, SlotBound, Zenon
<1>8. next_beacon.gps < sec + TX_MAX_ADVANCE_DELAY
  <2>1. n * beacon_period \in Nat
    BY <1>5, ProductIsNat, BeaconConstants
  <2> QED
    BY <1>1, <1>6, <1>7, <2>1, BeaconConstants
<1> QED
  BY <1>1, <1>4, <1>8 DEF Due

\* It is accepted: its counter value is free.
LEMMA AheadAccepted ==
  ASSUME BeaconsFit, ReferenceInv, BeaconInv, down = "enqueue", next_beacon.gps > sec
  PROVE  Accepted(next_beacon)
<1> DEFINE n == next_beacon
<1>1. Due(n) /\ sec \in Nat /\ n \in Beacon /\ n.gps \in Nat /\ queue \subseteq Beacon
      /\ last_beacon \in Nat /\ last_beacon < n.gps
  BY NextIsDue, NextFacts, Zenon DEF NextRight
<1>2. (n.count - Counter) % RANGE = n.gps - sec /\ ~Outdated(n) /\ n.count # Counter
  <2>1. n.gps # sec
    BY <1>1
  <2> QED
    BY <1>1, <2>1, DueIsAhead, Zenon
<1>3. ASSUME NEW q \in queue, q.count = n.count PROVE FALSE
  <2>1. q \in Beacon /\ q.gps \in Nat /\ q.gps <= last_beacon /\ (Due(q) \/ Missed(q))
    BY <1>1 DEF BeaconInv, QueueRight, Beacon
  <2>2. CASE Due(q)
    <3>1. (q.count - Counter) % RANGE = q.gps - sec
      BY <1>1, <2>1, <2>2, DueIsAhead, Zenon
    <3>2. q.gps - sec = n.gps - sec
      BY <1>2, <1>3, <3>1, Zenon
    <3> QED
      BY <1>1, <2>1, <3>2
  <2>3. CASE Missed(q)
    BY <1>2, <1>3, <2>3, Zenon DEF Missed, Outdated
  <2> QED
    BY <2>1, <2>2, <2>3
<1> QED
  BY <1>2, <1>3, Zenon DEF Accepted

\* A beacon whose time has passed is accepted only to be dropped.
LEMMA PassedIsMissed ==
  ASSUME BeaconsFit, ReferenceInv, BeaconInv, down = "enqueue", ~(next_beacon.gps > sec),
         next_beacon.count # Counter
  PROVE  Missed(next_beacon)
<1>1. sec \in Nat /\ next_beacon.gps \in Nat /\ NextRight /\ Lag \in Nat
  BY NextFacts, BeaconConstants DEF Lag
<1>2. ASSUME NEW g \in Nat, g <= sec, Floor <= g, next_beacon.count = CountOf(g)
      PROVE  Outdated(next_beacon) /\ g < sec
  <2>1. g # sec
    BY <1>2, Zenon DEF CountOf, Counter
  <2>2. g < sec /\ sec - Lag <= g
    BY <1>1, <1>2, <2>1 DEF Floor
  <2> QED
    BY <1>1, <1>2, <2>2, PassedIsOutdated, Zenon
<1>3. next_beacon.gps <= sec /\ Floor <= next_beacon.gps /\ CountAimed
  BY <1>1 DEF NextRight
<1> QED
  BY <1>1, <1>2, <1>3, Zenon DEF CountAimed, Missed

LEMMA NoneIsBeacon == None \in Beacon
  BY BeaconConstants DEF None, Beacon

LEMMA AcceptBeacons ==
  ASSUME BeaconsFit, ReferenceInv, BeaconInv, EnqueueBeacon, Accepted(next_beacon)
  PROVE  BeaconInv'
<1> DEFINE n == next_beacon
<1>1. /\ down = "enqueue" /\ queue' = queue \cup {n} /\ last_beacon' = n.gps
      /\ beacon_loop' = beacon_loop - 1 /\ retry' = 0
      /\ down' = (IF beacon_loop = 1 THEN "idle" ELSE "compute") /\ next_beacon' = None /\ sent' = sent
  BY Zenon DEF EnqueueBeacon
<1>2. KeptByDown
  BY Zenon DEF EnqueueBeacon, KeptByDown, receiver, reference, validity
<1>3. /\ sec' = sec /\ behind' = behind /\ Counter' = Counter /\ Floor' = Floor /\ (Ready' <=> Ready)
  BY <1>2, KeptTerms, Zenon
<1>4. /\ sec \in Nat /\ n \in Beacon /\ n.gps \in Nat /\ last_beacon \in Nat
      /\ Ready /\ NextRight /\ IsFiniteSet(queue) /\ queue \subseteq Beacon
      /\ IsFiniteSet(Future) /\ Cardinality(Future) \in Nat /\ Cardinality(queue) \in Nat
      /\ beacon_loop \in Nat /\ beacon_loop >= 1
      /\ Cardinality(queue) + beacon_loop <= JIT_NUM_BEACON_IN_QUEUE
  BY <1>1, NextFacts, Zenon
<1>5. /\ OnGrid(n.gps) /\ last_beacon < n.gps /\ Floor <= n.gps
      /\ Slot(n.gps) <= Slot(sec) + Cardinality(Future) + 2
  BY <1>4, Zenon DEF NextRight
<1>6. \A q \in queue : OnGrid(q.gps) /\ q.gps <= last_beacon /\ q.gps \in Nat /\ (Due(q) \/ Missed(q))
  BY <1>4 DEF BeaconInv, QueueRight, Beacon
<1>7. n \notin queue
  BY <1>4, <1>5, <1>6
<1>8. Due(n) \/ Missed(n)
  <2>1. n.count # Counter
    BY Zenon DEF Accepted
  <2> QED
    BY <1>1, <2>1, NextIsDue, PassedIsMissed, Zenon
<1>9. Cardinality(queue') = Cardinality(queue) + 1 /\ IsFiniteSet(queue')
  BY <1>1, <1>4, <1>7, FS_AddElement, Zenon
<1>10. BeaconTypes'
  <2>1. down' \in {"idle", "compute", "enqueue"} /\ beacon_loop' \in Nat /\ retry' \in Nat
    BY <1>1, <1>4
  <2>2. queue' \subseteq Beacon
    BY <1>1, <1>4, Zenon
  <2>3. behind' \in BOOLEAN
    BY <1>3, Zenon DEF BeaconInv, BeaconTypes
  <2> QED
    BY <1>1, <1>4, <1>9, <2>1, <2>2, <2>3, NoneIsBeacon, Zenon DEF BeaconTypes
<1>11. QueueFits'
  BY <1>1, <1>4, <1>9, BeaconConstants DEF QueueFits
<1>12. QueueRight'
  <2>1. ASSUME NEW q \in queue' PROVE OnGrid(q.gps) /\ q.gps <= n.gps /\ (Due(q) \/ Missed(q))
    <3>1. CASE q \in queue
      BY <1>4, <1>5, <1>6, <3>1
    <3>2. CASE q = n
      <4>1. n.gps <= n.gps
        BY <1>4
      <4> QED
        BY <1>5, <1>8, <3>2, <4>1, Zenon
    <3> QED
      BY <1>1, <3>1, <3>2, Zenon
  <2> QED
    BY <1>1, <1>3, <2>1, Zenon DEF QueueRight, Due, Missed, Outdated
<1>13. LastRight'
  <2>1. last_beacon' # 0
    BY <1>1, <1>4, <1>5
  <2>2. Slot(n.gps) <= Slot(sec) + Cardinality(Future') + 1
    <3>0. Future' = {b \in queue \cup {n} : b.gps > sec}
      BY <1>1, <1>3 DEF Future
    <3>1. CASE n.gps > sec
      <4>1. Future' = Future \cup {n}
        BY <3>0, <3>1, Zenon DEF Future
      <4>2. n \notin Future
        BY <1>7, Zenon DEF Future
      <4>3. Cardinality(Future') = Cardinality(Future) + 1
        BY <1>4, <4>1, <4>2, FS_AddElement, Zenon
      <4>4. Slot(n.gps) \in Int /\ Slot(sec) \in Int
        BY <1>4, SlotMonotone
      <4> QED
        BY <1>4, <1>5, <4>3, <4>4
    <3>2. CASE ~(n.gps > sec)
      <4>1. Future' = Future
        BY <3>0, <3>2, Zenon DEF Future
      <4>2. n.gps <= sec /\ n.gps \in Int /\ sec \in Int
        BY <1>4, <3>2
      <4>3. Slot(n.gps) <= Slot(sec) /\ Slot(n.gps) \in Int /\ Slot(sec) \in Int
        BY <4>2, SlotMonotone, Zenon
      <4> QED
        BY <1>4, <4>1, <4>3
    <3> QED
      BY <3>1, <3>2
  <2> QED
    BY <1>1, <1>3, <1>5, <2>1, <2>2, Zenon DEF LastRight
<1>14. BeaconSteps'
  <2>1. down' # "enqueue"
    BY <1>1
  <2> QED
    BY <1>1, <1>3, <1>4, <2>1, Zenon DEF BeaconSteps, ComputeRight
<1>15. BeaconOnTime'
  BY <1>1, Zenon DEF BeaconInv, BeaconOnTime
<1> QED
  BY <1>10, <1>11, <1>12, <1>13, <1>14, <1>15, Zenon DEF BeaconInv

LEMMA RefuseBeacons ==
  ASSUME BeaconsFit, ReferenceInv, BeaconInv, EnqueueBeacon, ~Accepted(next_beacon)
  PROVE  BeaconInv'
<1> DEFINE n == next_beacon
<1>1. /\ down = "enqueue" /\ retry' = retry + 1 /\ down' = "compute" /\ next_beacon' = None
      /\ UNCHANGED <<queue, last_beacon, sent>> /\ beacon_loop' = beacon_loop
  BY Zenon DEF EnqueueBeacon
<1>2. KeptByDown
  BY Zenon DEF EnqueueBeacon, KeptByDown, receiver, reference, validity
<1>3. /\ QueueRight' /\ LastRight' /\ BeaconOnTime' /\ queue' = queue /\ last_beacon' = last_beacon
  BY <1>1, <1>2, SameQueue, Zenon
<1>4. /\ sec' = sec /\ behind' = behind /\ time_reference_gps' = time_reference_gps
      /\ (Ready' <=> Ready)
  BY <1>2, KeptTerms, Zenon
<1>5. /\ sec \in Nat /\ n \in Beacon /\ n.gps \in Nat /\ last_beacon \in Nat
      /\ Ready /\ NextRight /\ IsFiniteSet(queue) /\ queue \subseteq Beacon
      /\ beacon_loop \in Nat /\ beacon_loop >= 1
      /\ Cardinality(queue) + beacon_loop <= JIT_NUM_BEACON_IN_QUEUE
  BY <1>1, NextFacts, Zenon
<1>6. ~(n.gps > sec) /\ n.gps <= sec
  <2>1. ~(n.gps > sec)
    BY <1>1, AheadAccepted, Zenon
  <2> QED
    BY <1>5, <2>1
<1>7. retry \in Nat /\ BeaconTypes /\ QueueFits /\ LastRight
  BY Zenon DEF BeaconInv, BeaconTypes
<1>8. ComputeRight'
  <2>1. CASE last_beacon # 0
    <3>1. last_beacon + (retry + 1) * beacon_period <= sec
      BY <1>5, <1>6, <2>1, Zenon DEF NextRight
    <3> QED
      BY <1>1, <1>3, <1>4, <2>1, <3>1, Zenon DEF ComputeRight
  <2>2. CASE last_beacon = 0
    <3>1. queue = {} /\ n.count = Counter
      BY <1>7, <2>2, Zenon DEF LastRight, Accepted
    <3>2. retry = 0 /\ n.gps <= time_reference_gps.gps + beacon_period
      <4>1. ~(sec < n.gps)
        BY <1>5, <1>6
      <4> QED
        BY <1>5, <2>2, <4>1, Zenon DEF NextRight
    <3>3. n.gps = sec
      <4>1. n.count = CountOf(n.gps) /\ Floor <= n.gps
        BY <1>5, <2>2, Zenon DEF NextRight, CountAimed
      <4>2. SUFFICES ASSUME n.gps # sec PROVE FALSE
        OBVIOUS
      <4>3. n.gps < sec /\ sec - Lag <= n.gps
        BY <1>5, <1>6, <4>1, <4>2, BeaconConstants DEF Floor, Lag
      <4>4. Outdated(n)
        BY <1>5, <4>1, <4>3, PassedIsOutdated, Zenon
      <4> QED
        BY <1>5, <3>1, <4>4, OutdatedNotNow, Zenon
    <3>4. retry' = 1
      BY <1>1, <3>2
    <3> QED
      BY <1>3, <1>4, <2>2, <3>2, <3>3, <3>4, Zenon DEF ComputeRight
  <2> QED
    BY <2>1, <2>2
<1>9. BeaconTypes'
  <2>1. down' \in {"idle", "compute", "enqueue"} /\ retry' \in Nat
    BY <1>1, <1>7
  <2> QED
    BY <1>1, <1>3, <1>4, <1>7, <2>1, NoneIsBeacon, Zenon DEF BeaconTypes
<1>10. QueueFits'
  BY <1>1, <1>3, <1>5, <1>7, Zenon DEF QueueFits
<1>11. BeaconSteps'
  <2>1. down' # "enqueue"
    BY <1>1
  <2> QED
    BY <1>4, <1>5, <1>8, <2>1, Zenon DEF BeaconSteps
<1> QED
  BY <1>3, <1>9, <1>10, <1>11, Zenon DEF BeaconInv

-----------------------------------------------------------------------------
(* A second passes                                                         *)

\* When a slot begins, its beacon has left the future, and no other one.
LEMMA FutureShrinks ==
  ASSUME BeaconTypes, sec \in Nat, sec' = sec + 1, queue' = queue,
         \A b \in queue : OnGrid(b.gps) /\ Due(b)
  PROVE  /\ Slot(sec) + Cardinality(Future) <= Slot(sec') + Cardinality(Future')
         /\ Slot(sec) \in Int /\ Slot(sec') \in Int
         /\ Cardinality(Future) \in Nat /\ Cardinality(Future') \in Nat
<1>1. IsFiniteSet(queue) /\ queue \subseteq Beacon /\ sec' \in Nat
  BY DEF BeaconTypes
<1>2. Future' = {b \in queue : b.gps > sec + 1}
  BY DEF Future
<1>3. Future' \subseteq queue /\ Future \subseteq queue
  BY <1>2, Zenon DEF Future
<1>4. IsFiniteSet(Future) /\ IsFiniteSet(Future') /\ Cardinality(Future) \in Nat /\ Cardinality(Future') \in Nat
  BY <1>1, <1>3, FS_Subset, FS_CardinalityType
<1>5. Slot(sec) <= Slot(sec') /\ Slot(sec) \in Int /\ Slot(sec') \in Int
  BY <1>1, SlotMonotone
<1>6. CASE \E b \in queue : b.gps = sec + 1
  <2>1. PICK b \in queue : b.gps = sec + 1
    BY <1>6
  <2>2. OnGrid(sec + 1)
    BY <2>1, Zenon
  <2>3. Slot(sec') = Slot(sec) + 1
    <3>1. sec \in Int
      OBVIOUS
    <3> QED
      BY <2>2, <3>1, NextSecond, Zenon
  <2>4. Future \subseteq Future' \cup {b}
    <3>1. SUFFICES ASSUME NEW q \in queue, q.gps > sec PROVE q \in Future' \/ q = b
      BY Zenon DEF Future
    <3>2. q \in Beacon /\ b \in Beacon /\ q.gps \in Nat
      BY <1>1 DEF Beacon
    <3>3. CASE q.gps = sec + 1
      <4>1. q.count = CountOf(q.gps) /\ b.count = CountOf(b.gps)
        BY Zenon DEF Due
      <4>2. q.gps = b.gps /\ q.count = b.count
        BY <2>1, <3>3, <4>1, Zenon
      <4>3. q = [gps |-> q.gps, count |-> q.count] /\ b = [gps |-> b.gps, count |-> b.count]
        BY <3>2 DEF Beacon
      <4> QED
        BY <4>2, <4>3, Zenon
    <3>4. CASE q.gps # sec + 1
      <4>1. q.gps > sec + 1
        BY <3>1, <3>2, <3>4
      <4> QED
        BY <1>2, <4>1, Zenon
    <3> QED
      BY <3>3, <3>4
  <2>5. Cardinality(Future) <= Cardinality(Future') + 1
    <3>1. /\ IsFiniteSet(Future' \cup {b})
          /\ Cardinality(Future' \cup {b}) = (IF b \in Future' THEN Cardinality(Future') ELSE Cardinality(Future') + 1)
      BY <1>4, FS_AddElement, Zenon
    <3>2. Cardinality(Future) <= Cardinality(Future' \cup {b})
      BY <2>4, <3>1, FS_Subset, Zenon
    <3>3. CASE b \in Future'
      BY <1>4, <3>1, <3>2, <3>3
    <3>4. CASE b \notin Future'
      BY <1>4, <3>1, <3>2, <3>4
    <3> QED
      BY <3>3, <3>4
  <2> QED
    BY <1>4, <1>5, <2>3, <2>5
<1>7. CASE ~\E b \in queue : b.gps = sec + 1
  <2>1. Future' = Future
    <3>1. ASSUME NEW q \in queue PROVE q.gps > sec <=> q.gps > sec + 1
      <4>1. q.gps \in Nat /\ q.gps # sec + 1
        BY <1>1, <1>7 DEF Beacon
      <4> QED
        BY <4>1
    <3> QED
      BY <1>2, <3>1, Zenon DEF Future
  <2> QED
    BY <1>4, <1>5, <2>1
<1> QED
  BY <1>6, <1>7

LEMMA PulseBeacons ==
  ASSUME ReferenceInv, BeaconInv, Pulse
  PROVE  BeaconInv'
<1>1. /\ sec' = sec + 1 /\ (\A b \in queue : b.count # Counter /\ ~Outdated(b))
      /\ (down = "idle" \/ retry = 0) /\ ~(behind /\ Busy) /\ behind' = Busy
      /\ UNCHANGED <<reference, validity, beacons>>
  BY Zenon DEF Pulse
<1>2. /\ down' = down /\ beacon_loop' = beacon_loop /\ retry' = retry
      /\ last_beacon' = last_beacon /\ next_beacon' = next_beacon /\ queue' = queue /\ sent' = sent
      /\ time_reference_gps' = time_reference_gps /\ (Ready' <=> Ready)
  BY <1>1, Zenon DEF beacons, reference, validity, Ready
<1>3. /\ BeaconTypes /\ QueueFits /\ QueueRight /\ LastRight /\ BeaconSteps /\ BeaconOnTime
  BY Zenon DEF BeaconInv
<1>4. /\ sec \in Nat /\ sec' \in Nat /\ Lag \in Nat /\ last_beacon \in Nat /\ next_beacon.gps \in Nat
      /\ queue \subseteq Beacon /\ behind \in BOOLEAN
  BY <1>1, <1>3, BeaconConstants DEF ReferenceInv, GpsTypes, LineTypes, BeaconTypes, Beacon, Lag
\* The beacons in the queue
<1>5. ASSUME NEW b \in queue
      PROVE  /\ b \in Beacon /\ b.gps \in Nat /\ OnGrid(b.gps) /\ Due(b) /\ sec < b.gps
             /\ b.gps <= last_beacon
  <2>1. b \in Beacon /\ b.gps \in Nat
    BY <1>4 DEF Beacon
  <2>2. OnGrid(b.gps) /\ b.gps <= last_beacon /\ Due(b)
    BY <1>1, <1>3, Zenon DEF QueueRight, Missed
  <2>3. sec <= b.gps /\ b.count = CountOf(b.gps)
    BY <2>2, Zenon DEF Due
  <2>4. b.gps # sec
    BY <1>1, <2>3, Zenon DEF CountOf, Counter
  <2> QED
    BY <1>4, <2>1, <2>2, <2>3, <2>4
<1>6. QueueRight'
  <2>1. ASSUME NEW b \in queue
        PROVE  b.count = CountOf(b.gps) /\ sec' <= b.gps /\ b.gps < sec' + TX_MAX_ADVANCE_DELAY
    <3>1. /\ b.gps \in Nat /\ sec < b.gps /\ b.count = CountOf(b.gps)
          /\ b.gps < sec + TX_MAX_ADVANCE_DELAY
      BY <1>5, Zenon DEF Due
    <3> QED
      BY <1>1, <1>4, <3>1, BeaconConstants
  <2> QED
    BY <1>2, <1>5, <2>1, Zenon DEF QueueRight, Due
\* The future and the oldest second
<1>7. /\ Slot(sec) + Cardinality(Future) <= Slot(sec') + Cardinality(Future')
      /\ Slot(sec) \in Int /\ Slot(sec') \in Int
      /\ Cardinality(Future) \in Nat /\ Cardinality(Future') \in Nat
  BY <1>1, <1>2, <1>3, <1>4, <1>5, FutureShrinks, Zenon
<1>8. Busy => Floor' <= Floor /\ Floor \in Int /\ Floor' \in Int
  <2>1. SUFFICES ASSUME Busy PROVE Floor' <= Floor /\ Floor \in Int /\ Floor' \in Int
    OBVIOUS
  <2>2. ~behind /\ behind'
    BY <1>1, <2>1, Zenon
  <2>3. Floor = sec - Lag + 1
    BY <2>2, Zenon DEF Floor
  <2>4. Floor' = sec' - Lag
    BY <2>2, Zenon DEF Floor, Lag
  <2> QED
    BY <1>1, <1>4, <2>3, <2>4
<1>9. last_beacon # 0 => Floor' <= last_beacon
  <2>1. SUFFICES ASSUME last_beacon # 0 PROVE Floor' <= last_beacon
    OBVIOUS
  <2>2. CASE Busy
    <3>1. Floor <= last_beacon
      BY <1>3, <2>1, Zenon DEF LastRight
    <3> QED
      BY <1>4, <1>8, <2>2, <3>1
  <2>3. CASE ~Busy
    <3>1. Ready
      BY <1>3, <2>1, Zenon DEF BeaconSteps
    <3>2. ~(Cardinality(queue) < JIT_NUM_BEACON_IN_QUEUE)
      BY <2>3, <3>1, Zenon DEF Busy, Ready
    <3>3. queue # {}
      <4>1. Cardinality({}) = 0
        BY FS_EmptySet, Zenon
      <4>2. 0 < JIT_NUM_BEACON_IN_QUEUE
        BY BeaconConstants
      <4> QED
        BY <3>2, <4>1, <4>2, Zenon
    <3>4. PICK b \in queue : b.gps \in Nat /\ sec < b.gps /\ b.gps <= last_beacon
      BY <1>5, <3>3, Zenon
    <3>5. Floor' = sec' - Lag + 1
      BY <1>1, <2>3, Zenon DEF Floor, Lag
    <3>6. MaxLost \in Nat /\ Lag = 2 * MaxLost + 5
      BY BeaconConstants DEF Lag
    <3> QED
      BY <1>1, <1>4, <3>4, <3>5, <3>6
  <2> QED
    BY <2>2, <2>3
<1>10. LastRight'
  <2>1. last_beacon # 0 => Slot(last_beacon) <= Slot(sec') + Cardinality(Future') + 1
    <3>1. Slot(last_beacon) \in Int
      BY <1>4, SlotMonotone
    <3> QED
      BY <1>3, <1>7, <3>1 DEF LastRight
  <2> QED
    BY <1>2, <1>3, <1>9, <2>1, Zenon DEF LastRight
\* thread_down in its loop
<1>11. down = "compute" => ComputeRight'
  <2>1. SUFFICES ASSUME down = "compute" PROVE retry' = 0
    BY Zenon DEF ComputeRight
  <2> QED
    BY <1>1, <1>2, <2>1
<1>12. down = "enqueue" => NextRight'
  <2>1. SUFFICES ASSUME down = "enqueue" PROVE NextRight'
    OBVIOUS
  <2>2. NextRight /\ Busy /\ retry = 0
    BY <1>1, <1>3, <2>1 DEF BeaconSteps, Busy
  <2>3. Floor' <= next_beacon.gps
    BY <1>4, <1>8, <2>2 DEF NextRight
  <2>4. Slot(next_beacon.gps) <= Slot(sec') + Cardinality(Future') + 2
    <3>1. Slot(next_beacon.gps) \in Int
      BY <1>4, SlotMonotone
    <3>2. Slot(next_beacon.gps) <= Slot(sec) + Cardinality(Future) + 2
      BY <2>2, Zenon DEF NextRight
    <3> QED
      BY <1>7, <3>1, <3>2
  <2>5. CountAimed'
    <3>1. ASSUME NEW g \in Nat, g <= sec, Floor <= g PROVE g <= sec' /\ Floor' <= g
      BY <1>1, <1>4, <1>8, <2>2, <3>1
    <3>2. next_beacon.gps < sec => next_beacon.gps < sec'
      BY <1>1, <1>4
    <3> QED
      BY <1>2, <2>2, <3>1, <3>2, Zenon DEF NextRight, CountAimed
  <2>6. last_beacon # 0 => next_beacon.gps = last_beacon + (retry + 1) * beacon_period
    BY <2>2, Zenon DEF NextRight
  <2>7. last_beacon = 0 => next_beacon.gps <= time_reference_gps.gps + beacon_period
    BY <2>2 DEF NextRight
  <2> QED
    BY <1>2, <2>2, <2>3, <2>4, <2>5, <2>6, <2>7, Zenon DEF NextRight
<1>13. BeaconSteps'
  BY <1>2, <1>3, <1>11, <1>12, Zenon DEF BeaconSteps
<1>14. BeaconTypes' /\ QueueFits' /\ BeaconOnTime'
  <2>1. behind' \in BOOLEAN
    BY <1>1, Zenon DEF Busy
  <2> QED
    BY <1>2, <1>3, <2>1, Zenon DEF BeaconTypes, QueueFits, BeaconOnTime
<1> QED
  BY <1>6, <1>10, <1>13, <1>14, Zenon DEF BeaconInv

-----------------------------------------------------------------------------
(* The theorem                                                             *)

\* thread_jit sends a beacon in the second that its payload names, which is a multiple of
\* the period, whatever pulses and messages of the receiver failed and however the threads
\* took turns: jit_peek drops the beacons that thread_down queued too late, and no others.
THEOREM BeaconsAreOnTime ==
  ASSUME FaultsAreRare, BeaconsFit PROVE GpsSpec => []BeaconOnTime
<1>1. GpsInit => BeaconInv
  <2>1. SUFFICES ASSUME GpsInit PROVE BeaconInv
    OBVIOUS
  <2>2. /\ down = "idle" /\ beacon_loop = 0 /\ retry = 0 /\ last_beacon = 0 /\ next_beacon = None
        /\ queue = {} /\ sent = [gps |-> 0, at |-> 0] /\ behind = FALSE
    BY <2>1, Zenon DEF GpsInit
  <2>3. OnGrid(0)
    <3>1. 0 = beacon_period * 0 + 0 /\ 0 \in 0 .. beacon_period - 1 /\ 0 \in Int
      BY BeaconConstants
    <3> QED
      BY <3>1, InSlot
  <2>4. IsFiniteSet({}) /\ Cardinality({}) = 0
    BY FS_EmptySet, Zenon
  <2>5. BeaconTypes
    <3>1. /\ down \in {"idle", "compute", "enqueue"} /\ beacon_loop \in Nat /\ retry \in Nat
          /\ last_beacon \in Nat /\ queue \subseteq Beacon
      BY <2>2
    <3>2. behind \in BOOLEAN /\ IsFiniteSet(queue) /\ next_beacon \in Beacon
      BY <2>2, <2>4, NoneIsBeacon, Zenon
    <3> QED
      BY <3>1, <3>2, Zenon DEF BeaconTypes
  <2>6. QueueFits
    BY <2>2, <2>4, BeaconConstants DEF QueueFits
  <2>7. QueueRight /\ LastRight
    BY <2>2, <2>3, Zenon DEF QueueRight, LastRight
  <2>8. BeaconSteps
    BY <2>2 DEF BeaconSteps
  <2>9. BeaconOnTime
    BY <2>2, <2>3 DEF BeaconOnTime, OnGrid
  <2> QED
    BY <2>5, <2>6, <2>7, <2>8, <2>9 DEF BeaconInv
<1>2. ReferenceInv /\ BeaconInv /\ [GpsNext]_gpsVars => BeaconInv'
  <2>1. SUFFICES ASSUME ReferenceInv, BeaconInv, [GpsNext]_gpsVars PROVE BeaconInv'
    OBVIOUS
  <2>2. CASE Pulse
    BY <2>1, <2>2, PulseBeacons, Zenon
  <2>3. CASE thread_gps
    BY <2>1, <2>3, GpsBeacons, Zenon
  <2>4. CASE thread_valid
    BY <2>1, <2>4, ValidBeacons, Zenon
  <2>5. CASE BeginLoop
    BY <2>1, <2>5, BeginBeacons, Zenon
  <2>6. CASE ComputeBeacon
    BY <2>1, <2>6, ComputeBeacons, Zenon
  <2>7. CASE EnqueueBeacon
    BY <2>1, <2>7, AcceptBeacons, RefuseBeacons, Zenon
  <2>8. CASE DropBeacon
    BY <2>1, <2>8, DropBeacons, Zenon
  <2>9. CASE SendBeacon
    BY <2>1, <2>9, SendBeacons, Zenon
  <2>10. CASE UNCHANGED gpsVars
    <3>1. /\ sec' = sec /\ behind' = behind /\ UNCHANGED beacons /\ time_reference_gps' = time_reference_gps
          /\ (Ready => Ready')
      BY <2>10, Zenon DEF gpsVars, receiver, reference, validity, Ready
    <3>2. sec \in Nat /\ time_reference_gps.gps \in Nat
      BY <2>1 DEF ReferenceInv, GpsTypes, LineTypes, RefTypes
    <3>3. time_reference_gps.gps <= time_reference_gps'.gps
      BY <3>1, <3>2
    <3> QED
      BY <2>1, <3>1, <3>2, <3>3, SameBeacons, Zenon
  <2> QED
    BY <2>1, <2>2, <2>3, <2>4, <2>5, <2>6, <2>7, <2>8, <2>9, <2>10, Zenon DEF GpsNext
<1>3. BeaconInv => BeaconOnTime
  BY Zenon DEF BeaconInv
<1> QED
  BY <1>1, <1>2, <1>3, ReferenceInvariant, PTL DEF GpsSpec
=============================================================================
