--------------------------- MODULE DownlinkProofs ---------------------------
(***************************************************************************)
(* What holds of the downlink path for any commands, replies and sizes:    *)
(* thread_down's two loops hand the hub's packets to jit_enqueue in the    *)
(* order in which the hub sent them, none vanishes, and none is refused    *)
(* for its size before one came that is larger than the buffer.            *)
(***************************************************************************)
EXTENDS Downlink, SequenceTheorems, TLAPS

-----------------------------------------------------------------------------
(* Sequences of increasing numbers                                         *)

Increasing(s) == \A i, j \in 1 .. Len(s) : i < j => s[i] < s[j]

Below(S, T) == \A a \in S, b \in T : a < b

\* The elements of a sequence that grows at its end or loses its head.
LEMMA AppendElements ==
  ASSUME NEW S, NEW s \in Seq(S), NEW e \in S
  PROVE  InSeq(Append(s, e)) = InSeq(s) \cup {e}
  BY AppendProperties, LenProperties DEF InSeq

LEMMA TailElements ==
  ASSUME NEW S, NEW s \in Seq(S), s # <<>>
  PROVE  /\ Head(s) \in InSeq(s)
         /\ InSeq(s) = {Head(s)} \cup InSeq(Tail(s))
<1>1. Len(s) \in Nat \ {0} /\ Head(s) = s[1]
  BY EmptySeq
<1>2. Len(Tail(s)) = Len(s) - 1 /\ \A i \in 1 .. Len(s) - 1 : Tail(s)[i] = s[i + 1]
  BY HeadTailProperties
<1>3. ASSUME NEW i \in 1 .. Len(s), i # 1
      PROVE  s[i] \in InSeq(Tail(s))
  <2>1. i - 1 \in 1 .. Len(Tail(s)) /\ Tail(s)[i - 1] = s[i]
    BY <1>1, <1>2, <1>3
  <2> QED
    BY <2>1 DEF InSeq
<1>4. \A i \in 1 .. Len(Tail(s)) : i + 1 \in 1 .. Len(s) /\ Tail(s)[i] = s[i + 1]
  BY <1>1, <1>2
<1> QED
  BY <1>1, <1>3, <1>4 DEF InSeq

\* An increasing sequence stays so when a larger element is added ...
LEMMA AppendIncreasing ==
  ASSUME NEW s \in Seq(Nat), NEW e \in Nat, Increasing(s), Below(InSeq(s), {e})
  PROVE  Increasing(Append(s, e))
<1>1. /\ Len(Append(s, e)) = Len(s) + 1 /\ Append(s, e)[Len(s) + 1] = e
      /\ \A i \in 1 .. Len(s) : Append(s, e)[i] = s[i]
  BY AppendProperties
<1>2. Len(s) \in Nat /\ \A i \in 1 .. Len(s) : s[i] < e
  BY LenProperties DEF Below, InSeq
<1> QED
  BY <1>1, <1>2 DEF Increasing

\* ... or its head is taken, which is below all that remains.
LEMMA TailIncreasing ==
  ASSUME NEW s \in Seq(Nat), s # <<>>, Increasing(s)
  PROVE  /\ Increasing(Tail(s))
         /\ Below({Head(s)}, InSeq(Tail(s)))
<1>1. Len(s) \in Nat \ {0} /\ Head(s) = s[1]
  BY EmptySeq
<1>2. Len(Tail(s)) = Len(s) - 1 /\ \A i \in 1 .. Len(s) - 1 : Tail(s)[i] = s[i + 1]
  BY HeadTailProperties
<1>3. \A i \in 1 .. Len(Tail(s)) : i + 1 \in 1 .. Len(s) /\ Tail(s)[i] = s[i + 1]
  BY <1>1, <1>2
<1>4. \A i \in 1 .. Len(Tail(s)) : s[1] < s[i + 1]
  BY <1>1, <1>3 DEF Increasing
<1> QED
  BY <1>1, <1>3, <1>4 DEF Increasing, Below, InSeq

\* Two increasing sequences, the first below the second, make one.
LEMMA ConcatIncreasing ==
  ASSUME NEW s \in Seq(Nat), NEW t \in Seq(Nat),
         Increasing(s), Increasing(t), Below(InSeq(s), InSeq(t))
  PROVE  /\ s \o t \in Seq(Nat) /\ Increasing(s \o t)
         /\ InSeq(s \o t) = InSeq(s) \cup InSeq(t)
<1>1. /\ s \o t \in Seq(Nat) /\ Len(s \o t) = Len(s) + Len(t)
      /\ \A i \in 1 .. Len(s) + Len(t) :
           (s \o t)[i] = IF i <= Len(s) THEN s[i] ELSE t[i - Len(s)]
  BY ConcatProperties
<1>2. Len(s) \in Nat /\ Len(t) \in Nat
  BY LenProperties
<1>3. ASSUME NEW i \in 1 .. Len(s \o t), NEW j \in 1 .. Len(s \o t), i < j
      PROVE  (s \o t)[i] < (s \o t)[j]
  <2>1. CASE j <= Len(s)
    BY <1>1, <1>2, <1>3, <2>1 DEF Increasing
  <2>2. CASE i <= Len(s) /\ j > Len(s)
    <3>1. i \in 1 .. Len(s) /\ j - Len(s) \in 1 .. Len(t)
      BY <1>1, <1>2, <2>2
    <3> QED
      BY <1>1, <1>2, <2>2, <3>1 DEF Below, InSeq
  <2>3. CASE i > Len(s)
    <3>1. /\ i - Len(s) \in 1 .. Len(t) /\ j - Len(s) \in 1 .. Len(t)
          /\ i - Len(s) < j - Len(s) /\ j > Len(s)
      BY <1>1, <1>2, <1>3, <2>3
    <3>2. (s \o t)[i] = t[i - Len(s)] /\ (s \o t)[j] = t[j - Len(s)]
      BY <1>1, <1>2, <2>3, <3>1
    <3> QED
      BY <3>1, <3>2 DEF Increasing
  <2> QED
    BY <1>2, <2>1, <2>2, <2>3
<1>4. InSeq(s \o t) = InSeq(s) \cup InSeq(t)
  <2>1. \A i \in 1 .. Len(s) : i \in 1 .. Len(s \o t) /\ (s \o t)[i] = s[i]
    BY <1>1, <1>2
  <2>2. \A i \in 1 .. Len(t) : Len(s) + i \in 1 .. Len(s \o t) /\ (s \o t)[Len(s) + i] = t[i]
    BY <1>1, <1>2
  <2>3. ASSUME NEW i \in 1 .. Len(s \o t)
        PROVE  (s \o t)[i] \in InSeq(s) \cup InSeq(t)
    <3>1. CASE i <= Len(s)
      BY <1>1, <1>2, <3>1 DEF InSeq
    <3>2. CASE i > Len(s)
      <4>1. i - Len(s) \in 1 .. Len(t) /\ (s \o t)[i] = t[i - Len(s)]
        BY <1>1, <1>2, <3>2
      <4> QED
        BY <4>1 DEF InSeq
    <3> QED
      BY <1>1, <1>2, <3>1, <3>2
  <2>4. InSeq(s) \subseteq InSeq(s \o t)
    BY <2>1 DEF InSeq
  <2>5. InSeq(t) \subseteq InSeq(s \o t)
    BY <2>2 DEF InSeq
  <2>6. InSeq(s \o t) \subseteq InSeq(s) \cup InSeq(t)
    BY <2>3 DEF InSeq
  <2> QED
    BY <2>4, <2>5, <2>6
<1> QED
  BY <1>1, <1>3, <1>4 DEF Increasing

-----------------------------------------------------------------------------
(* The steps, by what they do to the packets                               *)

\* The hub sends a packet.
Sent ==
  /\ \E e \in [size : Nat, command : 0 .. Len(Commands)] : enqueued' = Append(enqueued, e)
  /\ downlink_queue' = Append(downlink_queue, Len(enqueued) + 1)
  /\ UNCHANGED downVars

\* thread_down takes a packet in its outer loop, ...
TakenOuter == loop = "outer" /\ PopOuter /\ enqueued' = enqueued

\* ... takes one in its inner loop, ...
TakenInner == loop = "inner" /\ PopInner /\ enqueued' = enqueued

\* ... hands it over, ...
HandedOver ==
  /\ loop = "delay" /\ loop' = "pace"
  /\ requested' = Append(requested, [packet |-> packet, at |-> now, time |-> now])
  /\ packet' = 0 /\ buf_capacity' = BUFFER
  /\ UNCHANGED <<queueVars, lost>>

\* ... or loses one that does not fit.
Refused ==
  /\ loop \in {"outer", "inner"} /\ \E next \in {"inner", "pace"} : PopTooSmall(next)
  /\ enqueued' = enqueued

\* Everything else.
Untouched ==
  /\ UNCHANGED <<queueVars, packet, buf_capacity, requested, lost>>
  /\ loop' \in {"outer", "inner", "delay", "pace"} /\ (loop' = "delay" <=> loop = "delay")

LEMMA StepKinds ==
  ASSUME DownlinkTypeOK, [DownlinkNext]_downlinkVars
  PROVE  Sent \/ TakenOuter \/ TakenInner \/ HandedOver \/ Refused \/ Untouched
<1>0. Len(Commands) \in Nat
  BY DownlinkAssumption, LenProperties
<1>1. ASSUME NEW n \in 1 .. Len(Commands), CommandArrives(n)
      PROVE  Sent \/ Untouched
  <2>1. CASE UNCHANGED queueVars
    BY <1>1, <2>1 DEF CommandArrives, Untouched, downVars, queueVars, DownlinkTypeOK
  <2>2. CASE cdp_bridge_enqueue_downlink_ext(Commands[n].length, n)
    <3>0. Commands[n] \in [topic : 0 .. 255, length : Nat]
      BY DownlinkAssumption, ElementOfSeq
    <3>1. HEADER_LENGTH + Commands[n].length \in Nat
      BY <3>0, DownlinkAssumption
    <3>2. UNCHANGED downVars
      BY <1>1 DEF CommandArrives
    <3> QED
      BY <1>0, <2>2, <3>1, <3>2 DEF cdp_bridge_enqueue_downlink_ext, Sent
  <2> QED
    BY <1>1, <2>1, <2>2 DEF CommandArrives
<1>2. CASE Reply
  <2>1. PICK length \in ReplyLengths : cdp_bridge_enqueue_downlink_ext(length, 0)
    BY <1>2 DEF Reply
  <2>2. HEADER_LENGTH + length \in Nat
    BY DownlinkAssumption
  <2>3. UNCHANGED downVars
    BY <1>2 DEF Reply
  <2> QED
    BY <1>0, <2>1, <2>2, <2>3 DEF cdp_bridge_enqueue_downlink_ext, Sent
<1>3. CASE Outer
  BY <1>3 DEF Outer, PopEmpty, TakenOuter, Refused, Untouched, queueVars
<1>4. CASE Inner
  BY <1>4 DEF Inner, PopEmpty, TakenInner, Refused, Untouched, queueVars
<1>5. CASE InnerEnqueue
  BY <1>5 DEF InnerEnqueue, HandedOver
<1>6. CASE Tick \/ Begin \/ Pace \/ PlaceBeacon \/ UNCHANGED downlinkVars
  BY <1>6 DEF Tick, Begin, Pace, PlaceBeacon, Untouched, downVars, queueVars, downlinkVars,
              DownlinkTypeOK
<1> QED
  BY <1>1, <1>2, <1>3, <1>4, <1>5, <1>6 DEF DownlinkNext, ThreadDown

-----------------------------------------------------------------------------
(* Types                                                                   *)

\* What the clock, the hub and the commands may be.
HubTyped ==
  /\ now \in 0 .. MaxTime /\ current_concentrator_time \in 0 .. MaxTime
  /\ public \in BOOLEAN /\ replies \in 0 .. MaxReplies
  /\ answer \in [1 .. Len(Commands) -> {"", "success", "error", "ignored"}]

Entry == [size : Nat, command : 0 .. Len(Commands)]
Request == [packet : Ids, at : 0 .. MaxTime, time : 0 .. MaxTime]

LEMMA HubTypedStep ==
  ASSUME HubTyped, [DownlinkNext]_downlinkVars
  PROVE  HubTyped'
<1> USE DEF HubTyped
<1>0. MaxTime \in Nat /\ MaxReplies \in Nat
  BY DownlinkAssumption
<1>1. CASE Tick
  <2>1. UNCHANGED <<public, replies, answer, current_concentrator_time>>
    BY <1>1 DEF Tick, hubVars, downVars
  <2>2. now \in 0 .. MaxTime /\ now < MaxTime /\ now' = now + 1
    BY <1>1 DEF Tick
  <2> HIDE DEF HubTyped
  <2>3. now' \in 0 .. MaxTime
    BY <1>0, <2>2
  <2> QED
    BY <2>1, <2>3 DEF HubTyped
<1>2. CASE Begin
  BY <1>2 DEF Begin, downVars
<1>3. CASE Reply
  <2>1. UNCHANGED <<now, public, answer, current_concentrator_time>>
    BY <1>3 DEF Reply, downVars
  <2>2. replies \in 0 .. MaxReplies /\ replies < MaxReplies /\ replies' = replies + 1
    BY <1>3 DEF Reply
  <2> HIDE DEF HubTyped
  <2>3. replies' \in 0 .. MaxReplies
    BY <1>0, <2>2
  <2> QED
    BY <2>1, <2>3 DEF HubTyped
<1>4. ASSUME NEW n \in 1 .. Len(Commands), CommandArrives(n) PROVE HubTyped'
  <2>1. PICK r \in {"success", "error", "ignored"} : answer' = [answer EXCEPT ![n] = r]
    BY <1>4 DEF CommandArrives
  <2>2. UNCHANGED <<now, public, replies, current_concentrator_time>>
    BY <1>4 DEF CommandArrives, downVars
  <2> QED
    BY <2>1, <2>2
<1>5. CASE Outer
  BY <1>5 DEF Outer, PopOuter, PopTooSmall, PopEmpty, hubVars
<1>6. CASE Inner
  BY <1>6 DEF Inner, PopInner, PopTooSmall, PopEmpty, hubVars
<1>7. CASE InnerEnqueue \/ Pace \/ PlaceBeacon
  BY <1>7 DEF InnerEnqueue, Pace, PlaceBeacon, hubVars
<1>8. CASE UNCHANGED downlinkVars
  BY <1>8 DEF downlinkVars, hubVars, downVars
<1> QED
  BY <1>1, <1>2, <1>3, <1>4, <1>5, <1>6, <1>7, <1>8 DEF DownlinkNext, ThreadDown

\* The numbers of the packets stay valid, and what they stand for stays the same,
\* when another packet is enqueued.
LEMMA EnqueueKeepsIds ==
  ASSUME DownlinkTypeOK, NEW e \in Entry, enqueued' = Append(enqueued, e)
  PROVE  /\ enqueued' \in Seq(Entry) /\ Len(enqueued) \in Nat
         /\ Len(enqueued') = Len(enqueued) + 1
         /\ Ids \subseteq Ids' /\ Len(enqueued) + 1 \in Ids'
         /\ \A id \in Ids : Size(id)' = Size(id)
<1>1. enqueued \in Seq(Entry)
  BY DEF DownlinkTypeOK, Entry
<1>2. /\ Append(enqueued, e) \in Seq(Entry) /\ Len(enqueued) \in Nat
      /\ Len(Append(enqueued, e)) = Len(enqueued) + 1
      /\ \A i \in 1 .. Len(enqueued) : Append(enqueued, e)[i] = enqueued[i]
  BY <1>1, AppendProperties, LenProperties
<1> QED
  BY <1>2 DEF Ids, Size

\* The type invariant of the packets on their way.
WayTyped ==
  /\ enqueued \in Seq(Entry) /\ downlink_queue \in Seq(Ids)
  /\ loop \in {"outer", "inner", "delay", "pace"}
  /\ packet \in 0 .. Len(enqueued) /\ (packet # 0 <=> loop = "delay")
  /\ buf_capacity \in 0 .. BUFFER /\ (packet # 0 => buf_capacity = Size(packet))
  /\ requested \in Seq(Request)
  /\ lost \subseteq Ids

LEMMA TypeParts == DownlinkTypeOK <=> HubTyped /\ WayTyped
  BY DEF DownlinkTypeOK, HubTyped, WayTyped, Entry, Request

LEMMA WayTypedStep ==
  ASSUME DownlinkTypeOK, [DownlinkNext]_downlinkVars
  PROVE  WayTyped'
<1>c. BUFFER \in Nat
  BY DownlinkAssumption
<1>0. HubTyped /\ WayTyped /\ Len(enqueued) \in Nat /\ Ids \subseteq Nat \ {0}
  <2>1. HubTyped /\ WayTyped
    BY TypeParts
  <2>2. Len(enqueued) \in Nat
    BY <2>1, LenProperties DEF WayTyped
  <2> QED
    BY <2>1, <2>2 DEF Ids
<1>a. downlink_queue # <<>> => /\ Head(downlink_queue) \in Ids
                               /\ Tail(downlink_queue) \in Seq(Ids)
  BY <1>0, HeadTailProperties DEF WayTyped
<1>b. enqueued' = enqueued => Ids' = Ids /\ Request' = Request /\ \A id : Size(id)' = Size(id)
  BY DEF Ids, Request, Size
<1>1. CASE Sent
  <2>1. PICK e \in Entry : enqueued' = Append(enqueued, e)
    BY <1>1 DEF Sent, Entry
  <2>2. /\ enqueued' \in Seq(Entry) /\ Len(enqueued') = Len(enqueued) + 1
        /\ Ids \subseteq Ids' /\ Len(enqueued) + 1 \in Ids'
        /\ \A id \in Ids : Size(id)' = Size(id)
    BY <2>1, EnqueueKeepsIds
  <2>3. downlink_queue' \in Seq(Ids')
    <3>1. downlink_queue \in Seq(Ids')
      BY <1>0, <2>2, SeqMonotonic DEF WayTyped
    <3> QED
      BY <1>1, <2>2, <3>1, AppendProperties DEF Sent
  <2>4. requested' \in Seq(Request')
    <3>1. Request \subseteq Request'
      BY <2>2 DEF Request
    <3> QED
      BY <1>0, <1>1, <3>1, SeqMonotonic DEF Sent, downVars, WayTyped
  <2>5. UNCHANGED <<loop, packet, buf_capacity, lost>>
    BY <1>1 DEF Sent, downVars
  <2>6. packet' # 0 => buf_capacity' = Size(packet)'
    <3>1. packet # 0 => packet \in Ids
      BY <1>0 DEF WayTyped, Ids
    <3> QED
      BY <1>0, <2>2, <2>5, <3>1 DEF WayTyped, Size
  <2>7. packet' \in 0 .. Len(enqueued') /\ lost' \subseteq Ids'
    BY <1>0, <2>2, <2>5 DEF WayTyped
  <2> QED
    BY <1>0, <2>2, <2>3, <2>4, <2>5, <2>6, <2>7 DEF WayTyped, Entry
<1>2. CASE TakenOuter
  <2>1. /\ downlink_queue # <<>> /\ downlink_queue' = Tail(downlink_queue)
        /\ requested' = Append(requested, [packet |-> Head(downlink_queue), at |-> now,
                                           time |-> current_concentrator_time])
        /\ buf_capacity' = BUFFER /\ loop = "outer" /\ loop' = "inner"
        /\ UNCHANGED <<enqueued, packet, lost>>
    BY <1>2 DEF TakenOuter, PopOuter, Fits
  <2>2. requested' \in Seq(Request)
    <3>1. [packet |-> Head(downlink_queue), at |-> now,
           time |-> current_concentrator_time] \in Request
      BY <1>0, <1>a, <2>1 DEF HubTyped, Request
    <3> QED
      BY <1>0, <2>1, <3>1, AppendProperties DEF WayTyped
  <2>3. packet' = 0
    BY <1>0, <2>1 DEF WayTyped
  <2> QED
    BY <1>0, <1>a, <1>b, <1>c, <2>1, <2>2, <2>3 DEF WayTyped, Entry
<1>3. CASE TakenInner
  <2>1. /\ downlink_queue # <<>> /\ downlink_queue' = Tail(downlink_queue)
        /\ packet' = Head(downlink_queue) /\ loop' = "delay"
        /\ buf_capacity' = Size(packet)' /\ Size(Head(downlink_queue)) <= buf_capacity
        /\ UNCHANGED <<enqueued, requested, lost>>
    BY <1>3 DEF TakenInner, PopInner, Fits, Size
  <2>2. packet' \in Ids /\ packet' \in 1 .. Len(enqueued)
    BY <1>a, <2>1 DEF Ids
  <2>3. Size(packet') \in Nat
    <3>1. enqueued[packet'] \in Entry
      BY <1>0, <2>2, ElementOfSeq DEF WayTyped
    <3> QED
      BY <3>1 DEF Entry, Size
  <2>4. buf_capacity' = Size(packet') /\ Size(packet') <= buf_capacity
    BY <2>1 DEF Size
  <2>5. buf_capacity' \in 0 .. BUFFER
    BY <1>0, <1>c, <2>3, <2>4 DEF WayTyped
  <2>6. packet' # 0 /\ packet' \in 0 .. Len(enqueued')
    BY <1>0, <2>1, <2>2
  <2> QED
    BY <1>0, <1>a, <1>b, <2>1, <2>5, <2>6 DEF WayTyped, Entry
<1>4. CASE HandedOver
  <2>1. requested' \in Seq(Request)
    <3>0. packet \in Ids
      BY <1>0, <1>4 DEF HandedOver, WayTyped, Ids
    <3>1. [packet |-> packet, at |-> now, time |-> now] \in Request
      BY <1>0, <3>0 DEF HubTyped, Request
    <3> QED
      BY <1>0, <1>4, <3>1, AppendProperties DEF HandedOver, WayTyped
  <2> QED
    BY <1>0, <1>4, <1>b, <1>c, <2>1 DEF HandedOver, queueVars, WayTyped, Entry
<1>5. CASE Refused
  <2>1. /\ downlink_queue # <<>> /\ downlink_queue' = Tail(downlink_queue)
        /\ lost' = lost \cup {Head(downlink_queue)} /\ buf_capacity' = 0
        /\ loop # "delay" /\ loop' \in {"inner", "pace"}
        /\ UNCHANGED <<enqueued, packet, requested>>
    BY <1>5 DEF Refused, PopTooSmall
  <2>2. packet = 0
    BY <1>0, <2>1 DEF WayTyped
  <2>4. lost' \subseteq Ids
    BY <1>0, <1>a, <2>1 DEF WayTyped
  <2>5. 0 \in 0 .. BUFFER
    BY <1>c
  <2>3. lost' \subseteq Ids /\ buf_capacity' \in 0 .. BUFFER /\ loop' # "delay" /\ packet' = 0
    BY <2>1, <2>2, <2>4, <2>5
  <2> QED
    BY <1>0, <1>a, <1>b, <2>1, <2>3 DEF WayTyped, Entry
<1>6. CASE Untouched
  BY <1>0, <1>6, <1>b DEF Untouched, queueVars, WayTyped, Entry
<1> QED
  BY <1>1, <1>2, <1>3, <1>4, <1>5, <1>6, StepKinds

\* The state of the downlink path is well formed: in particular the capacity never
\* exceeds the buffer and is the size of the packet that waits in it.
THEOREM DownlinkTypeCorrect == DownlinkSpec => []DownlinkTypeOK
<1>1. DownlinkInit => DownlinkTypeOK
  <2> SUFFICES ASSUME DownlinkInit PROVE DownlinkTypeOK
    OBVIOUS
  <2>1. \A S : <<>> \in Seq(S)
    BY EmptySeq
  <2>2. enqueued = <<>> /\ Len(<<>>) = 0
    BY EmptySeq DEF DownlinkInit
  <2>a. MaxTime \in Nat /\ MaxReplies \in Nat /\ BUFFER \in Nat
    BY DownlinkAssumption
  <2>b. 0 \in 0 .. MaxTime /\ 0 \in 0 .. MaxReplies
    BY <2>a
  <2>3. HubTyped
    BY <2>b DEF DownlinkInit, HubTyped
  <2>4. 0 \in 0 .. Len(enqueued) /\ BUFFER \in 0 .. BUFFER
    BY <2>a, <2>2
  <2>5. WayTyped
    BY <2>1, <2>4 DEF DownlinkInit, WayTyped
  <2> QED
    BY <2>3, <2>5, TypeParts
<1>2. DownlinkTypeOK /\ [DownlinkNext]_downlinkVars => DownlinkTypeOK'
  <2> SUFFICES ASSUME DownlinkTypeOK, [DownlinkNext]_downlinkVars PROVE DownlinkTypeOK'
    OBVIOUS
  <2>1. HubTyped' /\ WayTyped'
    BY TypeParts, HubTypedStep, WayTypedStep
  <2> QED
    BY <2>1 DEF DownlinkTypeOK, HubTyped, WayTyped, Entry, Request
<1> QED
  BY <1>1, <1>2, PTL DEF DownlinkSpec

-----------------------------------------------------------------------------
(* Order                                                                   *)

\* The packet in thread_down's hands.
Held == {packet} \ {0}

\* Requested, held, waiting: each part is increasing and below the next.
OrderInv ==
  /\ Increasing(RequestedIds) /\ Increasing(downlink_queue)
  /\ Below(InSeq(RequestedIds), Held \cup InSeq(downlink_queue))
  /\ Below(Held, InSeq(downlink_queue))

\* The types the order needs.
LEMMA NumberTypes ==
  ASSUME DownlinkTypeOK
  PROVE  /\ Len(enqueued) \in Nat /\ Ids \subseteq Nat \ {0}
         /\ downlink_queue \in Seq(Nat) /\ downlink_queue \in Seq(Ids)
         /\ RequestedIds \in Seq(Nat) /\ InSeq(RequestedIds) \subseteq Ids
         /\ packet \in Nat /\ Held \subseteq Ids /\ InSeq(downlink_queue) \subseteq Ids
<1>0. WayTyped
  BY TypeParts
<1>1. Len(enqueued) \in Nat
  BY <1>0, LenProperties DEF WayTyped
<1>2. Ids \subseteq Nat /\ Ids \subseteq Nat \ {0}
  BY <1>1 DEF Ids
<1>3. downlink_queue \in Seq(Ids)
  BY <1>0 DEF WayTyped
<1>4. downlink_queue \in Seq(Nat)
  BY <1>2, <1>3, SeqMonotonic
<1>5. InSeq(downlink_queue) \subseteq Ids
  BY <1>3, ElementOfSeq DEF InSeq
<1>6. requested \in Seq(Request) /\ Len(requested) \in Nat
  BY <1>0, LenProperties DEF WayTyped
<1>7. \A i \in 1 .. Len(requested) : requested[i].packet \in Ids
  <2> SUFFICES ASSUME NEW i \in 1 .. Len(requested) PROVE requested[i].packet \in Ids
    OBVIOUS
  <2>1. requested[i] \in Request
    BY <1>6, ElementOfSeq
  <2> QED
    BY <2>1 DEF Request
<1>8. RequestedIds \in Seq(Ids)
  BY <1>6, <1>7, SeqDef DEF RequestedIds
<1>9. RequestedIds \in Seq(Nat) /\ InSeq(RequestedIds) \subseteq Ids
  <2>1. RequestedIds \in Seq(Nat)
    BY <1>2, <1>8, SeqMonotonic
  <2>2. InSeq(RequestedIds) \subseteq Ids
    BY <1>8, ElementOfSeq DEF InSeq
  <2> QED
    BY <2>1, <2>2
<1>10. packet \in Nat /\ Held \subseteq Ids
  BY <1>0, <1>1 DEF WayTyped, Held, Ids
<1> QED
  BY <1>1, <1>2, <1>3, <1>4, <1>5, <1>9, <1>10

\* A request adds the number of its packet to the requested ones.
LEMMA RequestAppends ==
  ASSUME DownlinkTypeOK, NEW e, requested' = Append(requested, e)
  PROVE  RequestedIds' = Append(RequestedIds, e.packet)
<1>1. requested \in Seq(Request)
  BY TypeParts DEF WayTyped
<1>2. Len(requested) \in Nat /\ RequestedIds \in Seq(Nat) /\ Len(RequestedIds) = Len(requested)
  BY <1>1, NumberTypes, LenProperties DEF RequestedIds
<1>3. /\ Len(requested') = Len(requested) + 1 /\ requested'[Len(requested) + 1] = e
      /\ \A i \in 1 .. Len(requested) : requested'[i] = requested[i]
  BY <1>1, <1>2, SMTT(30)
<1>4. RequestedIds' = [i \in 1 .. Len(requested) + 1 |-> requested'[i].packet]
  BY <1>3 DEF RequestedIds
<1>5. Append(RequestedIds, e.packet)
        = [i \in 1 .. Len(requested) + 1 |-> IF i = Len(requested) + 1 THEN e.packet
                                                                 ELSE RequestedIds[i]]
  BY <1>2
<1>6. \A i \in 1 .. Len(requested) : RequestedIds[i] = requested[i].packet
  BY DEF RequestedIds
<1> QED
  BY <1>2, <1>3, <1>4, <1>5, <1>6

LEMMA OrderStep ==
  ASSUME DownlinkTypeOK, DownlinkTypeOK', OrderInv, [DownlinkNext]_downlinkVars
  PROVE  OrderInv'
<1>0. /\ Len(enqueued) \in Nat /\ Ids \subseteq Nat \ {0}
      /\ downlink_queue \in Seq(Nat) /\ RequestedIds \in Seq(Nat) /\ packet \in Nat
      /\ InSeq(RequestedIds) \subseteq Ids /\ Held \subseteq Ids
      /\ InSeq(downlink_queue) \subseteq Ids
  BY NumberTypes
<1>a. requested' = requested => RequestedIds' = RequestedIds
  BY DEF RequestedIds
<1>b. ASSUME downlink_queue # <<>>, downlink_queue' = Tail(downlink_queue)
      PROVE  /\ Increasing(downlink_queue')
             /\ Below({Head(downlink_queue)}, InSeq(downlink_queue'))
             /\ InSeq(downlink_queue) = {Head(downlink_queue)} \cup InSeq(downlink_queue')
             /\ Head(downlink_queue) \in Nat \ {0}
  <2>1. InSeq(downlink_queue) = {Head(downlink_queue)} \cup InSeq(downlink_queue')
    BY <1>0, <1>b, TailElements
  <2> QED
    BY <1>0, <1>b, <2>1, TailIncreasing DEF OrderInv
<1>1. CASE Sent
  <2>1. /\ downlink_queue' = Append(downlink_queue, Len(enqueued) + 1)
        /\ RequestedIds' = RequestedIds /\ Held' = Held
    BY <1>1, <1>a DEF Sent, downVars, Held
  <2>2. \A id \in Ids : id < Len(enqueued) + 1
    BY <1>0 DEF Ids
  <2>3. Len(enqueued) + 1 \in Nat
    BY <1>0
  <2>4. Increasing(downlink_queue')
    <3>1. Below(InSeq(downlink_queue), {Len(enqueued) + 1})
      BY <1>0, <2>2 DEF Below
    <3> QED
      BY <1>0, <2>1, <2>3, <3>1, AppendIncreasing DEF OrderInv
  <2>5. InSeq(downlink_queue') = InSeq(downlink_queue) \cup {Len(enqueued) + 1}
    BY <1>0, <2>1, <2>3, AppendElements
  <2> QED
    BY <1>0, <2>1, <2>2, <2>4, <2>5 DEF OrderInv, Below
<1>2. CASE TakenOuter
  <2>1. /\ downlink_queue # <<>> /\ downlink_queue' = Tail(downlink_queue)
        /\ loop = "outer" /\ packet' = packet
        /\ requested' = Append(requested, [packet |-> Head(downlink_queue), at |-> now,
                                           time |-> current_concentrator_time])
    BY <1>2 DEF TakenOuter, PopOuter, Fits
  <2>2. RequestedIds' = Append(RequestedIds, Head(downlink_queue))
    BY <2>1, RequestAppends
  <2>3. Held = {} /\ Held' = {}
    BY <2>1 DEF DownlinkTypeOK, Held
  <2>4. Below(InSeq(RequestedIds), {Head(downlink_queue)}) /\ Head(downlink_queue) \in Nat
    BY <1>b, <2>1 DEF OrderInv, Below
  <2>5. /\ Increasing(RequestedIds')
        /\ InSeq(RequestedIds') = InSeq(RequestedIds) \cup {Head(downlink_queue)}
    <3> DEFINE h == Head(downlink_queue)
    <3>1. /\ h \in Nat /\ Below(InSeq(RequestedIds), {h}) /\ Increasing(RequestedIds)
          /\ RequestedIds' = Append(RequestedIds, h)
      BY <2>2, <2>4 DEF OrderInv
    <3> HIDE DEF h
    <3>2. Increasing(RequestedIds') /\ InSeq(RequestedIds') = InSeq(RequestedIds) \cup {h}
      BY <1>0, <3>1, AppendIncreasing, AppendElements
    <3> QED
      BY <3>2 DEF h
  <2> QED
    BY <1>b, <2>1, <2>3, <2>5 DEF OrderInv, Below
<1>3. CASE TakenInner
  <2>1. /\ downlink_queue # <<>> /\ downlink_queue' = Tail(downlink_queue)
        /\ packet' = Head(downlink_queue) /\ requested' = requested
    BY <1>3 DEF TakenInner, PopInner, Fits
  <2>2. Held' \subseteq {Head(downlink_queue)} /\ RequestedIds' = RequestedIds
    BY <1>a, <2>1 DEF Held
  <2> QED
    BY <1>b, <2>1, <2>2 DEF OrderInv, Below
<1>4. CASE HandedOver
  <2>1. /\ requested' = Append(requested, [packet |-> packet, at |-> now, time |-> now])
        /\ downlink_queue' = downlink_queue /\ packet' = 0 /\ loop = "delay"
    BY <1>4 DEF HandedOver, queueVars
  <2>2. RequestedIds' = Append(RequestedIds, packet)
    BY <2>1, RequestAppends
  <2>3. Held = {packet} /\ Held' = {}
    BY <2>1 DEF DownlinkTypeOK, Held
  <2>4. /\ Increasing(RequestedIds')
        /\ InSeq(RequestedIds') = InSeq(RequestedIds) \cup {packet}
    <3>1. Below(InSeq(RequestedIds), {packet})
      BY <2>3 DEF OrderInv, Below
    <3> QED
      BY <1>0, <2>2, <3>1, AppendIncreasing, AppendElements DEF OrderInv
  <2> QED
    BY <2>1, <2>3, <2>4 DEF OrderInv, Below
<1>5. CASE Refused
  <2>1. /\ downlink_queue # <<>> /\ downlink_queue' = Tail(downlink_queue)
        /\ UNCHANGED <<packet, requested>>
    BY <1>5 DEF Refused, PopTooSmall
  <2> QED
    BY <1>a, <1>b, <2>1 DEF OrderInv, Below, Held
<1>6. CASE Untouched
  BY <1>6, <1>a DEF Untouched, queueVars, OrderInv, Held
<1> QED
  BY <1>1, <1>2, <1>3, <1>4, <1>5, <1>6, StepKinds

\* Increasing parts, each below the next, are what SentInOrder asks for.
LEMMA OrderInvGivesSentInOrder ==
  ASSUME DownlinkTypeOK, OrderInv
  PROVE  SentInOrder
<1> DEFINE mine == IF packet = 0 THEN <<>> ELSE <<packet>>
           way == RequestedIds \o mine \o downlink_queue
<1>1. downlink_queue \in Seq(Nat) /\ RequestedIds \in Seq(Nat) /\ packet \in Nat
  BY NumberTypes
<1>2. mine \in Seq(Nat) /\ Increasing(mine) /\ InSeq(mine) \subseteq Held
  <2>1. CASE packet = 0
    <3>1. mine = <<>>
      BY <2>1
    <3> HIDE DEF mine
    <3>2. <<>> \in Seq(Nat) /\ Len(<<>>) = 0
      BY EmptySeq
    <3>3. mine \in Seq(Nat) /\ Len(mine) = 0
      BY <3>1, <3>2, Zenon
    <3>4. Increasing(mine)
      BY <3>3 DEF Increasing
    <3>5. InSeq(mine) = {}
      BY <3>3 DEF InSeq
    <3> QED
      BY <3>3, <3>4, <3>5
  <2>2. CASE packet # 0
    <3>1. mine = <<packet>>
      BY <2>2
    <3> HIDE DEF mine
    <3>2. mine \in Seq(Nat) /\ Len(mine) = 1 /\ mine[1] = packet
      BY <1>1, <3>1
    <3> QED
      BY <1>1, <2>2, <3>2 DEF Increasing, InSeq, Held
  <2> QED
    BY <2>1, <2>2
<1> HIDE DEF mine
<1>3. /\ RequestedIds \o mine \in Seq(Nat) /\ Increasing(RequestedIds \o mine)
      /\ InSeq(RequestedIds \o mine) = InSeq(RequestedIds) \cup InSeq(mine)
  <2>1. Below(InSeq(RequestedIds), InSeq(mine))
    BY <1>2 DEF OrderInv, Below
  <2> QED
    BY <1>1, <1>2, <2>1, ConcatIncreasing DEF OrderInv
<1>4. Increasing(way)
  <2>1. Below(InSeq(RequestedIds \o mine), InSeq(downlink_queue))
    BY <1>2, <1>3 DEF OrderInv, Below
  <2> QED
    BY <1>1, <1>3, <2>1, ConcatIncreasing DEF OrderInv
<1> QED
  BY <1>4 DEF SentInOrder, Increasing, mine

\* Whichever of the two loops takes a packet, the packets reach jit_enqueue in the
\* order in which the hub sent them, each one once.
THEOREM DownlinkSentInOrder == DownlinkSpec => []SentInOrder
<1>1. DownlinkInit => OrderInv
  <2> SUFFICES ASSUME DownlinkInit PROVE OrderInv
    OBVIOUS
  <2>1. Len(requested) = 0 /\ Len(downlink_queue) = 0 /\ Held = {}
    BY EmptySeq DEF DownlinkInit, Held
  <2>2. Len(RequestedIds) = 0
    BY <2>1 DEF RequestedIds
  <2>3. Increasing(RequestedIds) /\ Increasing(downlink_queue)
    BY <2>1, <2>2 DEF Increasing
  <2>4. InSeq(RequestedIds) = {} /\ InSeq(downlink_queue) = {}
    BY <2>1, <2>2 DEF InSeq
  <2> QED
    BY <2>1, <2>3, <2>4 DEF OrderInv, Below
<1>2. DownlinkTypeOK /\ DownlinkTypeOK' /\ OrderInv /\ [DownlinkNext]_downlinkVars => OrderInv'
  BY OrderStep
<1>3. DownlinkTypeOK /\ OrderInv => SentInOrder
  BY OrderInvGivesSentInOrder
<1> QED
  BY <1>1, <1>2, <1>3, DownlinkTypeCorrect, PTL DEF DownlinkSpec

-----------------------------------------------------------------------------
(* Losses                                                                  *)

LEMMA NoneVanishesStep ==
  ASSUME DownlinkTypeOK, NoneVanishes, [DownlinkNext]_downlinkVars
  PROVE  NoneVanishes'
<1>0. /\ Len(enqueued) \in Nat /\ Ids \subseteq Nat \ {0} /\ packet \in Nat
      /\ downlink_queue \in Seq(Nat) /\ RequestedIds \in Seq(Nat)
  BY NumberTypes
<1>a. requested' = requested => RequestedIds' = RequestedIds
  BY DEF RequestedIds
<1>b. enqueued' = enqueued => Ids' = Ids
  BY DEF Ids
<1>c. downlink_queue # <<>> =>
        InSeq(downlink_queue) = {Head(downlink_queue)} \cup InSeq(Tail(downlink_queue))
  BY <1>0, TailElements
<1>1. CASE Sent
  <2>1. PICK e \in Entry : enqueued' = Append(enqueued, e)
    BY <1>1 DEF Sent, Entry
  <2>2. Len(enqueued') = Len(enqueued) + 1
    BY <2>1, EnqueueKeepsIds
  <2>3. InSeq(downlink_queue') = InSeq(downlink_queue) \cup {Len(enqueued) + 1}
    <3> DEFINE n == Len(enqueued) + 1
    <3>1. n \in Nat
      BY <1>0
    <3>2. downlink_queue' = Append(downlink_queue, n)
      BY <1>1 DEF Sent
    <3> HIDE DEF n
    <3>3. InSeq(downlink_queue') = InSeq(downlink_queue) \cup {n}
      BY <1>0, <3>1, <3>2, AppendElements
    <3> QED
      BY <3>3 DEF n
  <2>4. RequestedIds' = RequestedIds /\ UNCHANGED <<packet, lost>>
    BY <1>1, <1>a DEF Sent, downVars
  <2>5. Ids' \subseteq Ids \cup {Len(enqueued) + 1}
    BY <1>0, <2>2 DEF Ids
  <2> QED
    BY <2>3, <2>4, <2>5 DEF NoneVanishes
<1>2. CASE TakenOuter
  <2>1. /\ downlink_queue # <<>> /\ downlink_queue' = Tail(downlink_queue)
        /\ requested' = Append(requested, [packet |-> Head(downlink_queue), at |-> now,
                                           time |-> current_concentrator_time])
        /\ UNCHANGED <<enqueued, packet, lost>>
    BY <1>2 DEF TakenOuter, PopOuter, Fits
  <2>2. RequestedIds' = Append(RequestedIds, Head(downlink_queue))
    BY <2>1, RequestAppends
  <2>3. InSeq(RequestedIds') = InSeq(RequestedIds) \cup {Head(downlink_queue)}
    <3> DEFINE h == Head(downlink_queue)
    <3> HIDE DEF h
    <3>1. h \in Nat
      BY <1>0, <2>1, HeadTailProperties DEF h
    <3>2. RequestedIds' = Append(RequestedIds, h)
      BY <2>2 DEF h
    <3>3. InSeq(RequestedIds') = InSeq(RequestedIds) \cup {h}
      BY <1>0, <3>1, <3>2, AppendElements
    <3> QED
      BY <3>3 DEF h
  <2> QED
    BY <1>b, <1>c, <2>1, <2>3 DEF NoneVanishes
<1>3. CASE TakenInner
  <2>1. /\ downlink_queue # <<>> /\ downlink_queue' = Tail(downlink_queue)
        /\ packet' = Head(downlink_queue) /\ UNCHANGED <<enqueued, requested, lost>>
        /\ loop # "delay"
    BY <1>3 DEF TakenInner, PopInner, Fits
  <2>2. packet = 0
    BY <2>1 DEF DownlinkTypeOK
  <2> QED
    BY <1>0, <1>a, <1>b, <1>c, <2>1, <2>2 DEF NoneVanishes
<1>4. CASE HandedOver
  <2>1. /\ requested' = Append(requested, [packet |-> packet, at |-> now, time |-> now])
        /\ UNCHANGED <<enqueued, downlink_queue, lost>>
    BY <1>4 DEF HandedOver, queueVars
  <2>2. RequestedIds' = Append(RequestedIds, packet)
    BY <2>1, RequestAppends
  <2>3. InSeq(RequestedIds') = InSeq(RequestedIds) \cup {packet}
    BY <1>0, <2>2, AppendElements
  <2> QED
    BY <1>b, <2>1, <2>3 DEF NoneVanishes
<1>5. CASE Refused
  <2>1. /\ downlink_queue # <<>> /\ downlink_queue' = Tail(downlink_queue)
        /\ lost' = lost \cup {Head(downlink_queue)} /\ UNCHANGED <<enqueued, packet, requested>>
    BY <1>5 DEF Refused, PopTooSmall
  <2> QED
    BY <1>a, <1>b, <1>c, <2>1 DEF NoneVanishes
<1>6. CASE Untouched
  BY <1>6, <1>a, <1>b DEF Untouched, queueVars, NoneVanishes
<1> QED
  BY <1>1, <1>2, <1>3, <1>4, <1>5, <1>6, StepKinds

\* LossNeedsOversize, with what makes it inductive: a capacity below that of the
\* buffer, outside the delay, is the trace of an oversized packet that came before
\* everything that still waits.
LossInv ==
  /\ LossNeedsOversize
  /\ loop # "delay" /\ buf_capacity # BUFFER =>
       \E big \in lost : Size(big) > BUFFER /\ Below({big}, InSeq(downlink_queue))

LEMMA LossStep ==
  ASSUME DownlinkTypeOK, OrderInv, LossInv, [DownlinkNext]_downlinkVars
  PROVE  LossInv'
<1>0. /\ Len(enqueued) \in Nat /\ Ids \subseteq Nat \ {0} /\ packet \in Nat
      /\ downlink_queue \in Seq(Nat) /\ InSeq(downlink_queue) \subseteq Ids
      /\ lost \subseteq Ids
  BY NumberTypes DEF DownlinkTypeOK
<1>a. enqueued' = enqueued => \A id : Size(id)' = Size(id)
  BY DEF Size
<1>1. CASE Sent
  <2>1. PICK e \in Entry : enqueued' = Append(enqueued, e)
    BY <1>1 DEF Sent, Entry
  <2>2. \A id \in Ids : Size(id)' = Size(id)
    BY <2>1, EnqueueKeepsIds
  <2>3. InSeq(downlink_queue') = InSeq(downlink_queue) \cup {Len(enqueued) + 1}
    <3> DEFINE n == Len(enqueued) + 1
    <3>1. n \in Nat
      BY <1>0
    <3>2. downlink_queue' = Append(downlink_queue, n)
      BY <1>1 DEF Sent
    <3> HIDE DEF n
    <3>3. InSeq(downlink_queue') = InSeq(downlink_queue) \cup {n}
      BY <1>0, <3>1, <3>2, AppendElements
    <3> QED
      BY <3>3 DEF n
  <2>4. UNCHANGED <<loop, buf_capacity, lost>>
    BY <1>1 DEF Sent, downVars
  <2>5. LossNeedsOversize'
    BY <1>0, <2>2, <2>4 DEF LossInv, LossNeedsOversize
  <2>6. \A id \in Ids : id < Len(enqueued) + 1
    BY <1>0 DEF Ids
  <2>7. ASSUME loop # "delay", buf_capacity # BUFFER
        PROVE  \E big \in lost : Size(big)' > BUFFER /\ Below({big}, InSeq(downlink_queue'))
    <3>1. PICK big \in lost : Size(big) > BUFFER /\ Below({big}, InSeq(downlink_queue))
      BY <2>7 DEF LossInv
    <3>2. Size(big)' > BUFFER
      BY <1>0, <2>2, <3>1
    <3>3. Below({big}, InSeq(downlink_queue'))
      BY <1>0, <2>3, <2>6, <3>1 DEF Below
    <3> QED
      BY <3>2, <3>3
  <2> QED
    BY <2>4, <2>5, <2>7 DEF LossInv, Below
<1>2. CASE TakenOuter \/ HandedOver
  BY <1>2, <1>a DEF TakenOuter, PopOuter, HandedOver, queueVars, LossInv, LossNeedsOversize
<1>3. CASE TakenInner
  BY <1>3, <1>a DEF TakenInner, PopInner, LossInv, LossNeedsOversize
<1>4. CASE Refused
  <2> DEFINE h == Head(downlink_queue)
  <2>1. /\ downlink_queue # <<>> /\ downlink_queue' = Tail(downlink_queue)
        /\ lost' = lost \cup {h} /\ loop # "delay" /\ enqueued' = enqueued
        /\ ~(Size(h) <= buf_capacity)
    BY <1>4 DEF Refused, PopTooSmall, Fits
  <2>2. /\ InSeq(downlink_queue) = {h} \cup InSeq(downlink_queue')
        /\ Below({h}, InSeq(downlink_queue'))
    BY <1>0, <2>1, TailElements, TailIncreasing DEF OrderInv
  <2>3. h \in Ids
    BY <1>0, <2>2
  <2>4. Size(h) \in Nat /\ BUFFER \in Nat
    <3>0. enqueued \in Seq(Entry) /\ h \in 1 .. Len(enqueued)
      BY <2>3, TypeParts DEF WayTyped, Ids
    <3>1. enqueued[h] \in Entry
      BY <3>0, ElementOfSeq
    <3> QED
      BY <3>1, DownlinkAssumption DEF Entry, Size
  <2> HIDE DEF h
  <2>5. \E big \in lost' : Size(big) > BUFFER /\ big <= h /\ Below({big}, InSeq(downlink_queue'))
    <3>1. CASE Size(h) > BUFFER
      <4>1. h <= h
        BY <1>0, <2>3
      <4> QED
        BY <2>1, <2>2, <3>1, <4>1
    <3>2. CASE ~(Size(h) > BUFFER)
      <4>1. buf_capacity # BUFFER
        BY <2>1, <2>4, <3>2
      <4>2. PICK big \in lost : Size(big) > BUFFER /\ Below({big}, InSeq(downlink_queue))
        BY <2>1, <4>1 DEF LossInv
      <4>3. big < h /\ Below({big}, InSeq(downlink_queue'))
        BY <2>2, <4>2 DEF Below
      <4>4. big <= h
        BY <1>0, <2>3, <4>3
      <4> QED
        BY <2>1, <4>2, <4>3, <4>4
    <3> QED
      BY <3>1, <3>2
  <2>6. LossNeedsOversize'
    <3>1. \A id \in lost : \E big \in lost' : big <= id /\ Size(big) > BUFFER
      BY <2>1 DEF LossInv, LossNeedsOversize
    <3>2. \A id \in lost' : \E big \in lost' : big <= id /\ Size(big) > BUFFER
      BY <2>1, <2>5, <3>1
    <3> QED
      BY <1>a, <2>1, <3>2 DEF LossNeedsOversize
  <2> QED
    BY <1>a, <2>1, <2>5, <2>6 DEF LossInv, Below
<1>5. CASE Untouched
  BY <1>5, <1>a DEF Untouched, queueVars, LossInv, LossNeedsOversize, Below
<1> QED
  BY <1>1, <1>2, <1>3, <1>4, <1>5, StepKinds

\* No packet of the hub is mislaid on its way to jit_enqueue, for any commands,
\* replies and sizes: it waits, is in thread_down's hands, was requested, or was
\* refused, and that not before a packet came that is larger than the buffer.
THEOREM DownlinkNoneMislaid == DownlinkSpec => []NoneMislaid
<1>1. DownlinkInit => OrderInv /\ NoneVanishes /\ LossInv
  <2> SUFFICES ASSUME DownlinkInit PROVE OrderInv /\ NoneVanishes /\ LossInv
    OBVIOUS
  <2>1. /\ Len(requested) = 0 /\ Len(downlink_queue) = 0 /\ Held = {} /\ Len(enqueued) = 0
        /\ lost = {} /\ buf_capacity = BUFFER
    BY EmptySeq DEF DownlinkInit, Held
  <2>2. Len(RequestedIds) = 0 /\ Ids = {}
    BY <2>1 DEF RequestedIds, Ids
  <2>3. Increasing(RequestedIds) /\ Increasing(downlink_queue)
    BY <2>1, <2>2 DEF Increasing
  <2>4. InSeq(RequestedIds) = {} /\ InSeq(downlink_queue) = {}
    BY <2>1, <2>2 DEF InSeq
  <2>5. OrderInv
    BY <2>1, <2>3, <2>4 DEF OrderInv, Below
  <2> QED
    BY <2>1, <2>2, <2>5 DEF NoneVanishes, LossInv, LossNeedsOversize
<1>2. /\ DownlinkTypeOK /\ DownlinkTypeOK' /\ OrderInv /\ NoneVanishes /\ LossInv
      /\ [DownlinkNext]_downlinkVars
      => OrderInv' /\ NoneVanishes' /\ LossInv'
  BY OrderStep, NoneVanishesStep, LossStep
<1>3. DownlinkTypeOK /\ NoneVanishes /\ LossInv => NoneMislaid
  BY DEF NoneMislaid, LossInv
<1> QED
  BY <1>1, <1>2, <1>3, DownlinkTypeCorrect, PTL DEF DownlinkSpec
=============================================================================
