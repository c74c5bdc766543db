----------------------------- MODULE HalReceive -----------------------------
(***************************************************************************)
(* The receiving side of libloragw: the packet FIFO of the SX1302, the     *)
(* buffer the host copies it to (loragw_sx1302_rx.c), the expansion of its *)
(* 27-bit microsecond counter (loragw_sx1302_timestamp.c), lgw_receive     *)
(* with the removal of double demodulations (loragw_hal.c), and the way    *)
(* thread_up bears with errors.                                            *)
(*                                                                         *)
(* The chip runs on while the host reads it: time passes and packets       *)
(* arrive between the fetch, the reading of the counter and the parsing.   *)
(* A frame in the FIFO is                                                  *)
(*   "good"   a packet as it should be                                     *)
(*   "noise"  bytes that do not begin with the syncword                    *)
(*   "bad"    cut short or with a wrong checksum (LGW_REG_WARNING)         *)
(*   "alien"  modem, channel or spreading factor out of range              *)
(*   "crc16"  its payload CRC fails on the host                            *)
(* Bytes, payloads and radio parameters are left out.                      *)
(***************************************************************************)
EXTENDS Integers, Sequences, SequencesExt

CONSTANTS
  COUNTER,       \* the free-running counter wraps at this value (2^27)
  WRAPS,         \* wraps counted (32): COUNTER * WRAPS is the 32-bit range
  FTIME,         \* CONTEXT_FINE_TIMESTAMP.enable: demodulate twice
  max_pkt,       \* packets asked for in one call of lgw_receive
  MAX_CONSECUTIVE_RX_ERRORS,
  Kinds,         \* the kinds of frames that occur
  MaxTime, MaxFrames, MaxBusFaults   \* bounds: time, frames, failed bus reads

ASSUME HalReceiveAssumption ==
  /\ COUNTER \in Nat \ {0, 1} /\ WRAPS \in Nat \ {0, 1}
  /\ FTIME \in BOOLEAN /\ max_pkt \in Nat \ {0}
  /\ MAX_CONSECUTIVE_RX_ERRORS \in Nat \ {0}
  /\ MaxTime \in Nat /\ MaxFrames \in Nat /\ MaxBusFaults \in Nat

VARIABLES
  now,           \* the time in the chip, in microseconds, never wrapping
  fifo,          \* frames in the chip
  rx_buffer,     \* frames copied to the host; buffer_pkt_nb is its length
  ref, wrap,     \* counter_us_27bits_ref and _wrap of the free-running counter
  up,            \* where thread_up is: "idle", "fetched", "updated", "exited"
  errors,        \* consecutive_rx_errors
  batch,         \* pkt_data as the last lgw_receive returned it
  readAt,        \* history: when the counter was read last
  stale,         \* history: the counter could not be read in this call
  received,      \* history: number of packets the chip received
  delivered,     \* history: packets returned, in order
  lost,          \* history: good packets dropped
  damaged,       \* history: frames received that were not good
  faults         \* history: bus reads that failed

rxVars == <<now, fifo, rx_buffer, ref, wrap, up, errors, batch, readAt, stale,
            received, delivered, lost, damaged, faults>>

HalInit ==
  /\ now = 0 /\ fifo = <<>> /\ rx_buffer = <<>>
  /\ ref = 0 /\ wrap = 0                        \* timestamp_counter_new
  /\ up = "idle" /\ errors = 0 /\ batch = <<>>
  /\ readAt = 0 /\ stale = FALSE
  /\ received = 0 /\ delivered = <<>> /\ lost = {} /\ damaged = {} /\ faults = 0

-----------------------------------------------------------------------------
(* The chip                                                                *)

Pending == Range(fifo) \cup Range(rx_buffer)

\* Time passes.  The upper layer polls often enough: the counter is read, and a
\* packet taken out of the buffers, before the counter has gone round.
Tick ==
  /\ now < MaxTime /\ now' = now + 1
  /\ now + 1 - readAt < COUNTER
  /\ \A f \in Pending : now + 1 - f.at < COUNTER
  /\ UNCHANGED <<fifo, rx_buffer, ref, wrap, up, errors, batch, readAt, stale,
                 received, delivered, lost, damaged, faults>>

Frame(kind, ftime, crc) ==
  [id |-> received + 1, at |-> now, kind |-> kind, ftime |-> ftime, crc |-> crc]

\* What one reception leaves in the FIFO: a frame, or the two demodulations of a
\* packet, one of them with a fine timestamp; the CRC of either may be bad.
Arrivals ==
  LET twins == FTIME /\ "good" \in Kinds
      Twins == {<<Frame("good", FALSE, crc[1]), Frame("good", TRUE, crc[2])>> : crc \in BOOLEAN \X BOOLEAN}
  IN  {<<Frame(k, FALSE, TRUE)>> : k \in IF twins THEN Kinds \ {"good"} ELSE Kinds}
        \cup (IF twins THEN Twins ELSE {})

Arrive ==
  /\ received < MaxFrames /\ received' = received + 1
  /\ \E frames \in Arrivals :
       /\ fifo' = fifo \o frames
       /\ damaged' = IF frames[1].kind = "good" THEN damaged ELSE damaged \cup {received + 1}
  /\ UNCHANGED <<now, rx_buffer, ref, wrap, up, errors, batch, readAt, stale,
                 delivered, lost, faults>>

-----------------------------------------------------------------------------
(* The buffer and the counter                                              *)

GoodIds(s) == {f.id : f \in {g \in Range(s) : g.kind = "good"}}

\* What rx_buffer_fetch keeps of the bytes read: it moves to the first syncword,
\* and drops everything when a later frame does not begin with one.
rx_buffer_fetch(bytes) ==
  LET sync == SelectInSeq(bytes, LAMBDA f : f.kind # "noise")
      rest == IF sync = 0 THEN <<>> ELSE SubSeq(bytes, sync, Len(bytes))
  IN  IF \E f \in Range(rest) : f.kind = "noise" THEN <<>> ELSE rest

\* timestamp_counter_get and timestamp_counter_update, at time t
timestamp_counter_update(t) ==
  LET inst == t % COUNTER
  IN  /\ wrap' = IF inst < ref THEN (wrap + 1) % WRAPS ELSE wrap
      /\ ref' = inst /\ readAt' = t

\* Mutant: the wrap count is always the current one.
timestamp_pkt_expand_Current(at) == wrap * COUNTER + (at % COUNTER)

timestamp_pkt_expand(at) ==
  LET pkt == at % COUNTER
  IN  ((wrap - (IF ref >= pkt THEN 0 ELSE 1)) % WRAPS) * COUNTER + pkt

timestamp_counter_expand == wrap * COUNTER + ref

-----------------------------------------------------------------------------
(* Parsing and merging                                                     *)

\* rx_buffer_pop and sx1302_parse of a frame
ParseResult(f) == CASE f.kind = "good" -> "LGW_REG_SUCCESS"
                    [] f.kind = "bad" -> "LGW_REG_WARNING"
                    [] OTHER -> "LGW_REG_ERROR"

\* The end of sx1302_parse: the time of the packet, expanded to 32 bits.  The
\* correction for the latency of the modem is the same for both copies of a packet.
count_us(f) == timestamp_pkt_expand(f.at)

sx1302_parse(f) == [id |-> f.id, at |-> f.at, count_us |-> count_us(f),
                    ftime |-> f.ftime /\ f.crc, crc |-> f.crc]

is_same_pkt(p, q) == p.id = q.id /\ p.count_us = q.count_us

\* Mutant: the first of two is always the duplicate.
Duplicate_First(p, j, k) == j

\* The index to delete: the one with a bad CRC, else the one without fine timestamp.
Duplicate(p, j, k) ==
  CASE p[j].crc /\ ~p[k].crc -> k
    [] ~p[j].crc /\ p[k].crc -> j
    [] OTHER -> IF p[j].ftime THEN k ELSE j

\* The last packet takes the place of the one removed.
remove_pkt(p, i) == [j \in 1 .. Len(p) - 1 |-> IF j = i THEN p[Len(p)] ELSE p[j]]

\* The pairs of copies, j before k, and the first the two loops meet
Copies(p) == {jk \in (1 .. Len(p)) \X (1 .. Len(p)) :
                jk[1] < jk[2] /\ is_same_pkt(p[jk[1]], p[jk[2]])}
FirstCopies(p) == CHOOSE jk \in Copies(p) : \A o \in Copies(p) :
                    jk[1] < o[1] \/ (jk[1] = o[1] /\ jk[2] <= o[2])

\* One search, to the first pair of copies
Search(p) ==
  IF Copies(p) = {} THEN p
  ELSE remove_pkt(p, Duplicate(p, FirstCopies(p)[1], FirstCopies(p)[2]))

\* The search restarts after every removal, of which there are fewer than packets.
remove_duplicates(p) ==
  LET rounds[n \in 0 .. Len(p)] == IF n = 0 THEN p ELSE Search(rounds[n - 1])
  IN  rounds[Len(p)]

\* Mutant: the sort is left out.
merge_packets_Unsorted(p) == {remove_duplicates(p)}

\* compare_pkt_tmst takes the difference as a signed 32-bit number; the order in which
\* qsort_r leaves packets of the same time is open.
InOrder(a, b) ==
  LET R == COUNTER * WRAPS
  IN  (b.count_us - a.count_us) % R \in 0 .. R \div 2 - 1

merge_packets(p) ==
  LET q == remove_duplicates(p)
      orders == {f \in Bijection(1 .. Len(q), 1 .. Len(q)) :
                   \A i, j \in 1 .. Len(q) : i < j => InOrder(q[f[i]], q[f[j]])}
  IN  {[i \in 1 .. Len(q) |-> q[f[i]]] : f \in orders}

-----------------------------------------------------------------------------
(* lgw_receive, as thread_up calls it                                      *)

\* Mutant: thread_up never gives up.
Fail_Endless == up' = "idle" /\ UNCHANGED errors

\* An error: thread_up tries again, and gives up after too many in a row.
Fail ==
  /\ errors' = errors + 1
  /\ up' = IF errors + 1 >= MAX_CONSECUTIVE_RX_ERRORS THEN "exited" ELSE "idle"

\* sx1302_fetch: the chip is only read when the buffer is used up.
sx1302_fetch ==
  /\ up = "idle"
  /\ IF rx_buffer # <<>> THEN UNCHANGED <<rx_buffer, fifo, lost>>
     ELSE /\ rx_buffer' = rx_buffer_fetch(fifo) /\ fifo' = <<>>
          /\ lost' = lost \cup (GoodIds(fifo) \ GoodIds(rx_buffer'))
  /\ up' = "fetched" /\ batch' = <<>> /\ stale' = FALSE
  /\ UNCHANGED <<now, ref, wrap, errors, readAt, received, delivered, damaged, faults>>

FetchFails ==
  /\ up = "idle" /\ rx_buffer = <<>> /\ fifo # <<>>
  /\ faults < MaxBusFaults /\ faults' = faults + 1
  /\ Fail /\ batch' = <<>>
  /\ UNCHANGED <<now, fifo, rx_buffer, ref, wrap, readAt, stale, received, delivered,
                 lost, damaged>>

\* sx1302_update: that the counter could not be read goes unnoticed.
sx1302_update ==
  /\ up = "fetched" /\ up' = "updated"
  /\ \/ timestamp_counter_update(now) /\ UNCHANGED <<stale, faults>>
     \/ /\ faults < MaxBusFaults /\ faults' = faults + 1
        /\ stale' = TRUE /\ UNCHANGED <<ref, wrap, readAt>>
  /\ UNCHANGED <<now, fifo, rx_buffer, errors, batch, received, delivered, lost, damaged>>

\* The rest of lgw_receive: parse until max_pkt, or until a frame that fails.  A
\* warning drops the whole buffer and everything parsed in this call; an error
\* drops what was parsed, and leaves the frame in place unless it was popped.
lgw_receive ==
  /\ up = "updated"
  /\ LET n == IF Len(rx_buffer) <= max_pkt THEN Len(rx_buffer) ELSE max_pkt
         failing == SelectInSeq(SubSeq(rx_buffer, 1, n), LAMBDA f : ParseResult(f) # "LGW_REG_SUCCESS")
         found == [i \in 1 .. n |-> sx1302_parse(rx_buffer[i])]
         merged == IF FTIME THEN merge_packets(found) ELSE {found}
         Rest(k) == SubSeq(rx_buffer, k, Len(rx_buffer))
     IN  IF failing = 0
         THEN /\ batch' \in merged /\ delivered' = delivered \o [i \in DOMAIN batch' |-> batch'[i].id]
              /\ rx_buffer' = Rest(n + 1)
              /\ up' = "idle" /\ errors' = 0 /\ UNCHANGED lost
         ELSE /\ LET warned == ParseResult(rx_buffer[failing]) = "LGW_REG_WARNING"
                     popped == rx_buffer[failing].kind = "crc16"
                 IN  /\ rx_buffer' = CASE warned -> <<>>
                                       [] popped -> Rest(failing + 1)
                                       [] OTHER -> Rest(failing)
                     /\ IF warned THEN up' = "idle" /\ errors' = 0 ELSE Fail
              /\ lost' = lost \cup (GoodIds(rx_buffer) \ GoodIds(rx_buffer'))
              /\ batch' = <<>> /\ UNCHANGED delivered
  /\ UNCHANGED <<now, fifo, ref, wrap, readAt, stale, received, damaged, faults>>

\* lgw_get_instcnt or lgw_get_trigcnt from another thread, which has mx_concent
\* between two calls of lgw_receive.
sx1302_timestamp_counter ==
  /\ up = "idle" /\ timestamp_counter_update(now)
  /\ UNCHANGED <<now, fifo, rx_buffer, up, errors, batch, stale, received, delivered,
                 lost, damaged, faults>>

HalNext ==
  \/ Tick \/ Arrive
  \/ sx1302_fetch \/ FetchFails \/ sx1302_update \/ lgw_receive
  \/ sx1302_timestamp_counter

HalSpec == HalInit /\ [][HalNext]_rxVars

\* thread_up polls for as long as the daemon runs.  One of its steps is enabled unless
\* it has exited, and each changes up: this is their weak fairness, without ENABLED.
FairHalSpec == HalSpec /\ ([]<>(up = "exited") \/ []<><<TRUE>>_up)

-----------------------------------------------------------------------------
(* Properties                                                              *)

HalTypeOK ==
  /\ now \in 0 .. MaxTime /\ ref \in 0 .. COUNTER - 1 /\ wrap \in 0 .. WRAPS - 1
  /\ up \in {"idle", "fetched", "updated", "exited"}
  /\ errors \in 0 .. MAX_CONSECUTIVE_RX_ERRORS
  /\ lost \subseteq 1 .. MaxFrames /\ faults \in 0 .. MaxBusFaults
  /\ Len(batch) <= max_pkt

\* timestamp_pkt_expand gives a packet the 32-bit time at which it was received,
\* wherever the 27-bit counter wrapped between its reception and the reading of
\* the counter; unless the counter could not be read.
CountRight ==
  \A p \in Range(batch) : stale \/ p.count_us = p.at % (COUNTER * WRAPS)

\* The counter handed to the other threads is the time it was read, in 32 bits.
CounterRight == timestamp_counter_expand = readAt % (COUNTER * WRAPS)

\* merge_packets returns one copy of a packet, and packets in the order of their
\* reception, also when the 32-bit counter wraps among them.
Merged ==
  \A i, j \in DOMAIN batch :
    i < j => batch[i].id # batch[j].id /\ (stale \/ batch[i].at <= batch[j].at)

\* Of the two demodulations of a packet that are parsed in one call, one with a good
\* CRC is kept if there is one.
BestKept ==
  [][up = "updated" =>
       \A p \in Range(batch'), i \in 1 .. max_pkt :
         i \in DOMAIN rx_buffer /\ rx_buffer[i].id = p.id /\ rx_buffer[i].crc => p.crc]_rxVars

\* No packet is forgotten: each one received is in the chip, in the buffer, returned,
\* or was dropped along with a frame that was damaged.
PacketsAccounted ==
  /\ 1 .. received \ damaged
       \subseteq {f.id : f \in Pending} \cup lost \cup Range(delivered)
  /\ lost # {} => damaged # {}

\* The buffer and the chip are emptied, unless the daemon gives up.
EventuallyRead == Pending # {} ~> (Pending = {} \/ up = "exited")

\* The two together: the times of the packets and the time told to the daemon's
\* threads are those of reception and of the reading, in every wrap of either counter.
TimesRight == CountRight /\ CounterRight

\* What lgw_receive returns is well formed, in order and without copies, and
\* leaves nothing out.
BatchRight == HalTypeOK /\ Merged /\ PacketsAccounted
=============================================================================
