------------------------------ MODULE FineTime ------------------------------
(***************************************************************************)
(* The fine timestamp of loragw_sx1302_timestamp.c.  The chip latches its  *)
(* counter at every pulse per second of the GPS receiver; the host saves   *)
(* what it finds latched in a ring, timestamp_pps_history, and dates a     *)
(* packet from the last pulse before it: the one latched now, or an older  *)
(* one of the ring when a pulse came after the packet.                     *)
(* Pulses may be missed, by the receiver or by a host that reads too late, *)
(* but the newest entry of the ring is at most MaxGap seconds old.  (After *)
(* 134 seconds without a pulse the counter has come round, and entries of  *)
(* the ring pass for pulses just before the packet.)                       *)
(***************************************************************************)
EXTENDS Integers

CONSTANTS
  SECOND,        \* counter ticks between two pulses (32e6)
  COUNTER_RANGE, \* the counter wraps at this value (2^32)
  MAX_TIMESTAMP_PPS_HISTORY,
  MaxTicks,      \* bound on time
  MaxAge,        \* bound on how long a packet waits to be parsed
  MaxGap         \* bound on the seconds between two pulses that are seen

ASSUME FineTimeAssumption ==
  /\ SECOND \in Nat \ {0, 1} /\ MAX_TIMESTAMP_PPS_HISTORY \in Nat \ {0, 1}
  /\ COUNTER_RANGE \in Nat \ {0} /\ MaxGap \in Nat /\ MaxAge \in Nat
  /\ COUNTER_RANGE > SECOND * (MAX_TIMESTAMP_PPS_HISTORY * MaxGap + 2) + MaxAge
  /\ MaxAge < SECOND * (MAX_TIMESTAMP_PPS_HISTORY - 2)   \* what was latched at first is older

VARIABLES
  ticks,         \* the time, in ticks, never wrapping
  pulse,         \* when the last pulse was latched; 0 if none was yet
  history, idx, size,   \* timestamp_pps_history; the entries with their true time
  fine           \* the last result: when the packet came and the pulse it was dated from

fineVars == <<ticks, pulse, history, idx, size, fine>>

NoResult == [at |-> 0, ref |-> -1]

FineInit ==
  /\ ticks = 0 /\ pulse = 0 /\ fine = NoResult
  /\ history = [i \in 0 .. MAX_TIMESTAMP_PPS_HISTORY - 1 |-> 0] /\ idx = 0 /\ size = 0

\* A difference of counters, unsigned
Since(a, b) == (a - b) % COUNTER_RANGE

\* The seconds are not aligned with the counter.
OnSecond(t) == t % SECOND = 1

\* Time passes; on the second the pulse is latched, or it is missed.
Second ==
  /\ ticks < MaxTicks /\ ticks' = ticks + 1
  /\ size > 0 => ticks' - history[idx] < SECOND * MaxGap
  /\ \/ OnSecond(ticks') /\ pulse' = ticks'
     \/ UNCHANGED pulse
  /\ fine' = NoResult /\ UNCHANGED <<history, idx, size>>

NextIndex == IF size > 0 THEN (idx + 1) % MAX_TIMESTAMP_PPS_HISTORY ELSE idx

\* timestamp_pps_history_save of what is latched
timestamp_pps_history_save ==
  IF pulse % COUNTER_RANGE # history[idx] % COUNTER_RANGE \/ size = 0
  THEN /\ idx' = NextIndex
       /\ history' = [history EXCEPT ![NextIndex] = pulse]
       /\ size' = IF size < MAX_TIMESTAMP_PPS_HISTORY THEN size + 1 ELSE size
  ELSE UNCHANGED <<history, idx, size>>

\* timestamp_counter_get, called at every fetch and by the other threads
timestamp_counter_get ==
  /\ timestamp_pps_history_save /\ fine' = NoResult
  /\ UNCHANGED <<ticks, pulse>>

\* xtal_correct lies between 0.8 and 1.2.
ValidSecond(a, b) == LET d == Since(b, a) IN 10 * SECOND <= 12 * d /\ 8 * d <= 10 * SECOND

\* Mutant: a pulse exactly one second before the packet, or any later one, is accepted.
Before_Any(cnt, ref) == TRUE

Before(cnt, ref) == Since(cnt, ref) < SECOND

\* The first entry in array order that fits; the next one dates the crystal's error.
Rewound(cnt, h) ==
  LET fits == {i \in DOMAIN h : Before(cnt, h[i])}
      i == CHOOSE j \in fits : \A k \in fits : j <= k
      n == (i + 1) % MAX_TIMESTAMP_PPS_HISTORY
  IN  IF fits = {} \/ ~ValidSecond(h[i], h[n]) THEN -1 ELSE h[i]

\* The pulse just read is the reference; the crystal's error comes from the one before.
Latest(h, i) ==
  LET p == (i - 1) % MAX_TIMESTAMP_PPS_HISTORY
  IN  IF ValidSecond(h[p], h[i]) THEN pulse ELSE -1

\* precise_timestamp_calculate for a packet that came at time at; the reading of the
\* latched counter does not fail.
precise_timestamp_calculate ==
  \E at \in {t \in 0 .. ticks : ticks - t <= MaxAge} :
    IF size < MAX_TIMESTAMP_PPS_HISTORY
    THEN fine' = [at |-> at, ref |-> -1] /\ UNCHANGED <<ticks, pulse, history, idx, size>>
    ELSE /\ timestamp_pps_history_save
         /\ fine' = [at |-> at,
                     ref |-> IF Since(at, pulse) > SECOND THEN Rewound(at, history')
                             ELSE Latest(history', idx')]
         /\ UNCHANGED <<ticks, pulse>>

FineNext == Second \/ timestamp_counter_get \/ precise_timestamp_calculate

FineSpec == FineInit /\ [][FineNext]_fineVars

-----------------------------------------------------------------------------

\* A fine timestamp is counted from the last second before the packet, whatever pulses
\* were missed, wherever in the ring the second is and wherever the counter wrapped.
FineRight ==
  fine.ref # -1 => OnSecond(fine.ref) /\ fine.at - fine.ref \in 0 .. SECOND
=============================================================================
