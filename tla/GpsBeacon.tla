----------------------------- MODULE GpsBeacon -----------------------------
(***************************************************************************)
(* The GPS time reference and the beacons.  Every second the receiver      *)
(* gives a pulse, at which the concentrator latches its counter, and sends *)
(* an NMEA RMC sentence with the UTC time and a UBX NAV-TIMEGPS message    *)
(* with the GPS time over a serial line.  thread_gps parses them and pairs *)
(* them with the latched counter (lgw_gps_sync); thread_valid watches the  *)
(* age of the reference; thread_down queues the next beacons at counter    *)
(* values computed from it; thread_jit sends them, or drops them.          *)
(*                                                                         *)
(* The unit of time is a second.  GPS, UTC and the host's clock all count  *)
(* the true seconds, the concentrator's counter wraps.  The rest of the    *)
(* JIT queue is left to JitQueue.  Coordinates are left out.               *)
(***************************************************************************)
EXTENDS Integers, Sequences, FiniteSets

CONSTANTS
  Epoch,                    \* the second at which the daemon starts
  RANGE,                    \* the counter wraps at this value (4295 s)
  TX_MAX_ADVANCE_DELAY,     \* jit_peek drops what lies further ahead (512 s)
  beacon_period,
  JIT_NUM_BEACON_IN_QUEUE,
  GPS_REF_MAX_AGE,
  XERR_INIT_AVG,
  Saturates,    \* the result of (uint32_t) of a negative double: 0, or it wraps
  MaxLost,      \* the longest time without GPS, in seconds
  Calm,         \* seconds with GPS between two faults of the receiver
  MaxTime       \* bound: seconds

ASSUME GpsBeaconAssumption ==
  /\ RANGE \in Nat \ {0} /\ TX_MAX_ADVANCE_DELAY \in 1 .. RANGE
  /\ beacon_period \in Nat \ {0} /\ JIT_NUM_BEACON_IN_QUEUE \in Nat \ {0}
  /\ GPS_REF_MAX_AGE \in Nat
  /\ Epoch \in Nat /\ Epoch > GPS_REF_MAX_AGE /\ Epoch >= RANGE    \* years of UTC
  /\ XERR_INIT_AVG \in Nat \ {0} /\ Saturates \subseteq BOOLEAN /\ Saturates # {}
  /\ MaxTime \in Nat /\ MaxLost \in Nat /\ Calm \in Nat

VARIABLES
  sec,                      \* the true time
  trig,                     \* the counter latched at the last pulse
  serial,                   \* messages on the line
  gps_utc, gps_tow, gps_time_ok,     \* the results of parsing
  time_reference_gps, aber_min1, aber_min2,
  gps_ref_valid, init_cpt, xtal_correct_ok, checked,    \* thread_valid
  down, beacon_loop, retry, last_beacon, next_beacon,   \* thread_down
  queue,                    \* the beacons in jit_queue[0]
  sent,                     \* history: the last beacon sent, and when
  behind,                   \* history: thread_down was busy when this second began
  outage,                   \* history: seconds without GPS up to now
  calm                      \* history: seconds with GPS since the last fault, up to Calm

receiver == <<sec, trig, serial, behind, outage, calm>>
parser == <<gps_utc, gps_tow, gps_time_ok>>
reference == <<time_reference_gps, aber_min1, aber_min2>>
validity == <<gps_ref_valid, init_cpt, xtal_correct_ok, checked>>
beacons == <<down, beacon_loop, retry, last_beacon, next_beacon, queue, sent>>
gpsVars == <<receiver, parser, reference, validity, beacons>>

Counter == (sec - Epoch) % RANGE
None == [gps |-> 0, count |-> 0]

GpsInit ==
  /\ sec = Epoch /\ trig = 0 /\ serial = <<>> /\ behind = FALSE /\ outage = 0 /\ calm = Calm
  /\ gps_utc = 0 /\ gps_tow = 0 /\ gps_time_ok = FALSE
  /\ time_reference_gps = [systime |-> 0, count |-> 0, utc |-> 0, gps |-> 0]
  /\ aber_min1 = FALSE /\ aber_min2 = FALSE
  /\ gps_ref_valid = FALSE /\ init_cpt = 0 /\ xtal_correct_ok = FALSE /\ checked = Epoch
  /\ down = "idle" /\ beacon_loop = 0 /\ retry = 0 /\ last_beacon = 0 /\ next_beacon = None
  /\ queue = {} /\ sent = [gps |-> 0, at |-> 0]

\* jit_peek: a counter value this far ahead is taken for one that was missed.
Outdated(b) == (b.count - Counter) % RANGE >= TX_MAX_ADVANCE_DELAY

-----------------------------------------------------------------------------
(* The receiver                                                            *)

Messages(fix) == <<[kind |-> "RMC", time |-> sec', fix |-> fix],
                   [kind |-> "UBX", time |-> sec', fix |-> fix]>>

\* thread_down is in its beacon loop, or about to enter it.
Busy == \/ down # "idle"
        \/ Cardinality(queue) < JIT_NUM_BEACON_IN_QUEUE /\ gps_ref_valid /\ xtal_correct_ok

\* One thing goes wrong, and none did for a while.
Fault == calm = Calm /\ calm' = 0
NoFault == calm' = IF calm < Calm THEN calm + 1 ELSE calm

\* A second passes.  The messages of the second before may still wait to be parsed; the
\* pulse or a message may fail; or the receiver has no fix and gives no pulse.  Beacons
\* that were due have been sent, outdated ones dropped, and the retries of thread_down,
\* which do not sleep, are done.
Pulse ==
  /\ sec < Epoch + MaxTime /\ sec' = sec + 1
  /\ checked = sec /\ Len(serial) <= 2
  /\ ~\E b \in queue : b.count = Counter \/ Outdated(b)
  /\ (down = "idle" \/ retry = 0) /\ ~(behind /\ Busy) /\ behind' = Busy
  /\ \/ /\ IF serial = <<>> THEN NoFault ELSE Fault
        /\ trig' = Counter' /\ serial' = serial \o Messages(TRUE) /\ outage' = 0
     \/ /\ serial = <<>> /\ Fault
        /\ serial' = Messages(TRUE) /\ outage' = 0 /\ UNCHANGED trig
     \/ /\ serial = <<>> /\ Fault
        /\ \E m \in {1, 2} : serial' = <<Messages(TRUE)[m]>>
        /\ trig' = Counter' /\ outage' = 0
     \/ /\ IF serial = <<>> THEN UNCHANGED calm ELSE Fault
        /\ outage < MaxLost /\ outage' = outage + 1
        /\ serial' = serial \o Messages(FALSE) /\ UNCHANGED trig
  /\ UNCHANGED <<parser, reference, validity, beacons>>

-----------------------------------------------------------------------------
(* thread_gps                                                              *)

\* lgw_parse_nmea of an RMC sentence: without a fix, the time is the receiver's estimate.
lgw_parse_nmea(m) == gps_utc' = m.time /\ gps_time_ok' = m.fix

\* lgw_parse_ubx of a NAV-TIMEGPS message
lgw_parse_ubx(m) == gps_tow' = (IF m.fix THEN m.time ELSE gps_tow) /\ gps_time_ok' = m.fix

\* Mutant: an aberrant value replaces the reference at once.
Reset_Always == TRUE

\* The two values before this one were aberrant too.
Reset == aber_min1 /\ aber_min2

\* The slope between the reference and a new pair is out of range.
Aberrant(count, utc) ==
  LET utc_diff == utc - time_reference_gps.utc
  IN  utc_diff = 0 \/ (count - time_reference_gps.count) % RANGE # utc_diff

\* A pair is taken when it agrees with the reference, or when it is the third in a
\* row that does not.
lgw_gps_sync(count, utc, gps) ==
  LET aber_n0 == Aberrant(count, utc)
  IN  /\ time_reference_gps' =
           IF ~aber_n0 \/ Reset
           THEN [systime |-> sec, count |-> count, utc |-> utc, gps |-> gps]
           ELSE time_reference_gps
      /\ aber_min2' = aber_min1 /\ aber_min1' = aber_n0

\* The last message parsed gave a valid time.
lgw_gps_get == gps_time_ok'

\* The GPS time is paired with the UTC time of the last RMC sentence and with the counter
\* latched at the last pulse, whichever seconds these belong to by now.
gps_process_sync ==
  IF lgw_gps_get THEN lgw_gps_sync(trig, gps_utc, gps_tow') ELSE UNCHANGED reference

\* A message is taken from the line.
thread_gps ==
  /\ serial # <<>> /\ serial' = Tail(serial)
  /\ \/ /\ Head(serial).kind = "RMC" /\ lgw_parse_nmea(Head(serial))
        /\ UNCHANGED <<gps_tow, reference>>
     \/ /\ Head(serial).kind = "UBX" /\ lgw_parse_ubx(Head(serial))
        /\ gps_process_sync /\ UNCHANGED gps_utc
  /\ UNCHANGED <<sec, trig, behind, outage, calm, validity, beacons>>

-----------------------------------------------------------------------------
(* thread_valid, once a second                                             *)

thread_valid ==
  /\ checked < sec /\ checked' = sec
  /\ LET age == sec - time_reference_gps.systime
         valid == age \in 0 .. GPS_REF_MAX_AGE
     IN  /\ gps_ref_valid' = valid
         /\ IF ~valid THEN xtal_correct_ok' = FALSE /\ init_cpt' = 0
            ELSE /\ init_cpt' = IF init_cpt <= XERR_INIT_AVG THEN init_cpt + 1 ELSE init_cpt
                 /\ xtal_correct_ok' = (xtal_correct_ok \/ init_cpt = XERR_INIT_AVG)
  /\ UNCHANGED <<receiver, parser, reference, beacons>>

-----------------------------------------------------------------------------
(* The beacons in thread_down and thread_jit                               *)

BeginLoop ==
  /\ down = "idle" /\ Cardinality(queue) < JIT_NUM_BEACON_IN_QUEUE
  /\ gps_ref_valid /\ xtal_correct_ok
  /\ beacon_loop' = JIT_NUM_BEACON_IN_QUEUE - Cardinality(queue) /\ retry' = 0
  /\ down' = "compute"
  /\ UNCHANGED <<receiver, parser, reference, validity, last_beacon, next_beacon, queue, sent>>

\* Mutant: the first beacon is a period after the reference, not on the grid.
FirstBeacon_Unaligned(now) == now + beacon_period

\* The first slot after the reference
FirstBeacon(now) == now + (beacon_period - (now % beacon_period))

\* lgw_gps2cnt: a time before the reference is a negative double converted to uint32_t.
BeaconCounts(gps) ==
  LET delta == gps - time_reference_gps.gps
  IN  {(time_reference_gps.count + (IF s /\ delta < 0 THEN 0 ELSE delta)) % RANGE : s \in Saturates}

\* Under mx_timeref: the time of the next beacon and its counter value
ComputeBeacon ==
  /\ down = "compute"
  /\ IF gps_ref_valid /\ xtal_correct_ok
     THEN LET gps == (IF last_beacon = 0 THEN FirstBeacon(time_reference_gps.gps)
                      ELSE last_beacon + beacon_period) + retry * beacon_period
          IN  /\ \E c \in BeaconCounts(gps) : next_beacon' = [gps |-> gps, count |-> c]
              /\ down' = "enqueue"
     ELSE down' = "idle" /\ UNCHANGED next_beacon
  /\ UNCHANGED <<receiver, parser, reference, validity, beacon_loop, retry, last_beacon,
                 queue, sent>>

\* jit_enqueue for a beacon: what is due now is too late, but nothing is too early,
\* and a counter value in the past is one far ahead.
Accepted(b) == b.count # Counter /\ \A q \in queue : q.count # b.count

EnqueueBeacon ==
  /\ down = "enqueue"
  /\ IF Accepted(next_beacon)
     THEN /\ queue' = queue \cup {next_beacon} /\ last_beacon' = next_beacon.gps
          /\ beacon_loop' = beacon_loop - 1 /\ retry' = 0
          /\ down' = IF beacon_loop = 1 THEN "idle" ELSE "compute"
     ELSE /\ retry' = retry + 1 /\ down' = "compute"
          /\ UNCHANGED <<queue, last_beacon, beacon_loop>>
  /\ next_beacon' = None
  /\ UNCHANGED <<receiver, parser, reference, validity, sent>>

\* jit_peek in thread_jit: what is too far ahead is dropped, what is due is sent.
DropBeacon ==
  \E b \in queue :
    /\ Outdated(b) /\ queue' = queue \ {b}
    /\ UNCHANGED <<receiver, parser, reference, validity, down, beacon_loop, retry,
                   last_beacon, next_beacon, sent>>

SendBeacon ==
  \E b \in queue :
    /\ b.count = Counter /\ queue' = queue \ {b} /\ sent' = [gps |-> b.gps, at |-> sec]
    /\ UNCHANGED <<receiver, parser, reference, validity, down, beacon_loop, retry,
                   last_beacon, next_beacon>>

GpsNext ==
  \/ Pulse
  \/ thread_gps
  \/ thread_valid
  \/ BeginLoop \/ ComputeBeacon \/ EnqueueBeacon
  \/ DropBeacon \/ SendBeacon

GpsSpec == GpsInit /\ [][GpsNext]_gpsVars

-----------------------------------------------------------------------------
(* Properties                                                              *)

\* What the properties rest on: between two faults of the receiver come three good seconds,
\* the longest time without GPS is short against the averaging of thread_valid.
FaultsAreRare ==
  Calm >= 3 /\ XERR_INIT_AVG >= 2 * MaxLost + 4 /\ RANGE > 2 * MaxLost + 3

\* A reference stays valid for the longest time without GPS; the counter tells the beacons
\* ahead from those missed in that time; and a full queue lies within the horizon.
BeaconsFit ==
  /\ GPS_REF_MAX_AGE >= 2 * MaxLost + 3
  /\ TX_MAX_ADVANCE_DELAY + 2 * MaxLost + 5 <= RANGE
  /\ (JIT_NUM_BEACON_IN_QUEUE + 1) * beacon_period < TX_MAX_ADVANCE_DELAY

\* A beacon is sent at the second its payload says, on a multiple of the period,
\* whatever pulses and messages failed and also after times without GPS.
BeaconOnTime == sent.gps = sent.at /\ sent.gps % beacon_period = 0

\* The reference pairs a GPS second with the counter of that second whenever it has
\* been valid long enough for beacons to be queued from it.
ReferenceRight ==
  xtal_correct_ok /\ gps_ref_valid =>
    (time_reference_gps.gps - Epoch) % RANGE = time_reference_gps.count
=============================================================================
