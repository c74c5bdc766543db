------------------------------ MODULE GpsTime ------------------------------
(***************************************************************************)
(* loragw_gps.c: conversions between the concentrator's counter and UTC or *)
(* GPS time, from a reference in which both are known.                     *)
(*                                                                         *)
(* A time is a record of seconds and nanoseconds, of which a second has    *)
(* NSEC.  The counter counts CPS per second, that is TS_CPS times the      *)
(* xtal_err of the reference, and wraps at WRAP.                          *)
(***************************************************************************)
EXTENDS Integers

CONSTANTS CPS, NSEC, WRAP

ASSUME GpsTimeAssumption ==
  /\ {CPS, NSEC, WRAP} \subseteq Nat \ {0} /\ CPS < NSEC /\ CPS < WRAP

Times == [sec : Nat, nsec : 0 .. NSEC - 1]
Nsec(t) == t.sec * NSEC + t.nsec

\* A reference time and a delay, with the carry
Plus(t, sec, nsec) ==
  IF t.nsec + nsec < NSEC THEN [sec |-> t.sec + sec, nsec |-> t.nsec + nsec]
  ELSE [sec |-> t.sec + sec + 1, nsec |-> t.nsec + nsec - NSEC]

\* The difference of the counters is unsigned.
lgw_cnt2utc(ref, count) ==
  LET delta == (count - ref.count) % WRAP
  IN  Plus(ref.utc, delta \div CPS, ((delta % CPS) * NSEC) \div CPS)

lgw_cnt2gps(ref, count) ==
  LET delta == (count - ref.count) % WRAP
  IN  Plus(ref.gps, delta \div CPS, ((delta % CPS) * NSEC) \div CPS)

\* For a time that is not before the reference
lgw_utc2cnt(ref, utc) ==
  (ref.count + ((Nsec(utc) - Nsec(ref.utc)) * CPS) \div NSEC) % WRAP

lgw_gps2cnt(ref, gps) ==
  (ref.count + ((Nsec(gps) - Nsec(ref.gps)) * CPS) \div NSEC) % WRAP

-----------------------------------------------------------------------------

\* A conversion there and back loses at most the tick that the nanoseconds cut off,
\* also where the counter wraps or the nanoseconds carry; the same delay lies between
\* the counts as between the times.
ConversionsRight(ref, count) ==
  LET utc == lgw_cnt2utc(ref, count)  gps == lgw_cnt2gps(ref, count)
      near == {count, (count - 1) % WRAP}
  IN  /\ {utc, gps} \subseteq Times
      /\ lgw_utc2cnt(ref, utc) \in near /\ lgw_gps2cnt(ref, gps) \in near
      /\ Nsec(utc) - Nsec(ref.utc) = Nsec(gps) - Nsec(ref.gps)
=============================================================================
