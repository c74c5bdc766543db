------------------------------- MODULE MCJit -------------------------------
(* A request mix for JitEmission.  Delays are scaled to a few ticks with the *)
(* order of the code's kept: margin and start delay below the JIT delay,     *)
(* the guard above it, the largest advance above anything a full queue of    *)
(* these requests spans, and half the counter's range above that.            *)
EXTENDS JitEmission

\* Class B and C downlinks with beacons: every pair of types that keeps the
\* guard, and what clusterduckd queues (class C and beacons) among them.
GuardedMix == [CLASS_B |-> {8, W - 8}, CLASS_C |-> {0}, BEACON |-> {8, 15}]

\* The mix keeps the timing the theorems about it ask for.
ASSUME MixIsTimed == Timing(20, 3)
=============================================================================
