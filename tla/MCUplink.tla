------------------------------ MODULE MCUplink ------------------------------
(***************************************************************************)
(* What the threads share on a packet's way up, one question at a time:    *)
(* the queue from thread_up to thread_duck (Uplink), the mutexes of the    *)
(* bridge (BridgeLocks), and the Bloom filter, which has none              *)
(* (BloomThreads).  The parts share no variable; the one that runs is      *)
(* chosen at the start.                                                    *)
(***************************************************************************)
EXTENDS Uplink, BridgeLocks, BloomThreads

VARIABLE part

\* More packets than the queue holds, with one of each bad kind among them.
MixedKinds == <<"good", "malformed", "good", "invalid", "good", "good">>

\* What the daemon's threads call: thread_up; thread_duck, which takes packets
\* and sends replies; thread_down; Paho's callback thread, which sends commands.
DaemonCalls ==
  [up |-> {"handle_uplink"}, duck |-> {"has_uplink", "pop_uplink", "enqueue_downlink"},
   down |-> {"pop_downlink"}, mqtt |-> {"enqueue_downlink"},
   main |-> {"register_rx_callback"}]

\* Four identifiers over six bits in three sectors of two: m1 and m2 have a
\* bit in one sector, m3 meets both filters' other sectors, m4 needs the probe.
MCMuid == {"m1", "m2", "m3", "m4"}

MCDjb2 == [m \in MCMuid |->
  CASE m = "m1" -> <<0, 2>>
    [] m = "m2" -> <<1, 4>>
    [] m = "m3" -> <<3, 5>>
    [] m = "m4" -> <<5, 11>>]

Init ==
  /\ part \in {"uplink", "locks", "filter"}
  /\ UplinkInit /\ LocksInit /\ ThreadsInit

Next ==
  /\ \/ part = "uplink" /\ UplinkNext /\ UNCHANGED <<locksVars, threadVars>>
     \/ part = "locks" /\ LocksNext /\ UNCHANGED <<uplinkVars, threadVars>>
     \/ part = "filter" /\ ThreadsNext /\ UNCHANGED <<uplinkVars, locksVars>>
  /\ UNCHANGED part

\* With the fairness of Uplink, in the behaviours where it runs.  The other
\* parts are there for the invariants and the refinement.
Spec ==
  /\ Init /\ [][Next]_<<uplinkVars, locksVars, threadVars, part>>
  /\ WF_uplinkVars(part = "uplink" /\ ThreadUp)
  /\ WF_uplinkVars(part = "uplink" /\ ThreadDuck)
=============================================================================
