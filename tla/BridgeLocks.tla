---------------------------- MODULE BridgeLocks ----------------------------
(***************************************************************************)
(* The three mutexes of the bridge and the order in which its functions    *)
(* take them.  A function is the sequence of its lock and unlock           *)
(* operations; what it does to the queues in between is the business of    *)
(* Uplink and Downlink.  std::mutex is not recursive and not fair.         *)
(***************************************************************************)
EXTENDS Integers, Sequences, FiniteSets

CONSTANTS
  Calls           \* Calls[t]: the bridge functions thread t calls

\* The functions the daemon's threads call.  get_stats, which takes stats and
\* downlink in the other order, is called nowhere.
DaemonFunctions ==
  {"handle_uplink", "pop_uplink", "has_uplink", "register_rx_callback",
   "enqueue_downlink", "pop_downlink", "reset_stats"}

ASSUME LocksAssumption ==
  /\ "free" \notin DOMAIN Calls
  /\ \A t \in DOMAIN Calls : Calls[t] \subseteq DaemonFunctions

Callers == DOMAIN Calls
Mutexes == {"uplink", "downlink", "stats"}

Lock(m) == [do |-> "lock", mutex |-> m]
Unlock(m) == [do |-> "unlock", mutex |-> m]

\* A block under a lock_guard.
Guarded(m, body) == <<Lock(m)>> \o body \o <<Unlock(m)>>

\* Mutant: the callback is called under uplink_mutex, which protects it.
Body_Guarded(f) ==
  CASE f = "handle_uplink" ->
         Guarded("stats", <<>>) \o Guarded("uplink", Guarded("uplink", <<>>))
    [] f \in {"pop_uplink", "has_uplink", "register_rx_callback"} -> Guarded("uplink", <<>>)
    [] f = "enqueue_downlink" -> Guarded("downlink", Guarded("stats", <<>>))
    [] f = "pop_downlink" -> Guarded("downlink", <<>>)
    [] f = "get_stats" -> Guarded("stats", Guarded("downlink", <<>>))
    [] f = "reset_stats" -> Guarded("stats", <<>>)

\* handle_uplink counts, then calls the callback, which pushes the packet
\* (without a callback it pushes it itself); both enqueue_downlink functions
\* count while they hold the queue.
Body(f) ==
  CASE f = "handle_uplink" -> Guarded("stats", <<>>) \o Guarded("uplink", <<>>)
    [] f \in {"pop_uplink", "has_uplink", "register_rx_callback"} -> Guarded("uplink", <<>>)
    [] f = "enqueue_downlink" -> Guarded("downlink", Guarded("stats", <<>>))
    [] f = "pop_downlink" -> Guarded("downlink", <<>>)
    [] f = "get_stats" -> Guarded("stats", Guarded("downlink", <<>>))
    [] f = "reset_stats" -> Guarded("stats", <<>>)

VARIABLES
  rest,        \* rest[t]: what is left of the call t is in; <<>> between calls
  holder       \* holder[m]: the thread that holds m, or "free"

locksVars == <<rest, holder>>

LocksInit ==
  /\ rest = [t \in Callers |-> <<>>]
  /\ holder = [m \in Mutexes |-> "free"]

Call(t) ==
  /\ rest[t] = <<>>
  /\ \E f \in Calls[t] : rest' = [rest EXCEPT ![t] = Body(f)]
  /\ UNCHANGED holder

Acquire(t) ==
  /\ rest[t] # <<>> /\ Head(rest[t]).do = "lock"
  /\ holder[Head(rest[t]).mutex] = "free"
  /\ holder' = [holder EXCEPT ![Head(rest[t]).mutex] = t]
  /\ rest' = [rest EXCEPT ![t] = Tail(@)]

Release(t) ==
  /\ rest[t] # <<>> /\ Head(rest[t]).do = "unlock"
  /\ holder' = [holder EXCEPT ![Head(rest[t]).mutex] = "free"]
  /\ rest' = [rest EXCEPT ![t] = Tail(@)]

LocksNext == \E t \in Callers : Call(t) \/ Acquire(t) \/ Release(t)

LocksSpec == LocksInit /\ [][LocksNext]_locksVars

-----------------------------------------------------------------------------
\* Thread t wants a mutex that u holds; u may be t itself.
WaitsFor(t, u) ==
  /\ rest[t] # <<>> /\ Head(rest[t]).do = "lock"
  /\ holder[Head(rest[t]).mutex] = u

\* No threads wait for each other in a circle, in the mutexes of
\* ClusterDuckBridge: "Safe for concurrent access from multiple threads".
NoCircle ==
  ~ \E S \in SUBSET Callers : S # {} /\ \A t \in S : \E u \in S : WaitsFor(t, u)
=============================================================================
