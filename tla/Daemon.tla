------------------------------- MODULE Daemon -------------------------------
(***************************************************************************)
(* main of clusterduckd.c once the configuration is read: it starts the    *)
(* concentrator and the threads, collects statistics until a signal comes, *)
(* waits for the threads and shuts down.  A thread is a loop that looks at *)
(* the two flags of the signal handler before every turn and, in a turn,   *)
(* takes mx_concent a few times to talk to the concentrator; what it does  *)
(* there is the business of the other modules.  A signal that comes before *)
(* the handlers are installed kills the process.                           *)
(***************************************************************************)
EXTENDS Integers, Sequences, FiniteSets

CONSTANT
  Settings      \* what may have been configured: the bus, the scan, a GPS

ASSUME DaemonAssumption == Settings \subseteq [spi : BOOLEAN, scan : BOOLEAN, gps : BOOLEAN]

Workers == {"up", "down", "jit", "duck", "ss", "gps", "valid"}

\* The threads that talk to the concentrator; thread_gps does when it reads
\* the counter of the last pulse.
ChipUsers == {"up", "down", "jit", "ss", "gps"}

VARIABLES
  main,         \* where main is
  setting,      \* what was configured
  gps_enabled, mqtt_enabled,
  exit_sig, quit_sig,
  thr,          \* thr[t]: "none", "loop", "turn", "chip" or "ended"
  cancel,       \* threads asked to stop by pthread_cancel
  chip,         \* the concentrator: "off", "started", "stopping", "stopped"
  mqtt_client   \* "NULL", "open", "destroyed"

settings == <<setting, gps_enabled, mqtt_enabled>>
flags == <<exit_sig, quit_sig>>
daemonVars == <<main, settings, flags, thr, cancel, chip, mqtt_client>>

Final == {"succeeded", "failed", "killed"}

DaemonInit ==
  /\ main = "gps"
  /\ setting \in Settings
  /\ gps_enabled = FALSE /\ mqtt_enabled \in BOOLEAN
  /\ exit_sig = FALSE /\ quit_sig = FALSE
  /\ thr = [t \in Workers |-> "none"]
  /\ cancel = {} /\ chip = "off"
  /\ mqtt_client = IF mqtt_enabled THEN "open" ELSE "NULL"

Goes(from, to) == main = from /\ main' = to
GoesOrFails(from, to) == main = from /\ main' \in {to, "failed"}

-----------------------------------------------------------------------------
(* main: the start                                                         *)

\* A GPS that cannot be opened is done without.
EnableGps ==
  /\ Goes("gps", "reset")
  /\ gps_enabled' \in {FALSE, setting.gps}
  /\ UNCHANGED <<setting, mqtt_enabled, flags, thr, cancel, chip, mqtt_client>>

\* reset_lgw.sh, on SPI only
ResetBoard ==
  /\ IF setting.spi THEN GoesOrFails("reset", "start") ELSE Goes("reset", "start")
  /\ UNCHANGED <<settings, flags, thr, cancel, chip, mqtt_client>>

StartConcentrator ==
  /\ GoesOrFails("start", "hub")
  /\ chip' = IF main' = "hub" THEN "started" ELSE "off"
  /\ UNCHANGED <<settings, flags, thr, cancel, mqtt_client>>

InitHub ==
  /\ GoesOrFails("hub", "create")
  /\ UNCHANGED <<settings, flags, thr, cancel, chip, mqtt_client>>

Wanted == {"up", "down", "jit", "duck"} \cup (IF setting.scan THEN {"ss"} ELSE {})
          \cup (IF gps_enabled THEN {"gps", "valid"} ELSE {})

CreationOrder == <<"up", "down", "jit", "duck", "ss", "gps", "valid">>

\* pthread_create for the next thread, or it fails and the process ends with the
\* concentrator running.
CreateThread ==
  LET missing == {i \in 1 .. 7 : CreationOrder[i] \in Wanted /\ thr[CreationOrder[i]] = "none"}
  IN  /\ main = "create" /\ missing # {}
      /\ \/ /\ LET next == CreationOrder[CHOOSE i \in missing : \A j \in missing : i <= j]
               IN  thr' = [thr EXCEPT ![next] = "loop"]
            /\ UNCHANGED main
         \/ main' = "failed" /\ UNCHANGED thr
      /\ UNCHANGED <<settings, flags, cancel, chip, mqtt_client>>

InstallHandlers ==
  /\ \A t \in Wanted : thr[t] # "none"
  /\ Goes("create", "stats")
  /\ UNCHANGED <<settings, flags, thr, cancel, chip, mqtt_client>>

Installed == main \notin {"gps", "reset", "start", "hub", "create"}

\* sig_handler
Signal ==
  /\ main \notin Final
  /\ IF Installed
     THEN /\ \/ quit_sig' = TRUE /\ UNCHANGED exit_sig
             \/ exit_sig' = TRUE /\ UNCHANGED quit_sig
          /\ UNCHANGED main
     ELSE main' = "killed" /\ UNCHANGED flags
  /\ UNCHANGED <<settings, thr, cancel, chip, mqtt_client>>

Stopping == exit_sig \/ quit_sig

-----------------------------------------------------------------------------
(* main: statistics and the end                                            *)

\* The loop copies and resets the counters after every interval and prints them;
\* it looks at the flags in between.  (Reading the temperature is commented out.)
LeaveStatistics ==
  /\ Stopping /\ Goes("stats", "join_up")
  /\ UNCHANGED <<settings, flags, thr, cancel, chip, mqtt_client>>

\* Mutant: the scan is not waited for.
Join_NotScan ==
  /\ \/ thr["up"] = "ended" /\ Goes("join_up", "join_down")
     \/ thr["down"] = "ended" /\ Goes("join_down", "join_jit")
     \/ thr["jit"] = "ended" /\ Goes("join_jit", "cancel")
  /\ UNCHANGED <<settings, flags, thr, cancel, chip, mqtt_client>>

\* thread_duck is not waited for.
Join ==
  /\ \/ thr["up"] = "ended" /\ Goes("join_up", "join_down")
     \/ thr["down"] = "ended" /\ Goes("join_down", "join_jit")
     \/ thr["jit"] = "ended" /\ Goes("join_jit", "join_ss")
     \/ (setting.scan => thr["ss"] = "ended") /\ Goes("join_ss", "cancel")
  /\ UNCHANGED <<settings, flags, thr, cancel, chip, mqtt_client>>

\* pthread_cancel of the GPS threads and lgw_gps_disable
CancelGps ==
  /\ Goes("cancel", "exit")
  /\ cancel' = IF gps_enabled THEN {"gps", "valid"} ELSE {}
  /\ UNCHANGED <<settings, flags, thr, chip, mqtt_client>>

\* Only SIGINT and SIGTERM shut the hardware down.
Exit ==
  /\ main = "exit"
  /\ main' = IF ~exit_sig THEN "board"
             ELSE IF mqtt_enabled /\ mqtt_client = "open" THEN "mqtt" ELSE "stop"
  /\ UNCHANGED <<settings, flags, thr, cancel, chip, mqtt_client>>

CloseMqtt ==
  /\ Goes("mqtt", "stop")
  /\ mqtt_client' = "destroyed"
  /\ UNCHANGED <<settings, flags, thr, cancel, chip>>

\* lgw_stop, which does not take mx_concent; its failure is only reported.
StopConcentrator ==
  /\ \/ Goes("stop", "stopping") /\ chip' = "stopping"
     \/ Goes("stopping", "board") /\ chip' = "stopped"
  /\ UNCHANGED <<settings, flags, thr, cancel, mqtt_client>>

Leave ==
  /\ IF setting.spi THEN GoesOrFails("board", "succeeded") ELSE Goes("board", "succeeded")
  /\ UNCHANGED <<settings, flags, thr, cancel, chip, mqtt_client>>

Main ==
  \/ EnableGps \/ ResetBoard \/ StartConcentrator \/ InitHub \/ CreateThread \/ InstallHandlers
  \/ LeaveStatistics \/ Join \/ CancelGps \/ Exit \/ CloseMqtt \/ StopConcentrator \/ Leave

-----------------------------------------------------------------------------
(* The threads                                                             *)

Moves(t, from, to) == main \notin Final /\ thr[t] = from /\ thr' = [thr EXCEPT ![t] = to]

\* Mutant: the scan goes on.
LoopTest_ScanForever(t) ==
  /\ \/ (~Stopping \/ t = "ss") /\ t # "valid" /\ Moves(t, "loop", "turn")
     \/ Stopping /\ t # "ss" /\ Moves(t, "loop", "ended")
  /\ UNCHANGED <<main, settings, flags, cancel, chip, mqtt_client>>

\* while (!exit_sig && !quit_sig).  The turns of thread_valid concern nobody here.
LoopTest(t) ==
  /\ \/ ~Stopping /\ t # "valid" /\ Moves(t, "loop", "turn")
     \/ Stopping /\ Moves(t, "loop", "ended")
  /\ UNCHANGED <<main, settings, flags, cancel, chip, mqtt_client>>

\* pthread_mutex_lock(&mx_concent)
TakeConcentrator(t) ==
  /\ t \in ChipUsers
  /\ \A u \in Workers : thr[u] # "chip"
  /\ Moves(t, "turn", "chip")
  /\ UNCHANGED <<main, settings, flags, cancel, chip, mqtt_client>>

\* The call returns and mx_concent is released; the turn goes on.
LeaveConcentrator(t) ==
  /\ Moves(t, "chip", "turn")
  /\ UNCHANGED <<main, settings, flags, cancel, chip, mqtt_client>>

\* thread_up ends the process after too many failed calls in a row.
GiveUpFetching ==
  /\ thr["up"] = "turn" /\ main \notin Final
  /\ main' = "failed"
  /\ UNCHANGED <<settings, flags, thr, cancel, chip, mqtt_client>>

\* In its turns thread_duck uses the MQTT client.
EndTurn(t) ==
  /\ Moves(t, "turn", "loop")
  /\ UNCHANGED <<main, settings, flags, cancel, chip, mqtt_client>>

\* A cancelled thread ends at its next cancellation point, none of which lies
\* between lock and unlock on SPI.
Cancelled(t) ==
  /\ t \in cancel
  /\ Moves(t, "loop", "ended") \/ Moves(t, "turn", "ended")
  /\ UNCHANGED <<main, settings, flags, cancel, chip, mqtt_client>>

ThreadStep(t) ==
  \/ LoopTest(t) \/ TakeConcentrator(t) \/ LeaveConcentrator(t) \/ EndTurn(t) \/ Cancelled(t)

DaemonNext ==
  \/ Main \/ Signal \/ GiveUpFetching
  \/ \E t \in Workers : ThreadStep(t)

DaemonSpec == DaemonInit /\ [][DaemonNext]_daemonVars

\* main and the threads it waits for keep running; a turn has finitely many
\* accesses and an access ends.  Nothing is assumed of the GPS threads, which may
\* wait for the receiver, nor of the signals.
DaemonFairness ==
  /\ WF_daemonVars(Main)
  /\ \A t \in {"up", "down", "jit", "ss"} : WF_daemonVars(ThreadStep(t)) /\ SF_daemonVars(EndTurn(t))
  /\ WF_daemonVars(LeaveConcentrator("gps"))

FairDaemonSpec == DaemonSpec /\ DaemonFairness

-----------------------------------------------------------------------------
\* "wait for all threads with a COM with the concentrator board to finish": from
\* lgw_stop on, none of the threads that were joined talks to the concentrator.
\* (thread_gps, which is cancelled and not joined, still may: it reads the counter
\* of the last pulse.)
ConcentratorAlone ==
  chip \in {"stopping", "stopped"} => \A t \in {"up", "down", "jit", "ss"} : thr[t] # "chip"

\* After a signal the process ends, whatever the threads were doing.
SignalEnds == Stopping ~> main \in Final
=============================================================================
