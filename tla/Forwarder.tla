----------------------------- MODULE Forwarder -----------------------------
(***************************************************************************)
(* The packet forwarder lora_pkt_fwd and the server net_downlink, over     *)
(* UDP: datagrams are lost, duplicated and reordered.                      *)
(*                                                                         *)
(*   gateway                                 server                        *)
(*   thread_up    -- PUSH_DATA -->           main loop -- PUSH_ACK -->     *)
(*   thread_down  -- PULL_DATA, TX_ACK -->   main loop -- PULL_ACK -->     *)
(*   thread_down  <-- PULL_RESP --           thread_down_rf0, _rf1         *)
(*   main         reports the statistics of both threads                   *)
(*                                                                         *)
(* thread_up keeps mx_meas_up from the sending of a datagram until its     *)
(* acknowledgement or the second timeout.  Tokens are random.  The JIT     *)
(* queues are bounded sets; JitQueue has their rules, GpsBeacon the        *)
(* beacons that thread_down also queues.                                   *)
(***************************************************************************)
EXTENDS Integers, Sequences, FiniteSets

CONSTANTS
  Loads,                \* the traffic considered
  fwd_valid_pkt, fwd_error_pkt, fwd_nocrc_pkt,    \* which packets are forwarded
  NB_PKT_MAX,
  tx_enable, tx_freq_max, txlut,    \* of the gateway's RF chains
  JIT_QUEUE_MAX,
  autoquit_threshold,
  Tokens

Chains == {0, 1}

\* A request: its time is immediate, a GPS time or missing; its other fields are well
\* formed or not.
Requests == [time : {"imme", "gps", "none"}, wellformed : BOOLEAN, freq : Nat, power : Int]

ASSUME ForwarderAssumption ==
  /\ NB_PKT_MAX \in Nat \ {0} /\ JIT_QUEUE_MAX \in Nat \ {0} /\ autoquit_threshold \in Nat
  /\ tx_enable \in [Chains -> BOOLEAN] /\ tx_freq_max \in Nat /\ txlut \in Seq(Int)
  /\ txlut # <<>> /\ Tokens # {} /\ 0 \notin Tokens
  /\ \A l \in Loads :
       /\ l.received \in Seq({"CRC_OK", "CRC_BAD", "NO_CRC", "UNDEFINED", "STRANGE"})
       /\ l.request \in [Chains -> Requests] /\ l.nb_loop \in [Chains -> Nat]
       /\ {l.pulls, l.reports, l.lost, l.dup} \subseteq Nat

VARIABLES
  load,            \* the traffic of this behaviour: status of the packets received in
                   \* order, what thread_down_rf<rf> asks to be sent and how often, and
                   \* the bounds on pulls, reports, lost and duplicated datagrams
  main,            \* "config", "sockets", "start", "spawn", "stats", "join", "done", "dead"
  exit_sig, report_ready,
  rx,              \* packets fetched so far
  up,              \* thread_up: its step, batch, token and whether a report goes along
  meas_up, mx_meas_up,
  down,            \* thread_down: its step, token and whether the request is acknowledged
  autoquit_cnt, meas_dw, jit_queue,
  net,             \* datagrams under way, with the socket they belong to
  server, sockaddr_valid, pkt_sent,    \* main loop and downlink threads of the server
  report,          \* history: the statistics last reported
  pulls,           \* history: for each PULL_DATA, whether its own PULL_ACK came in time
  lost, dup        \* history: datagrams lost and duplicated

gatewayVars == <<main, exit_sig, report_ready, rx, up, meas_up, mx_meas_up, down,
                 autoquit_cnt, meas_dw, jit_queue, report, pulls>>
serverVars == <<server, sockaddr_valid, pkt_sent>>
fwdVars == <<gatewayVars, net, serverVars, lost, dup, load>>

NoUp == [rcv |-> 0, ok |-> 0, fwd |-> 0, dgram_sent |-> 0, ack_rcv |-> 0]
NoDown == [pull_sent |-> 0, ack_rcv |-> 0, dgram_rcv |-> 0, requested |-> 0, rejected |-> 0,
           tx_ok |-> 0, tx_fail |-> 0]
Idle == [type |-> "none"]

ForwarderInit ==
  /\ load \in Loads
  /\ main = "config" /\ exit_sig = FALSE /\ report_ready = FALSE
  /\ rx = 0 /\ up = [at |-> "off", batch |-> <<>>, token |-> 0, report |-> FALSE]
  /\ meas_up = NoUp /\ mx_meas_up = FALSE
  /\ down = [at |-> "off", token |-> 0, req_ack |-> FALSE]
  /\ autoquit_cnt = 0 /\ meas_dw = NoDown /\ jit_queue = [rf \in Chains |-> <<>>]
  /\ net = {} /\ server = Idle /\ sockaddr_valid = FALSE /\ pkt_sent = [rf \in Chains |-> 0]
  /\ report = [up |-> NoUp, down |-> NoDown, nb |-> 0] /\ pulls = <<>> /\ lost = 0 /\ dup = 0

Datagram(type, sock, token, n) == [type |-> type, sock |-> sock, token |-> token, n |-> n]

-----------------------------------------------------------------------------
(* main of the gateway                                                     *)

MainOnly == <<exit_sig, report_ready, rx, meas_up, mx_meas_up, autoquit_cnt, meas_dw,
              jit_queue, report, pulls, net, serverVars, lost, dup, load>>

\* The configuration is read, the sockets are opened, the concentrator is started; a
\* failure ends the process.
Configure == main = "config" /\ main' \in {"sockets", "dead"} /\ UNCHANGED <<up, down, MainOnly>>
OpenSockets == main = "sockets" /\ main' \in {"start", "dead"} /\ UNCHANGED <<up, down, MainOnly>>
StartConcentrator == main = "start" /\ main' \in {"spawn", "dead"} /\ UNCHANGED <<up, down, MainOnly>>

SpawnThreads ==
  /\ main = "spawn" /\ main' = "stats"
  /\ up' = [up EXCEPT !.at = "fetch"] /\ down' = [down EXCEPT !.at = "pull"]
  /\ UNCHANGED MainOnly

\* The statistics of the two directions are copied and reset, each under its mutex; then
\* the loop looks whether it is to end.
Statistics ==
  /\ main = "stats" /\ ~mx_meas_up /\ (exit_sig \/ report.nb < load.reports)
  /\ main' = IF exit_sig THEN "join" ELSE "stats"
  /\ report' = [up |-> meas_up, down |-> meas_dw, nb |-> report.nb + 1]
  /\ meas_up' = NoUp /\ meas_dw' = NoDown /\ report_ready' = TRUE
  /\ UNCHANGED <<exit_sig, rx, up, mx_meas_up, down, autoquit_cnt, jit_queue, pulls, net,
                 serverVars, lost, dup, load>>

sig_handler ==
  /\ main = "stats" /\ ~exit_sig /\ exit_sig' = TRUE
  /\ UNCHANGED <<main, report_ready, rx, up, meas_up, mx_meas_up, down, autoquit_cnt, meas_dw,
                 jit_queue, report, pulls, net, serverVars, lost, dup, load>>

\* The threads are joined, the sockets shut down and the concentrator stopped.
JoinThreads ==
  /\ main = "join" /\ up.at = "ended" /\ down.at = "ended" /\ main' = "done"
  /\ UNCHANGED <<up, down, MainOnly>>

-----------------------------------------------------------------------------
(* thread_up                                                               *)

UpOnly == <<exit_sig, down, autoquit_cnt, meas_dw, jit_queue, report, pulls, serverVars,
            lost, dup, load>>

Alive == main \in {"stats", "join"}

\* lgw_receive, and the flag read without the mutex.  A failure ends the process.
FetchUp ==
  /\ Alive /\ up.at = "fetch"
  /\ \/ exit_sig /\ up' = [up EXCEPT !.at = "ended"] /\ UNCHANGED <<main, rx>>
     \/ /\ ~exit_sig /\ UNCHANGED main
        /\ \E n \in 0 .. NB_PKT_MAX :
             /\ rx + n <= Len(load.received) /\ rx' = rx + n
             /\ up' = [up EXCEPT !.batch = SubSeq(load.received, rx + 1, rx + n),
                                 !.report = report_ready,
                                 !.at = IF n = 0 /\ ~report_ready THEN "fetch" ELSE "compose"]
     \/ ~exit_sig /\ rx < Len(load.received) /\ main' = "dead" /\ UNCHANGED <<up, rx>>
  /\ UNCHANGED <<report_ready, meas_up, mx_meas_up, net, UpOnly>>

\* The packets whose CRC is right, and those that the filters let through
Intact(batch) == {i \in DOMAIN batch : batch[i] \in {"CRC_OK", "STRANGE"}}

Forwarded(batch) ==
  {i \in DOMAIN batch : \/ i \in Intact(batch) /\ fwd_valid_pkt
                        \/ batch[i] = "CRC_BAD" /\ fwd_error_pkt
                        \/ batch[i] = "NO_CRC" /\ fwd_nocrc_pkt}

\* The statistics stay locked until the acknowledgement.
HoldsMutex == TRUE

\* The fields of a packet have names in the protocol.  The header of a STRANGE one,
\* intact by its CRC, says a coding rate, data rate or bandwidth without one.
Serialisable(s) == s # "STRANGE"

\* The packets are counted and serialised; with nothing to send, back to the fetch.  One
\* that cannot be serialised ends the process.
Serialise ==
  /\ Alive /\ up.at = "compose" /\ ~mx_meas_up
  /\ meas_up' = [meas_up EXCEPT !.rcv = @ + Len(up.batch), !.ok = @ + Cardinality(Intact(up.batch)),
                                !.fwd = @ + Cardinality(Forwarded(up.batch))]
  /\ main' = IF \A i \in Forwarded(up.batch) : Serialisable(up.batch[i]) THEN main ELSE "dead"
  /\ up' = [up EXCEPT !.at = IF Forwarded(up.batch) = {} /\ ~up.report THEN "fetch" ELSE "send"]
  /\ UNCHANGED <<rx, report_ready, mx_meas_up, net, UpOnly>>

\* The report is appended and the datagram is sent.
PushData ==
  /\ Alive /\ up.at = "send" /\ ~mx_meas_up
  /\ \E token \in Tokens :
       /\ net' = net \cup {Datagram("PUSH_DATA", "up", token, Cardinality(Forwarded(up.batch)))}
       /\ up' = [at |-> "ack1", batch |-> <<>>, token |-> token, report |-> FALSE]
  /\ meas_up' = [meas_up EXCEPT !.dgram_sent = @ + 1]
  /\ mx_meas_up' = HoldsMutex /\ report_ready' = (report_ready /\ ~up.report)
  /\ UNCHANGED <<main, rx, UpOnly>>

NextTry == CASE up.at = "ack1" -> "ack2" [] up.at = "ack2" -> "fetch"

\* Mutant: the socket has no timeout.
AwaitAck_NoTimeout ==
  /\ Alive /\ up.at \in {"ack1", "ack2"}
  /\ \E d \in net :
       /\ d.type = "PUSH_ACK" /\ net' = net \ {d}
       /\ up' = [up EXCEPT !.at = IF d.token = up.token THEN "fetch" ELSE NextTry]
       /\ meas_up' = [meas_up EXCEPT !.ack_rcv = IF d.token = up.token THEN @ + 1 ELSE @]
  /\ mx_meas_up' = (mx_meas_up /\ up'.at = "ack2")
  /\ UNCHANGED <<main, rx, report_ready, UpOnly>>

\* recv, twice: a datagram that is not the acknowledgement uses up a try, and so does
\* the timeout.  A refused connection ends the wait.
AwaitAck ==
  /\ Alive /\ up.at \in {"ack1", "ack2"}
  /\ \/ \E d \in net :
          /\ d.type = "PUSH_ACK" /\ net' = net \ {d}
          /\ IF d.token = up.token
             THEN /\ meas_up' = [meas_up EXCEPT !.ack_rcv = @ + 1]
                  /\ up' = [up EXCEPT !.at = "fetch"]
             ELSE up' = [up EXCEPT !.at = NextTry] /\ UNCHANGED meas_up
     \/ /\ \E next \in {NextTry, "fetch"} : up' = [up EXCEPT !.at = next]
        /\ UNCHANGED <<net, meas_up>>
  /\ mx_meas_up' = (mx_meas_up /\ up'.at = "ack2")
  /\ UNCHANGED <<main, rx, report_ready, UpOnly>>

-----------------------------------------------------------------------------
(* thread_down                                                             *)

DownOnly == <<main, report_ready, rx, up, meas_up, mx_meas_up, report, serverVars, lost, dup, load>>

\* A request to the server, or the end after too many without an answer
PullData ==
  /\ Alive /\ down.at = "pull"
  /\ IF exit_sig \/ (autoquit_threshold > 0 /\ autoquit_cnt >= autoquit_threshold)
     THEN /\ exit_sig' = TRUE /\ down' = [down EXCEPT !.at = "ended"]
          /\ UNCHANGED <<autoquit_cnt, meas_dw, net, pulls>>
     ELSE \E token \in Tokens :
            /\ Len(pulls) < load.pulls /\ pulls' = Append(pulls, FALSE)
            /\ net' = net \cup {Datagram("PULL_DATA", "down", token, Len(pulls'))}
            /\ down' = [at |-> "listen", token |-> token, req_ack |-> FALSE]
            /\ autoquit_cnt' = autoquit_cnt + 1
            /\ meas_dw' = [meas_dw EXCEPT !.pull_sent = @ + 1]
            /\ UNCHANGED exit_sig
  /\ UNCHANGED <<jit_queue, DownOnly>>

\* keepalive_time is over, or the process is to end.
Keepalive ==
  /\ Alive /\ down.at = "listen" /\ down' = [down EXCEPT !.at = "pull"]
  /\ UNCHANGED <<exit_sig, autoquit_cnt, meas_dw, jit_queue, pulls, net, DownOnly>>

\* Mutant: a PULL_ACK does not end the counting.
OnPullAck_NoReset(d) ==
  IF d.token = down.token /\ ~down.req_ack
  THEN /\ down' = [down EXCEPT !.req_ack = TRUE] /\ UNCHANGED autoquit_cnt
       /\ meas_dw' = [meas_dw EXCEPT !.ack_rcv = @ + 1]
  ELSE UNCHANGED <<down, autoquit_cnt, meas_dw>>

\* The first PULL_ACK with the token of the request that waits
OnPullAck(d) ==
  IF d.token = down.token /\ ~down.req_ack
  THEN /\ down' = [down EXCEPT !.req_ack = TRUE] /\ autoquit_cnt' = 0
       /\ meas_dw' = [meas_dw EXCEPT !.ack_rcv = @ + 1]
  ELSE UNCHANGED <<down, autoquit_cnt, meas_dw>>

ReceivePullAck ==
  /\ Alive /\ down.at = "listen" /\ ~exit_sig
  /\ \E d \in net :
       /\ d.type = "PULL_ACK" /\ net' = net \ {d} /\ OnPullAck(d)
       /\ pulls' = IF d.n = Len(pulls) THEN [pulls EXCEPT ![d.n] = TRUE] ELSE pulls
  /\ UNCHANGED <<exit_sig, jit_queue, DownOnly>>

\* The strongest entry of the table that does not exceed the power asked for; 0 if
\* there is none
get_tx_gain_lut_index(power) ==
  LET ok == {i \in DOMAIN txlut : txlut[i] <= power}
  IN  IF ok = {} THEN 0
      ELSE CHOOSE i \in ok : /\ \A j \in ok : txlut[j] <= txlut[i]
                             /\ \A j \in ok : txlut[j] = txlut[i] => i <= j

\* What jit_enqueue may answer, besides that it is full
JitResults == {"OK", "COLLISION_PACKET", "COLLISION_BEACON", "TOO_EARLY", "TOO_LATE"}

\* The text is no JSON, or it has no time.
NoTime(rf) == load.request[rf].time = "none"

\* The fields after the time: one is missing or has no value of its kind, or the chain
\* has no transmitter.
Malformed(rf) == ~load.request[rf].wellformed \/ ~tx_enable[rf]

\* Such a request is dropped without a word; one for a GPS time is refused before its
\* other fields are read.
Ignored(rf) == NoTime(rf) \/ (load.request[rf].time = "imme" /\ Malformed(rf))

\* The feedback to the server: an error, a warning, or nothing to report
send_tx_ack(token, error) == Datagram("TX_ACK", "down", token, error)

\* The result of checking and queueing
TxResults(rf) ==
  IF load.request[rf].time = "gps" THEN {"GPS_UNLOCKED"}
  ELSE IF load.request[rf].freq > tx_freq_max THEN {"TX_FREQ"}
  ELSE IF Len(jit_queue[rf]) = JIT_QUEUE_MAX THEN {"COLLISION_PACKET"}
  ELSE JitResults

\* The power is one the table has; otherwise a warning, and the closest lower one.
Supported(rf) ==
  LET i == get_tx_gain_lut_index(load.request[rf].power) IN i # 0 /\ txlut[i] = load.request[rf].power

PullResp ==
  /\ Alive /\ down.at = "listen" /\ ~exit_sig
  /\ \E d \in net :
       /\ d.type = "PULL_RESP"
       /\ IF Ignored(d.n) THEN net' = net \ {d} /\ UNCHANGED <<meas_dw, jit_queue>>
          ELSE \E r \in TxResults(d.n) :
                 /\ net' = (net \ {d}) \cup
                      {send_tx_ack(d.token, IF r = "OK" /\ ~Supported(d.n) THEN "TX_POWER" ELSE r)}
                 /\ jit_queue' = IF r = "OK" THEN [jit_queue EXCEPT ![d.n] = Append(@, "pkt")]
                                             ELSE jit_queue
                 /\ meas_dw' =
                      IF r = "GPS_UNLOCKED" THEN meas_dw
                      ELSE [meas_dw EXCEPT !.dgram_rcv = @ + 1,
                              !.requested = IF r = "TX_FREQ" THEN @ ELSE @ + 1,
                              !.rejected = IF r \in {"OK", "TX_FREQ"} THEN @ ELSE @ + 1]
  /\ UNCHANGED <<exit_sig, down, autoquit_cnt, pulls, DownOnly>>

\* thread_jit takes a packet that is due: sent, failed, or dropped while the chain emits
ThreadJit ==
  /\ Alive /\ ~exit_sig
  /\ \E rf \in Chains :
       /\ jit_queue[rf] # <<>> /\ jit_queue' = [jit_queue EXCEPT ![rf] = Tail(@)]
       /\ \/ meas_dw' = [meas_dw EXCEPT !.tx_ok = @ + 1]
          \/ meas_dw' = [meas_dw EXCEPT !.tx_fail = @ + 1]
          \/ UNCHANGED meas_dw
  /\ UNCHANGED <<exit_sig, down, autoquit_cnt, pulls, net, DownOnly>>

-----------------------------------------------------------------------------
(* net_downlink                                                            *)

ServerOnly == <<gatewayVars, lost, dup, load>>

\* A datagram from the gateway.  A PULL_DATA opens the way for downlinks.
ServerReceives ==
  /\ server = Idle
  /\ \E d \in net :
       /\ d.type \in {"PUSH_DATA", "PULL_DATA", "TX_ACK"} /\ net' = net \ {d}
       /\ sockaddr_valid' = (sockaddr_valid \/ d.type = "PULL_DATA")
       /\ server' = d
  /\ UNCHANGED <<pkt_sent, ServerOnly>>

\* The answer to a datagram, with its token
Ack == [PUSH_DATA |-> "PUSH_ACK", PULL_DATA |-> "PULL_ACK"]

\* 30 ms later
ServerAcks ==
  /\ server # Idle /\ server' = Idle
  /\ net' = IF server.type = "TX_ACK" THEN net
            ELSE net \cup {Datagram(Ack[server.type], server.sock, server.token, server.n)}
  /\ UNCHANGED <<sockaddr_valid, pkt_sent, ServerOnly>>

thread_down_rf(rf) ==
  /\ sockaddr_valid /\ pkt_sent[rf] < load.nb_loop[rf]
  /\ pkt_sent' = [pkt_sent EXCEPT ![rf] = @ + 1]
  /\ net' = net \cup {Datagram("PULL_RESP", "down", 0, rf)}
  /\ UNCHANGED <<server, sockaddr_valid, ServerOnly>>

-----------------------------------------------------------------------------
(* The network                                                             *)

Lose == /\ lost < load.lost /\ lost' = lost + 1
        /\ \E d \in net : net' = net \ {d}
        /\ UNCHANGED <<gatewayVars, serverVars, dup, load>>

\* A datagram that was received once arrives again.
Duplicate ==
  /\ dup < load.dup /\ dup' = dup + 1 /\ server # Idle /\ net' = net \cup {server}
  /\ UNCHANGED <<gatewayVars, serverVars, lost, load>>

ForwarderNext ==
  \/ Configure \/ OpenSockets \/ StartConcentrator \/ SpawnThreads
  \/ Statistics \/ sig_handler \/ JoinThreads
  \/ FetchUp \/ Serialise \/ PushData \/ AwaitAck
  \/ PullData \/ Keepalive \/ ReceivePullAck \/ PullResp \/ ThreadJit
  \/ ServerReceives \/ ServerAcks \/ (\E rf \in Chains : thread_down_rf(rf))
  \/ Lose \/ Duplicate

ForwarderSpec == ForwarderInit /\ [][ForwarderNext]_fwdVars

\* Every thread of the gateway runs on.
FairForwarderSpec ==
  /\ ForwarderSpec
  /\ WF_fwdVars(Configure \/ OpenSockets \/ StartConcentrator \/ SpawnThreads \/ Statistics \/ JoinThreads)
  /\ WF_fwdVars(FetchUp \/ Serialise \/ PushData \/ AwaitAck)
  /\ WF_fwdVars(PullData \/ Keepalive)

-----------------------------------------------------------------------------
(* Properties                                                              *)

\* A report never says that more than all datagrams were acknowledged, nor that more
\* packets were forwarded or intact than received: late, duplicated and foreign
\* acknowledgements are not counted, and none is counted in a later report than its
\* datagram.
AcksWithinSent ==
  /\ report.up.ack_rcv <= report.up.dgram_sent
  /\ report.up.fwd <= report.up.rcv /\ report.up.ok <= report.up.rcv

\* The forwarder gives up only when none of its last autoquit_threshold requests was
\* answered before the next one.
QuitMeansSilence ==
  down.at = "pull" /\ autoquit_threshold > 0 /\ autoquit_cnt >= autoquit_threshold =>
    \A i \in (Len(pulls) - autoquit_threshold) + 1 .. Len(pulls) : ~pulls[i]

\* A request to end ends the process.
QuitEnds == exit_sig ~> main \in {"done", "dead"}

\* What the forwarder concludes from the acknowledgements it got, late, doubled or
\* lost: the ratio it reports and the decision to give up.
AcksReadRight == AcksWithinSent /\ QuitMeansSilence
=============================================================================
