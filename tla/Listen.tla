-------------------------------- MODULE Listen ------------------------------
(***************************************************************************)
(* The SX1261 next to the concentrator (loragw_sx1261.c, loragw_lbt.c): it *)
(* listens before a packet is emitted (thread_jit calls lgw_send), and     *)
(* between packets thread_spectral_scan measures the channels with it.     *)
(*                                                                         *)
(* The two threads exclude each other by mx_concent, for one call at a     *)
(* time: a downlink interrupts a scan between the calls of the scanning    *)
(* thread.  The firmware of the AGC decides whether a packet may leave and *)
(* tells it in its status; the host clears the status and acknowledges.    *)
(***************************************************************************)
EXTENDS Outcomes, FiniteSets

CONSTANTS
  LbtChannels,      \* the channels of the configuration: [freq, bw, transmit_time_ms]
  Downlinks,        \* the packets of thread_jit: [freq, bw, chain, toa_ms]
  FreqStart,        \* spectral_scan_params.freq_hz_start, in kHz
  NbChan,           \* spectral_scan_params.nb_chan
  MaxListenFaults   \* bound on the failing accesses and late answers

ASSUME ListenAssumption ==
  /\ FreqStart \in Nat /\ NbChan \in Nat \ {0} /\ MaxListenFaults \in Nat
  /\ Downlinks \subseteq [freq : Nat, bw : Nat, chain : {0, 1}, toa_ms : Nat]
  \* lgw_sx1261_setconf refuses the other bandwidths
  /\ \A c \in LbtChannels : c.bw \in {125, 250}

VARIABLES
  sx,      \* the SX1261 and the link to it, see NewSx
  ear,     \* the AGC: [phase, init, blocked, mbox] and what it decided on the last packet
  fsm,     \* the transmitter of each chain
  talk,    \* thread_jit: where it is, its packet and its results
  probe,   \* thread_spectral_scan: where it is, its frequency and its variables
  shown    \* the last result it showed: the frequency, and the frequencies measured

listenVars == <<sx, ear, fsm, talk, probe, shown>>

NoPacket == [freq |-> 0, bw |-> 0, chain |-> 0, toa_ms |-> 0]
FreqStop == FreqStart + NbChan * 200

Budget == sx.faults < MaxListenFaults
HasBudget(d) == d.faults < MaxListenFaults
Fault1(d) == [d EXCEPT !.faults = @ + 1]

------------------------------------------------------------------------------
(* The SX1261 (external) and the commands it takes. *)

NewSx(usb) == [usb |-> usb, bulk |-> FALSE, pending |-> <<>>, freq |-> 0, rx |-> FALSE, lbt |-> FALSE,
               scan |-> "NONE", seen |-> {}, faults |-> 0]
Cmd(c, f) == [c |-> c, f |-> f]

\* A scan measures the frequency the radio is tuned to at the time; the register
\* that stops the listening also stops a scan.
Obeys(d, cmd) ==
  CASE cmd.c = "abort" -> [d EXCEPT !.lbt = FALSE, !.scan = IF @ = "ON_GOING" THEN "ABORTED" ELSE @]
    [] cmd.c = "fs"    -> [d EXCEPT !.rx = FALSE]
    [] cmd.c = "freq"  -> [d EXCEPT !.freq = cmd.f, !.seen = IF d.scan = "ON_GOING" THEN @ \cup {cmd.f} ELSE @]
    [] cmd.c = "rx"    -> [d EXCEPT !.rx = TRUE]
    [] cmd.c = "lbt"   -> [d EXCEPT !.lbt = TRUE]
    [] cmd.c = "scan"  -> [d EXCEPT !.scan = "ON_GOING", !.seen = {d.freq}]
    [] OTHER           -> d

------------------------------------------------------------------------------
(* loragw_sx1261.c *)

\* In bulk mode over USB a command is only stored.  A failing write was executed
\* or not.
sx1261_reg_w(d, cmd) ==
  IF d.usb /\ d.bulk THEN Succeeds([d EXCEPT !.pending = Append(@, cmd)])
  ELSE Succeeds(Obeys(d, cmd))
       \cup (IF HasBudget(d) THEN Fails(Fault1(d)) \cup Fails(Obeys(Fault1(d), cmd)) ELSE {})

\* Nothing is read in bulk mode over USB.
sx1261_reg_r(d) ==
  IF d.usb /\ d.bulk THEN Fails(d)
  ELSE Succeeds(d) \cup (IF HasBudget(d) THEN Fails(Fault1(d)) ELSE {})

SetWriteMode(d, bulk) == Succeeds([d EXCEPT !.bulk = bulk])

\* The commands, one after the other
Executed(d, cmds) ==
  LET after[n \in 0 .. Len(cmds)] == IF n = 0 THEN d ELSE Obeys(after[n - 1], cmds[n])
  IN  after[Len(cmds)]

\* Back to single mode, then everything that is stored; what could not be sent
\* stays stored.
FlushPending(d) ==
  IF ~d.usb THEN Succeeds(d)
  ELSE LET single == [d EXCEPT !.bulk = FALSE]
           done == Executed([single EXCEPT !.pending = <<>>], d.pending)
       IN  Succeeds(done)
           \cup (IF HasBudget(d) THEN Fails(Fault1(single)) \cup
                                     Fails([Fault1(done) EXCEPT !.pending = d.pending]) ELSE {})

sx1261_spectral_scan_abort(d) == sx1261_reg_w(d, Cmd("abort", 0))

\* The FSK modem, for the bandwidth
sx1261_set_fsk(d, bandwidth) ==
  AndThen(sx1261_reg_w(d, Cmd("fsk", 0)),
          LAMBDA e : IF bandwidth \in {125, 250} THEN sx1261_reg_w(e, Cmd("fsk", bandwidth)) ELSE Fails(e))

\* Tuned to the frequency, for the bandwidth, and receiving: every command up to
\* the bandwidth is given before the bandwidth is looked at.
TuneTo(quiet, freq_hz, bandwidth) ==
  LET idle == AndThen(quiet, LAMBDA e : sx1261_reg_w(e, Cmd("fs", 0)))
      tuned == AndThen(idle, LAMBDA e : sx1261_reg_w(e, Cmd("freq", freq_hz)))
      params == AndThen(tuned, LAMBDA e : sx1261_set_fsk(e, bandwidth))
      receiving == AndThen(params, LAMBDA e : sx1261_reg_w(e, Cmd("rx", 0)))
  IN  AndThen(AndThen(receiving, FlushPending), LAMBDA e : SetWriteMode(e, FALSE))

\* Mutant: a running scan is not aborted.
sx1261_set_rx_params_keeping(d, freq_hz, bandwidth) ==
  TuneTo(SetWriteMode(d, TRUE), freq_hz, bandwidth)

\* A running scan is aborted first.
sx1261_set_rx_params(d, freq_hz, bandwidth) ==
  TuneTo(AndThen(SetWriteMode(d, TRUE), sx1261_spectral_scan_abort), freq_hz, bandwidth)

sx1261_lbt_start(d) == sx1261_reg_w(d, Cmd("lbt", 0))
sx1261_lbt_stop(d) ==
  AndThen(sx1261_reg_w(d, Cmd("abort", 0)), LAMBDA e : sx1261_reg_w(e, Cmd("fs", 0)))
sx1261_spectral_scan_start(d) == sx1261_reg_w(d, Cmd("scan", 0))
sx1261_spectral_scan_status(d) == sx1261_reg_r(d)
sx1261_spectral_scan_get_results(d) == sx1261_reg_r(d)

lgw_spectral_scan_start(d, freq_hz) ==
  AndThen(sx1261_set_rx_params(d, freq_hz, 125), sx1261_spectral_scan_start)

------------------------------------------------------------------------------
(* loragw_lbt.c *)

is_equal_freq(a, b) == a - b \in -10 .. 10
is_lbt_channel(pkt) == {c \in LbtChannels : is_equal_freq(pkt.freq, c.freq) /\ pkt.bw = c.bw}

\* No channel, a channel without transmit time, a packet that is too long for it.
lgw_lbt_start(d, pkt) ==
  IF \/ is_lbt_channel(pkt) = {}
     \/ LET c == CHOOSE x \in is_lbt_channel(pkt) : TRUE
        IN  2 * c.transmit_time_ms <= 3 \/ 2 * pkt.toa_ms > 2 * c.transmit_time_ms - 3
  THEN Fails(d)
  ELSE AndThen(sx1261_set_rx_params(d, pkt.freq, pkt.bw), sx1261_lbt_start)

lgw_lbt_stop(d) == sx1261_lbt_stop(d)

------------------------------------------------------------------------------
(* thread_jit: the emission of a packet, under mx_concent. *)

Talking == talk.pc # "idle"

\* The scan is aborted, with a warning when that fails; then lgw_send starts.
JitSend(p) ==
  /\ ~Talking /\ p \notin talk.done /\ fsm[p.chain] = "free"
  /\ \E o \in Anyway(sx1261_spectral_scan_abort(sx), LAMBDA d : lgw_lbt_start(d, p)) :
       /\ sx' = o.s
       /\ talk' = [talk EXCEPT !.pc = IF o.ok THEN "send" ELSE "idle", !.pkt = p, !.done = @ \cup {p},
                               !.result = IF o.ok THEN "none" ELSE "error"]
  /\ ear' = [ear EXCEPT !.decided = "none", !.heard = 0]
  /\ UNCHANGED <<fsm, probe, shown>>

\* The end of lgw_send: the listening stops, and when that fails the call does.
Finish(d, result) ==
  \E o \in lgw_lbt_stop(d) :
    /\ sx' = o.s
    /\ talk' = [talk EXCEPT !.pc = "idle", !.result = IF o.ok THEN result ELSE "error"]

sx1302_send_step ==
  /\ talk.pc = "send"
  /\ \/ /\ fsm' = [fsm EXCEPT ![talk.pkt.chain] = "scheduled"]
        /\ talk' = [talk EXCEPT !.pc = "verdict"]
        /\ UNCHANGED sx
     \/ Budget /\ Finish(Fault1(sx), "error") /\ UNCHANGED fsm
  /\ UNCHANGED <<ear, probe, shown>>

\* An AGC status that cannot be read ends the wait at once: the packet is aborted,
\* the status not cleared.
GiveUp ==
  /\ talk.pc \in {"verdict", "clear"} /\ Budget
  /\ fsm' = [fsm EXCEPT ![talk.pkt.chain] = "free"]
  /\ \E o \in lgw_lbt_stop(Fault1(sx)) :
       sx' = o.s /\ talk' = [talk EXCEPT !.pc = "idle", !.result = "error", !.slipped = TRUE]
  /\ UNCHANGED <<ear, probe, shown>>

\* Mutant: the transmit status is not cleared.
lgw_lbt_tx_status_keeping ==
  /\ talk.pc = "verdict" /\ ear.init[talk.pkt.chain]
  /\ talk' = [talk EXCEPT !.pc = "stop", !.tx_ok = ~ear.blocked[talk.pkt.chain]]
  /\ UNCHANGED <<ear, sx, fsm, probe, shown>>

\* The bit of the chain says that the packet was initiated, another one that it may
\* not leave; the transmit status is cleared.
lgw_lbt_tx_status ==
  /\ talk.pc = "verdict" /\ ear.init[talk.pkt.chain]
  /\ talk' = [talk EXCEPT !.pc = "clear", !.tx_ok = ~ear.blocked[talk.pkt.chain]]
  /\ ear' = [ear EXCEPT !.mbox = 255]
  /\ UNCHANGED <<sx, fsm, probe, shown>>

\* Half a second has passed: the status is cleared all the same, the call fails.
VerdictTimeout ==
  /\ talk.pc = "verdict" /\ Budget
  /\ sx' = Fault1(sx)
  /\ talk' = [talk EXCEPT !.pc = "clear", !.timeout = TRUE, !.slipped = TRUE]
  /\ ear' = [ear EXCEPT !.mbox = 255]
  /\ UNCHANGED <<fsm, probe, shown>>

\* The status is 0, which is acknowledged.
Acknowledge ==
  /\ talk.pc = "clear" /\ \A r \in {0, 1} : ~ear.init[r]
  /\ ear' = [ear EXCEPT !.mbox = 0]
  /\ talk' = [talk EXCEPT !.pc = "stop"]
  /\ UNCHANGED <<sx, fsm, probe, shown>>

\* lgw_send returns; after a timeout it aborts the packet.
LbtStop ==
  /\ talk.pc = "stop"
  /\ IF talk.timeout
     THEN /\ fsm' = [fsm EXCEPT ![talk.pkt.chain] = "free"]
          /\ \E o \in lgw_lbt_stop(sx) :
               sx' = o.s /\ talk' = [talk EXCEPT !.pc = "idle", !.timeout = FALSE, !.result = "error"]
     ELSE Finish(sx, IF talk.tx_ok THEN "success" ELSE "not_allowed") /\ UNCHANGED fsm
  /\ UNCHANGED <<ear, probe, shown>>

------------------------------------------------------------------------------
(* The AGC and the transmitter (external). *)

\* The time of a packet comes: it leaves unless the SX1261 hears somebody.
AgcDecides(r) ==
  /\ ear.phase = "ready" /\ fsm[r] = "scheduled"
  /\ \E blocked \in BOOLEAN :
       /\ ear' = [ear EXCEPT !.phase = "told", !.init[r] = TRUE, !.blocked[r] = blocked,
                             !.decided = IF blocked THEN "not_allowed" ELSE "success",
                             !.heard = IF sx.rx /\ sx.lbt THEN sx.freq ELSE 0]
       /\ fsm' = [fsm EXCEPT ![r] = IF blocked THEN "free" ELSE "emitting"]
  /\ UNCHANGED <<sx, talk, probe, shown>>

AgcHandshake ==
  /\ \/ ear.phase = "told" /\ ear.mbox = 255
        /\ ear' = [ear EXCEPT !.phase = "cleared", !.init = [r \in {0, 1} |-> FALSE],
                              !.blocked = [r \in {0, 1} |-> FALSE]]
     \/ ear.phase = "cleared" /\ ear.mbox = 0 /\ ear' = [ear EXCEPT !.phase = "ready"]
  /\ UNCHANGED <<sx, fsm, talk, probe, shown>>

Emitted(r) ==
  fsm[r] = "emitting" /\ fsm' = [fsm EXCEPT ![r] = "free"] /\ UNCHANGED <<sx, ear, talk, probe, shown>>

ScanCompletes ==
  /\ sx.scan = "ON_GOING" /\ sx' = [sx EXCEPT !.scan = "COMPLETED"]
  /\ UNCHANGED <<ear, fsm, talk, probe, shown>>

------------------------------------------------------------------------------
(* thread_spectral_scan *)

Busy(tx) == tx \in {"scheduled", "emitting"}

\* The last status read: the loop over the chains ends at a busy one.  One that
\* cannot be read is TX_STATUS_UNKNOWN.
TxStatusOf(d) ==
  LET read(s, r) == {[tx |-> fsm[r], s |-> s]}
                    \cup (IF HasBudget(s) THEN {[tx |-> "unknown", s |-> Fault1(s)]} ELSE {})
  IN  UNION {IF Busy(o.tx) THEN {o} ELSE read(o.s, 1) : o \in read(d, 0)}

StartScan ==
  /\ probe.pc = "pace" /\ ~Talking
  /\ \E t \in TxStatusOf(sx) :
       IF Busy(t.tx) THEN sx' = t.s /\ UNCHANGED probe
       ELSE \E o \in lgw_spectral_scan_start(t.s, probe.freq) :
              /\ sx' = o.s
              /\ probe' = [probe EXCEPT !.pc = IF o.ok THEN "wait" ELSE "pace", !.scanStatus = "UNKNOWN",
                             !.over = t.s.faults = sx.faults /\ \E r \in {0, 1} : Busy(fsm[r])]
  /\ UNCHANGED <<ear, fsm, talk, shown>>

\* The poll every 10 ms; it ends the wait when the status is final or cannot be read.
PollScan ==
  /\ probe.pc = "wait" /\ ~Talking
  /\ \E o \in sx1261_spectral_scan_status(sx) :
       /\ sx' = o.s
       /\ probe' = [probe EXCEPT !.scanStatus = IF o.ok THEN o.s.scan ELSE @,
                                 !.pc = IF ~o.ok \/ o.s.scan \in {"COMPLETED", "ABORTED"} THEN "waited" ELSE @]
  /\ UNCHANGED <<ear, fsm, talk, shown>>

\* The scan takes more than two seconds.
ScanTimeout ==
  /\ probe.pc = "wait" /\ Budget
  /\ sx' = Fault1(sx)
  /\ probe' = [probe EXCEPT !.pc = "waited"]
  /\ UNCHANGED <<ear, fsm, talk, shown>>

NextFreq(f) == IF f + 200 >= FreqStop THEN FreqStart ELSE f + 200

\* The results are only fetched, and the next channel only taken, when the scan is
\* completed and the results could be read.
EndScan ==
  /\ probe.pc = "waited"
  /\ IF probe.scanStatus # "COMPLETED"
     THEN probe' = [probe EXCEPT !.pc = "pace"] /\ UNCHANGED <<sx, shown>>
     ELSE /\ ~Talking
          /\ \E o \in sx1261_spectral_scan_get_results(sx) :
               /\ sx' = o.s
               /\ shown' = IF o.ok THEN [freq |-> probe.freq, seen |-> o.s.seen] ELSE shown
               /\ probe' = [probe EXCEPT !.pc = "pace", !.freq = IF o.ok THEN NextFreq(@) ELSE @]
  /\ UNCHANGED <<ear, fsm, talk>>

------------------------------------------------------------------------------
ListenInit ==
  /\ \E usb \in BOOLEAN : sx = NewSx(usb)
  /\ ear = [phase |-> "ready", init |-> [r \in {0, 1} |-> FALSE], blocked |-> [r \in {0, 1} |-> FALSE],
            mbox |-> 0, decided |-> "none", heard |-> 0]
  /\ fsm = [r \in {0, 1} |-> "free"]
  /\ talk = [pc |-> "idle", pkt |-> NoPacket, done |-> {}, tx_ok |-> FALSE, timeout |-> FALSE,
             result |-> "none", slipped |-> FALSE]
  /\ probe = [pc |-> "pace", freq |-> FreqStart, scanStatus |-> "UNKNOWN", over |-> FALSE]
  /\ shown = [freq |-> 0, seen |-> {0}]

ListenNext ==
  \/ \E p \in Downlinks : JitSend(p)
  \/ sx1302_send_step \/ GiveUp \/ lgw_lbt_tx_status \/ VerdictTimeout \/ Acknowledge \/ LbtStop
  \/ \E r \in {0, 1} : AgcDecides(r) \/ Emitted(r)
  \/ AgcHandshake \/ ScanCompletes
  \/ StartScan \/ PollScan \/ ScanTimeout \/ EndScan

ListenSpec == ListenInit /\ [][ListenNext]_listenVars

\* What lgw_send answers is what the AGC decided on this very packet, and it
\* decided while the SX1261 was listening on the frequency of the packet: unless the
\* wait for a decision failed once, after which the answers may be those of an
\* earlier packet.
VerdictIsOwn ==
  ~talk.slipped /\ talk.result \in {"success", "not_allowed"} =>
    talk.result = ear.decided /\ ear.heard = talk.pkt.freq

\* A spectrum is shown for the frequency it was measured on, all of it: a scan that
\* a downlink interrupted by tuning the radio is never taken for complete, even when
\* the abort of thread_jit failed.
ShownIsMeasured == shown.seen = {shown.freq}

\* A scan is not started while a packet is scheduled or emitted on either chain,
\* provided the status of the chains could be read.
ScanSparesDownlink == ~probe.over

\* The background scan and the downlinks that share the SX1261 do not spoil each other.
ScanHarmless == ShownIsMeasured /\ ScanSparesDownlink
=============================================================================
