------------------------------- MODULE HalMcu -------------------------------
(***************************************************************************)
(* The start of the two MCUs of the SX1302 once their firmware is loaded   *)
(* (sx1302_agc_start and sx1302_arb_start in loragw_sx1302.c).  The host   *)
(* hands the AGC its parameters through a mailbox of four bytes, stage by  *)
(* stage: it writes the parameters, writes a number into the last byte to  *)
(* notify the AGC, waits for the status that acknowledges them, and        *)
(* compares the echo of the AGC with what it wrote.  The arbiter is        *)
(* configured the same way, once.                                          *)
(*                                                                         *)
(* The results of the register accesses are ignored on the way: a write    *)
(* that fails changes nothing, a read that fails leaves the variable it    *)
(* was read into, and a status that cannot be read ends the waiting.       *)
(*                                                                         *)
(* The firmware of the MCUs is external: it waits for the number of its    *)
(* stage, takes the bytes of the mailbox, echoes them and sets the status. *)
(***************************************************************************)
EXTENDS Integers, Sequences

CONSTANTS
  Sx1250,        \* the radios are SX1250 (otherwise SX125x)
  FullDuplex,    \* 0 or 1
  Lbt,           \* 0 or 1
  DoubleDemod,   \* the spreading factors with a double demodulation, a byte
  MaxMcuFaults   \* bound on the failed register accesses

ASSUME McuAssumption == {Sx1250} \subseteq BOOLEAN /\ {FullDuplex, Lbt} \subseteq 0 .. 1

VARIABLES
  at,       \* where the host is: [stage, step], or the result of the start
  val,      \* the host's variable val
  box,      \* the mailbox the host writes, bytes 1 to 4
  echo,     \* the mailbox the AGC writes, bytes 1 to 3
  status,   \* the status of the AGC
  agc,      \* the stages the AGC has taken, with their parameters
  arb,      \* the arbiter: its status, its registers, what it runs with
  faults,   \* failed accesses so far
  blind     \* a status could not be read

mcuVars == <<at, val, box, echo, status, agc, arb, faults, blind>>

\* A stage: the bytes the host writes, the ones it checks, the notification and
\* the status that acknowledges it.  P(a, b) is the value for SX1250 and SX125x.
Stage(bytes, written, checked, note, next) ==
  [bytes |-> bytes, written |-> written, checked |-> checked, note |-> note, next |-> next]

P(a, b) == IF Sx1250 THEN a ELSE b
AutoGain == 255

\* The gains of radio A and of radio B; the duplex mode is written to SX125x only
\* but checked always.
RadioGains ==
  LET gains == <<AutoGain, AutoGain, FullDuplex>>
      written == P(2, 3)
  IN  <<Stage(gains, written, 3, 128, 2), Stage(gains, written, 3, 32, 3)>>

\* The limits and thresholds of the analog gain.
AnalogParams == <<Stage(<<P(1, 0), P(13, 9)>>, 2, 2, 3, 4), Stage(<<P(3, 16), P(12, 35)>>, 2, 2, 4, 5)>>

\* The limits and thresholds of the decimator.
DecimatorParams == 
  <<Stage(<<P(4, 7), P(15, 11)>>, 2, 2, 5, 6), Stage(<<P(40, 45), P(80, 100), P(90, 115)>>, 3, 3, 6, 7)>>

\* The limits and thresholds of the channels.
ChannelParams == <<Stage(<<4, 14>>, 2, 2, 7, 8), Stage(<<52, 132>>, 2, 2, 8, 9)>>

\* The power amplifier of the SX1250, the delay of its start, and LBT.
PaParams ==
  (IF Sx1250 THEN <<Stage(<<0, 7, 4>>, 3, 3, 9, 10)>> ELSE <<>>)
  \o <<Stage(<<8>>, 1, 1, 10, 11), Stage(<<Lbt>>, 1, 1, 11, 15)>>

Stages == RadioGains \o AnalogParams \o DecimatorParams \o ChannelParams \o PaParams

\* The version the firmware of the AGC puts into the mailbox before it starts.
Version == 20
Arbiter == Len(Stages) + 1

------------------------------------------------------------------------------
McuInit ==
  /\ at = [stage |-> 0, step |-> "wait", n |-> 1]
  /\ val = 0
  /\ box = <<0, 0, 0, 0>>
  /\ echo = <<Version, 0, 0>>
  /\ status = 0
  /\ agc = <<>>
  /\ arb = [status |-> 0, regs |-> <<0, 0, 0, 0>>, runs |-> <<>>]
  /\ faults = 0
  /\ blind = FALSE

Go(stage, step, n) == at' = [stage |-> stage, step |-> step, n |-> n]
Return(r) == at' = [stage |-> at.stage, step |-> r, n |-> 1]
Fault == faults < MaxMcuFaults /\ faults' = faults + 1
NoFault == UNCHANGED faults

\* The status the host waits for: the version is ready, then the stage is acknowledged.
Awaited == IF at.stage = 0 THEN 1 ELSE Stages[at.stage].next
Expected(n) == IF at.stage = 0 THEN Version ELSE Stages[at.stage].bytes[n]
Checked == IF at.stage = 0 THEN 1 ELSE Stages[at.stage].checked

\* Parameters into the mailbox, then the notification.
sx1302_agc_mailbox_write ==
  /\ at.step = "write" /\ at.stage \in 1 .. Len(Stages)
  /\ LET st == Stages[at.stage]
         last == at.n > st.written
         byte == IF last THEN 4 ELSE at.n
         value == IF last THEN st.note ELSE st.bytes[at.n]
     IN  /\ \/ box' = [box EXCEPT ![byte] = value] /\ NoFault
            \/ UNCHANGED box /\ Fault
         /\ IF last THEN Go(at.stage, "wait", 1) ELSE Go(at.stage, "write", at.n + 1)
  /\ UNCHANGED <<val, echo, status, agc, arb, blind>>

\* Polls until the status comes, without a timeout.  A status that cannot be read
\* ends the waiting, and the caller does not notice.
sx1302_agc_wait_status ==
  /\ at.step = "wait" /\ at.stage < Arbiter
  /\ \/ status = Awaited /\ NoFault /\ UNCHANGED blind
     \/ Fault /\ blind' = TRUE
  /\ Go(at.stage, "check", 1)
  /\ UNCHANGED <<val, box, echo, status, agc, arb>>

\* Mutant: the echo is neither read nor compared.
CheckParams_blind ==
  /\ at.step = "check" /\ at.stage < Arbiter
  /\ Go(at.stage + 1, "write", 1)
  /\ UNCHANGED <<val, box, echo, status, agc, arb, faults, blind>>

\* The echo of each byte is read (a failed read leaves val) and compared.
CheckParams ==
  /\ at.step = "check" /\ at.stage < Arbiter
  /\ \/ val' = echo[at.n] /\ NoFault
     \/ UNCHANGED val /\ Fault
  /\ IF val' # Expected(at.n) THEN Return("error")
     ELSE IF at.n < Checked THEN Go(at.stage, "check", at.n + 1)
     ELSE Go(at.stage + 1, "write", 1)
  /\ UNCHANGED <<box, echo, status, agc, arb, blind>>

\* The last notification: the AGC runs.  The arbiter is started next.
FinishAgc ==
  /\ at.stage = Arbiter /\ at.step = "write"
  /\ \/ box' = [box EXCEPT ![4] = 15] /\ NoFault
     \/ UNCHANGED box /\ Fault
  /\ Go(Arbiter, "wait", 1)
  /\ UNCHANGED <<val, echo, status, agc, arb, blind>>

\* The two waits of the start of the arbiter: for its version, and for it to resume.
sx1302_arb_wait_status ==
  /\ at.stage = Arbiter /\ at.step \in {"wait", "resume"}
  /\ \/ arb.status = (IF at.step = "wait" THEN 1 ELSE 0) /\ NoFault /\ UNCHANGED blind
     \/ Fault /\ blind' = TRUE
  /\ IF at.step = "wait" THEN Go(Arbiter, "version", 1) ELSE Return("success")
  /\ UNCHANGED <<val, box, echo, status, agc, arb>>

\* The version, in the first of the debug registers of the arbiter.
sx1302_arb_debug_read ==
  /\ at.stage = Arbiter /\ at.step = "version"
  /\ \/ val' = (IF arb.status = 1 THEN Version ELSE 0) /\ NoFault
     \/ UNCHANGED val /\ Fault
  /\ IF val' # Version THEN Return("error") ELSE Go(Arbiter, "debug", 1)
  /\ UNCHANGED <<box, echo, status, agc, arb, blind>>

\* The configuration of the arbiter: the statistics of SF7, the double demodulation,
\* the filter, and the permission to resume.  It is not checked.
ArbConf == <<[reg |-> 1, value |-> 7], [reg |-> 4, value |-> DoubleDemod],
             [reg |-> 3, value |-> 3], [reg |-> 2, value |-> 1]>>

sx1302_arb_debug_write ==
  /\ at.stage = Arbiter /\ at.step = "debug"
  /\ \/ arb' = [arb EXCEPT !.regs[ArbConf[at.n].reg] = ArbConf[at.n].value] /\ NoFault
     \/ UNCHANGED arb /\ Fault
  /\ IF at.n < Len(ArbConf) THEN Go(Arbiter, "debug", at.n + 1) ELSE Go(Arbiter, "resume", 1)
  /\ UNCHANGED <<val, box, echo, status, agc, blind>>

sx1302_arb_start == sx1302_arb_wait_status \/ sx1302_arb_debug_read \/ sx1302_arb_debug_write

\* The firmware of the arbiter: its version, then what the host configured.
ArbBoots ==
  /\ at.stage = Arbiter /\ at.step = "wait" /\ arb.status = 0
  /\ arb' = [arb EXCEPT !.status = 1]
  /\ UNCHANGED <<at, val, box, echo, status, agc, faults, blind>>

ArbResumes ==
  /\ arb.status = 1 /\ arb.regs[2] = 1
  /\ arb' = [arb EXCEPT !.status = 0, !.runs = @ \o arb.regs]
  /\ UNCHANGED <<at, val, box, echo, status, agc, faults, blind>>

\* The firmware of the AGC: the version first, then stage by stage.
AgcBoots ==
  /\ status = 0 /\ status' = 1
  /\ UNCHANGED <<at, val, box, echo, agc, arb, faults, blind>>

AgcTakes ==
  /\ status > 0 /\ Len(agc) < Len(Stages)
  /\ LET st == Stages[Len(agc) + 1]
         bytes == SubSeq(box, 1, Len(st.bytes))
     IN  /\ box[4] = st.note
         /\ agc' = Append(agc, bytes)
         /\ echo' = [i \in 1 .. 3 |-> box[i]]
         /\ status' = st.next
  /\ UNCHANGED <<at, val, box, arb, faults, blind>>

McuNext ==
  \/ sx1302_agc_mailbox_write
  \/ sx1302_agc_wait_status
  \/ CheckParams
  \/ FinishAgc
  \/ sx1302_arb_start
  \/ AgcBoots
  \/ AgcTakes
  \/ ArbBoots
  \/ ArbResumes

McuSpec == McuInit /\ [][McuNext]_mcuVars

------------------------------------------------------------------------------
\* With every status read and at most one other access failing unnoticed (a write to
\* the mailbox or the reading of an echo), a stage the host has gone past was taken by
\* the AGC with exactly the parameters the host chose for it.  What the arbiter was
\* given is not read back: it is right at the end of a start in which no access failed.
AgcConfigured ==
  ~blind =>
    /\ faults <= 1 =>
         \A i \in 1 .. Len(Stages) : i < at.stage => i <= Len(agc) /\ agc[i] = Stages[i].bytes
    /\ faults = 0 /\ at.step = "success" => arb.runs = <<7, 1, 3, DoubleDemod>>
=============================================================================
