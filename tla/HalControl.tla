----------------------------- MODULE HalControl -----------------------------
(***************************************************************************)
(* The control of the concentrator by the HAL (loragw_hal.c and the parts  *)
(* of loragw_sx1302.c, loragw_sx1250.c, loragw_sx125x.c and loragw_cal.c   *)
(* it calls): the configuration, the start, the stop and the emission.     *)
(*                                                                         *)
(* The registers that sequence the hardware (clock, resets, host control)  *)
(* are single bits; the many registers of a block are one value, the       *)
(* configuration they were written from, or Partial when one of the writes *)
(* failed.  Every access may fail, MaxChipFaults times.  How the accesses  *)
(* reach the chip is in ComLink, how the MCUs take their parameters in     *)
(* HalMcu, the SX1261 in Listen.                                           *)
(***************************************************************************)
EXTENDS Outcomes, FiniteSets

CONSTANTS
  MaxChipFaults,  \* bound on the accesses that fail
  MaxCalls,       \* bound on the calls of the HAL that change something
  Confs,          \* configurations the program may have read from its file
  Freqs,          \* frequencies of the radios; 0 lies outside the bands of the SX1250
  IfSettings,     \* <<channel, setting>>: settings of the IF chains; 0 disables a channel
  TxGains,        \* gain tables; gain 0 is not valid
  Emissions       \* <<modulation, trigger, power>> of the packets

RfChains == {0, 1}
Uncalibrated == 0

\* A gain table: its size, and the entries of the array.
Luts == [size : Nat, entries : Seq([gain : Nat, offset : Nat])]

\* conf is the CONTEXT_* variables, with one value for each group of parameters used
\* together.
BoardConfs ==
  [com : {"SPI", "USB"}, sx1250 : BOOLEAN, sx1303 : BOOLEAN, clksrc : RfChains, duplex : BOOLEAN,
   public : BOOLEAN, enable : [RfChains -> BOOLEAN], freq : [RfChains -> Nat],
   txen : [RfChains -> BOOLEAN], ifs : Nat, service : Nat, fsk : Nat, demod : Nat,
   ftime : BOOLEAN, sx1261 : BOOLEAN, lbt : BOOLEAN, lut : [RfChains -> Luts]]

\* The SX125x are not supported over USB.  A radio is enabled: with none, the errors that
\* sx1302_radio_calibrate overwrites would be its result.  A table of gains fits in the
\* array, and nothing is calibrated yet.
ASSUME ControlAssumption ==
  /\ Confs \subseteq BoardConfs
  /\ \A c \in Confs :
       /\ (c.com = "USB" => c.sx1250) /\ \E r \in RfChains : c.enable[r]
       /\ \A r \in RfChains :
            /\ 1 <= c.lut[r].size /\ c.lut[r].size <= Len(c.lut[r].entries)
            /\ \A i \in 1 .. Len(c.lut[r].entries) : c.lut[r].entries[i].offset = Uncalibrated
            /\ \A g \in TxGains : Len(g) <= Len(c.lut[r].entries)
  /\ {MaxChipFaults, MaxCalls} \subseteq Nat /\ Freqs \subseteq Nat /\ IfSettings \subseteq Nat \X Nat
  /\ TxGains \subseteq Seq(Nat) \ {<<>>}
  /\ Emissions \subseteq {"cw", "lora", "fsk"} \X {"imm", "delayed", "gps"} \X Nat

VARIABLES
  hal,     \* the variables of the HAL and the chip, see NewHal
  calls,   \* the calls so far
  halted   \* the last call stopped a running concentrator, with success

controlVars == <<hal, calls, halted>>

Partial == <<-1>>      \* a block some writes of which failed
Unset == <<0>>         \* a block that was not written since the chip was reset

Blocks == {"radio0", "radio1", "init", "pa_lna", "frontend", "channelizer", "correlator", "modem",
           "service", "fsk", "syncword", "enable", "agc", "arb", "tx", "gps", "image", "sx1261"}
RadioBlock(r) == IF r = 0 THEN "radio0" ELSE "radio1"

\* The chip after a reset: clocked by the SPI, its radios in reset.
Bits == {"clk", "selB", "div", "host", "fe", "gpio", "rst0", "rst1", "mode0", "mode1"}
Rst(r) == IF r = 0 THEN "rst0" ELSE "rst1"
Mode(r) == IF r = 0 THEN "mode0" ELSE "mode1"
NewChip == [bit |-> [b \in Bits |-> 0], blk |-> [b \in Blocks |-> Unset],
            tx |-> [r \in RfChains |-> [fsm |-> "free", trig |-> {}]]]

\* The variables after the program read its file.
NewHal(conf) ==
  [bit |-> NewChip.bit, blk |-> NewChip.blk, tx |-> NewChip.tx, conf |-> conf, started |-> FALSE,
   ready |-> FALSE, ts |-> -1, ad |-> -1, faults |-> 0, clkFault |-> FALSE, pllFault |-> FALSE,
   lost |-> FALSE, sent |-> {}, fresh |-> {}, whole |-> TRUE]

\* The chip is reset behind the HAL's back.
ChipReset(s) == [s EXCEPT !.bit = NewChip.bit, !.blk = NewChip.blk, !.tx = NewChip.tx]

Garbage8 == 99         \* an offset that was never written

\* The offset the calibration measures for a gain setting of a radio (external).
Offset(r, g) == 10 * (r + 1) + g

------------------------------------------------------------------------------
(* Accesses to the chip. *)

HeldInReset(s, r) == s.bit[Rst(r)] = (IF s.conf.sx1250 THEN 0 ELSE 1)

\* Records that a write to the clock or to a reset pin left the chip on the clock
\* of an enabled radio that is held in reset.
Clocked(s, b) ==
  [s EXCEPT !.lost = @ \/ (/\ b \in {"clk", "selB", "rst0", "rst1"}
                           /\ s.bit["clk"] = 1
                           /\ s.conf.enable[s.bit["selB"]]
                           /\ HeldInReset(s, s.bit["selB"]))]

CanFail(s) == s.faults < MaxChipFaults
Failing(s) == [s EXCEPT !.faults = @ + 1]

\* An access without effect on what is modelled.
Access(s) == Succeeds(s) \cup (IF CanFail(s) THEN Fails(Failing(s)) ELSE {})

WriteBit(s, b, v) ==
  Succeeds(Clocked([s EXCEPT !.bit[b] = v], b))
  \cup (IF CanFail(s) THEN Fails([Failing(s) EXCEPT !.clkFault = @ \/ b = "clk"]) ELSE {})

\* The registers of a block, written from the values v.
WriteBlock(s, b, v) ==
  Succeeds([s EXCEPT !.blk[b] = v])
  \cup (IF CanFail(s) THEN Fails([Failing(s) EXCEPT !.blk[b] = Partial]) ELSE {})

------------------------------------------------------------------------------
(* loragw_sx1302.c: the radios. *)

sx1302_set_gpio(s, v) == WriteBit(s, "gpio", v)
sx1302_radio_host_ctrl(s, on) == WriteBit(s, "host", on)

\* The radio whose clock the chip uses, the dividers, and the switch to it; every
\* write is made.
sx1302_radio_clock_select(s, r) ==
  Also(Also(WriteBit(s, "selB", r), LAMBDA t : WriteBit(t, "div", 1)), LAMBDA t : WriteBit(t, "clk", 1))

\* The pulse on the reset pin: active low for the SX1250, high for the others.
ResetPulse(s, r) ==
  LET pulse == Also(WriteBit(s, Rst(r), 1), LAMBDA t : WriteBit(t, Rst(r), 0))
  IN  IF s.conf.sx1250 THEN Also(pulse, LAMBDA t : WriteBit(t, Rst(r), 1)) ELSE pulse

\* Mutant: the clock of the radio is still used while it is reset.
sx1302_radio_reset_clocked(s, r) == ResetPulse(s, r)

\* Back to the clock of the SPI, then the pulse.  A failed write does not end the
\* sequence.
sx1302_radio_reset(s, r) == Also(WriteBit(s, "clk", 0), LAMBDA t : ResetPulse(t, r))

sx1302_radio_set_mode(s, r) == WriteBit(s, Mode(r), IF s.conf.sx1250 THEN 1 ELSE 0)

\* f(s, r) for both chains, and for the enabled ones, until one fails.
EachChain(s, f(_, _)) == AndThen(f(s, 0), LAMBDA t : f(t, 1))
EachEnabled(s, f(_, _)) ==
  LET on(t, r) == IF t.conf.enable[r] THEN f(t, r) ELSE Succeeds(t)
  IN  AndThen(on(s, 0), LAMBDA t : on(t, 1))

------------------------------------------------------------------------------
(* Calibration. *)

\* The image calibration: a frequency outside the bands is an error.
sx1250_calibrate(s, r) ==
  IF s.conf.freq[r] = 0 THEN Anyway(Access(s), Fails) ELSE WriteBlock(s, RadioBlock(r), Unset)

\* One image calibration of the receiver: five measurements with the other radio
\* or in loopback, accepted when they are close together and good enough.
sx125x_cal_rx_image(s) == Access(s)

\* The entries of a table whose gain setting is measured: the first of each setting.
UniqueGains(lut) ==
  {i \in 1 .. lut.size : \A j \in 1 .. i - 1 : lut.entries[j].gain # lut.entries[i].gain}

\* The offset measured for the setting of entry i, when the PLL did not lock for the
\* settings of unlocked: the previous measurement counts again.
sx125x_cal_tx_dc_offset(lut, r, measured, unlocked, i) ==
  LET first == CHOOSE j \in UniqueGains(lut) : lut.entries[j].gain = lut.entries[i].gain
      good == {j \in measured \ unlocked : j <= first}
  IN  IF good = {} THEN Garbage8 ELSE Offset(r, lut.entries[Max(good)].gain)

\* Every entry of the table takes the offset of its gain setting.
FilledLut(lut, r, measured, unlocked) ==
  [lut EXCEPT !.entries = [i \in DOMAIN @ |-> IF i > lut.size THEN @[i] ELSE
     [@[i] EXCEPT !.offset = sx125x_cal_tx_dc_offset(lut, r, measured, unlocked, i)]]]

\* The offsets of a chain, gain by gain, and then its table.  A PLL that does not lock is
\* an error nobody looks at; another failure ends the calibration.  Nothing is measured
\* for a chain that does not transmit: its offsets are what the stack held.
CalibrateTx(s, r) ==
  LET lut == s.conf.lut[r]
      measured == IF s.conf.txen[r] THEN UniqueGains(lut) ELSE {}
      after(n, unlocked) == [s EXCEPT !.faults = @ + n, !.pllFault = @ \/ unlocked # {}]
      done == {[after(Cardinality(u), u) EXCEPT !.conf.lut[r] = FilledLut(lut, r, measured, u)] :
                 u \in SUBSET measured}
      failed == {after(Cardinality(u) + 1, u) :
                   u \in {v \in SUBSET measured : \E i \in measured : \A j \in v : j < i}}
  IN  {Result(t, TRUE) : t \in {d \in done : d.faults <= MaxChipFaults}}
      \cup {Result(t, FALSE) : t \in {f \in failed : f.faults <= MaxChipFaults}}

\* The image of a chain: with the other radio, then in loopback.
CalibrateRx(s, r) == UNION {IF o.ok THEN {o} ELSE sx125x_cal_rx_image(o.s) : o \in sx125x_cal_rx_image(s)}

\* The version of the calibration firmware, the images of the enabled chains, their
\* coefficients (errors ignored), then the offsets of the transmitters.
sx1302_cal_start(s) ==
  LET images == AndThen(Access(s), LAMBDA t : EachEnabled(t, CalibrateRx))
      applied == AndThen(images, LAMBDA t : Ignoring(WriteBlock(t, "image", <<1>>)))
  IN  AndThen(applied, LAMBDA t : EachChain(t, CalibrateTx))

\* The firmware is checked against what was read back (see ComLink).
LoadMcu(s, b, fw) == WriteBlock(s, b, fw)
CalFirmware == <<7>>
AgcFirmware(s) == <<IF s.conf.sx1250 THEN 1 ELSE 2>>
ArbFirmware == <<3>>

\* An SX125x is calibrated by a firmware of its own; when the calibration fails both
\* radios are reset.
CalibrateSx125x(s) ==
  LET reset(t) == Anyway(sx1302_radio_reset(t, 0), LAMBDA u : sx1302_radio_reset(u, 1))
      tried(t) == UNION {IF o.ok THEN {o} ELSE Anyway(reset(o.s), Fails) : o \in sx1302_cal_start(t)}
  IN  AndThen(LoadMcu(s, "agc", CalFirmware), tried)

ResetRadio(s, r) == AndThen(sx1302_radio_reset(s, r), LAMBDA t : sx1302_radio_set_mode(t, r))

\* The radios are reset and the clock selected; the front end is taken from the
\* AGC while the radios calibrate, and given back.  The error of taking it is
\* ignored, and a failed calibration leaves the front end with the host.
sx1302_radio_calibrate(s) ==
  LET clocked == AndThen(EachEnabled(s, ResetRadio),
                         LAMBDA t : sx1302_radio_clock_select(t, t.conf.clksrc))
      forced == AndThen(clocked, LAMBDA t : Ignoring(WriteBit(t, "fe", 1)))
      calibrated == AndThen(forced, LAMBDA t : IF t.conf.sx1250 THEN EachEnabled(t, sx1250_calibrate)
                                               ELSE CalibrateSx125x(t))
  IN  AndThen(calibrated, LAMBDA t : WriteBit(t, "fe", 0))

\* The two standby modes are checked, then the radio is tuned and receives.
sx1250_setup(s, r) == AndThen(Access(s), LAMBDA t : WriteBlock(t, RadioBlock(r), <<t.conf.freq[r]>>))

\* The result of every write is ignored; only a PLL that does not lock is an error.
sx125x_setup(s, r) ==
  AndThen(Ignoring(WriteBlock(s, RadioBlock(r), <<s.conf.freq[r]>>)), Access)

------------------------------------------------------------------------------
(* loragw_sx1302.c: the blocks, each written from a part of the configuration. *)

timestamp_counter_mode(s) == WriteBlock(s, "init", <<1, IF s.conf.ftime THEN 1 ELSE 0>>)
sx1302_config_gpio(s) == Access(s)
sx1302_get_model_id(s) == Access(s)

\* Fine timestamps need an SX1303.
sx1302_init(s) ==
  LET model == IF ~s.conf.ftime THEN Succeeds(s)
               ELSE AndThen(sx1302_get_model_id(s), LAMBDA t : IF t.conf.sx1303 THEN Succeeds(t) ELSE Fails(t))
  IN  AndThen(AndThen(model, timestamp_counter_mode), sx1302_config_gpio)

sx1302_pa_lna_lut_configure(s) == WriteBlock(s, "pa_lna", <<1, IF s.conf.duplex THEN 1 ELSE 0>>)
sx1302_radio_fe_configure(s) == WriteBlock(s, "frontend", <<1>>)
sx1302_channelizer_configure(s) == WriteBlock(s, "channelizer", <<s.conf.ifs>>)
sx1302_lora_correlator_configure(s) == WriteBlock(s, "correlator", <<s.conf.ifs, s.conf.demod>>)
sx1302_lora_modem_configure(s) == WriteBlock(s, "modem", <<s.conf.freq[0]>>)
sx1302_lora_service_correlator_configure(s) == Access(s)
sx1302_lora_service_modem_configure(s) == WriteBlock(s, "service", <<s.conf.service, s.conf.freq[0]>>)
sx1302_fsk_configure(s) == WriteBlock(s, "fsk", <<s.conf.fsk>>)
sx1302_lora_syncword(s) == WriteBlock(s, "syncword", <<IF s.conf.public THEN 1 ELSE 0, s.conf.service>>)
sx1302_modem_enable(s) == WriteBlock(s, "enable", <<1>>)
sx1302_tx_configure(s) == WriteBlock(s, "tx", <<IF s.conf.sx1250 THEN 1 ELSE 0>>)
sx1302_gps_enable(s) == WriteBlock(s, "gps", <<1>>)

------------------------------------------------------------------------------
(* loragw_hal.c: start and stop. *)

\* The I2C bus: one ioctl for each message.
i2c_linuxdev_open(s) == Access(s)
i2c_linuxdev_read(s) == Access(s)
i2c_linuxdev_write(s) == Access(s)
i2c_linuxdev_write_buffer(s) == Access(s)
i2c_linuxdev_close(s) == Access(s)

\* Three identifiers are read, the last of them only to be shown; a board without
\* the sensor answers others or not at all.
stts751_configure(s) ==
  Fails(s) \cup AndThen(AndThen(i2c_linuxdev_read(s), i2c_linuxdev_write), i2c_linuxdev_write)
stts751_get_temperature(s) == IF s.ts = -1 THEN Fails(s) ELSE AndThen(i2c_linuxdev_read(s), i2c_linuxdev_read)

\* On SPI the sensor is looked for at two addresses; none is not an error.
FindSensor(s) ==
  LET find(t) == {[o EXCEPT !.s.ts = IF o.ok THEN 1 ELSE -1] :
                    o \in AndThen(i2c_linuxdev_open(t), stts751_configure)}
  IN  IF s.conf.com # "SPI" THEN Succeeds(s)
      ELSE UNION {IF o.ok THEN {o} ELSE Ignoring(find(o.s)) : o \in find(s)}

ad5338r_write(s) == i2c_linuxdev_write_buffer(s)
ad5338r_configure(s) == AndThen(AndThen(i2c_linuxdev_write(s), ad5338r_write), ad5338r_write)

\* The DAC of the full duplex design, on SPI: opened, configured, output off.  It is
\* closed again when it cannot be configured.
ConfigureDac(s) ==
  LET configured(t) == {[o EXCEPT !.s.ad = IF o.ok THEN 1 ELSE -1] : o \in ad5338r_configure(t)}
  IN  IF s.conf.com # "SPI" \/ ~s.conf.duplex THEN Succeeds(s)
      ELSE AndThen(AndThen(i2c_linuxdev_open(s), configured), ad5338r_write)

\* The patch is checked by the version it brings; a frequency outside the bands
\* cannot be calibrated for; the radio is left in standby.
sx1261_load_pram(s) == AndThen(Access(s), LAMBDA t : WriteBlock(t, "sx1261", <<1>>))
sx1261_calibrate(s) == IF s.conf.freq[0] = 0 THEN Anyway(Access(s), Fails) ELSE Access(s)
sx1261_setup(s) == AndThen(Access(s), LAMBDA t : WriteBlock(t, "sx1261", <<2>>))
sx1261_connect(s) == Access(s)

StartSx1261(s) ==
  IF ~s.conf.sx1261 THEN Succeeds(s)
  ELSE AndThen(AndThen(AndThen(sx1261_connect(s), sx1261_load_pram), sx1261_calibrate), sx1261_setup)

\* Over USB opening the link resets the chip (see ComLink).
lgw_connect_chip(s) ==
  {IF o.ok /\ s.conf.com = "USB" THEN [o EXCEPT !.s = ChipReset(@)] ELSE o : o \in Access(s)}

SetupRadio(s, r) ==
  AndThen(AndThen(sx1302_radio_reset(s, r),
                  LAMBDA t : IF t.conf.sx1250 THEN sx1250_setup(t, r) ELSE sx125x_setup(t, r)),
          LAMBDA t : sx1302_radio_set_mode(t, r))

\* The radios: calibrated, tuned, their clock selected, left to the AGC.
StartRadios(s) ==
  LET connected == AndThen(lgw_connect_chip(s), LAMBDA t : sx1302_set_gpio(t, 0))
      tuned == AndThen(AndThen(connected, sx1302_radio_calibrate), LAMBDA t : EachEnabled(t, SetupRadio))
      clocked == AndThen(tuned, LAMBDA t : sx1302_radio_clock_select(t, t.conf.clksrc))
  IN  AndThen(clocked, LAMBDA t : sx1302_radio_host_ctrl(t, 0))

\* The receivers, block by block.
StartChannels(s) ==
  LET base == AndThen(AndThen(sx1302_init(s), sx1302_pa_lna_lut_configure), sx1302_radio_fe_configure)
      channels == AndThen(AndThen(base, sx1302_channelizer_configure), sx1302_lora_correlator_configure)
  IN  AndThen(channels, sx1302_lora_modem_configure)

\* The LoRa service and the FSK channel, when they are enabled.
StartModems(s) ==
  LET service(t) == IF t.conf.service = 0 THEN Succeeds(t)
                    ELSE AndThen(sx1302_lora_service_correlator_configure(t),
                                 sx1302_lora_service_modem_configure)
      fsk(t) == IF t.conf.fsk = 0 THEN Succeeds(t) ELSE sx1302_fsk_configure(t)
  IN  AndThen(AndThen(AndThen(service(s), fsk), sx1302_lora_syncword), sx1302_modem_enable)

\* The firmware of the two MCUs, started by an access to each.
StartMcus(s) ==
  LET agc == AndThen(LoadMcu(s, "agc", AgcFirmware(s)), Access)
  IN  AndThen(AndThen(agc, LAMBDA t : LoadMcu(t, "arb", ArbFirmware)), Access)

StartPeripherals(s) ==
  LET gps == AndThen(sx1302_tx_configure(s), sx1302_gps_enable)
      dac == AndThen(AndThen(gps, FindSensor), ConfigureDac)
  IN  AndThen(AndThen(dac, StartSx1261), LAMBDA t : sx1302_set_gpio(t, 1))

\* A step that fails ends the start and undoes nothing; started keeps its value.
\* A concentrator that runs is started again.
lgw_start(s) ==
  LET modems == AndThen(AndThen(StartRadios(s), StartChannels), StartModems)
  IN  {IF o.ok THEN [o EXCEPT !.s.started = TRUE, !.s.ready = TRUE] ELSE [o EXCEPT !.s.ready = FALSE] :
         o \in AndThen(AndThen(modems, StartMcus), StartPeripherals)}

\* Mutant: the trigger by the GPS is left armed.
sx1302_tx_abort_timed(s, r) ==
  AndThen(Access(s), LAMBDA t : Succeeds([t EXCEPT !.tx[r].trig = @ \cap {"gps"},
    !.tx[r].fsm = IF "gps" \in t.tx[r].trig THEN @ ELSE "free"]))

\* The triggers are cleared; a packet that waits for its time is given up, one
\* that is being emitted may take longer than the timeout of a second.
sx1302_tx_abort(s, r) ==
  LET cleared == [s EXCEPT !.tx[r].trig = {}]
      freed == [cleared EXCEPT !.tx[r].fsm = "free"]
  IN  Succeeds(freed)
      \cup (IF s.tx[r].fsm = "emitting" THEN Fails(cleared) ELSE {})
      \cup (IF CanFail(s) THEN Fails(Failing(s)) ELSE {})

lgw_abort_tx(s, r) == sx1302_tx_abort(s, r)

\* The emissions are aborted, the link and the I2C devices closed: all of it,
\* whatever fails.  Closing the sensor fails when none was found.
lgw_stop(s) ==
  LET aborted == Also(lgw_abort_tx(s, 0), LAMBDA t : lgw_abort_tx(t, 1))
      closed == Also(aborted, Access)
      close(t, fd) == IF fd = -1 THEN Fails(t) ELSE i2c_linuxdev_close(t)
      dac(t) == IF t.conf.duplex THEN close(t, t.ad) ELSE Succeeds(t)
      sensor(t) == IF t.conf.com # "SPI" THEN Succeeds(t) ELSE Also(close(t, t.ts), dac)
      stopped == {[o EXCEPT !.s.started = FALSE, !.s.ready = FALSE] : o \in Also(closed, sensor)}
  IN  IF ~s.started THEN Succeeds(s)
      ELSE IF s.conf.com # "USB" THEN stopped
      ELSE {[o EXCEPT !.s = ChipReset(@)] : o \in stopped}

------------------------------------------------------------------------------
(* loragw_hal.c: the configuration. *)

\* The board, the radios and the channels are configured before the start only.
lgw_board_setconf(s, clksrc, public) ==
  IF s.started THEN Fails(s)
  ELSE Succeeds([s EXCEPT !.conf.clksrc = clksrc, !.conf.public = public])

\* Disabling a radio is accepted and not recorded.
lgw_rxrf_setconf(s, r, on, freq) ==
  IF s.started THEN Fails(s)
  ELSE IF ~on THEN Succeeds(s)
  ELSE Succeeds([s EXCEPT !.conf.enable[r] = TRUE, !.conf.freq[r] = freq])

\* The multi-SF channels as one value; the LoRa service and the FSK channel can
\* be disabled.
lgw_rxif_setconf(s, chain, v) ==
  IF s.started THEN Fails(s)
  ELSE CASE chain < 8 -> Succeeds([s EXCEPT !.conf.ifs = v])
         [] chain = 8 -> Succeeds([s EXCEPT !.conf.service = v])
         [] OTHER     -> Succeeds([s EXCEPT !.conf.fsk = v])

\* The others are accepted at any time; the chip sees them at the next start.
lgw_demod_setconf(s, v) == Succeeds([s EXCEPT !.conf.demod = v])
lgw_ftime_setconf(s, on) == Succeeds([s EXCEPT !.conf.ftime = on])
lgw_sx1261_setconf(s, on) == Succeeds([s EXCEPT !.conf.sx1261 = on, !.conf.lbt = on])

\* The size is stored before the entries are checked: a bad one (gain 0) leaves
\* the entries after it as they were.
lgw_txgain_setconf(s, r, gains) ==
  LET bad == {i \in 1 .. Len(gains) : gains[i] = 0}
      good(i) == i <= Len(gains) /\ \A b \in bad : i < b
      lut == [size |-> Len(gains),
              entries |-> [i \in DOMAIN s.conf.lut[r].entries |->
                             IF good(i) THEN [gain |-> gains[i], offset |-> Uncalibrated]
                             ELSE s.conf.lut[r].entries[i]]]
  IN  {Result([s EXCEPT !.conf.lut[r] = lut], bad = {})}

------------------------------------------------------------------------------
(* Emission. *)

\* The entry of the table for a power: the last that does not exceed it, or the
\* first.  The power of an entry is its position.
PowerIndex(lut, power) ==
  LET low == {i \in 2 .. lut.size : i <= power}
  IN  IF low = {} THEN 1 ELSE CHOOSE i \in low : \A j \in low : j <= i

\* Registers of the transmitter written for the current packet; the first write that
\* fails ends the call.
WriteTx(s, regs) ==
  Succeeds([s EXCEPT !.fresh = @ \cup regs]) \cup (IF CanFail(s) THEN Fails(Failing(s)) ELSE {})

SelectModem(s) == WriteTx(s, {"type", "source"})

\* The offsets, the power for the AGC, the digital gain, the frequency, and the
\* bandwidth for the AGC.
SetPower(s) == WriteTx(s, {"offsets", "power", "gain", "freq", "agc_bw"})

\* The AGC takes the deviation from its mailbox, for the SX1250.
ConfigureCw(s) == WriteTx(s, {"dev", "agc_dev", "test_freq"})
ConfigureLora(s) ==
  WriteTx(s, {"dev", "bw", "preamble", "sf", "lowpass", "cr", "modem", "options", "sync", "fine_sync", "size", "ppm"})
ConfigureFsk(s) ==
  WriteTx(s, {"dev", "agc_dev", "fsk_mode", "fsk_sync", "fsk_rate", "fsk_preamble", "fsk_size"})

\* The delay of the modem and the radio is for LoRa only: the register keeps the
\* delay of an earlier packet for the others.
sx1302_tx_set_start_delay(s, mod) == IF mod # "lora" THEN Succeeds(s) ELSE WriteTx(s, {"delay"})

\* The buffer is opened, written (the size first for FSK) and closed.
WritePayload(s, mod) ==
  WriteTx(s, {"open", "payload", "close"} \cup IF mod = "fsk" THEN {"size_byte"} ELSE {})

\* The trigger is cleared and set; the time of the packet is written before.
TriggerTx(s, r, mode) ==
  LET timed == IF mode = "delayed" THEN WriteTx(s, {"time"}) ELSE Succeeds(s)
      trigger(t) ==
        LET cleared == [t EXCEPT !.tx[r].trig = @ \ {mode}]
            armed == [cleared EXCEPT !.tx[r].trig = @ \cup {mode},
                                     !.tx[r].fsm = IF mode = "imm" THEN "emitting" ELSE "scheduled"]
        IN  Succeeds(armed) \cup (IF CanFail(t) THEN Fails(Failing(t)) \cup Fails(Failing(cleared)) ELSE {})
  IN  AndThen(timed, trigger)

\* What the modem of each modulation uses.
UsedTx(mod) ==
  {"type", "source", "offsets", "power", "gain", "freq", "agc_bw", "dev", "payload"}
  \cup CASE mod = "cw"   -> {"agc_dev", "test_freq"}
         [] mod = "lora" -> {"bw", "preamble", "sf", "lowpass", "cr", "options", "sync", "fine_sync", "size", "ppm", "delay"}
         [] OTHER        -> {"agc_dev", "fsk_mode", "fsk_sync", "fsk_rate", "fsk_preamble", "fsk_size", "size_byte"}

sx1302_send(s, r, mod, mode, power) ==
  LET entry == s.conf.lut[r].entries[PowerIndex(s.conf.lut[r], power)]
      modulated(t) == CASE mod = "cw" -> ConfigureCw(t) [] mod = "lora" -> ConfigureLora(t)
                        [] OTHER -> ConfigureFsk(t)
      delayed(t) == AndThen(modulated(t), LAMBDA u : sx1302_tx_set_start_delay(u, mod))
      selected == AndThen(SelectModem(s), SetPower)
      written == AndThen(AndThen(selected, delayed), LAMBDA t : WritePayload(t, mod))
      recorded(t) == [t EXCEPT !.sent = IF t.conf.sx1250 THEN @ ELSE
                                        {[chain |-> r, gain |-> entry.gain, offset |-> entry.offset]},
                               !.whole = UsedTx(mod) \subseteq t.fresh]
      done == AndThen(AndThen(written, LAMBDA t : TriggerTx(t, r, mode)), LAMBDA t : Succeeds(recorded(t)))
  IN  {[o EXCEPT !.s.fresh = {}] : o \in done}

\* The DAC in front of the amplifier of the full duplex design; it is only opened
\* on SPI.
SetPaVoltage(s) == IF ~s.conf.duplex THEN Succeeds(s) ELSE IF s.ad = -1 THEN Fails(s) ELSE ad5338r_write(s)

\* Listening before talking: the wait for the AGC fails (the packet is aborted,
\* whatever that returns), or the channel is free or not.
AfterLbt(s, r) ==
  IF ~s.conf.lbt THEN Succeeds(s)
  ELSE Also(Access(s), Access)
       \cup Fails([s EXCEPT !.tx[r].trig = {}, !.tx[r].fsm = "free"])
       \cup (IF CanFail(s) THEN {Result(o.s, FALSE) : o \in sx1302_tx_abort(Failing(s), r)} ELSE {})

lgw_send(s, r, mod, mode, power) ==
  IF ~s.started \/ ~s.conf.txen[r] \/ ~s.conf.enable[r] THEN Fails(s)
  ELSE LET listening == AndThen(SetPaVoltage(s), LAMBDA t : IF t.conf.lbt THEN Access(t) ELSE Succeeds(t))
       IN  AndThen(AndThen(listening, LAMBDA t : sx1302_send(t, r, mod, mode, power)),
                   LAMBDA t : AfterLbt(t, r))

sx1302_tx_status(s, r) == Access(s)
lgw_status(s, r) == IF ~s.started THEN Succeeds(s) ELSE Ignoring(sx1302_tx_status(s, r))
sx1302_get_eui(s) == Access(s)
lgw_get_eui(s) == sx1302_get_eui(s)
lgw_get_temperature(s) == IF s.conf.com = "SPI" THEN stts751_get_temperature(s) ELSE Access(s)

------------------------------------------------------------------------------
ControlInit ==
  /\ \E conf \in Confs : hal = NewHal(conf)
  /\ calls = 0
  /\ halted = FALSE

\* The calls are counted when they change something.
Count == calls' = IF hal' = hal THEN calls ELSE calls + 1

\* A call of the HAL other than lgw_stop.
Call(outs) ==
  /\ calls < MaxCalls
  /\ hal' \in {o.s : o \in outs}
  /\ Count
  /\ halted' = FALSE

Start == Call(lgw_start(hal))

Stop ==
  /\ calls < MaxCalls
  /\ \E o \in lgw_stop(hal) : hal' = o.s /\ halted' = (hal.started /\ o.ok)
  /\ Count

Configure ==
  \/ \E r \in RfChains : Call(lgw_board_setconf(hal, r, FALSE))
  \/ \E r \in RfChains, f \in Freqs : Call(lgw_rxrf_setconf(hal, r, TRUE, f))
  \/ \E r \in RfChains : Call(lgw_rxrf_setconf(hal, r, FALSE, 1))
  \/ \E c \in IfSettings : Call(lgw_rxif_setconf(hal, c[1], c[2]))
  \/ Call(lgw_demod_setconf(hal, 2))
  \/ Call(lgw_ftime_setconf(hal, TRUE))
  \/ Call(lgw_sx1261_setconf(hal, ~hal.conf.lbt))
  \/ \E gains \in TxGains : Call(lgw_txgain_setconf(hal, 0, gains))

Send ==
  \E r \in RfChains, e \in Emissions :
    Call(lgw_send(hal, r, e[1], e[2], e[3]))

Query ==
  \/ \E r \in RfChains : Call(lgw_status(hal, r))
  \/ \E r \in RfChains : Call(lgw_abort_tx(hal, r))
  \/ Call(lgw_get_eui(hal))
  \/ Call(lgw_get_temperature(hal))

\* The transmitter of the chip (external): the time of the packet comes, the
\* packet ends.
TxStep(r) ==
  /\ \/ hal.tx[r].fsm = "scheduled" /\ hal' = [hal EXCEPT !.tx[r].fsm = "emitting"]
     \/ hal.tx[r].fsm = "emitting" /\ hal' = [hal EXCEPT !.tx[r].fsm = "free"]
  /\ UNCHANGED <<calls, halted>>

ControlNext == Start \/ Stop \/ Configure \/ Send \/ Query \/ \E r \in RfChains : TxStep(r)

ControlSpec == ControlInit /\ [][ControlNext]_controlVars

------------------------------------------------------------------------------
\* The chip never runs on the clock of an enabled radio that is held in reset,
\* unless the write that switches the clock failed: in no sequence of starts,
\* stops and changes of the clock source, whatever other access fails.
ClockSafe == ~hal.clkFault => ~hal.lost

\* While the last start succeeded, what the chip runs with is the configuration
\* the HAL holds of the board, the radios and the channels: the radios of the
\* SX1250 are tuned to it, every block was written from it, the front end and the
\* radios belong to the AGC, whose firmware replaced the calibration's.
HalReady ==
  hal.started /\ hal.ready =>
    LET c == hal.conf IN
      /\ \A r \in RfChains : c.sx1250 /\ c.enable[r] =>
           hal.blk[RadioBlock(r)] = <<c.freq[r]>> /\ ~HeldInReset(hal, r)
      /\ hal.bit["clk"] = 1 /\ hal.bit["selB"] = c.clksrc
      /\ hal.bit["fe"] = 0 /\ hal.bit["host"] = 0
      /\ hal.blk["channelizer"] = <<c.ifs>>
      /\ hal.blk["modem"] = <<c.freq[0]>>
      /\ c.service # 0 => hal.blk["service"] = <<c.service, c.freq[0]>>
      /\ hal.blk["agc"] = AgcFirmware(hal) /\ hal.blk["arb"] = ArbFirmware
      /\ Partial \notin {hal.blk[b] : b \in Blocks \ {"radio0", "radio1", "image", "service", "fsk", "sx1261"}}

\* When lgw_stop stopped a running concentrator with success, no packet is waiting for its time or being
\* emitted, whatever was scheduled on either chain and by whichever trigger.
StopSilent ==
  halted => \A r \in RfChains : hal.tx[r].fsm = "free"

\* What an SX125x emits is corrected by the offset measured for its own gain
\* setting, or not at all because the table was set after the start: never by the
\* offset of another setting, although settings repeat in the table and the table
\* may be replaced in part.  (A PLL that did not lock is not noticed.)  Every register
\* its modulation uses was written for this packet.
SentCalibrated ==
  /\ hal.whole
  /\ ~hal.pllFault => \A p \in hal.sent : p.offset \in {Offset(p.chain, p.gain), Uncalibrated}

\* In every sequence of calls: what runs is what was configured, what is emitted is
\* calibrated, and a stop leaves nothing on the air.
ControlRight == HalReady /\ SentCalibrated /\ StopSilent
=============================================================================
