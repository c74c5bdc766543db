------------------------------- MODULE Config -------------------------------
(***************************************************************************)
(* The start of the daemon as far as its configuration file goes           *)
(* (clusterduckd.c): the sections are read one after the other and each is *)
(* handed to the HAL before the next one is read.  The first error ends    *)
(* the program.  The packet forwarder reads its file with the same code.   *)
(*                                                                         *)
(* A value of the file is absent, of the wrong type, or a number or a      *)
(* truth value; the getters of the JSON library give 0 for a value that is *)
(* not a number.  What the program keeps for itself (conf) and what the    *)
(* HAL keeps (ctx) must fit together: the threads decide by the former,    *)
(* the radio by the latter.                                                *)
(***************************************************************************)
EXTENDS Integers, Sequences, FiniteSets

CONSTANTS
  LGW_LBT_CHANNEL_NB_MAX,  \* channels of a listen-before-talk configuration (16)
  TX_GAIN_LUT_SIZE_MAX,    \* entries of a gain table (16)
  REF_PAYLOAD_MAX,         \* reference payloads of the debug configuration (16)
  LbtLists,                \* the lists of channels a file may hold
  GainTables,              \* the gain tables a file may hold
  SfLists,                 \* the lists of spreading factors a file may hold
  IfChannels,              \* the channels a file may hold; kHz, bandwidth 0 if absent
  Powers                   \* the powers a packet may ask for

\* A value of the file, a channel of a list, an entry of a gain table.
JsonValues == [t : {"none", "wrong", "bool", "num"}, n : Int]
LbtEntries == [freq_hz : JsonValues, bandwidth : JsonValues, scan_time_us : JsonValues,
               transmit_time_ms : JsonValues]
GainEntries == [rf_power : Int, valid : BOOLEAN]

ASSUME ConfigAssumption ==
  /\ LGW_LBT_CHANNEL_NB_MAX \in Nat \ {0} /\ TX_GAIN_LUT_SIZE_MAX \in Nat \ {0}
  /\ REF_PAYLOAD_MAX \in Nat \ {0} /\ Powers \subseteq Int
  /\ LbtLists \subseteq Seq(LbtEntries) /\ GainTables \subseteq Seq(GainEntries)
  /\ SfLists \subseteq Seq(Int) /\ IfChannels \subseteq [radio : Int, freq : Int, bw : Nat]

NoValue == [t |-> "none", n |-> 0]
Wrong == [t |-> "wrong", n |-> 0]
Bool(b) == [t |-> "bool", n |-> IF b THEN 1 ELSE 0]
Num(k) == [t |-> "num", n |-> k]

Flags == {NoValue, Wrong, Bool(TRUE), Bool(FALSE)}

\* json_value_get_boolean behind a test of the type, and json_object_dotget_number.
IsTrue(v) == v = Bool(TRUE)
Number(v) == IF v.t = "num" THEN v.n ELSE 0

VARIABLES
  section, \* the section to read next, "parsed", "failed" or "crashed"
  conf,    \* the program's own settings
  ctx      \* the HAL's: lgw_context

configVars == <<section, conf, ctx>>

RfChain == 0 .. 1

LGW_MULTI_NB == 8
RX_BANDWIDTH == 1600   \* kHz, of a radio
DR_FSK_MAX == 250      \* kbit/s

\* The table the HAL has before it gets one: a single entry of 14 dBm.
DefaultLut == <<[rf_power |-> 14, valid |-> TRUE]>>

NoChannel == [on |-> FALSE, freq |-> 0, bw |-> 0, given |-> FALSE]

ConfigInit ==
  /\ section = "file"
  /\ conf = [com_type |-> "SPI", scan |-> FALSE, tx_enable |-> [i \in RfChain |-> FALSE],
             tx_freq_max |-> [i \in RfChain |-> 0], txlut |-> [i \in RfChain |-> <<>>],
             gps_tty_path |-> FALSE, mqtt_enabled |-> FALSE]
  /\ ctx = [ftime |-> "off", sx1261 |-> FALSE, lbt |-> <<>>,
            tx_enable |-> [i \in RfChain |-> FALSE], tx_gain_lut |-> [i \in RfChain |-> DefaultLut],
            multisf |-> 5 .. 12, service |-> NoChannel, fsk |-> NoChannel]

\* The section is read and the next one follows, or the program ends.
Continue(ok, next) == section' = IF ok THEN next ELSE "failed"

-----------------------------------------------------------------------------
(* SX130x_conf                                                             *)

\* main and the head of parse_SX130x_configuration: the file is there, is JSON
\* and holds the object.
OpenFile ==
  /\ section = "file"
  /\ \E found \in BOOLEAN : Continue(found, "board")
  /\ UNCHANGED <<conf, ctx>>

\* com_type and com_path must be there; the other settings of the board have
\* defaults.  com_type also tells main whether to reset the board.
ParseBoard ==
  /\ section = "board"
  /\ \E type \in {"none", "SPI", "USB", "other"}, path \in BOOLEAN :
       /\ Continue(type \in {"SPI", "USB"} /\ path, "ftime")
       /\ conf' = IF type \in {"SPI", "USB"} THEN [conf EXCEPT !.com_type = type] ELSE conf
  /\ UNCHANGED ctx

\* fine_timestamp: the HAL hears of it only when it is enabled.
ParseFineTimestamp ==
  /\ section = "ftime"
  /\ \E enable \in Flags, mode \in {"none", "high_capacity", "all_sf", "other"} :
       /\ Continue(IsTrue(enable) => mode \in {"high_capacity", "all_sf"}, "sx1261")
       /\ ctx' = IF IsTrue(enable) THEN [ctx EXCEPT !.ftime = mode] ELSE ctx
  /\ UNCHANGED conf

\* A channel of the LBT list: every field must be there; of the wrong type it
\* is taken as 0, except that a number must be one of the two scan times.
ChannelFails(c) ==
  \/ NoValue \in {c.freq_hz, c.bandwidth, c.scan_time_us, c.transmit_time_ms}
  \/ c.scan_time_us.t = "num" /\ c.scan_time_us.n \notin {128, 5000}

ParsedChannel(c) ==
  [freq_hz |-> Number(c.freq_hz),
   bandwidth |-> IF Number(c.bandwidth) \in {125, 250, 500} THEN c.bandwidth.n ELSE 0,
   scan_time_us |-> Number(c.scan_time_us),
   transmit_time_ms |-> Number(c.transmit_time_ms)]

\* What lies behind the array of channels.
Garbage == [freq_hz |-> 0, bandwidth |-> 0, scan_time_us |-> 0, transmit_time_ms |-> 0]

\* lgw_sx1261_setconf takes these; of Garbage nothing is known.
ChannelAccepted(v) == v.bandwidth \in {125, 250} /\ v.scan_time_us \in {128, 5000}

\* The list: the loop stops at LGW_LBT_CHANNEL_NB_MAX, the number of channels
\* stays that of the list.
ParsedList(list) ==
  [i \in 1 .. Len(list) |->
     IF i <= LGW_LBT_CHANNEL_NB_MAX THEN ParsedChannel(list[i]) ELSE Garbage]

ListFails(list) ==
  \E i \in 1 .. Len(list) : i <= LGW_LBT_CHANNEL_NB_MAX /\ ChannelFails(list[i])

ListAccepted(parsed) ==
  \A i \in 1 .. Len(parsed) : i <= LGW_LBT_CHANNEL_NB_MAX => ChannelAccepted(parsed[i])

\* sx1261_conf: the scan and LBT each switch the radio on.  Behind the array
\* lgw_sx1261_setconf may find anything.
ParseSx1261 ==
  /\ section = "sx1261"
  /\ \/ section' = "radio0" /\ UNCHANGED <<conf, ctx>>
     \/ \E scan \in Flags, lbt \in Flags, list \in LbtLists, luck \in BOOLEAN :
          LET parsed == IF IsTrue(lbt) THEN ParsedList(list) ELSE <<>>
              known == Len(parsed) <= LGW_LBT_CHANNEL_NB_MAX
          IN  /\ conf' = [conf EXCEPT !.scan = IsTrue(scan)]
              /\ ctx' = [ctx EXCEPT !.sx1261 = IsTrue(scan) \/ IsTrue(lbt), !.lbt = parsed]
              /\ Continue(IsTrue(lbt) =>
                            ~ListFails(list) /\ ListAccepted(parsed) /\ (known \/ luck), "radio0")

\* lgw_txgain_setconf
LutAccepted(lut) ==
  Len(lut) \in 1 .. TX_GAIN_LUT_SIZE_MAX /\ \A j \in 1 .. Len(lut) : lut[j].valid

Section(i) == IF i = 0 THEN "radio0" ELSE "radio1"
AfterRadio(i) == IF i = 0 THEN "radio1" ELSE "demod"

\* radio_<i>: absent, disabled (the HAL is told, and ignores it), or without a
\* type, which strncmp does not survive.
SkipRadio(i) ==
  /\ section = Section(i)
  /\ section' \in {AfterRadio(i), "crashed"}
  /\ UNCHANGED <<conf, ctx>>

\* An enabled radio.  The gain table is handed over before the radio itself, and
\* only when it has entries; lgw_rxrf_setconf refuses an unknown type and a
\* frequency out of range.
ParseRadio(i) ==
  /\ section = Section(i)
  /\ \E tx \in Flags, max \in {0, 1}, lut \in GainTables, accepted \in BOOLEAN :
       /\ Continue(accepted /\ (IsTrue(tx) /\ lut # <<>> => LutAccepted(lut)), AfterRadio(i))
       /\ conf' = IF ~IsTrue(tx) THEN conf
                  ELSE [conf EXCEPT !.tx_enable[i] = TRUE, !.tx_freq_max[i] = max,
                                    !.txlut[i] = lut]
       /\ ctx' = [ctx EXCEPT !.tx_enable[i] = IsTrue(tx),
                             !.tx_gain_lut[i] = IF IsTrue(tx) /\ lut # <<>> THEN lut ELSE @]

\* chan_multiSF_All: the spreading factors listed; all of them if the list is
\* absent, too long or has a wrong entry.  lgw_demod_setconf takes any set.
EnabledFactors(list) ==
  IF Len(list) > LGW_MULTI_NB \/ \E j \in 1 .. Len(list) : list[j] \notin 5 .. 12
  THEN 5 .. 12 ELSE {list[j] : j \in 1 .. Len(list)}

ParseDemod ==
  /\ section = "demod" /\ section' = "channels"
  /\ \/ UNCHANGED ctx
     \/ ctx' = [ctx EXCEPT !.multisf = 5 .. 12]
     \/ \E list \in SfLists : ctx' = [ctx EXCEPT !.multisf = EnabledFactors(list)]
  /\ UNCHANGED conf

\* lgw_rxif_setconf: the channel is within the band of its radio.  A bandwidth
\* that is not known counts as 125 kHz here, and is set to another one below.
InBand(freq, bw) == 2 * freq + bw <= RX_BANDWIDTH /\ 2 * freq - bw >= 0 - RX_BANDWIDTH

IfAccepted(c) == c.radio \in RfChain /\ InBand(c.freq, IF c.bw = 0 THEN 125 ELSE c.bw)

Channel(c) == [on |-> TRUE, freq |-> c.freq, bw |-> IF c.bw = 0 THEN 250 ELSE c.bw,
               given |-> c.bw # 0]

\* chan_multiSF_<i>: each is absent, disabled, accepted or refused; the first that
\* is refused ends the program.
ParseMultiSf ==
  /\ section = "channels"
  /\ \E c \in IfChannels : Continue(IfAccepted([c EXCEPT !.bw = 125]), "lora_std")
  /\ UNCHANGED <<conf, ctx>>

\* chan_Lora_std: only three bandwidths are known; in implicit header mode three
\* settings must be there.
ParseLoraStd ==
  /\ section = "lora_std"
  /\ \/ section' = "fsk" /\ UNCHANGED ctx
     \/ \E c \in IfChannels, complete \in BOOLEAN :
          LET known == [c EXCEPT !.bw = IF @ \in {125, 250, 500} THEN @ ELSE 0]
          IN  /\ Continue(complete /\ IfAccepted(known), "fsk")
              /\ ctx' = [ctx EXCEPT !.service = Channel(known)]
  /\ UNCHANGED conf

\* The bandwidth of the FSK channel: as given, else from the deviation and the
\* data rate, rounded up to one the HAL knows.
FskBandwidth(bw, fdev, datarate) ==
  LET hz == IF bw = 0 /\ fdev # 0 THEN 2 * fdev + datarate ELSE bw
  IN  CASE hz = 0 \/ hz > 500 -> 0
        [] hz \in 1 .. 125    -> 125
        [] hz \in 126 .. 250  -> 250
        [] hz \in 251 .. 500  -> 500

\* chan_FSK; an absent data rate (0) is replaced by the HAL.
ParseFsk ==
  /\ section = "fsk"
  /\ \/ section' = "gateway" /\ UNCHANGED ctx
     \/ \E c \in IfChannels, fdev \in {0, 25}, datarate \in {50, 251} :
          LET known == [c EXCEPT !.bw = FskBandwidth(@, fdev, datarate)]
          IN  /\ Continue(IfAccepted(known) /\ datarate <= DR_FSK_MAX, "gateway")
              /\ ctx' = [ctx EXCEPT !.fsk = Channel(known)]
  /\ UNCHANGED conf

-----------------------------------------------------------------------------
(* The other objects                                                       *)

\* gateway_conf must be there; everything in it is optional.  A period of
\* the beacon below 6 s is refused.
ParseGateway ==
  /\ section = "gateway"
  /\ \E found \in BOOLEAN, gps \in BOOLEAN, period \in {NoValue, Wrong, Num(5), Num(6)} :
       /\ Continue(found /\ Number(period) \notin 1 .. 5, "mqtt")
       /\ conf' = IF found THEN [conf EXCEPT !.gps_tty_path = gps] ELSE conf
  /\ UNCHANGED ctx

\* mqtt_conf: a failure only means no MQTT.
ParseMqtt ==
  /\ section = "mqtt" /\ section' = "debug"
  /\ \E enabled \in Flags : conf' = [conf EXCEPT !.mqtt_enabled = IsTrue(enabled)]
  /\ UNCHANGED ctx

\* debug_conf: the reference payloads are stored without a look at their number;
\* more than REF_PAYLOAD_MAX overwrite what lies behind the array.
ParseDebug ==
  /\ section = "debug"
  /\ \E n \in {0, 1, REF_PAYLOAD_MAX + 1} :
       section' \in (IF n > REF_PAYLOAD_MAX THEN {"parsed", "crashed"} ELSE {"parsed"})
  /\ UNCHANGED <<conf, ctx>>

ConfigNext ==
  \/ OpenFile \/ ParseBoard \/ ParseFineTimestamp \/ ParseSx1261
  \/ \E i \in RfChain : SkipRadio(i) \/ ParseRadio(i)
  \/ ParseDemod \/ ParseMultiSf \/ ParseLoraStd \/ ParseFsk
  \/ ParseGateway \/ ParseMqtt \/ ParseDebug

ConfigSpec == ConfigInit /\ [][ConfigNext]_configVars

-----------------------------------------------------------------------------
(* The power of a packet                                                   *)

\* The indexes of the entries that do not exceed a power.
NotAbove(lut, power) == {j \in 1 .. Len(lut) : lut[j].rf_power <= power}

\* Mutant: the closest entry, above or below.
get_tx_gain_lut_index_closest(lut, power) ==
  LET Gap(j) == IF lut[j].rf_power > power THEN lut[j].rf_power - power ELSE power - lut[j].rf_power
  IN  {j \in 1 .. Len(lut) : \A k \in 1 .. Len(lut) : Gap(j) < Gap(k) \/ (Gap(j) = Gap(k) /\ j <= k)}

\* The first of the entries closest to the power from below; none if all are above.
get_tx_gain_lut_index(lut, power) ==
  {j \in NotAbove(lut, power) : \A k \in NotAbove(lut, power) :
     lut[k].rf_power < lut[j].rf_power \/ (lut[k].rf_power = lut[j].rf_power /\ j <= k)}

\* thread_down: the power the packet gets, the first entry's if none is low
\* enough, 0 in an empty table.
ChosenPower(lut, power) ==
  IF get_tx_gain_lut_index(lut, power) # {}
  THEN lut[CHOOSE j \in get_tx_gain_lut_index(lut, power) : TRUE].rf_power
  ELSE IF lut = <<>> THEN 0 ELSE lut[1].rf_power

\* sx1302_send: the last entry that does not exceed it, else the first.
EmittedPower(lut, power) ==
  LET low == NotAbove(lut, power) \ {1}
  IN  IF low = {} THEN lut[1].rf_power
      ELSE lut[CHOOSE j \in low : \A k \in low : k <= j].rf_power

-----------------------------------------------------------------------------
Ascending(lut) == \A j, k \in 1 .. Len(lut) : j < k => lut[j].rf_power <= lut[k].rf_power

\* What the radio emits of a packet that asks for a power: never more, if the
\* table has an entry that low; and the closest, if the table is sorted.
PowerRight(i, power) ==
  LET lut == conf.txlut[i]
      emitted == EmittedPower(ctx.tx_gain_lut[i], ChosenPower(lut, power))
  IN  NotAbove(lut, power) # {} =>
        /\ emitted <= power
        /\ Ascending(lut) => \A j \in NotAbove(lut, power) : lut[j].rf_power <= emitted

\* Once the file is read, the program and the HAL agree: a scanning thread has
\* a radio to scan with; a frequency is only accepted on a chain the HAL sends
\* on; the power chosen in the program's table is the one the HAL's table gives;
\* a list of LBT channels that fits is what the HAL listens on; and a receive
\* channel whose bandwidth the file gives lies in its radio's band.
ProgramMatchesHal ==
  section = "parsed" =>
    /\ conf.scan => ctx.sx1261
    /\ \A i \in RfChain :
         /\ conf.tx_enable[i] = ctx.tx_enable[i]
         /\ conf.tx_freq_max[i] > 0 => ctx.tx_enable[i]
         /\ \A p \in Powers : PowerRight(i, p)
    /\ Len(ctx.lbt) <= LGW_LBT_CHANNEL_NB_MAX =>
         \A k \in 1 .. Len(ctx.lbt) : ChannelAccepted(ctx.lbt[k])
    /\ \A c \in {ctx.service, ctx.fsk} : c.given => InBand(c.freq, c.bw)
=============================================================================
