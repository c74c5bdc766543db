---------------------------- MODULE MCAlgorithms ----------------------------
(***************************************************************************)
(* Durations, dates, codecs and files.  The pure ones are evaluated on     *)
(* every input of a small range, chosen in the initial state, which        *)
(* stays.  The fine timestamps, the beacons with their time reference and  *)
(* the reading of the configuration take steps; they share no variable,    *)
(* and one of them runs at a time.                                         *)
(***************************************************************************)
EXTENDS Timestamp, Base64, GpsTime, FineTime, GpsBeacon, Config, HubReport

VARIABLE input

Running == [kind : {"fine", "beacon", "config"}]

Packets == [kind : {"packet"}, bw : Bandwidths, sf : SpreadingFactors, cr : CodingRates,
            crc : BOOLEAN, size : 0 .. 255]
ByteStrings == [kind : {"bytes"}, value : SeqOf(Bytes, 3) \cup [1 .. 4 -> {0, 1, 7, 15}]]
Base64Texts == [kind : {"text"}, value : SeqOf({0, 1, 5, Pad, LineEnd, Other}, 5)]

Dates == [kind : {"date"}, ref : [count : {0, 17, 48}, utc : [sec : {2}, nsec : 0 .. NSEC - 1],
                                  gps : {[sec |-> 5, nsec |-> 3]}],
          count : 0 .. WRAP - 1]

\* Nothing, a word, and a word that is the base64 text of some bytes
PlainTexts == {{}, {<<"word", "">>}, Base64Of([marked |-> FALSE, bytes |-> "b1"])}

Reports == [kind : {"report"}, packet : HubPackets]

-----------------------------------------------------------------------------
(* Files: lists that are too long, channels without a field, with a field  *)
(* of the wrong type, or with one the radio does not know; tables that are *)
(* sorted, unsorted, too long or invalid.                                  *)

LbtChannel(f, b, t, m) ==
  [freq_hz |-> f, bandwidth |-> b, scan_time_us |-> t, transmit_time_ms |-> m]
GoodChannel == LbtChannel(Num(1), Num(125), Num(128), Num(4))
WideChannel == LbtChannel(Num(2), Num(250), Num(5000), Wrong)

MCLbtLists ==
  {<<>>, <<GoodChannel, WideChannel>>, <<WideChannel, GoodChannel, GoodChannel>>,
   <<LbtChannel(NoValue, Num(125), Num(128), Num(4))>>,
   <<LbtChannel(Num(1), Num(500), Num(128), Num(4))>>,
   <<GoodChannel, LbtChannel(Num(1), Num(125), Wrong, Num(4))>>,
   <<LbtChannel(Num(1), Num(125), Num(200), Num(4))>>}

Entry(p) == [rf_power |-> p, valid |-> TRUE]

MCGainTables ==
  {<<>>, <<Entry(10), Entry(12), Entry(20)>>, <<Entry(20), Entry(12), Entry(12)>>,
   <<Entry(10), [rf_power |-> 20, valid |-> FALSE]>>,
   <<Entry(10), Entry(11), Entry(12), Entry(20)>>}

MCSfLists == {<<>>, <<7, 13>>}

MCIfChannels ==
  {[radio |-> 0, freq |-> 730, bw |-> 0], [radio |-> 1, freq |-> -550, bw |-> 500],
   [radio |-> 0, freq |-> 551, bw |-> 500], [radio |-> 2, freq |-> 0, bw |-> 100]}

\* The beacons run within what their theorems assume.
ASSUME MCFaultsAreRare == FaultsAreRare
ASSUME MCBeaconsFit == BeaconsFit

-----------------------------------------------------------------------------
Init ==
  /\ FineInit /\ GpsInit /\ ConfigInit
  /\ \/ input \in Running
     \/ input \in Packets
     \/ input \in ByteStrings
     \/ input \in Base64Texts
     \/ input \in Reports
     \/ input \in Dates

Next ==
  /\ \/ input.kind = "fine" /\ FineNext /\ UNCHANGED <<gpsVars, configVars>>
     \/ input.kind = "beacon" /\ GpsNext /\ UNCHANGED <<fineVars, configVars>>
     \/ input.kind = "config" /\ ConfigNext /\ UNCHANGED <<fineVars, gpsVars>>
  /\ UNCHANGED input

Spec == Init /\ [][Next]_<<input, fineVars, gpsVars, configVars>>

\* The durations of every packet agree with each other and with the modem's.
DurationsRight ==
  input.kind = "packet" =>
    /\ ToaNeverShort(input) /\ ToaMonotone(input)
    /\ LastBlockFits(input) /\ CorrectedWithinPacket(input)

\* The counter and the time of day are converted into each other.
DatesRight == input.kind = "date" => ConversionsRight(input.ref, input.count)

\* The two codecs undo each other and agree.
CodecsAgree ==
  /\ input.kind = "bytes" => RoundTrip(input.value)
  /\ input.kind = "text" => DecodersAgree(input.value)

\* The reports the hub publishes keep apart what must be kept apart.
ReportsTell == input.kind = "report" => ReportTells(input.packet)

\* The functions agree with their references on every input.
FunctionsRight == DurationsRight /\ DatesRight /\ CodecsAgree /\ ReportsTell
=============================================================================
