----------------------------- MODULE HubReport -----------------------------
(***************************************************************************)
(* What the hub publishes of a packet: processMessageFromDucks of          *)
(* Init.cpp, with the texts DuckPayloads.cpp makes of protobuf messages    *)
(* and the choice between text and base64 of safe_base64.cpp.              *)
(*                                                                         *)
(* A text is the set of the things it says, pairs of a key and a value; a  *)
(* field of a message has a value, and "0" if it was not set.  A body is a *)
(* text that JSON can carry, a protobuf message of the type its topic      *)
(* calls for, or opaque bytes; those may happen to begin with the marker   *)
(* of a protobuf message.  Sealed packets carry the real topic in clear    *)
(* before the body.                                                        *)
(***************************************************************************)
EXTENDS Naturals, FiniteSets

CONSTANT Texts     \* the plain texts ducks send; one may look like base64

Route == {"rreq", "rrep"}
Sealed == {"sealed_uplink", "encrypted_data"}
Operator == {"dcmd", "op23", "op24", "op25"}     \* 22 to 25

Topics == Route \cup Sealed \cup Operator
          \cup {"status", "gps", "alert", "health", "mtalk", "sensor", "identity_announce"}

\* Topics of the examples have no name here.
topicToString(t) == IF t \in {"op23", "op24", "op25", "mtalk"} THEN "unknown" ELSE t

-----------------------------------------------------------------------------
(* duck_payloads.proto, with one field of each sort                        *)

Values == {"0", "x"}

GpsReading == [type : {"gps"}, has_fix : BOOLEAN, no_fix_reason : Values, alt_m : Values, batt_pct : Values]
SosAlert == [type : {"sos"}, has_gps : BOOLEAN, alt_m : Values, rssi_dbm : Values]
HealthStatus == [type : {"health"}, counter : Values]
MTalk == [type : {"mtalk"}, ack : BOOLEAN, mid : {"", "x"}, text : Values]
StatusMsg == [type : {"msg"}, device : BOOLEAN, has_gps : BOOLEAN, text : Values]
EmptyReport == [type : {"none"}]
OpText == [type : {"text"}, text : Values]

\* A field that is printed only if it is set
Optional(key, v) == IF v = "0" THEN {} ELSE {<<key, v>>}

gpsToLegacyText(r) ==
  IF ~r.has_fix
  THEN {<<"GPS", "">>, <<"FIX", "0">>, <<"REASON", r.no_fix_reason>>, <<"BATT", r.batt_pct>>}
  ELSE {<<"GPS", "">>, <<"LAT", "x">>, <<"BATT", r.batt_pct>>} \cup Optional("ALT", r.alt_m)

sosToLegacyText(a) ==
  {<<"SOS", "">>} \cup Optional("RSSI", a.rssi_dbm)
    \cup (IF a.has_gps THEN {<<"LAT", "x">>} \cup Optional("ALT", a.alt_m) ELSE {})

statusMsgToLegacyText(m) ==
  {<<"MSG", "">>, <<"TEXT", m.text>>}
    \cup (IF m.device THEN {<<"SRC", "DEVICE">>} ELSE {<<"LAT", IF m.has_gps THEN "x" ELSE "">>})

\* An acknowledgement only names the message.
mtalkToLegacyText(m) ==
  IF m.ack THEN {<<"MACK", m.mid>>}
  ELSE {<<"text", m.text>>} \cup (IF m.mid = "" THEN {} ELSE {<<"MID", m.mid>>})

\* Status reports wrap an alert, a message or nothing.
LegacyText(r) ==
  CASE r.type = "gps" -> gpsToLegacyText(r)
    [] r.type = "sos" -> sosToLegacyText(r)
    [] r.type = "msg" -> statusMsgToLegacyText(r)
    [] r.type = "health" -> {<<"C", r.counter>>}
    [] r.type = "mtalk" -> mtalkToLegacyText(r)
    [] r.type = "text" -> {<<"text", r.text>>}
    [] r.type = "none" -> {}

\* The messages a topic carries
MessagesOf(topic) ==
  CASE topic = "gps" -> GpsReading
    [] topic = "alert" -> SosAlert
    [] topic = "status" -> SosAlert \cup StatusMsg \cup EmptyReport
    [] topic = "health" -> HealthStatus
    [] topic = "mtalk" -> MTalk
    [] topic \in Operator -> OpText
    [] OTHER -> {}

-----------------------------------------------------------------------------
(* Packets                                                                 *)

Text(t) == [form |-> "text", says |-> t]
Opaque == [form : {"opaque"}, marked : BOOLEAN, bytes : {"b1", "b2"}]
Proto(r) == [form |-> "proto", message |-> r]

Bodies(topic) == {Text(t) : t \in Texts} \cup Opaque \cup {Proto(r) : r \in MessagesOf(topic)}

\* Route packets are told apart by their path; a sealed one may have no data.
HubPackets ==
  [topic : Route, real : {"none"}, path : {<<>>, <<"n1">>, <<"n1", "n2">>}]
  \cup UNION {[topic : {t}, real : {"none"}, body : Bodies(t)] : t \in Topics \ (Route \cup Sealed)}
  \cup [topic : Sealed, real : Topics \ Route, body : Bodies("none")]
  \cup [topic : Sealed, real : {"none"}, body : {Text({})}]

\* The base64 text of bytes; the bytes begin with the marker or do not.
Base64Of(b) == {<<"base64", b.bytes>>, <<"marked", IF b.marked THEN "x" ELSE "">>}

\* The text of the report.  What has the marker but is no message of its topic stays
\* as it is; is_safe_json_text refuses it, as all that is not printable ASCII.
Message(body) ==
  CASE body.form = "text" -> [says |-> body.says, encoding |-> ""]
    [] body.form = "proto" -> [says |-> LegacyText(body.message), encoding |-> ""]
    [] body.form = "opaque" -> [says |-> Base64Of(body), encoding |-> "base64"]

\* An empty path is replaced by the sender; a sealed packet is reported under its
\* real topic, with the way it came.
processMessageFromDucks(p) ==
  IF p.topic \in Route
  THEN [eventType |-> topicToString(p.topic), transport |-> "none",
        path |-> IF p.path = <<>> THEN <<"sduid">> ELSE p.path]
  ELSE [eventType |-> topicToString(IF p.real = "none" THEN p.topic ELSE p.real),
        transport |-> IF p.real = "none" THEN "none" ELSE topicToString(p.topic),
        message |-> Message(p.body)]

-----------------------------------------------------------------------------
\* What a message says, apart from the fields that go with a condition that is not met;
\* an MTalk without an identifier is a text among others.
Meaning(r) ==
  CASE r.type = "gps" -> IF r.has_fix THEN [r EXCEPT !.no_fix_reason = "0"] ELSE [r EXCEPT !.alt_m = "0"]
    [] r.type = "sos" -> IF r.has_gps THEN r ELSE [r EXCEPT !.alt_m = "0"]
    [] r.type = "msg" -> IF r.device THEN [r EXCEPT !.has_gps = FALSE] ELSE r
    [] r.type = "mtalk" -> IF r.ack THEN [r EXCEPT !.text = "0"]
                           ELSE IF r.mid = "" THEN [type |-> "text", text |-> r.text] ELSE r
    [] OTHER -> r

\* Nothing is an empty text.
Content(body) ==
  IF body.form # "proto" THEN body
  ELSE IF body.message.type = "none" THEN Text({}) ELSE Proto(Meaning(body.message))

Said(p) ==
  IF p.topic \in Route THEN p
  ELSE [topic |-> topicToString(p.topic), real |-> topicToString(p.real), body |-> Content(p.body)]

\* "Recover that real topic into eventType and record which encrypted transport this
\* came in on": the controller can tell from a report what was said, on which topic and
\* over which transport; packets that differ in that have different reports.
ReportTells(p) ==
  \A q \in HubPackets :
    (p.topic \in Route <=> q.topic \in Route)
      /\ processMessageFromDucks(p) = processMessageFromDucks(q) => Said(p) = Said(q)
=============================================================================
