---------------------------- MODULE Zx303Proto ----------------------------
(***************************************************************************)
(* The messages of src/loctrkd/zx303proto.py, a class each, and the        *)
(* functions that the daemons call on them.  Of a class the model keeps    *)
(* its name, as the words of it; its number; who answers it; what          *)
(* rectified() makes of it; whether in_decode refuses some payloads; and   *)
(* whether Out() with its default values can be packed.                    *)
(***************************************************************************)
EXTENDS Naturals, Sequences, SequencesExt

NON == "NON"
INL == "INL"
EXT == "EXT"

\* GPS303Pkt, and a class that overrides nothing that matters here.
Pkt(name, proto, respond, rectified, strict, sends) ==
  [name |-> name, PROTO |-> proto, RESPOND |-> respond,
   rectified |-> rectified, strict |-> strict, sends |-> sends]
Plain(name, proto) == Pkt(name, proto, NON, "none", FALSE, TRUE)

UNKNOWN == Pkt(<<"UNKNOWN">>, 256, NON, "none", FALSE, FALSE)
LOGIN == Pkt(<<"LOGIN">>, 1, INL, "none", TRUE, TRUE)
SUPERVISION == Plain(<<"SUPERVISION">>, 5)
HEARTBEAT == Pkt(<<"HEARTBEAT">>, 8, INL, "none", FALSE, TRUE)
GPS_POSITIONING == Pkt(<<"GPS", "POSITIONING">>, 16, INL, "coord", TRUE, TRUE)
GPS_OFFLINE_POSITIONING == Pkt(<<"GPS", "OFFLINE", "POSITIONING">>, 17, INL, "coord", TRUE, TRUE)
STATUS == Pkt(<<"STATUS">>, 19, EXT, "status", TRUE, TRUE)
HIBERNATION == Plain(<<"HIBERNATION">>, 20)
RESET == Plain(<<"RESET">>, 21)
WHITELIST_TOTAL == Plain(<<"WHITELIST", "TOTAL">>, 22)
WIFI_OFFLINE_POSITIONING == Pkt(<<"WIFI", "OFFLINE", "POSITIONING">>, 23, INL, "hint", TRUE, TRUE)
TIME == Pkt(<<"TIME">>, 48, INL, "none", FALSE, TRUE)
PROHIBIT_LBS == Plain(<<"PROHIBIT", "LBS">>, 51)
GPS_LBS_SWITCH_TIMES == Plain(<<"GPS", "LBS", "SWITCH", "TIMES">>, 52)
REMOTE_MONITOR_PHONE == Pkt(<<"REMOTE", "MONITOR", "PHONE">>, 64, NON, "none", FALSE, FALSE)
SOS_PHONE == Pkt(<<"SOS", "PHONE">>, 65, NON, "none", FALSE, FALSE)
DAD_PHONE == Pkt(<<"DAD", "PHONE">>, 66, NON, "none", FALSE, FALSE)
MOM_PHONE == Pkt(<<"MOM", "PHONE">>, 67, NON, "none", FALSE, FALSE)
STOP_UPLOAD == Plain(<<"STOP", "UPLOAD">>, 68)
GPS_OFF_PERIOD == Plain(<<"GPS", "OFF", "PERIOD">>, 70)
DND_PERIOD == Plain(<<"DND", "PERIOD">>, 71)
RESTART_SHUTDOWN == Plain(<<"RESTART", "SHUTDOWN">>, 72)
DEVICE == Plain(<<"DEVICE">>, 73)
ALARM_CLOCK == Plain(<<"ALARM", "CLOCK">>, 80)
STOP_ALARM == Pkt(<<"STOP", "ALARM">>, 86, NON, "none", TRUE, TRUE)
SETUP == Pkt(<<"SETUP">>, 87, EXT, "none", FALSE, TRUE)
SYNCHRONOUS_WHITELIST == Plain(<<"SYNCHRONOUS", "WHITELIST">>, 88)
RESTORE_PASSWORD == Plain(<<"RESTORE", "PASSWORD">>, 103)
WIFI_POSITIONING == Pkt(<<"WIFI", "POSITIONING">>, 105, EXT, "hint", TRUE, FALSE)
MANUAL_POSITIONING == Plain(<<"MANUAL", "POSITIONING">>, 128)
BATTERY_CHARGE == Plain(<<"BATTERY", "CHARGE">>, 129)
CHARGER_CONNECTED == Plain(<<"CHARGER", "CONNECTED">>, 130)
CHARGER_DISCONNECTED == Plain(<<"CHARGER", "DISCONNECTED">>, 131)
VIBRATION_RECEIVED == Plain(<<"VIBRATION", "RECEIVED">>, 148)
POSITION_UPLOAD_INTERVAL == Pkt(<<"POSITION", "UPLOAD", "INTERVAL">>, 152, EXT, "none", TRUE, TRUE)
SOS_ALARM == Plain(<<"SOS", "ALARM">>, 153)
UNKNOWN_B3 == Pkt(<<"UNKNOWN", "B3">>, 179, NON, "none", TRUE, TRUE)

\* CLASSES: every class that has a PROTO.
CLASSES ==
  {UNKNOWN, LOGIN, SUPERVISION, HEARTBEAT, GPS_POSITIONING,
   GPS_OFFLINE_POSITIONING, STATUS, HIBERNATION, RESET, WHITELIST_TOTAL,
   WIFI_OFFLINE_POSITIONING, TIME, PROHIBIT_LBS, GPS_LBS_SWITCH_TIMES,
   REMOTE_MONITOR_PHONE, SOS_PHONE, DAD_PHONE, MOM_PHONE, STOP_UPLOAD,
   GPS_OFF_PERIOD, DND_PERIOD, RESTART_SHUTDOWN, DEVICE, ALARM_CLOCK,
   STOP_ALARM, SETUP, SYNCHRONOUS_WHITELIST, RESTORE_PASSWORD,
   WIFI_POSITIONING, MANUAL_POSITIONING, BATTERY_CHARGE, CHARGER_CONNECTED,
   CHARGER_DISCONNECTED, VIBRATION_RECEIVED, POSITION_UPLOAD_INTERVAL,
   SOS_ALARM, UNKNOWN_B3}

PROTO_PREFIX == "ZX:"

\* The class of a packet of which proto is the second byte.
ClassOf(proto) ==
  IF \E c \in CLASSES : c.PROTO = proto
    THEN CHOOSE c \in CLASSES : c.PROTO = proto
    ELSE UNKNOWN

\* parse_message: a packet of an unknown class, or with a payload that in_decode
\* refuses, becomes an UNKNOWN.
parse_message(proto, decodes) ==
  IF decodes \/ ~ClassOf(proto).strict THEN ClassOf(proto) ELSE UNKNOWN

\* inline_response
Inline(proto) == ClassOf(proto).RESPOND = INL

is_goodbye_packet(proto) == proto = HIBERNATION.PROTO

\* exposed_protos: what the rectifier subscribes to, and of this what needs an answer.
Exposed == {c \in CLASSES : c.rectified # "none"}
NeedAnswer == {c \in Exposed : c.RESPOND = EXT}

\* class_by_prefix: the whole prefix is looked for, PROTO_PREFIX included, though the
\* names do not have it.
class_by_prefix(prefix) == {c \in CLASSES : IsPrefix(prefix, c.name)}

\* make_response
make_response(cmd) == IF cmd = "poweroff" THEN {HIBERNATION} ELSE {}

=============================================================================
