--------------------------- MODULE TrafficProofs ---------------------------
(***************************************************************************)
(* Proofs about Traffic: about Responders, for any terminals, messages,    *)
(* outcomes of lookups and configuration; about Commands, for any command  *)
(* lines and protocol modules; and about Zmsg, for any width of fields,    *)
(* characters, names, IMEIs and addresses.                                 *)
(***************************************************************************)
EXTENDS Traffic, SequenceFacts, FiniteSetTheorems

-----------------------------------------------------------------------------
(* Responders                                                              *)

Resps == [imei : Imeis \cup {None}, to : Nat, class : ZX!CLASSES \cup BS!CLASSES, gone : BOOLEAN]
Reports == [of : Nat, kind : {"location", "status"}]

\* The messages that responses s are to, and those that have a report.
To(s) == {s[k].to : k \in DOMAIN s}
Responded == To(answers) \cup To(zpull)
Reported == {reports[k].of : k \in DOMAIN reports}

TypeInv ==
  /\ sent \in Seq(Messages)
  /\ zsub \in [Daemons -> Seq(Nat)]
  /\ zpull \in Seq(Resps) /\ answers \in Seq(Resps)
  /\ reports \in Seq(Reports)

\* A daemon has what it asked for in its socket, in the order in which it was received.
QueueInv ==
  \A d \in Daemons :
    /\ Increasing(zsub[d])
    /\ \A k \in DOMAIN zsub[d] : zsub[d][k] \in DOMAIN sent /\ Subscribed(d, sent[zsub[d][k]])

\* Responses s are to messages of msgs that have one, of their kind and to their terminals, and no
\* two are to one message.
Right(s, msgs) ==
  /\ \A k \in DOMAIN s :
       /\ s[k].to \in DOMAIN msgs
       /\ msgs[s[k].to].class = s[k].class /\ msgs[s[k].to].imei = s[k].imei
       /\ msgs[s[k].to].class.RESPOND # "NON"
  /\ \A j, k \in DOMAIN s : s[j].to = s[k].to => j = k

\* What termconfig has yet to see has no response, and nothing has two.
AnswerInv ==
  /\ Right(answers, sent) /\ Right(zpull, sent)
  /\ To(answers) \cap To(zpull) = {}
  /\ \A k \in DOMAIN zsub["termconfig"] : zsub["termconfig"][k] \notin Responded

\* What the rectifier has yet to see comes after all that it has reported.
ReportInv ==
  /\ Reported \subseteq DOMAIN sent
  /\ ReportsInOrder
  /\ \A n \in Reported : \A k \in DOMAIN zsub["rectifier"] : n < zsub["rectifier"][k]

\* The rectifier is in the middle of one turn at most, for a message between those that it
\* has reported and those that wait; what it has pushed in that turn counts as responded.
TurnInv ==
  /\ \A i, j \in telling : i = j
  /\ \A n \in telling : /\ n \in DOMAIN sent /\ sent[n].class # ZX!STATUS
                        /\ sent[n].class = ZX!WIFI_POSITIONING => n \in Responded
                        /\ \A i \in Reported : i < n
                        /\ \A k \in DOMAIN zsub["rectifier"] : n < zsub["rectifier"][k]

\* ToldAlike, on the sets of messages; what waits has no response yet.
TellInv ==
  /\ \A n \in DOMAIN sent : sent[n].class = ZX!WIFI_POSITIONING =>
       (n \in Reported => n \in Responded) /\ (n \in Responded => n \in Reported \cup telling \cup cut)
  /\ \A k \in DOMAIN zsub["rectifier"] :
       sent[zsub["rectifier"][k]].class = ZX!WIFI_POSITIONING => zsub["rectifier"][k] \notin Responded

\* The inductive invariant of the daemons.
IInv == TypeInv /\ QueueInv /\ AnswerInv /\ ReportInv /\ TurnInv /\ TellInv

\* The rectifier's turn goes on, or ends with the rectifier.
TurnKeptOrCut ==
  \/ telling' = telling /\ cut' = cut
  \/ telling' = {} /\ cut' = cut \cup telling

-----------------------------------------------------------------------------
(* The classes of messages.                                                *)

\* No two classes of zx303proto have the same number (zx303proto.py:797-808).
LEMMA ZxNumbers == \A c, d \in ZX!CLASSES : c.PROTO = d.PROTO => c = d
<1>1. /\ ZX!UNKNOWN.PROTO = 256 /\ ZX!LOGIN.PROTO = 1 /\ ZX!SUPERVISION.PROTO = 5
      /\ ZX!HEARTBEAT.PROTO = 8 /\ ZX!GPS_POSITIONING.PROTO = 16
      /\ ZX!GPS_OFFLINE_POSITIONING.PROTO = 17 /\ ZX!STATUS.PROTO = 19
      /\ ZX!HIBERNATION.PROTO = 20 /\ ZX!RESET.PROTO = 21 /\ ZX!WHITELIST_TOTAL.PROTO = 22
      /\ ZX!WIFI_OFFLINE_POSITIONING.PROTO = 23 /\ ZX!TIME.PROTO = 48
      /\ ZX!PROHIBIT_LBS.PROTO = 51 /\ ZX!GPS_LBS_SWITCH_TIMES.PROTO = 52
      /\ ZX!REMOTE_MONITOR_PHONE.PROTO = 64 /\ ZX!SOS_PHONE.PROTO = 65
      /\ ZX!DAD_PHONE.PROTO = 66 /\ ZX!MOM_PHONE.PROTO = 67 /\ ZX!STOP_UPLOAD.PROTO = 68
      /\ ZX!GPS_OFF_PERIOD.PROTO = 70 /\ ZX!DND_PERIOD.PROTO = 71
      /\ ZX!RESTART_SHUTDOWN.PROTO = 72 /\ ZX!DEVICE.PROTO = 73 /\ ZX!ALARM_CLOCK.PROTO = 80
      /\ ZX!STOP_ALARM.PROTO = 86 /\ ZX!SETUP.PROTO = 87 /\ ZX!SYNCHRONOUS_WHITELIST.PROTO = 88
      /\ ZX!RESTORE_PASSWORD.PROTO = 103 /\ ZX!WIFI_POSITIONING.PROTO = 105
      /\ ZX!MANUAL_POSITIONING.PROTO = 128 /\ ZX!BATTERY_CHARGE.PROTO = 129
      /\ ZX!CHARGER_CONNECTED.PROTO = 130 /\ ZX!CHARGER_DISCONNECTED.PROTO = 131
      /\ ZX!VIBRATION_RECEIVED.PROTO = 148 /\ ZX!POSITION_UPLOAD_INTERVAL.PROTO = 152
      /\ ZX!SOS_ALARM.PROTO = 153 /\ ZX!UNKNOWN_B3.PROTO = 179
  BY DEF ZX!Pkt, ZX!Plain,
         ZX!UNKNOWN, ZX!LOGIN, ZX!SUPERVISION, ZX!HEARTBEAT, ZX!GPS_POSITIONING,
         ZX!GPS_OFFLINE_POSITIONING, ZX!STATUS, ZX!HIBERNATION, ZX!RESET, ZX!WHITELIST_TOTAL,
         ZX!WIFI_OFFLINE_POSITIONING, ZX!TIME, ZX!PROHIBIT_LBS, ZX!GPS_LBS_SWITCH_TIMES,
         ZX!REMOTE_MONITOR_PHONE, ZX!SOS_PHONE, ZX!DAD_PHONE, ZX!MOM_PHONE, ZX!STOP_UPLOAD,
         ZX!GPS_OFF_PERIOD, ZX!DND_PERIOD, ZX!RESTART_SHUTDOWN, ZX!DEVICE, ZX!ALARM_CLOCK,
         ZX!STOP_ALARM, ZX!SETUP, ZX!SYNCHRONOUS_WHITELIST, ZX!RESTORE_PASSWORD,
         ZX!WIFI_POSITIONING, ZX!MANUAL_POSITIONING, ZX!BATTERY_CHARGE, ZX!CHARGER_CONNECTED,
         ZX!CHARGER_DISCONNECTED, ZX!VIBRATION_RECEIVED, ZX!POSITION_UPLOAD_INTERVAL,
         ZX!SOS_ALARM, ZX!UNKNOWN_B3
<1> QED
  BY <1>1, SMTT(60) DEF ZX!CLASSES

\* No two classes of beesure have the same name (beesure.py:574-583).
LEMMA BsNames == \A c, d \in BS!CLASSES : c.name = d.name => c = d
<1>1. /\ Len(BS!BeeSurePkt.name) = 2 /\ BS!BeeSurePkt.name[1] = "B"
      /\ BS!BeeSurePkt.name[2] = "EESUREPKT" /\ Len(BS!UNKNOWN.name) = 2
      /\ BS!UNKNOWN.name[1] = "U" /\ BS!UNKNOWN.name[2] = "NKNOWN" /\ Len(BS!AL.name) = 1
      /\ BS!AL.name[1] = "AL" /\ Len(BS!CALL.name) = 2 /\ BS!CALL.name[1] = "C"
      /\ BS!CALL.name[2] = "ALL" /\ Len(BS!CENTER.name) = 2 /\ BS!CENTER.name[1] = "C"
      /\ BS!CENTER.name[2] = "ENTER" /\ Len(BS!CONFIG.name) = 2 /\ BS!CONFIG.name[1] = "C"
      /\ BS!CONFIG.name[2] = "ONFIG" /\ Len(BS!CR.name) = 2 /\ BS!CR.name[1] = "C"
      /\ BS!CR.name[2] = "R" /\ Len(BS!FIND.name) = 2 /\ BS!FIND.name[1] = "F"
      /\ BS!FIND.name[2] = "IND" /\ Len(BS!FLOWER.name) = 2 /\ BS!FLOWER.name[1] = "F"
      /\ BS!FLOWER.name[2] = "LOWER" /\ Len(BS!ICCID.name) = 1 /\ BS!ICCID.name[1] = "ICCID"
      /\ Len(BS!LK.name) = 2 /\ BS!LK.name[1] = "L" /\ BS!LK.name[2] = "K"
      /\ Len(BS!LZ.name) = 2 /\ BS!LZ.name[1] = "L" /\ BS!LZ.name[2] = "Z"
      /\ Len(BS!MESSAGE.name) = 2 /\ BS!MESSAGE.name[1] = "M" /\ BS!MESSAGE.name[2] = "ESSAGE"
      /\ Len(BS!MONITOR.name) = 2 /\ BS!MONITOR.name[1] = "M" /\ BS!MONITOR.name[2] = "ONITOR"
      /\ Len(BS!PHB.name) = 2 /\ BS!PHB.name[1] = "P" /\ BS!PHB.name[2] = "HB"
      /\ Len(BS!PHB2.name) = 3 /\ BS!PHB2.name[1] = "P" /\ BS!PHB2.name[2] = "HB"
      /\ BS!PHB2.name[3] = "2" /\ Len(BS!POWEROFF.name) = 2 /\ BS!POWEROFF.name[1] = "P"
      /\ BS!POWEROFF.name[2] = "OWEROFF" /\ Len(BS!RESET.name) = 1 /\ BS!RESET.name[1] = "RESET"
      /\ Len(BS!SOS.name) = 1 /\ BS!SOS.name[1] = "SOS" /\ Len(BS!SOS1.name) = 2
      /\ BS!SOS1.name[1] = "SOS" /\ BS!SOS1.name[2] = "1" /\ Len(BS!SOS2.name) = 2
      /\ BS!SOS2.name[1] = "SOS" /\ BS!SOS2.name[2] = "2" /\ Len(BS!SOS3.name) = 2
      /\ BS!SOS3.name[1] = "SOS" /\ BS!SOS3.name[2] = "3" /\ Len(BS!TK.name) = 1
      /\ BS!TK.name[1] = "TK" /\ Len(BS!TKQ.name) = 2 /\ BS!TKQ.name[1] = "TK"
      /\ BS!TKQ.name[2] = "Q" /\ Len(BS!TKQ2.name) = 3 /\ BS!TKQ2.name[1] = "TK"
      /\ BS!TKQ2.name[2] = "Q" /\ BS!TKQ2.name[3] = "2" /\ Len(BS!UD.name) = 2
      /\ BS!UD.name[1] = "U" /\ BS!UD.name[2] = "D" /\ Len(BS!UD2.name) = 3
      /\ BS!UD2.name[1] = "U" /\ BS!UD2.name[2] = "D" /\ BS!UD2.name[3] = "2"
      /\ Len(BS!UPLOAD.name) = 2 /\ BS!UPLOAD.name[1] = "U" /\ BS!UPLOAD.name[2] = "PLOAD"
  BY DEF BS!Pkt,
         BS!BeeSurePkt, BS!UNKNOWN, BS!AL, BS!CALL, BS!CENTER, BS!CONFIG, BS!CR, BS!FIND,
         BS!FLOWER, BS!ICCID, BS!LK, BS!LZ, BS!MESSAGE, BS!MONITOR, BS!PHB, BS!PHB2,
         BS!POWEROFF, BS!RESET, BS!SOS, BS!SOS1, BS!SOS2, BS!SOS3, BS!TK, BS!TKQ, BS!TKQ2,
         BS!UD, BS!UD2, BS!UPLOAD
<1> QED
  BY <1>1, SMTT(60) DEF BS!CLASSES

\* What the rectifier makes of the classes of zx303proto, and those that wait for an answer
\* of another daemon than the collector.
LEMMA ZxClasses ==
  /\ \A c \in ZX!CLASSES : /\ c.rectified \in {"none", "hint", "coord", "status"}
                           /\ c.rectified = "status" <=> c = ZX!STATUS
                           /\ c.rectified = "hint" /\ c.RESPOND = "EXT" <=> c = ZX!WIFI_POSITIONING
  /\ {ZX!UNKNOWN, ZX!WIFI_POSITIONING} \subseteq ZX!CLASSES
  /\ ZX!UNKNOWN.rectified = "none" /\ ~ZX!UNKNOWN.sends
  /\ \A c \in {ZX!STATUS, ZX!SETUP, ZX!POSITION_UPLOAD_INTERVAL} :
       c \in ZX!CLASSES /\ c.RESPOND = "EXT" /\ c # ZX!WIFI_POSITIONING /\ c # ZX!UNKNOWN
<1> DEFINE Fits(c) == /\ c.rectified \in {"none", "hint", "coord", "status"}
                      /\ c.rectified = "status" <=> c = ZX!STATUS
                      /\ c.rectified = "hint" /\ c.RESPOND = "EXT" <=> c = ZX!WIFI_POSITIONING
<1>1. ZX!STATUS.rectified = "status" /\ ZX!WIFI_POSITIONING.rectified = "hint"
      /\ ZX!WIFI_POSITIONING.RESPOND = "EXT"
  BY DEF ZX!Pkt, ZX!STATUS, ZX!WIFI_POSITIONING, ZX!EXT
<1>2. \A c \in {ZX!UNKNOWN, ZX!LOGIN, ZX!SUPERVISION, ZX!HEARTBEAT, ZX!HIBERNATION, ZX!RESET,
             ZX!WHITELIST_TOTAL, ZX!TIME, ZX!PROHIBIT_LBS, ZX!GPS_LBS_SWITCH_TIMES,
             ZX!REMOTE_MONITOR_PHONE, ZX!SOS_PHONE, ZX!DAD_PHONE, ZX!MOM_PHONE, ZX!STOP_UPLOAD,
             ZX!GPS_OFF_PERIOD, ZX!DND_PERIOD, ZX!RESTART_SHUTDOWN, ZX!DEVICE, ZX!ALARM_CLOCK,
             ZX!STOP_ALARM, ZX!SETUP, ZX!SYNCHRONOUS_WHITELIST, ZX!RESTORE_PASSWORD,
             ZX!MANUAL_POSITIONING, ZX!BATTERY_CHARGE, ZX!CHARGER_CONNECTED,
             ZX!CHARGER_DISCONNECTED, ZX!VIBRATION_RECEIVED, ZX!POSITION_UPLOAD_INTERVAL,
             ZX!SOS_ALARM, ZX!UNKNOWN_B3} :
        c.rectified = "none"
  BY DEF ZX!Pkt, ZX!Plain,
         ZX!UNKNOWN, ZX!LOGIN, ZX!SUPERVISION, ZX!HEARTBEAT, ZX!GPS_POSITIONING,
         ZX!GPS_OFFLINE_POSITIONING, ZX!STATUS, ZX!HIBERNATION, ZX!RESET, ZX!WHITELIST_TOTAL,
         ZX!WIFI_OFFLINE_POSITIONING, ZX!TIME, ZX!PROHIBIT_LBS, ZX!GPS_LBS_SWITCH_TIMES,
         ZX!REMOTE_MONITOR_PHONE, ZX!SOS_PHONE, ZX!DAD_PHONE, ZX!MOM_PHONE, ZX!STOP_UPLOAD,
         ZX!GPS_OFF_PERIOD, ZX!DND_PERIOD, ZX!RESTART_SHUTDOWN, ZX!DEVICE, ZX!ALARM_CLOCK,
         ZX!STOP_ALARM, ZX!SETUP, ZX!SYNCHRONOUS_WHITELIST, ZX!RESTORE_PASSWORD,
         ZX!WIFI_POSITIONING, ZX!MANUAL_POSITIONING, ZX!BATTERY_CHARGE, ZX!CHARGER_CONNECTED,
         ZX!CHARGER_DISCONNECTED, ZX!VIBRATION_RECEIVED, ZX!POSITION_UPLOAD_INTERVAL,
         ZX!SOS_ALARM, ZX!UNKNOWN_B3
<1>3. \A c \in {ZX!GPS_POSITIONING, ZX!GPS_OFFLINE_POSITIONING} : c.rectified = "coord"
  BY DEF ZX!Pkt, ZX!GPS_POSITIONING, ZX!GPS_OFFLINE_POSITIONING
<1>4. ZX!WIFI_OFFLINE_POSITIONING.rectified = "hint" /\ ZX!WIFI_OFFLINE_POSITIONING.RESPOND = "INL"
  BY DEF ZX!Pkt, ZX!WIFI_OFFLINE_POSITIONING, ZX!INL
<1>5. \A c \in ZX!CLASSES : Fits(c)
  BY <1>1, <1>2, <1>3, <1>4 DEF ZX!CLASSES
<1>6. /\ ~ZX!UNKNOWN.sends /\ ZX!UNKNOWN.RESPOND = "NON" /\ ZX!STATUS.RESPOND = "EXT"
      /\ ZX!SETUP.RESPOND = "EXT" /\ ZX!POSITION_UPLOAD_INTERVAL.RESPOND = "EXT"
  BY DEF ZX!Pkt, ZX!UNKNOWN, ZX!STATUS, ZX!SETUP, ZX!POSITION_UPLOAD_INTERVAL, ZX!EXT, ZX!NON
<1>7. /\ {ZX!UNKNOWN, ZX!WIFI_POSITIONING} \subseteq ZX!CLASSES
      /\ {ZX!STATUS, ZX!SETUP, ZX!POSITION_UPLOAD_INTERVAL} \subseteq ZX!CLASSES
  BY DEF ZX!CLASSES
<1> QED
  BY <1>1, <1>2, <1>5, <1>6, <1>7

\* Those of them that matter here are not classes of beesure: they have numbers.
LEMMA ClassesApart ==
  \A c \in BS!CLASSES :
    c \notin {ZX!STATUS, ZX!SETUP, ZX!POSITION_UPLOAD_INTERVAL, ZX!WIFI_POSITIONING}
<1>1. \A name, respond, loc : "PROTO" \notin DOMAIN BS!Pkt(name, respond, loc)
  BY DEF BS!Pkt
<1>2. \A c \in BS!CLASSES : "PROTO" \notin DOMAIN c
  BY <1>1 DEF BS!CLASSES,
              BS!BeeSurePkt, BS!UNKNOWN, BS!AL, BS!CALL, BS!CENTER, BS!CONFIG, BS!CR, BS!FIND,
              BS!FLOWER, BS!ICCID, BS!LK, BS!LZ, BS!MESSAGE, BS!MONITOR, BS!PHB, BS!PHB2,
              BS!POWEROFF, BS!RESET, BS!SOS, BS!SOS1, BS!SOS2, BS!SOS3, BS!TK, BS!TKQ, BS!TKQ2,
              BS!UD, BS!UD2, BS!UPLOAD
<1>3. \A name, n, respond, rectified_, strict, sends :
        "PROTO" \in DOMAIN ZX!Pkt(name, n, respond, rectified_, strict, sends)
  BY DEF ZX!Pkt
<1>4. \A c \in {ZX!STATUS, ZX!SETUP, ZX!POSITION_UPLOAD_INTERVAL, ZX!WIFI_POSITIONING} :
        "PROTO" \in DOMAIN c
  BY <1>3, ZenonT(30) DEF ZX!STATUS, ZX!SETUP, ZX!POSITION_UPLOAD_INTERVAL, ZX!WIFI_POSITIONING
<1> QED
  BY <1>2, <1>4

\* What the daemons make of a message of zx303.
LEMMA ZxMessage ==
  ASSUME NEW m \in Messages, Zx(m)
  PROVE  /\ m.class \in ZX!CLASSES /\ (Inline(m) <=> m.class.RESPOND = "INL")
         /\ Parsed(m) \in {m.class, ZX!UNKNOWN} /\ rectified(m) = Parsed(m).rectified
<1>1. m.class \in ZX!CLASSES
  BY RespondersAssumption DEF Zx
<1>2. ZX!ClassOf(m.class.PROTO) = m.class
  <2>1. \A c \in ZX!CLASSES : c.PROTO = m.class.PROTO => c = m.class
    BY <1>1, ZxNumbers
  <2>2. ZX!ClassOf(m.class.PROTO) = CHOOSE c \in ZX!CLASSES : c.PROTO = m.class.PROTO
    BY <1>1 DEF ZX!ClassOf
  <2> QED
    BY <1>1, <2>1, <2>2
<1> QED
  BY <1>1, <1>2 DEF Inline, Parsed, rectified, ZX!Inline, ZX!INL, ZX!parse_message

\* What the daemons make of a message of beesure.
LEMMA BsMessage ==
  ASSUME NEW m \in Messages, ~Zx(m)
  PROVE  /\ m.class \in BS!CLASSES /\ (Inline(m) <=> m.class.RESPOND = "INL")
         /\ rectified(m) \in {"none", "hint", "coord"}
<1>1. m.class \in BS!CLASSES
  BY RespondersAssumption DEF Zx
<1>2. BS!ClassOf(m.class.name) = m.class
  <2>1. \A c \in BS!CLASSES : c.name = m.class.name => c = m.class
    BY <1>1, BsNames
  <2>2. BS!ClassOf(m.class.name) = CHOOSE c \in BS!CLASSES : c.name = m.class.name
    BY <1>1 DEF BS!ClassOf
  <2> QED
    BY <1>1, <2>1, <2>2
<1> QED
  BY <1>1, <1>2 DEF Inline, rectified, BS!Inline, BS!INL, BS!rectified

\* Who answers what: a message that the collector answers is in nobody else's charge, what
\* termconfig asks for is not the one kind that the rectifier answers.
LEMMA InCharge ==
  ASSUME NEW m \in Messages
  PROVE  /\ m.imei \in Imeis \cup {None} /\ m.class \in ZX!CLASSES \cup BS!CLASSES
         /\ Inline(m) => m.class.RESPOND = "INL"
         /\ Subscribed("termconfig", m) => /\ m.class.RESPOND = "EXT"
                                           /\ m.class # ZX!WIFI_POSITIONING
                                           /\ Parsed(m) \in {m.class, ZX!UNKNOWN}
         /\ rectified(m) \in {"none", "hint", "coord", "status"}
         /\ rectified(m) = "status" => m.class = ZX!STATUS
         /\ rectified(m) \in {"hint", "coord"} => m.class # ZX!STATUS
         /\ rectified(m) = "hint" /\ NeedsAnswer(m) => m.class = ZX!WIFI_POSITIONING
         /\ m.class = ZX!WIFI_POSITIONING => /\ NeedsAnswer(m) /\ m.class.RESPOND = "EXT"
                                             /\ rectified(m) \in {"hint", "none"}
<1>1. m.imei \in Imeis \cup {None}
  BY RespondersAssumption
<1>2. CASE Zx(m)
  <2>1. /\ m.class \in ZX!CLASSES /\ (Inline(m) <=> m.class.RESPOND = "INL")
        /\ Parsed(m) \in {m.class, ZX!UNKNOWN} /\ rectified(m) = Parsed(m).rectified
    BY <1>2, ZxMessage
  <2>2. rectified(m) \in {m.class.rectified, "none"}
    BY <2>1, ZxClasses
  <2>3. NeedsAnswer(m) <=> m.class.rectified # "none" /\ m.class.RESPOND = "EXT"
    BY <1>2, <2>1 DEF NeedsAnswer, ZX!NeedAnswer, ZX!Exposed, ZX!EXT
  <2>4. Subscribed("termconfig", m) => m.class \in {ZX!STATUS, ZX!SETUP, ZX!POSITION_UPLOAD_INTERVAL}
    BY DEF Subscribed
  <2> QED
    BY <1>1, <2>1, <2>2, <2>3, <2>4, ZxClasses
<1>3. CASE ~Zx(m)
  <2>1. /\ m.class \in BS!CLASSES /\ (Inline(m) <=> m.class.RESPOND = "INL")
        /\ rectified(m) \in {"none", "hint", "coord"}
    BY <1>3, BsMessage
  <2>2. ~Subscribed("termconfig", m) /\ m.class # ZX!WIFI_POSITIONING /\ m.class # ZX!STATUS
    BY <2>1, ClassesApart DEF Subscribed
  <2>3. ~NeedsAnswer(m)
    BY <1>3 DEF NeedsAnswer, BS!NeedAnswer
  <2> QED
    BY <1>1, <2>1, <2>2, <2>3
<1> QED
  BY <1>2, <1>3

-----------------------------------------------------------------------------
(* Sequences that grow at the end and are taken from the front.            *)

\* What Append does.
LEMMA Appended ==
  ASSUME NEW S, NEW s \in Seq(S), NEW x \in S, NEW t, t = Append(s, x)
  PROVE  /\ t \in Seq(S) /\ DOMAIN t = DOMAIN s \cup {Len(s) + 1} /\ Len(s) + 1 \notin DOMAIN s
         /\ t[Len(s) + 1] = x /\ \A k \in DOMAIN s : t[k] = s[k] /\ k < Len(s) + 1 /\ k \in Nat
OBVIOUS

\* What Tail leaves.
LEMMA Taken ==
  ASSUME NEW S, NEW s \in Seq(S), s # <<>>, NEW t, t = Tail(s)
  PROVE  /\ t \in Seq(S) /\ Head(s) \in S /\ Head(s) = s[1] /\ 1 \in DOMAIN s
         /\ \A k \in DOMAIN t : /\ k + 1 \in DOMAIN s /\ t[k] = s[k + 1] /\ k \in Nat
                              /\ 1 < k + 1
OBVIOUS

\* The messages that the responses are to.
LEMMA ToAppended ==
  ASSUME NEW s \in Seq(Resps), NEW r \in Resps
  PROVE  To(Append(s, r)) = To(s) \cup {r.to}
<1> DEFINE t == Append(s, r)
<1>1. /\ DOMAIN t = DOMAIN s \cup {Len(s) + 1} /\ t[Len(s) + 1] = r
      /\ \A k \in DOMAIN s : t[k] = s[k]
  BY Appended
<1> HIDE DEF t
<1>2. To(t) = To(s) \cup {r.to}
  BY <1>1 DEF To
<1> QED
  BY <1>2 DEF t

\* A response to a message that had none is added.
LEMMA RightAppended ==
  ASSUME NEW msgs, NEW s \in Seq(Resps), NEW r \in Resps, Right(s, msgs), r.to \notin To(s),
         r.to \in DOMAIN msgs, msgs[r.to].class = r.class, msgs[r.to].imei = r.imei,
         msgs[r.to].class.RESPOND # "NON"
  PROVE  Right(Append(s, r), msgs)
<1> DEFINE t == Append(s, r)
<1>1. /\ DOMAIN t = DOMAIN s \cup {Len(s) + 1} /\ t[Len(s) + 1] = r
      /\ \A k \in DOMAIN s : t[k] = s[k]
  BY Appended
<1> HIDE DEF t
<1>2. \A k \in DOMAIN s : s[k].to # r.to
  BY DEF To
<1>3. Right(t, msgs)
  BY <1>1, <1>2 DEF Right
<1> QED
  BY <1>3 DEF t

\* The first response is taken.
LEMMA RightTaken ==
  ASSUME NEW msgs, NEW s \in Seq(Resps), s # <<>>, Right(s, msgs)
  PROVE  /\ Right(Tail(s), msgs) /\ To(Tail(s)) = To(s) \ {Head(s).to} /\ Head(s).to \in To(s)
         /\ Head(s).to \in DOMAIN msgs /\ msgs[Head(s).to].class = Head(s).class
         /\ msgs[Head(s).to].imei = Head(s).imei /\ msgs[Head(s).to].class.RESPOND # "NON"
<1> DEFINE t == Tail(s)
<1>1. /\ Head(s) = s[1] /\ 1 \in DOMAIN s
      /\ \A k \in DOMAIN t : k + 1 \in DOMAIN s /\ t[k] = s[k + 1] /\ k \in Nat /\ 1 < k + 1
  BY Taken
<1>2. \A j \in DOMAIN s : j = 1 \/ (j - 1 \in DOMAIN t /\ s[j] = t[j - 1])
  OBVIOUS
<1> HIDE DEF t
<1>3. Right(t, msgs)
  <2>1. \A k \in DOMAIN t :
          /\ t[k].to \in DOMAIN msgs
          /\ msgs[t[k].to].class = t[k].class /\ msgs[t[k].to].imei = t[k].imei
          /\ msgs[t[k].to].class.RESPOND # "NON"
    BY <1>1 DEF Right
  <2>2. ASSUME NEW j \in DOMAIN t, NEW k \in DOMAIN t, t[j].to = t[k].to PROVE j = k
    <3>1. j + 1 = k + 1
      BY <1>1, <2>2 DEF Right
    <3> QED
      BY <1>1, <3>1
  <2> QED
    BY <2>1, <2>2 DEF Right
<1>4. To(t) = To(s) \ {s[1].to}
  <2>1. \A k \in DOMAIN t : t[k].to \in To(s) /\ t[k].to # s[1].to
    BY <1>1 DEF To, Right
  <2>2. \A j \in DOMAIN s : s[j].to # s[1].to => s[j].to \in To(t)
    BY <1>2 DEF To
  <2> QED
    BY <2>1, <2>2 DEF To
<1>5. s[1].to \in To(s)
  BY <1>1 DEF To
<1> QED
  BY <1>1, <1>3, <1>4, <1>5 DEF Right, t

\* A queue of numbers in order from which the first is taken.
LEMMA QueueTaken ==
  ASSUME NEW q \in Seq(Nat), q # <<>>, Increasing(q)
  PROVE  /\ Tail(q) \in Seq(Nat) /\ Increasing(Tail(q)) /\ Head(q) = q[1] /\ 1 \in DOMAIN q
         /\ \A k \in DOMAIN Tail(q) : \E j \in DOMAIN q : Tail(q)[k] = q[j] /\ Head(q) < q[j]
<1> DEFINE t == Tail(q)
<1>1. /\ t \in Seq(Nat) /\ Head(q) = q[1] /\ 1 \in DOMAIN q
      /\ \A k \in DOMAIN t : k + 1 \in DOMAIN q /\ t[k] = q[k + 1] /\ k \in Nat /\ 1 < k + 1
  BY Taken
<1> HIDE DEF t
<1>2. Increasing(t)
  <2>1. ASSUME NEW j \in DOMAIN t, NEW k \in DOMAIN t, j < k PROVE t[j] < t[k]
    <3>1. j + 1 \in DOMAIN q /\ k + 1 \in DOMAIN q /\ j + 1 < k + 1
      BY <1>1, <2>1
    <3> QED
      BY <1>1, <3>1 DEF Increasing
  <2> QED
    BY <2>1 DEF Increasing
<1>3. \A k \in DOMAIN t : q[1] < q[k + 1]
  BY <1>1 DEF Increasing
<1> QED
  BY <1>1, <1>2, <1>3 DEF t

\* More messages make no response wrong.
LEMMA RightGrows ==
  ASSUME NEW s, NEW msgs, NEW more, Right(s, msgs), DOMAIN msgs \subseteq DOMAIN more,
         \A n \in DOMAIN msgs : more[n] = msgs[n]
  PROVE  Right(s, more)
BY DEF Right

-----------------------------------------------------------------------------
(* The steps.                                                              *)

\* Nothing has been sent.
LEMMA InitIInv == Init => IInv
<1> SUFFICES ASSUME Init PROVE IInv
  OBVIOUS
<1>1. /\ <<>> \in Seq(Messages) /\ <<>> \in Seq(Nat) /\ <<>> \in Seq(Resps) /\ <<>> \in Seq(Reports)
      /\ DOMAIN <<>> = {}
  OBVIOUS
<1>2. TypeInv
  BY <1>1 DEF Init, TypeInv
<1>3. QueueInv
  BY <1>1 DEF Init, QueueInv, Increasing
<1>4. AnswerInv
  BY <1>1 DEF Init, AnswerInv, Right, To, Responded, Daemons
<1>5. ReportInv
  BY <1>1 DEF Init, ReportInv, ReportsInOrder, Reported, Increasing, Ids
<1>6. TurnInv /\ TellInv
  BY <1>1 DEF Init, TurnInv, TellInv, Daemons
<1> QED
  BY <1>2, <1>3, <1>4, <1>5, <1>6 DEF IInv

\* A daemon takes the first message of its socket, or ends and loses them all.
LEMMA QueueShrinks ==
  ASSUME IInv, NEW d \in Daemons, zsub[d] # <<>>, sent' = sent,
         NEW rest \in {<<>>, Tail(zsub[d])}, zsub' = [zsub EXCEPT ![d] = rest]
  PROVE  /\ zsub' \in [Daemons -> Seq(Nat)] /\ QueueInv'
         /\ \A e \in Daemons : \A k \in DOMAIN zsub'[e] : \E j \in DOMAIN zsub[e] :
              zsub'[e][k] = zsub[e][j] /\ (e = d => Head(zsub[d]) < zsub[e][j])
         /\ Head(zsub[d]) = zsub[d][1] /\ 1 \in DOMAIN zsub[d] /\ Head(zsub[d]) \in DOMAIN sent
         /\ Subscribed(d, sent[Head(zsub[d])])
<1>1. zsub \in [Daemons -> Seq(Nat)] /\ zsub[d] \in Seq(Nat) /\ Increasing(zsub[d])
  BY DEF IInv, TypeInv, QueueInv
<1>2. /\ Tail(zsub[d]) \in Seq(Nat) /\ Increasing(Tail(zsub[d]))
      /\ Head(zsub[d]) = zsub[d][1] /\ 1 \in DOMAIN zsub[d]
      /\ \A k \in DOMAIN Tail(zsub[d]) : \E j \in DOMAIN zsub[d] :
           Tail(zsub[d])[k] = zsub[d][j] /\ Head(zsub[d]) < zsub[d][j]
  BY <1>1, QueueTaken
<1>3. <<>> \in Seq(Nat) /\ DOMAIN <<>> = {} /\ Increasing(<<>>)
  BY DEF Increasing
<1>4. /\ rest \in Seq(Nat) /\ Increasing(rest)
      /\ \A k \in DOMAIN rest : \E j \in DOMAIN zsub[d] :
           rest[k] = zsub[d][j] /\ Head(zsub[d]) < zsub[d][j]
  <2>1. CASE rest = <<>>
    BY <1>3, <2>1
  <2>2. CASE rest = Tail(zsub[d])
    BY <1>2, <2>2
  <2> QED
    BY <2>1, <2>2
<1>5. zsub' \in [Daemons -> Seq(Nat)] /\ zsub'[d] = rest /\ \A e \in Daemons : e # d => zsub'[e] = zsub[e]
  BY <1>1, <1>4
<1>6. ASSUME NEW e \in Daemons, NEW k \in DOMAIN zsub'[e]
      PROVE  \E j \in DOMAIN zsub[e] :
               zsub'[e][k] = zsub[e][j] /\ (e = d => Head(zsub[d]) < zsub[e][j])
  <2>1. CASE e = d
    BY <1>4, <1>5, <2>1
  <2>2. CASE e # d
    BY <1>5, <2>2
  <2> QED
    BY <2>1, <2>2
<1>7. QueueInv'
  <2>1. ASSUME NEW e \in Daemons PROVE Increasing(zsub'[e])
    <3>1. CASE e = d
      BY <1>4, <1>5, <3>1
    <3>2. CASE e # d
      BY <1>5, <3>2 DEF IInv, QueueInv
    <3> QED
      BY <3>1, <3>2
  <2>2. ASSUME NEW e \in Daemons, NEW k \in DOMAIN zsub'[e]
        PROVE  zsub'[e][k] \in DOMAIN sent' /\ Subscribed(e, sent'[zsub'[e][k]])
    <3>1. PICK j \in DOMAIN zsub[e] : zsub'[e][k] = zsub[e][j]
      BY <1>6, <2>2
    <3> QED
      BY <3>1 DEF IInv, QueueInv
  <2> QED
    BY <2>1, <2>2 DEF QueueInv
<1>8. Head(zsub[d]) \in DOMAIN sent /\ Subscribed(d, sent[Head(zsub[d])])
  BY <1>2 DEF IInv, QueueInv
<1> QED
  BY <1>2, <1>5, <1>6, <1>7, <1>8

\* Nothing is pushed or published, and the rectifier may lose what waits.
LEMMA TurnAndTell ==
  ASSUME TurnInv, TellInv, TurnKeptOrCut,
         Responded' = Responded, Reported' = Reported, sent' = sent,
         \A k \in DOMAIN zsub'["rectifier"] : \E j \in DOMAIN zsub["rectifier"] :
           zsub'["rectifier"][k] = zsub["rectifier"][j]
  PROVE  TurnInv' /\ TellInv'
<1>1. /\ \A n \in telling' : n \in telling
      /\ \A n \in telling \cup cut : n \in telling' \cup cut'
  BY DEF TurnKeptOrCut
<1>2. TurnInv'
  <2>1. ASSUME NEW n \in telling'
        PROVE  /\ n \in DOMAIN sent /\ sent[n].class # ZX!STATUS
               /\ sent[n].class = ZX!WIFI_POSITIONING => n \in Responded
               /\ \A i \in Reported : i < n
               /\ \A k \in DOMAIN zsub'["rectifier"] : n < zsub'["rectifier"][k]
    BY <1>1 DEF TurnInv
  <2>2. \A i, j \in telling' : i = j
    BY <1>1 DEF TurnInv
  <2> QED
    BY <2>1, <2>2 DEF TurnInv
<1>3. TellInv'
  <2>1. ASSUME NEW n \in DOMAIN sent, sent[n].class = ZX!WIFI_POSITIONING
        PROVE  /\ n \in Reported => n \in Responded
               /\ n \in Responded => n \in Reported \cup telling' \cup cut'
    BY <1>1, <2>1 DEF TellInv
  <2>2. ASSUME NEW k \in DOMAIN zsub'["rectifier"],
               sent[zsub'["rectifier"][k]].class = ZX!WIFI_POSITIONING
        PROVE  zsub'["rectifier"][k] \notin Responded
    BY <2>2 DEF TellInv
  <2> QED
    BY <2>1, <2>2 DEF TellInv
<1> QED
  BY <1>2, <1>3

\* A daemon ends, or finds nothing to say of a message.
LEMMA SilentIInv ==
  ASSUME IInv, NEW d \in Daemons, zsub[d] # <<>>, Alive(d) \/ Dies(d),
         UNCHANGED <<sent, answers, zpull, reports>>, TurnKeptOrCut
  PROVE  IInv'
<1>1. PICK rest \in {<<>>, Tail(zsub[d])} : zsub' = [zsub EXCEPT ![d] = rest]
  BY DEF Alive, Dies
<1>2. /\ zsub' \in [Daemons -> Seq(Nat)] /\ QueueInv'
      /\ \A e \in Daemons : \A k \in DOMAIN zsub'[e] : \E j \in DOMAIN zsub[e] : zsub'[e][k] = zsub[e][j]
  <2>1. sent' = sent
    OBVIOUS
  <2>2. /\ zsub' \in [Daemons -> Seq(Nat)] /\ QueueInv'
        /\ \A e \in Daemons : \A k \in DOMAIN zsub'[e] : \E j \in DOMAIN zsub[e] :
             zsub'[e][k] = zsub[e][j] /\ (e = d => Head(zsub[d]) < zsub[e][j])
    BY <1>1, <2>1, QueueShrinks
  <2> QED
    BY <2>2
<1>3. "rectifier" \in Daemons /\ "termconfig" \in Daemons
  BY DEF Daemons
<1>4. TypeInv'
  BY <1>2 DEF IInv, TypeInv
<1>5. AnswerInv'
  <2>1. ASSUME NEW k \in DOMAIN zsub'["termconfig"]
        PROVE  zsub'["termconfig"][k] \notin Responded
    <3>1. PICK j \in DOMAIN zsub["termconfig"] : zsub'["termconfig"][k] = zsub["termconfig"][j]
      BY <1>2, <1>3
    <3> QED
      BY <3>1 DEF IInv, AnswerInv
  <2>2. Responded' = Responded
    BY DEF Responded, To
  <2> QED
    BY <2>1, <2>2 DEF IInv, AnswerInv
<1>6. ReportInv'
  <2>1. ASSUME NEW n \in Reported, NEW k \in DOMAIN zsub'["rectifier"]
        PROVE  n < zsub'["rectifier"][k]
    <3>1. PICK j \in DOMAIN zsub["rectifier"] : zsub'["rectifier"][k] = zsub["rectifier"][j]
      BY <1>2, <1>3
    <3> QED
      BY <3>1 DEF IInv, ReportInv
  <2>2. Reported' = Reported /\ (ReportsInOrder => ReportsInOrder')
    BY DEF Reported, ReportsInOrder
  <2> QED
    BY <2>1, <2>2 DEF IInv, ReportInv
<1>7. Responded' = Responded /\ Reported' = Reported /\ sent' = sent
  BY DEF Responded, Reported, To
<1>8. \A k \in DOMAIN zsub'["rectifier"] : \E j \in DOMAIN zsub["rectifier"] :
        zsub'["rectifier"][k] = zsub["rectifier"][j]
  BY <1>2, <1>3
<1>9. TurnInv' /\ TellInv'
  BY <1>7, <1>8, TurnAndTell DEF IInv
<1> QED
  BY <1>2, <1>4, <1>5, <1>6, <1>9 DEF IInv

\* A daemon pushes a response to a message that had none.
LEMMA PushRight ==
  ASSUME IInv, sent' = sent, answers' = answers,
         NEW n \in DOMAIN sent, n \notin Responded, sent[n].class.RESPOND # "NON",
         Push(n, sent[n].class)
  PROVE  /\ zpull' \in Seq(Resps) /\ Right(zpull', sent) /\ To(zpull') = To(zpull) \cup {n}
         /\ Responded' = Responded \cup {n} /\ To(answers) \cap To(zpull') = {}
<1> DEFINE x == Resp(sent[n].imei, n, sent[n].class)
<1>1. sent[n] \in Messages /\ n \in Nat /\ zpull \in Seq(Resps)
  BY DEF IInv, TypeInv
<1>2. /\ x \in Resps /\ x.to = n /\ x.class = sent[n].class /\ x.imei = sent[n].imei
  BY <1>1, InCharge DEF Resp, Resps
<1>3. zpull' = Append(zpull, x)
  BY DEF Push
<1> HIDE DEF x
<1>4. zpull' \in Seq(Resps)
  BY <1>1, <1>2, <1>3
<1>5. To(zpull') = To(zpull) \cup {n}
  BY <1>1, <1>2, <1>3, ToAppended
<1>6. Right(zpull', sent)
  BY <1>1, <1>2, <1>3, RightAppended DEF IInv, AnswerInv, Responded
<1>7. Responded' = Responded \cup {n}
  BY <1>5 DEF Responded, To
<1> QED
  BY <1>4, <1>5, <1>6, <1>7 DEF IInv, AnswerInv, Responded

\* The rectifier publishes a report of a message that comes after all that it has reported.
LEMMA PublishRight ==
  ASSUME IInv, sent' = sent, NEW n \in DOMAIN sent, \A i \in Reported : i < n,
         NEW kind \in {"location", "status"}, (kind = "status") <=> (sent[n].class = ZX!STATUS),
         Publish(n, kind)
  PROVE  reports' \in Seq(Reports) /\ ReportsInOrder' /\ Reported' = Reported \cup {n}
<1> DEFINE x == [of |-> n, kind |-> kind]
<1>1. n \in Nat /\ reports \in Seq(Reports)
  BY DEF IInv, TypeInv
<1>2. x \in Reports /\ x.of = n /\ x.kind = kind
  BY <1>1 DEF Reports
<1>3. reports' = Append(reports, x)
  BY DEF Publish
<1> HIDE DEF x
<1>4. /\ reports' \in Seq(Reports) /\ DOMAIN reports' = DOMAIN reports \cup {Len(reports) + 1}
      /\ reports'[Len(reports) + 1] = x
      /\ \A k \in DOMAIN reports : /\ reports'[k] = reports[k] /\ k < Len(reports) + 1 /\ k \in Nat
  BY <1>1, <1>2, <1>3, Appended
<1>5. \A k \in DOMAIN reports : reports[k].of < n
  BY DEF Reported
<1>6. Reported' = Reported \cup {n}
  BY <1>2, <1>4 DEF Reported
<1>7. Len(reports) \in Nat
  BY <1>1
<1>8. ASSUME NEW j \in DOMAIN reports', NEW k \in DOMAIN reports', j < k
      PROVE  reports'[j].of < reports'[k].of
  <2>1. \A a, b \in DOMAIN reports : a < b => reports[a].of < reports[b].of
    BY DEF IInv, ReportInv, ReportsInOrder, Increasing, Ids
  <2>2. CASE k \in DOMAIN reports
    BY <1>4, <1>7, <1>8, <2>1, <2>2
  <2>3. CASE k = Len(reports) + 1
    <3>1. j \in DOMAIN reports
      BY <1>4, <1>7, <1>8, <2>3
    <3> QED
      BY <1>2, <1>4, <1>5, <2>3, <3>1
  <2> QED
    BY <1>4, <2>2, <2>3
<1>9. Increasing(Ids(reports'))
  BY <1>8 DEF Increasing, Ids
<1>10. \A k \in DOMAIN reports' :
         (reports'[k].kind = "status") <=> (sent'[reports'[k].of].class = ZX!STATUS)
  BY <1>2, <1>4 DEF IInv, ReportInv, ReportsInOrder
<1> QED
  BY <1>4, <1>6, <1>9, <1>10 DEF ReportsInOrder, Increasing, Ids

\* A terminal comes or goes, a daemon is started again, or killed with nothing in its
\* socket.
LEMMA QuietIInv ==
  ASSUME IInv, UNCHANGED <<zsub, zpull, sent, answers, reports>>, TurnKeptOrCut
  PROVE  IInv'
<1>1. TypeInv' /\ QueueInv'
  BY DEF IInv, TypeInv, QueueInv
<1>2. AnswerInv'
  BY DEF IInv, AnswerInv, Responded, To
<1>3. ReportInv'
  BY DEF IInv, ReportInv, Reported, ReportsInOrder
<1>4. Responded' = Responded /\ Reported' = Reported /\ sent' = sent
  BY DEF Responded, Reported, To
<1>5. TurnInv' /\ TellInv'
  BY <1>4, TurnAndTell DEF IInv
<1> QED
  BY <1>1, <1>2, <1>3, <1>5 DEF IInv

\* A daemon is killed.
LEMMA KilledIInv ==
  ASSUME IInv, NEW d \in Daemons, Killed(d)
  PROVE  IInv'
<1>1. Dies(d) /\ UNCHANGED <<sent, answers, zpull, reports>> /\ TurnKeptOrCut
  BY DEF Killed, Dies, rectvars, TurnKeptOrCut
<1>2. CASE zsub[d] # <<>>
  BY <1>1, <1>2, SilentIInv
<1>3. CASE zsub[d] = <<>>
  <2>1. zsub' = zsub
    BY <1>1, <1>3 DEF Dies, IInv, TypeInv
  <2> QED
    BY <1>1, <2>1, QuietIInv
<1> QED
  BY <1>2, <1>3

\* The collector relays a response: it is what it was, gone or not.
LEMMA Relayed ==
  ASSUME NEW r \in Resps, Relay(r)
  PROVE  \E x \in Resps : /\ answers' = Append(answers, x)
                          /\ x.to = r.to /\ x.class = r.class /\ x.imei = r.imei
<1> DEFINE x == [r EXCEPT !.gone = r.imei \notin online]
<1>1. x \in Resps /\ x.to = r.to /\ x.class = r.class /\ x.imei = r.imei
  BY DEF Resps
<1>2. answers' = Append(answers, x)
  BY DEF Relay
<1> QED
  BY <1>1, <1>2

\* The collector takes a response that was pushed to it.
LEMMA TakeZpullIInv ==
  ASSUME IInv, TakeZpull
  PROVE  IInv'
<1> DEFINE r == Head(zpull)
<1>1. /\ zpull # <<>> /\ zpull' = Tail(zpull) /\ Relay(r)
      /\ UNCHANGED <<zsub, sent, reports, telling, cut>>
  BY DEF TakeZpull, rectvars
<1>2. /\ zpull \in Seq(Resps) /\ answers \in Seq(Resps) /\ Right(zpull, sent) /\ Right(answers, sent)
      /\ To(answers) \cap To(zpull) = {}
  BY DEF IInv, TypeInv, AnswerInv
<1>3. r \in Resps /\ Tail(zpull) \in Seq(Resps)
  BY <1>1, <1>2
<1>4. PICK x \in Resps : /\ answers' = Append(answers, x)
                         /\ x.to = r.to /\ x.class = r.class /\ x.imei = r.imei
  BY <1>1, <1>3, Relayed
<1>5. /\ Right(Tail(zpull), sent) /\ To(Tail(zpull)) = To(zpull) \ {r.to} /\ r.to \in To(zpull)
      /\ r.to \in DOMAIN sent /\ sent[r.to].class = r.class
      /\ sent[r.to].imei = r.imei /\ sent[r.to].class.RESPOND # "NON"
  BY <1>1, <1>2, RightTaken
<1> HIDE DEF r
<1>6. answers' \in Seq(Resps) /\ To(answers') = To(answers) \cup {r.to}
  BY <1>2, <1>4, ToAppended
<1>7. Right(answers', sent)
  BY <1>2, <1>4, <1>5, RightAppended
<1>8. Responded' = Responded
  BY <1>1, <1>5, <1>6 DEF Responded, To
<1>9. TypeInv' /\ QueueInv'
  BY <1>1, <1>3, <1>6 DEF IInv, TypeInv, QueueInv
<1>10. AnswerInv'
  <2>1. Right(answers', sent') /\ Right(zpull', sent') /\ To(answers') \cap To(zpull') = {}
    BY <1>1, <1>2, <1>5, <1>6, <1>7
  <2>2. \A k \in DOMAIN zsub'["termconfig"] : zsub'["termconfig"][k] \notin Responded'
    BY <1>1, <1>8 DEF IInv, AnswerInv
  <2> QED
    BY <2>1, <2>2 DEF AnswerInv, To
<1>11. ReportInv'
  BY <1>1, <1>8 DEF IInv, ReportInv, Reported, ReportsInOrder
<1>12. TurnInv' /\ TellInv'
  <2>1. Reported' = Reported /\ sent' = sent /\ TurnKeptOrCut /\ zsub' = zsub
    BY <1>1 DEF Reported, TurnKeptOrCut
  <2> QED
    BY <1>8, <2>1, TurnAndTell DEF IInv
<1> QED
  BY <1>9, <1>10, <1>11, <1>12 DEF IInv

\* The collector receives a message, which comes after all that wait and is answered by it
\* only if termconfig does not ask for it.
LEMMA ReceiveIInv ==
  ASSUME IInv, NEW m \in Messages, Receive(m)
  PROVE  IInv'
<1> DEFINE n == Len(sent) + 1
<1>1. /\ sent' = Append(sent, m)
      /\ zsub' = [d \in Daemons |-> IF d \in up /\ Subscribed(d, m) THEN Append(zsub[d], n) ELSE zsub[d]]
      /\ IF Inline(m) THEN Relay(Resp(m.imei, n, m.class)) ELSE UNCHANGED answers
      /\ UNCHANGED <<zpull, reports, telling, cut>>
  BY DEF Receive, rectvars
<1>2. /\ sent \in Seq(Messages) /\ sent' \in Seq(Messages) /\ n \in Nat
      /\ DOMAIN sent' = DOMAIN sent \cup {n} /\ n \notin DOMAIN sent /\ sent'[n] = m
      /\ \A k \in DOMAIN sent : sent'[k] = sent[k] /\ k < n /\ k \in Nat
  <2>1. sent \in Seq(Messages)
    BY DEF IInv, TypeInv
  <2> QED
    BY <1>1, <2>1, Appended
<1> HIDE DEF n
<1>3. ASSUME NEW d \in Daemons
      PROVE  /\ zsub'[d] \in Seq(Nat) /\ Increasing(zsub'[d])
             /\ \A k \in DOMAIN zsub'[d] : \/ k \in DOMAIN zsub[d] /\ zsub'[d][k] = zsub[d][k]
                                           \/ zsub'[d][k] = n /\ Subscribed(d, m)
  <2>1. /\ zsub[d] \in Seq(Nat) /\ Increasing(zsub[d]) /\ \A k \in DOMAIN zsub[d] : zsub[d][k] < n
    BY <1>2 DEF IInv, TypeInv, QueueInv
  <2>2. CASE ~(d \in up /\ Subscribed(d, m))
    BY <1>1, <2>1, <2>2
  <2>3. CASE d \in up /\ Subscribed(d, m)
    <3> DEFINE q == zsub[d]
               t == zsub'[d]
    <3>1. t = Append(q, n)
      BY <1>1, <2>3
    <3>2. /\ t \in Seq(Nat) /\ DOMAIN t = DOMAIN q \cup {Len(q) + 1}
          /\ t[Len(q) + 1] = n
          /\ \A k \in DOMAIN q : t[k] = q[k] /\ k < Len(q) + 1 /\ k \in Nat
      BY <1>2, <2>1, <3>1, Appended
    <3>3. Len(q) \in Nat
      BY <2>1
    <3> HIDE DEF q, t
    <3>4. ASSUME NEW j \in DOMAIN t, NEW k \in DOMAIN t, j < k PROVE t[j] < t[k]
      <4>1. j \in DOMAIN q
        BY <3>2, <3>3, <3>4
      <4>2. CASE k \in DOMAIN q
        BY <2>1, <3>2, <3>4, <4>1, <4>2 DEF Increasing, q
      <4>3. CASE k = Len(q) + 1
        BY <2>1, <3>2, <4>1, <4>3 DEF q
      <4> QED
        BY <3>2, <4>2, <4>3
    <3>5. Increasing(t)
      BY <3>4 DEF Increasing
    <3> QED
      BY <2>3, <3>2, <3>5 DEF q, t
  <2> QED
    BY <2>2, <2>3
<1>4. zsub' \in [Daemons -> Seq(Nat)]
  BY <1>1, <1>3
<1>5. QueueInv'
  <2>1. ASSUME NEW d \in Daemons, NEW k \in DOMAIN zsub'[d]
        PROVE  zsub'[d][k] \in DOMAIN sent' /\ Subscribed(d, sent'[zsub'[d][k]])
    <3>1. CASE k \in DOMAIN zsub[d] /\ zsub'[d][k] = zsub[d][k]
      BY <1>2, <3>1 DEF IInv, QueueInv
    <3>2. CASE zsub'[d][k] = n /\ Subscribed(d, m)
      BY <1>2, <3>2
    <3> QED
      BY <1>3, <3>1, <3>2
  <2> QED
    BY <1>3, <2>1 DEF QueueInv
<1>6. /\ Right(answers, sent) /\ Right(zpull, sent) /\ To(answers) \cap To(zpull) = {}
      /\ answers \in Seq(Resps) /\ zpull \in Seq(Resps)
  BY DEF IInv, AnswerInv, TypeInv
<1>7. Right(answers, sent') /\ Right(zpull, sent') /\ n \notin Responded
  <2>1. Right(answers, sent') /\ Right(zpull, sent')
    BY <1>2, <1>6, RightGrows
  <2>2. To(answers) \subseteq DOMAIN sent /\ To(zpull) \subseteq DOMAIN sent
    BY <1>6 DEF Right, To
  <2> QED
    BY <1>2, <2>1, <2>2 DEF Responded
<1>8. /\ answers' \in Seq(Resps) /\ Right(answers', sent')
      /\ To(answers') = IF Inline(m) THEN To(answers) \cup {n} ELSE To(answers)
  <2>1. CASE ~Inline(m)
    BY <1>1, <1>6, <1>7, <2>1
  <2>2. CASE Inline(m)
    <3> DEFINE r == Resp(m.imei, n, m.class)
    <3>1. /\ r \in Resps /\ r.to = n /\ r.class = m.class /\ r.imei = m.imei
      BY <1>2, InCharge DEF Resp, Resps
    <3>2. PICK x \in Resps : /\ answers' = Append(answers, x)
                             /\ x.to = r.to /\ x.class = r.class /\ x.imei = r.imei
      BY <1>1, <2>2, <3>1, Relayed
    <3> HIDE DEF r
    <3>3. m.class.RESPOND # "NON"
      BY <2>2, InCharge
    <3>4. Right(answers', sent')
      BY <1>2, <1>6, <1>7, <3>1, <3>2, <3>3, RightAppended DEF Responded
    <3> QED
      BY <1>6, <2>2, <3>1, <3>2, <3>4, ToAppended
  <2> QED
    BY <2>1, <2>2
<1>9. Responded' = IF Inline(m) THEN Responded \cup {n} ELSE Responded
  BY <1>1, <1>8 DEF Responded, To
<1>10. TypeInv'
  BY <1>1, <1>2, <1>4, <1>8 DEF IInv, TypeInv
<1>11. AnswerInv'
  <2>1. ASSUME NEW k \in DOMAIN zsub'["termconfig"]
        PROVE  zsub'["termconfig"][k] \notin Responded'
    <3>1. CASE k \in DOMAIN zsub["termconfig"] /\ zsub'["termconfig"][k] = zsub["termconfig"][k]
      <4>1. zsub["termconfig"][k] \in DOMAIN sent /\ zsub["termconfig"][k] \notin Responded
        BY <3>1 DEF IInv, QueueInv, AnswerInv, Daemons
      <4> QED
        BY <1>2, <1>9, <3>1, <4>1
    <3>2. CASE zsub'["termconfig"][k] = n /\ Subscribed("termconfig", m)
      <4>1. ~Inline(m)
        BY <3>2, InCharge
      <4> QED
        BY <1>7, <1>9, <3>2, <4>1
    <3> QED
      BY <1>3, <3>1, <3>2 DEF Daemons
  <2>2. Right(answers', sent') /\ Right(zpull', sent') /\ To(answers') \cap To(zpull') = {}
    BY <1>1, <1>6, <1>7, <1>8 DEF Responded
  <2> QED
    BY <2>1, <2>2 DEF AnswerInv, To
<1>12. ReportInv'
  <2>1. /\ Reported' = Reported /\ Reported \subseteq DOMAIN sent
    BY <1>1 DEF IInv, ReportInv, Reported
  <2>2. ReportsInOrder'
    <3>1. \A k \in DOMAIN reports : reports[k].of \in DOMAIN sent
      BY <2>1 DEF Reported
    <3> QED
      BY <1>1, <1>2, <3>1 DEF IInv, ReportInv, ReportsInOrder
  <2>3. ASSUME NEW i \in Reported, NEW k \in DOMAIN zsub'["rectifier"] PROVE i < zsub'["rectifier"][k]
    <3>1. CASE k \in DOMAIN zsub["rectifier"] /\ zsub'["rectifier"][k] = zsub["rectifier"][k]
      BY <3>1 DEF IInv, ReportInv
    <3>2. CASE zsub'["rectifier"][k] = n
      BY <1>2, <2>1, <3>2
    <3> QED
      BY <1>3, <3>1, <3>2 DEF Daemons
  <2> QED
    BY <1>2, <2>1, <2>2, <2>3 DEF ReportInv
<1>13. /\ n \notin Reported /\ Reported' = Reported /\ (m.class = ZX!WIFI_POSITIONING => n \notin Responded')
       /\ \A i \in DOMAIN sent : i \in Responded' <=> i \in Responded
  <2>1. n \notin Reported /\ Reported' = Reported
    BY <1>1, <1>2 DEF IInv, ReportInv, Reported
  <2>2. m.class = ZX!WIFI_POSITIONING => n \notin Responded'
    BY <1>7, <1>9, InCharge
  <2> QED
    BY <1>2, <1>9, <2>1, <2>2
<1>14. \A k \in DOMAIN zsub'["rectifier"] :
         \/ k \in DOMAIN zsub["rectifier"] /\ zsub'["rectifier"][k] = zsub["rectifier"][k]
         \/ zsub'["rectifier"][k] = n
  BY <1>3 DEF Daemons
<1>15. TurnInv'
  <2>1. ASSUME NEW t \in telling
        PROVE  /\ t \in DOMAIN sent' /\ sent'[t].class # ZX!STATUS
               /\ sent'[t].class = ZX!WIFI_POSITIONING => t \in Responded'
               /\ \A i \in Reported' : i < t
    BY <1>2, <1>13 DEF IInv, TurnInv
  <2>2. ASSUME NEW t \in telling, NEW k \in DOMAIN zsub'["rectifier"]
        PROVE  t < zsub'["rectifier"][k]
    <3>1. CASE k \in DOMAIN zsub["rectifier"] /\ zsub'["rectifier"][k] = zsub["rectifier"][k]
      BY <3>1 DEF IInv, TurnInv
    <3>2. CASE zsub'["rectifier"][k] = n
      BY <1>2, <3>2 DEF IInv, TurnInv
    <3> QED
      BY <1>14, <3>1, <3>2
  <2>3. telling' = telling /\ \A i, j \in telling : i = j
    BY <1>1 DEF IInv, TurnInv
  <2> QED
    BY <2>1, <2>2, <2>3 DEF TurnInv
<1>16. TellInv'
  <2>1. ASSUME NEW i \in DOMAIN sent', sent'[i].class = ZX!WIFI_POSITIONING
        PROVE  /\ i \in Reported' => i \in Responded'
               /\ i \in Responded' => i \in Reported' \cup telling' \cup cut'
    <3>1. CASE i = n
      BY <1>2, <1>13, <2>1, <3>1
    <3>2. CASE i \in DOMAIN sent
      BY <1>1, <1>2, <1>13, <2>1, <3>2 DEF IInv, TellInv
    <3> QED
      BY <1>2, <3>1, <3>2
  <2>2. ASSUME NEW k \in DOMAIN zsub'["rectifier"],
               sent'[zsub'["rectifier"][k]].class = ZX!WIFI_POSITIONING
        PROVE  zsub'["rectifier"][k] \notin Responded'
    <3>1. CASE k \in DOMAIN zsub["rectifier"] /\ zsub'["rectifier"][k] = zsub["rectifier"][k]
      <4>1. zsub["rectifier"][k] \in DOMAIN sent
        BY <3>1 DEF IInv, QueueInv, Daemons
      <4> QED
        BY <1>2, <1>13, <2>2, <3>1, <4>1 DEF IInv, TellInv
    <3>2. CASE zsub'["rectifier"][k] = n
      BY <1>2, <1>13, <2>2, <3>2
    <3> QED
      BY <1>14, <3>1, <3>2
  <2> QED
    BY <2>1, <2>2 DEF TellInv
<1> QED
  BY <1>5, <1>10, <1>11, <1>12, <1>15, <1>16 DEF IInv

\* A turn of the rectifier takes the first message of its socket.
LEMMA RectifierTakes ==
  ASSUME IInv, zsub["rectifier"] # <<>>, Alive("rectifier"), sent' = sent
  PROVE  LET n == Head(zsub["rectifier"]) IN
         /\ zsub' \in [Daemons -> Seq(Nat)] /\ QueueInv'
         /\ n \in DOMAIN sent /\ n \in Nat /\ \A i \in Reported : i < n
         /\ sent[n].class = ZX!WIFI_POSITIONING => n \notin Responded
         /\ \A k \in DOMAIN zsub'["rectifier"] : \E j \in DOMAIN zsub["rectifier"] :
              zsub'["rectifier"][k] = zsub["rectifier"][j] /\ n < zsub["rectifier"][j]
         /\ \A k \in DOMAIN zsub'["termconfig"] :
              /\ zsub'["termconfig"][k] \in DOMAIN sent /\ zsub'["termconfig"][k] \notin Responded
              /\ sent[zsub'["termconfig"][k]].class # ZX!WIFI_POSITIONING
<1> DEFINE n == Head(zsub["rectifier"])
<1>1. "rectifier" \in Daemons /\ "termconfig" \in Daemons /\ "rectifier" # "termconfig"
  BY DEF Daemons
<1>2. zsub' = [zsub EXCEPT !["rectifier"] = Tail(zsub["rectifier"])]
  BY DEF Alive
<1>3. /\ zsub' \in [Daemons -> Seq(Nat)] /\ QueueInv'
      /\ \A e \in Daemons : \A k \in DOMAIN zsub'[e] : \E j \in DOMAIN zsub[e] :
           zsub'[e][k] = zsub[e][j] /\ (e = "rectifier" => n < zsub[e][j])
      /\ n = zsub["rectifier"][1] /\ 1 \in DOMAIN zsub["rectifier"] /\ n \in DOMAIN sent
  <2>1. Tail(zsub["rectifier"]) \in {<<>>, Tail(zsub["rectifier"])}
    OBVIOUS
  <2> QED
    BY <1>1, <1>2, <2>1, QueueShrinks
<1> HIDE DEF n
<1>4. \A i \in Reported : i < n
  BY <1>3 DEF IInv, ReportInv
<1>5. sent[n].class = ZX!WIFI_POSITIONING => n \notin Responded
  BY <1>3 DEF IInv, TellInv
<1>6. n \in Nat
  BY <1>3 DEF IInv, TypeInv
<1>7. \A k \in DOMAIN zsub'["rectifier"] : \E j \in DOMAIN zsub["rectifier"] :
        zsub'["rectifier"][k] = zsub["rectifier"][j] /\ n < zsub["rectifier"][j]
  BY <1>1, <1>3
<1>8. ASSUME NEW k \in DOMAIN zsub'["termconfig"]
      PROVE  /\ zsub'["termconfig"][k] \in DOMAIN sent /\ zsub'["termconfig"][k] \notin Responded
             /\ sent[zsub'["termconfig"][k]].class # ZX!WIFI_POSITIONING
  <2>1. PICK j \in DOMAIN zsub["termconfig"] : zsub'["termconfig"][k] = zsub["termconfig"][j]
    BY <1>1, <1>3
  <2>2. /\ zsub["termconfig"][j] \in DOMAIN sent /\ Subscribed("termconfig", sent[zsub["termconfig"][j]])
        /\ zsub["termconfig"][j] \notin Responded
    BY <1>1 DEF IInv, QueueInv, AnswerInv
  <2>3. sent[zsub["termconfig"][j]].class # ZX!WIFI_POSITIONING
    <3>1. sent[zsub["termconfig"][j]] \in Messages
      BY <2>2 DEF IInv, TypeInv
    <3> QED
      BY <2>2, <3>1, InCharge
  <2> QED
    BY <2>1, <2>2, <2>3
<1> QED
  BY <1>3, <1>4, <1>5, <1>6, <1>7, <1>8 DEF n

\* A turn that reports a location of the terminal's own, or its status.
LEMMA ReportIInv ==
  ASSUME IInv, zsub["rectifier"] # <<>>, Alive("rectifier"), telling = {},
         UNCHANGED <<sent, answers, zpull, telling, cut>>,
         sent[Head(zsub["rectifier"])].class # ZX!WIFI_POSITIONING,
         NEW kind \in {"location", "status"}, Publish(Head(zsub["rectifier"]), kind),
         (kind = "status") <=> (sent[Head(zsub["rectifier"])].class = ZX!STATUS)
  PROVE  IInv'
<1> DEFINE n == Head(zsub["rectifier"])
<1>1. /\ zsub' \in [Daemons -> Seq(Nat)] /\ QueueInv'
      /\ n \in DOMAIN sent /\ n \in Nat /\ \A i \in Reported : i < n
      /\ \A k \in DOMAIN zsub'["rectifier"] : \E j \in DOMAIN zsub["rectifier"] :
           zsub'["rectifier"][k] = zsub["rectifier"][j] /\ n < zsub["rectifier"][j]
      /\ \A k \in DOMAIN zsub'["termconfig"] :
           zsub'["termconfig"][k] \in DOMAIN sent /\ zsub'["termconfig"][k] \notin Responded
  <2>1. sent' = sent
    OBVIOUS
  <2> QED
    BY <2>1, RectifierTakes
<1>2. sent[n].class # ZX!WIFI_POSITIONING /\ sent' = sent /\ telling = {} /\ telling' = {} /\ cut' = cut
  OBVIOUS
<1>3. Publish(n, kind) /\ ((kind = "status") <=> (sent[n].class = ZX!STATUS))
  OBVIOUS
<1> HIDE DEF n
<1>4. reports' \in Seq(Reports) /\ ReportsInOrder' /\ Reported' = Reported \cup {n}
  BY <1>1, <1>2, <1>3, PublishRight
<1>5. Responded' = Responded
  BY DEF Responded, To
<1>6. TypeInv'
  BY <1>1, <1>4 DEF IInv, TypeInv
<1>7. AnswerInv'
  BY <1>1, <1>5, ZenonT(30) DEF IInv, AnswerInv, To
<1>8. ReportInv'
  <2>1. ASSUME NEW i \in Reported', NEW k \in DOMAIN zsub'["rectifier"]
        PROVE  i < zsub'["rectifier"][k]
    <3>1. PICK j \in DOMAIN zsub["rectifier"] :
            zsub'["rectifier"][k] = zsub["rectifier"][j] /\ n < zsub["rectifier"][j]
      BY <1>1
    <3>2. CASE i = n
      BY <3>1, <3>2
    <3>3. CASE i \in Reported
      BY <3>1, <3>3 DEF IInv, ReportInv
    <3> QED
      BY <1>4, <3>2, <3>3
  <2>2. Reported' \subseteq DOMAIN sent'
    BY <1>1, <1>2, <1>4 DEF IInv, ReportInv
  <2> QED
    BY <1>4, <2>1, <2>2 DEF ReportInv
<1>9. TurnInv'
  BY <1>2 DEF TurnInv
<1>10. TellInv'
  <2>1. ASSUME NEW i \in DOMAIN sent, sent[i].class = ZX!WIFI_POSITIONING
        PROVE  /\ i \in Reported' => i \in Responded
               /\ i \in Responded => i \in Reported' \cup telling' \cup cut'
    BY <1>2, <1>4, <2>1 DEF IInv, TellInv
  <2>2. ASSUME NEW k \in DOMAIN zsub'["rectifier"],
               sent[zsub'["rectifier"][k]].class = ZX!WIFI_POSITIONING
        PROVE  zsub'["rectifier"][k] \notin Responded
    BY <1>1, <2>2 DEF IInv, TellInv
  <2> QED
    BY <1>2, <1>5, <2>1, <2>2 DEF TellInv
<1> QED
  BY <1>1, <1>6, <1>7, <1>8, <1>9, <1>10 DEF IInv

\* A turn that finds an approximate location, up to the report: the terminal that waits
\* for it has its response.
LEMMA ApproximateIInv ==
  ASSUME IInv, zsub["rectifier"] # <<>>, Alive("rectifier"), telling = {},
         UNCHANGED <<sent, answers, reports, cut>>, telling' = {Head(zsub["rectifier"])},
         sent[Head(zsub["rectifier"])].class # ZX!STATUS,
         \/ /\ sent[Head(zsub["rectifier"])].class # ZX!WIFI_POSITIONING
            /\ zpull' = zpull
         \/ /\ sent[Head(zsub["rectifier"])].class = ZX!WIFI_POSITIONING
            /\ Push(Head(zsub["rectifier"]), sent[Head(zsub["rectifier"])].class)
  PROVE  IInv'
<1> DEFINE n == Head(zsub["rectifier"])
<1>1. /\ zsub' \in [Daemons -> Seq(Nat)] /\ QueueInv'
      /\ n \in DOMAIN sent /\ n \in Nat /\ \A i \in Reported : i < n
      /\ sent[n].class = ZX!WIFI_POSITIONING => n \notin Responded
      /\ \A k \in DOMAIN zsub'["rectifier"] : \E j \in DOMAIN zsub["rectifier"] :
           zsub'["rectifier"][k] = zsub["rectifier"][j] /\ n < zsub["rectifier"][j]
      /\ \A k \in DOMAIN zsub'["termconfig"] :
           /\ zsub'["termconfig"][k] \in DOMAIN sent /\ zsub'["termconfig"][k] \notin Responded
           /\ sent[zsub'["termconfig"][k]].class # ZX!WIFI_POSITIONING
  <2>1. sent' = sent
    OBVIOUS
  <2> QED
    BY <2>1, RectifierTakes
<1>2. /\ sent' = sent /\ answers' = answers /\ reports' = reports
      /\ telling = {} /\ telling' = {n} /\ cut' = cut /\ sent[n].class # ZX!STATUS
      /\ \/ sent[n].class # ZX!WIFI_POSITIONING /\ zpull' = zpull
         \/ sent[n].class = ZX!WIFI_POSITIONING /\ Push(n, sent[n].class)
  OBVIOUS
<1> HIDE DEF n
<1>3. /\ zpull' \in Seq(Resps) /\ Right(zpull', sent) /\ To(answers) \cap To(zpull') = {}
      /\ Responded' = IF sent[n].class = ZX!WIFI_POSITIONING THEN Responded \cup {n} ELSE Responded
  <2>1. CASE sent[n].class # ZX!WIFI_POSITIONING /\ zpull' = zpull
    BY <1>2, <2>1 DEF IInv, TypeInv, AnswerInv, Responded, To
  <2>2. CASE sent[n].class = ZX!WIFI_POSITIONING /\ Push(n, sent[n].class)
    <3>1. sent[n].class.RESPOND # "NON"
      <4>1. sent[n] \in Messages
        BY <1>1 DEF IInv, TypeInv
      <4> QED
        BY <2>2, <4>1, InCharge
    <3> QED
      BY <1>1, <1>2, <2>2, <3>1, PushRight
  <2> QED
    BY <1>2, <2>1, <2>2
<1>4. TypeInv'
  BY <1>1, <1>2, <1>3 DEF IInv, TypeInv
<1>5. AnswerInv'
  <2>1. Right(answers', sent') /\ Right(zpull', sent') /\ To(answers') \cap To(zpull') = {}
    BY <1>2, <1>3 DEF IInv, AnswerInv
  <2>2. \A k \in DOMAIN zsub'["termconfig"] : zsub'["termconfig"][k] \notin Responded'
    BY <1>1, <1>3
  <2> QED
    BY <2>1, <2>2 DEF AnswerInv, To
<1>6. Reported' = Reported /\ (ReportsInOrder => ReportsInOrder')
  BY <1>2 DEF Reported, ReportsInOrder
<1>7. ReportInv'
  <2>1. ASSUME NEW i \in Reported, NEW k \in DOMAIN zsub'["rectifier"]
        PROVE  i < zsub'["rectifier"][k]
    BY <1>1 DEF IInv, ReportInv
  <2> QED
    BY <1>2, <1>6, <2>1 DEF IInv, ReportInv
<1>8. TurnInv'
  <2>1. \A k \in DOMAIN zsub'["rectifier"] : n < zsub'["rectifier"][k]
    BY <1>1
  <2>2. sent[n].class = ZX!WIFI_POSITIONING => n \in Responded'
    BY <1>3
  <2> QED
    BY <1>1, <1>2, <1>6, <2>1, <2>2 DEF TurnInv
<1>9. TellInv'
  <2>1. ASSUME NEW i \in DOMAIN sent, sent[i].class = ZX!WIFI_POSITIONING
        PROVE  /\ i \in Reported => i \in Responded'
               /\ i \in Responded' => i \in Reported \cup telling' \cup cut'
    BY <1>2, <1>3, <2>1 DEF IInv, TellInv
  <2>2. ASSUME NEW k \in DOMAIN zsub'["rectifier"],
               sent[zsub'["rectifier"][k]].class = ZX!WIFI_POSITIONING
        PROVE  zsub'["rectifier"][k] \notin Responded'
    <3>1. PICK j \in DOMAIN zsub["rectifier"] :
            zsub'["rectifier"][k] = zsub["rectifier"][j] /\ n < zsub["rectifier"][j]
      BY <1>1
    <3>2. zsub["rectifier"][j] \notin Responded
      BY <2>2, <3>1 DEF IInv, TellInv
    <3>3. zsub["rectifier"][j] # n
      BY <1>1, <3>1
    <3> QED
      BY <1>3, <3>1, <3>2, <3>3
  <2> QED
    BY <1>2, <1>6, <2>1, <2>2 DEF TellInv
<1> QED
  BY <1>1, <1>4, <1>5, <1>7, <1>8, <1>9 DEF IInv

\* The rest of that turn.
LEMMA TellIInv ==
  ASSUME IInv, NEW n \in telling, Tell(n), UNCHANGED <<sent, answers>>
  PROVE  IInv'
<1>1. /\ Publish(n, "location") /\ telling' = {} /\ UNCHANGED <<zsub, zpull, cut>>
      /\ sent' = sent /\ answers' = answers
  BY DEF Tell
<1>2. /\ n \in DOMAIN sent /\ sent[n].class # ZX!STATUS /\ \A i \in Reported : i < n
      /\ sent[n].class = ZX!WIFI_POSITIONING => n \in Responded
      /\ \A k \in DOMAIN zsub["rectifier"] : n < zsub["rectifier"][k]
      /\ \A i \in telling : i = n
  BY DEF IInv, TurnInv
<1>3. reports' \in Seq(Reports) /\ ReportsInOrder' /\ Reported' = Reported \cup {n}
  <2>1. ("location" = "status") <=> (sent[n].class = ZX!STATUS)
    BY <1>2
  <2>2. "location" \in {"location", "status"}
    OBVIOUS
  <2> QED
    BY <1>1, <1>2, <2>1, <2>2, PublishRight
<1>4. Responded' = Responded
  BY <1>1 DEF Responded, To
<1>5. TypeInv' /\ QueueInv'
  BY <1>1, <1>3 DEF IInv, TypeInv, QueueInv
<1>6. AnswerInv'
  BY <1>1, <1>4 DEF IInv, AnswerInv, To
<1>7. ReportInv'
  BY <1>1, <1>2, <1>3 DEF IInv, ReportInv
<1>8. TurnInv'
  BY <1>1 DEF TurnInv
<1>9. TellInv'
  BY <1>1, <1>2, <1>3, <1>4 DEF IInv, TellInv
<1> QED
  BY <1>5, <1>6, <1>7, <1>8, <1>9 DEF IInv

\* One step of the rectifier: of the messages it takes it answers one kind, and reports that
\* one after it has answered it.
LEMMA RectifierIInv ==
  ASSUME IInv, Rectifier
  PROVE  IInv'
<1> DEFINE n == Head(zsub["rectifier"])
           m == sent[n]
<1>1. UNCHANGED <<sent, answers>>
  BY DEF Rectifier
<1>2. "rectifier" \in Daemons /\ "termconfig" \in Daemons
  BY DEF Daemons
<1>3. ASSUME NEW i \in telling, Tell(i) PROVE IInv'
  BY <1>1, <1>3, TellIInv
<1>4. ASSUME telling = {}, zsub["rectifier"] # <<>>, Rectify(n) PROVE IInv'
  <2>1. m \in Messages
    <3>1. n = zsub["rectifier"][1] /\ 1 \in DOMAIN zsub["rectifier"]
      BY <1>2, <1>4 DEF IInv, TypeInv
    <3>2. n \in DOMAIN sent
      BY <1>2, <3>1 DEF IInv, QueueInv
    <3> QED
      BY <3>2 DEF IInv, TypeInv
  <2>2. CASE rectified(m) = "none"
    <3>1. Dies("rectifier") /\ UNCHANGED <<sent, answers, zpull, reports>> /\ TurnKeptOrCut
      BY <1>1, <1>4, <2>2 DEF Rectify, Dies, TurnKeptOrCut
    <3> QED
      BY <1>2, <1>4, <3>1, SilentIInv
  <2>3. CASE rectified(m) = "coord" \/ rectified(m) = "status"
    <3>1. m.class # ZX!WIFI_POSITIONING
      BY <2>1, <2>3, InCharge
    <3>2. PICK kind \in {"location", "status"} :
            /\ Alive("rectifier") /\ Publish(n, kind) /\ UNCHANGED <<zpull, telling, cut>>
            /\ kind = "status" <=> rectified(m) = "status"
      <4>1. CASE rectified(m) = "coord"
        BY <1>4, <4>1 DEF Rectify, rectvars
      <4>2. CASE rectified(m) = "status"
        BY <1>4, <4>2 DEF Rectify, rectvars
      <4> QED
        BY <2>3, <4>1, <4>2
    <3>3. rectified(m) = "status" <=> m.class = ZX!STATUS
      BY <2>1, <2>3, InCharge
    <3>4. UNCHANGED <<sent, answers, zpull, telling, cut>>
      BY <1>1, <3>2
    <3> QED
      BY <1>4, <3>1, <3>2, <3>3, <3>4, ReportIInv
  <2>4. CASE rectified(m) = "hint"
    <3>1. Approximate(n)
      BY <1>4, <2>4 DEF Rectify
    <3>2. Alive("rectifier") /\ UNCHANGED <<sent, answers, reports, cut>>
      BY <1>1, <3>1 DEF Approximate
    <3>3. PICK found \in Lookups :
            IF ~found \/ (NeedsAnswer(m) /\ ~Packs(m))
              THEN UNCHANGED <<zpull, telling>>
              ELSE /\ IF NeedsAnswer(m) THEN Push(n, m.class) ELSE UNCHANGED zpull
                   /\ telling' = {n}
      BY <3>1 DEF Approximate
    <3>4. CASE UNCHANGED <<zpull, telling>>
      <4>1. UNCHANGED <<sent, answers, zpull, reports>> /\ TurnKeptOrCut
        BY <3>2, <3>4 DEF TurnKeptOrCut
      <4> QED
        BY <1>2, <1>4, <3>2, <4>1, SilentIInv
    <3>5. CASE /\ telling' = {n}
               /\ IF NeedsAnswer(m) THEN Push(n, m.class) ELSE UNCHANGED zpull
      <4>1. (NeedsAnswer(m) <=> m.class = ZX!WIFI_POSITIONING) /\ m.class # ZX!STATUS
        BY <2>1, <2>4, InCharge
      <4>2. \/ m.class # ZX!WIFI_POSITIONING /\ zpull' = zpull
            \/ m.class = ZX!WIFI_POSITIONING /\ Push(n, m.class)
        BY <3>5, <4>1
      <4> QED
        BY <1>4, <3>2, <3>5, <4>1, <4>2, ApproximateIInv
    <3> QED
      BY <3>3, <3>4, <3>5
  <2> QED
    BY <2>1, <2>2, <2>3, <2>4, InCharge
<1> QED
  BY <1>3, <1>4 DEF Rectifier

\* One turn of termconfig: it answers a message that nobody else does, or ends.
LEMMA TermconfigIInv ==
  ASSUME IInv, Termconfig
  PROVE  IInv'
<1> DEFINE n == Head(zsub["termconfig"])
           m == sent[n]
           sec == SectionOf(m.imei)
<1>1. zsub["termconfig"] # <<>> /\ UNCHANGED <<sent, answers>>
  BY DEF Termconfig
<1>2. "rectifier" \in Daemons /\ "termconfig" \in Daemons /\ "rectifier" # "termconfig"
  BY DEF Daemons
<1>3. CASE Dies("termconfig")
  <2>1. UNCHANGED <<sent, answers, zpull, reports>> /\ TurnKeptOrCut
    BY <1>1, <1>2, <1>3 DEF Dies, TurnKeptOrCut, rectvars
  <2> QED
    BY <1>1, <1>2, <1>3, <2>1, SilentIInv
<1>4. CASE /\ OutPacks(Parsed(m), sec)
           /\ Alive("termconfig") /\ Push(n, Parsed(m)) /\ UNCHANGED <<reports, rectvars>>
  <2>1. zsub' = [zsub EXCEPT !["termconfig"] = Tail(zsub["termconfig"])] /\ sent' = sent
    BY <1>1, <1>4 DEF Alive
  <2>2. /\ zsub' \in [Daemons -> Seq(Nat)] /\ QueueInv'
        /\ \A e \in Daemons : \A k \in DOMAIN zsub'[e] : \E j \in DOMAIN zsub[e] :
             zsub'[e][k] = zsub[e][j] /\ (e = "termconfig" => n < zsub[e][j])
        /\ n = zsub["termconfig"][1] /\ 1 \in DOMAIN zsub["termconfig"] /\ n \in DOMAIN sent
        /\ Subscribed("termconfig", m)
    <3>1. Tail(zsub["termconfig"]) \in {<<>>, Tail(zsub["termconfig"])}
      OBVIOUS
    <3> QED
      BY <1>1, <1>2, <2>1, <3>1, QueueShrinks
  <2> HIDE DEF n
  <2>3. m \in Messages /\ n \in Nat /\ n \notin Responded
    BY <2>2 DEF IInv, TypeInv, AnswerInv
  <2> HIDE DEF m, sec
  <2>4. /\ m.class.RESPOND = "EXT" /\ m.class # ZX!WIFI_POSITIONING
        /\ Parsed(m) \in {m.class, ZX!UNKNOWN}
    BY <2>2, <2>3, InCharge
  <2>5. Parsed(m) = m.class
    <3>1. ~OutPacks(ZX!UNKNOWN, sec)
      BY ZxClasses DEF OutPacks
    <3> QED
      BY <1>4, <2>4, <3>1
  <2>6. /\ zpull' \in Seq(Resps) /\ Right(zpull', sent) /\ To(zpull') = To(zpull) \cup {n}
        /\ Responded' = Responded \cup {n} /\ To(answers) \cap To(zpull') = {}
    <3>1. m.class.RESPOND # "NON"
      BY <2>4
    <3> QED
      BY <1>1, <1>4, <2>2, <2>3, <2>5, <3>1, PushRight DEF m
  <2>7. TypeInv'
    BY <1>1, <1>4, <2>2, <2>6 DEF IInv, TypeInv
  <2>8. AnswerInv'
    <3>1. /\ Right(answers', sent') /\ Right(zpull', sent') /\ To(answers') \cap To(zpull') = {}
      BY <1>1, <2>6 DEF IInv, AnswerInv
    <3>2. ASSUME NEW k \in DOMAIN zsub'["termconfig"] PROVE zsub'["termconfig"][k] \notin Responded'
      <4>1. PICK j \in DOMAIN zsub["termconfig"] :
              zsub'["termconfig"][k] = zsub["termconfig"][j] /\ n < zsub["termconfig"][j]
        BY <1>2, <2>2
      <4>2. zsub["termconfig"][j] \notin Responded /\ zsub["termconfig"][j] # n
        BY <2>3, <4>1 DEF IInv, AnswerInv
      <4> QED
        BY <2>6, <4>1, <4>2
    <3> QED
      BY <3>1, <3>2 DEF AnswerInv, To
  <2>9. ReportInv'
    <3>1. ASSUME NEW i \in Reported, NEW k \in DOMAIN zsub'["rectifier"]
          PROVE  i < zsub'["rectifier"][k]
      <4>1. PICK j \in DOMAIN zsub["rectifier"] : zsub'["rectifier"][k] = zsub["rectifier"][j]
        BY <1>2, <2>2
      <4> QED
        BY <4>1 DEF IInv, ReportInv
    <3>2. Reported' = Reported /\ (ReportsInOrder => ReportsInOrder')
      BY <1>1, <1>4 DEF Reported, ReportsInOrder
    <3> QED
      BY <1>1, <3>1, <3>2 DEF IInv, ReportInv
  <2>10. /\ telling' = telling /\ cut' = cut /\ Reported' = Reported
         /\ \A k \in DOMAIN zsub'["rectifier"] : \E j \in DOMAIN zsub["rectifier"] :
              zsub'["rectifier"][k] = zsub["rectifier"][j]
    BY <1>2, <1>4, <2>2 DEF rectvars, Reported
  <2>11. TurnInv'
    <3>1. ASSUME NEW t \in telling
          PROVE  /\ t \in DOMAIN sent /\ sent[t].class # ZX!STATUS
                 /\ sent[t].class = ZX!WIFI_POSITIONING => t \in Responded'
                 /\ \A i \in Reported : i < t
                 /\ \A k \in DOMAIN zsub'["rectifier"] : t < zsub'["rectifier"][k]
      BY <2>6, <2>10 DEF IInv, TurnInv
    <3>2. \A i, j \in telling : i = j
      BY DEF IInv, TurnInv
    <3> QED
      BY <2>1, <2>10, <3>1, <3>2 DEF TurnInv
  <2>12. TellInv'
    <3>1. ASSUME NEW i \in DOMAIN sent, sent[i].class = ZX!WIFI_POSITIONING
          PROVE  /\ i \in Reported => i \in Responded'
                 /\ i \in Responded' => i \in Reported \cup telling \cup cut
      BY <2>4, <2>6, <3>1 DEF IInv, TellInv, m
    <3>2. ASSUME NEW k \in DOMAIN zsub'["rectifier"],
                 sent[zsub'["rectifier"][k]].class = ZX!WIFI_POSITIONING
          PROVE  zsub'["rectifier"][k] \notin Responded'
      <4>1. zsub'["rectifier"][k] \notin Responded
        BY <2>10, <3>2 DEF IInv, TellInv
      <4>2. zsub'["rectifier"][k] # n
        BY <2>4, <3>2 DEF m
      <4> QED
        BY <2>6, <4>1, <4>2
    <3> QED
      BY <2>1, <2>10, <3>1, <3>2 DEF TellInv
  <2> QED
    BY <2>2, <2>7, <2>8, <2>9, <2>11, <2>12 DEF IInv
<1> QED
  BY <1>3, <1>4 DEF Termconfig

\* Every step keeps the invariant.
LEMMA StepIInv == IInv /\ [Next]_vars => IInv'
<1> SUFFICES ASSUME IInv, [Next]_vars PROVE IInv'
  OBVIOUS
<1>1. CASE UNCHANGED vars
  BY <1>1, QuietIInv DEF vars, TurnKeptOrCut
<1>2. ASSUME NEW d \in Daemons, Restart(d) PROVE IInv'
  BY <1>2, QuietIInv DEF Restart, TurnKeptOrCut, rectvars
<1>3. ASSUME NEW i \in Imeis, Offline(i) \/ Login(i) PROVE IInv'
  BY <1>3, QuietIInv DEF Offline, Login, TurnKeptOrCut, rectvars
<1> QED
  BY <1>1, <1>2, <1>3, ReceiveIInv, TakeZpullIInv, RectifierIInv, TermconfigIInv, KilledIInv DEF Next

\* The responses, those sent before those pushed.
LEMMA ResponsesAre ==
  ASSUME IInv
  PROVE  /\ \A k \in DOMAIN Responses :
              \/ k \in DOMAIN answers /\ Responses[k] = answers[k]
              \/ k - Len(answers) \in DOMAIN zpull /\ Responses[k] = zpull[k - Len(answers)]
         /\ DOMAIN Responses \subseteq Nat /\ Len(answers) \in Nat
         /\ {Responses[k].to : k \in DOMAIN Responses} = Responded
<1>1. answers \in Seq(Resps) /\ zpull \in Seq(Resps)
  BY DEF IInv, TypeInv
<1>2. /\ \A k \in DOMAIN Responses :
           \/ k \in DOMAIN answers /\ Responses[k] = answers[k]
           \/ k - Len(answers) \in DOMAIN zpull /\ Responses[k] = zpull[k - Len(answers)]
      /\ DOMAIN Responses \subseteq Nat /\ Len(answers) \in Nat
  BY <1>1 DEF Responses
<1>3. /\ \A k \in DOMAIN answers : k \in DOMAIN Responses /\ Responses[k] = answers[k]
      /\ \A k \in DOMAIN zpull : /\ k + Len(answers) \in DOMAIN Responses
                                /\ Responses[k + Len(answers)] = zpull[k]
  BY <1>1 DEF Responses
<1>4. ASSUME NEW k \in DOMAIN Responses PROVE Responses[k].to \in Responded
  BY <1>2 DEF Responded, To
<1>5. ASSUME NEW n \in Responded PROVE \E k \in DOMAIN Responses : Responses[k].to = n
  BY <1>3 DEF Responded, To
<1> QED
  BY <1>2, <1>4, <1>5

-----------------------------------------------------------------------------
(* The theorems.                                                           *)

\* Of the three programs that may answer a message one does, once: however they are
\* interleaved, and wherever a daemon ends and is started again (collector.py:243-256,
\* rectifier.py:59-119, termconfig.py:60-106).
THEOREM MessagesAnsweredOnce == Spec => []AnsweredOnce
<1>1. ASSUME IInv PROVE AnsweredOnce
  <2>1. ASSUME NEW k \in DOMAIN Responses
        PROVE  /\ sent[Responses[k].to].class = Responses[k].class
               /\ sent[Responses[k].to].imei = Responses[k].imei
               /\ sent[Responses[k].to].class.RESPOND # "NON"
    BY <1>1, ResponsesAre DEF IInv, AnswerInv, Right
  <2>2. ASSUME NEW j \in DOMAIN Responses, NEW k \in DOMAIN Responses,
               Responses[j].to = Responses[k].to
        PROVE  j = k
    <3> DEFINE n == Len(answers)
    <3>1. \A i \in DOMAIN Responses :
            \/ i \in DOMAIN answers /\ Responses[i] = answers[i] /\ Responses[i].to \in To(answers)
            \/ /\ i - n \in DOMAIN zpull /\ Responses[i] = zpull[i - n]
               /\ Responses[i].to \in To(zpull)
      BY <1>1, ResponsesAre DEF To
    <3>2. /\ To(answers) \cap To(zpull) = {}
          /\ \A a, b \in DOMAIN answers : answers[a].to = answers[b].to => a = b
          /\ \A a, b \in DOMAIN zpull : zpull[a].to = zpull[b].to => a = b
      BY <1>1 DEF IInv, AnswerInv, Right
    <3>3. n \in Nat /\ j \in Nat /\ k \in Nat
      BY <1>1, ResponsesAre
    <3>4. CASE Responses[j].to \in To(answers)
      BY <2>2, <3>1, <3>2, <3>4
    <3>5. CASE Responses[j].to \in To(zpull)
      <4>1. j - n = k - n
        BY <2>2, <3>1, <3>2, <3>5
      <4> QED
        BY <3>3, <4>1
    <3> QED
      BY <3>1, <3>4, <3>5
  <2> QED
    BY <2>1, <2>2 DEF AnsweredOnce
<1> QED
  BY <1>1, InitIInv, StepIInv, PTL DEF Spec

\* The rectifier reports each message once, in the order of receipt, whatever lookups do and
\* however often it is started again (rectifier.py:71-114).
THEOREM ReportsAreInOrder == Spec => []ReportsInOrder
<1>1. IInv => ReportsInOrder
  BY DEF IInv, ReportInv
<1> QED
  BY <1>1, InitIInv, StepIInv, PTL DEF Spec

\* The subscribers are told an approximate location only after the response to the terminal
\* was pushed, also when the rectifier is killed between the two; and they are told whenever
\* it was, unless the rectifier is killed there (rectifier.py:76-119).
THEOREM TerminalToldFirst == Spec => []ToldAlike
<1>1. ASSUME IInv PROVE ToldAlike
  <2>1. \A n : (\E k \in DOMAIN Responses : Responses[k].to = n) <=> n \in Responded
    BY <1>1, ResponsesAre
  <2>2. \A n : (\E k \in DOMAIN reports : reports[k].of = n) <=> n \in Reported
    BY DEF Reported
  <2> QED
    BY <1>1, <2>1, <2>2 DEF ToldAlike, IInv, TellInv
<1> QED
  BY <1>1, InitIInv, StepIInv, PTL DEF Spec

-----------------------------------------------------------------------------
(* Commands                                                                *)

\* What starts with a sequence has its first element.
LEMMA FirstOfPrefix ==
  ASSUME NEW s, NEW t, Len(s) \in Nat \ {0}, Len(t) \in Nat, Len(s) <= Len(t),
         SubSeq(s, 1, Len(s)) = SubSeq(t, 1, Len(s))
  PROVE  s[1] = t[1]
<1>1. SubSeq(s, 1, Len(s))[1] = s[1]
  OBVIOUS
<1>2. SubSeq(t, 1, Len(s))[1] = t[1]
  OBVIOUS
<1> QED
  BY <1>1, <1>2

\* No class of zx303proto is named as its prefix (zx303proto.py:797-808), so that
\* class_by_prefix of zx303proto, which looks for the prefix too, finds none.
LEMMA ZxNamesPlain ==
  \A c \in CM!ZX!CLASSES : Len(c.name) \in Nat /\ c.name[1] # "ZX:"
BY DEF CM!ZX!CLASSES, CM!ZX!Pkt, CM!ZX!Plain, CM!ZX!UNKNOWN, CM!ZX!LOGIN, CM!ZX!SUPERVISION,
   CM!ZX!HEARTBEAT, CM!ZX!GPS_POSITIONING, CM!ZX!GPS_OFFLINE_POSITIONING, CM!ZX!STATUS,
   CM!ZX!HIBERNATION, CM!ZX!RESET, CM!ZX!WHITELIST_TOTAL, CM!ZX!WIFI_OFFLINE_POSITIONING,
   CM!ZX!TIME, CM!ZX!PROHIBIT_LBS, CM!ZX!GPS_LBS_SWITCH_TIMES, CM!ZX!REMOTE_MONITOR_PHONE,
   CM!ZX!SOS_PHONE, CM!ZX!DAD_PHONE, CM!ZX!MOM_PHONE, CM!ZX!STOP_UPLOAD, CM!ZX!GPS_OFF_PERIOD,
   CM!ZX!DND_PERIOD, CM!ZX!RESTART_SHUTDOWN, CM!ZX!DEVICE, CM!ZX!ALARM_CLOCK, CM!ZX!STOP_ALARM,
   CM!ZX!SETUP, CM!ZX!SYNCHRONOUS_WHITELIST, CM!ZX!RESTORE_PASSWORD, CM!ZX!WIFI_POSITIONING,
   CM!ZX!MANUAL_POSITIONING, CM!ZX!BATTERY_CHARGE, CM!ZX!CHARGER_CONNECTED,
   CM!ZX!CHARGER_DISCONNECTED, CM!ZX!VIBRATION_RECEIVED, CM!ZX!POSITION_UPLOAD_INTERVAL,
   CM!ZX!SOS_ALARM, CM!ZX!UNKNOWN_B3

\* A module that is not beesure finds no class.
LEMMA ZxFindsNone ==
  ASSUME NEW v \in Seq(STRING), v # <<>>, v[1] = "ZX:"
  PROVE  CM!ZX!class_by_prefix(v) = {}
BY FirstOfPrefix, ZxNamesPlain DEF CM!ZX!class_by_prefix, CM!ZX!IsPrefix

\* If one class is found for what is typed, it is one that is meant, by its full name or
\* as the only one.
LEMMA FoundIsMeant ==
  ASSUME NEW v \in Seq(STRING), v # <<>>, v = request.what.verb, NEW c,
         UNION {CM!ByPrefix(p, v) : p \in CM!pmod_for_proto(v)} = {c}
  PROVE  c \in CM!Meant /\ (c.name = CM!Verb \/ CM!Meant = {c})
<1> DEFINE P == CM!pmod_for_proto(v)
<1>1. PICK p \in P : c \in CM!ByPrefix(p, v)
  OBVIOUS
<1>2. v[1] # "ZX:"
  <2>1. SUFFICES ASSUME v[1] = "ZX:" PROVE FALSE
    OBVIOUS
  <2>2. p # "beesure"
    BY <2>1 DEF CM!pmod_for_proto, CM!Prefix, CM!BS!PROTO_PREFIX
  <2> QED
    BY <1>1, <2>1, <2>2, ZxFindsNone DEF CM!ByPrefix
<1>3. P = {"beesure"}
  BY <1>1, <1>2 DEF CM!pmod_for_proto, CM!Prefix, CM!ZX!PROTO_PREFIX
<1>4. CM!BS!class_by_prefix(v) = {c}
  BY <1>3 DEF CM!ByPrefix
<1>5. CM!Verb = Tail(v)
  BY DEF CM!Verb
<1>6. CM!Meant = {x \in CM!BS!CLASSES : CM!IsPrefix(Tail(v), x.name)}
  BY <1>3, <1>5 DEF CM!Meant, CM!CLASSES
<1>7. \A x : CM!IsPrefix(Tail(v), x) <=> CM!BS!IsPrefix(Tail(v), x)
  BY DEF CM!IsPrefix, CM!BS!IsPrefix
<1>8. CM!Meant = {x \in CM!BS!CLASSES : CM!BS!IsPrefix(Tail(v), x.name)}
  BY <1>6, <1>7
<1>9. {c} = IF \E x \in CM!Meant : x.name = Tail(v) THEN {x \in CM!Meant : x.name = Tail(v)} ELSE CM!Meant
  BY <1>4, <1>8 DEF CM!BS!class_by_prefix
<1> QED
  BY <1>5, <1>9

\* What was typed, and SentIsMeant.
CommandInv ==
  part = "command" =>
    /\ request \in [typed : {TRUE}, what : Typed] \cup [typed : {FALSE}, what : Clicked]
    /\ CM!SentIsMeant

\* The invariant of commands holds at first and is kept.
LEMMA CommandStepInv ==
  ASSUME CommandInv, [TrafficNext]_all
  PROVE  CommandInv'
<1>1. CASE UNCHANGED <<part, command>>
  BY <1>1 DEF CommandInv, command, CM!SentIsMeant, CM!Meant, CM!Verb
<1>2. ASSUME part = "command", CM!main, part' = part PROVE CommandInv'
  <2> DEFINE v == request.what.verb
  <2>1. request' = request /\ request.typed /\ request.what \in Typed
    BY <1>2 DEF CM!main, CommandInv
  <2>2. v \in Seq(STRING) /\ v # <<>>
    BY <2>1, TrafficAssumption
  <2>3. CM!Meant' = CM!Meant /\ CM!Verb' = CM!Verb
    BY <2>1 DEF CM!Meant, CM!Verb
  <2>4. ASSUME outcome' = "sent" PROVE UNION {CM!ByPrefix(p, v) : p \in CM!pmod_for_proto(v)} = {packet'}
    BY <1>2, <2>4 DEF CM!main, CM!Refuse, CM!Send
  <2>5. outcome' = "sent" => packet' \in CM!Meant /\ (packet'.name = CM!Verb \/ CM!Meant = {packet'})
    BY <2>2, <2>4, FoundIsMeant
  <2> QED
    BY <1>2, <2>1, <2>3, <2>5 DEF CommandInv, CM!SentIsMeant
<1>3. ASSUME part = "command", CM!sendcmd, part' = part PROVE CommandInv'
  <2>1. request' = request /\ ~request.typed
    BY <1>3 DEF CM!sendcmd
  <2> QED
    BY <1>3, <2>1 DEF CommandInv, CM!SentIsMeant
<1>4. ASSUME part = "command", CM!Done, part' = part PROVE CommandInv'
  <2>1. UNCHANGED <<part, command>>
    BY <1>4 DEF CM!Done, CM!vars, command
  <2> QED
    BY <1>1, <2>1
<1> QED
  BY <1>1, <1>2, <1>3, <1>4
     DEF TrafficNext, FaultsStep, SoundStep, CommandStep, BusStep, Others, all, CM!Next

\* No other command is sent to a terminal than the one that the operator named, in full
\* or by an abbreviation that stands for one class only, whatever is typed and whichever
\* protocol modules are configured (__main__.py:20-47, beesure.py:586-599).
THEOREM CommandIsMeant == TrafficSpec => []SentIsMeant
<1>1. TrafficInit => CommandInv
  BY DEF TrafficInit, CommandInv, CM!Init, CM!SentIsMeant
<1>2. CommandInv => SentIsMeant
  BY DEF CommandInv, SentIsMeant
<1> QED
  BY <1>1, <1>2, CommandStepInv, PTL DEF TrafficSpec

-----------------------------------------------------------------------------
(* Messages on the bus: fields                                             *)

\* The bytes of names, IMEIs and names of protocol modules.
Chars == Letters \cup Digits \cup {"Z", "B", ZB!Lead, ZB!Cont}

\* No character is the filler, and fields are not empty.
LEMMA FieldsAre ==
  /\ Width \in Nat \ {0} /\ Short \in Nat /\ Short <= Width
  /\ ZB!NUL \notin Chars /\ ZB!NUL # "0" /\ ZB!NUL # ZB!Space
  /\ ZB!Space \notin Chars
  /\ ZB!Lead \notin Letters \cup {"Z"} /\ ZB!Cont \notin Letters \cup {"Z"}
<1>1. /\ Width \in Nat \ {0} /\ Short \in 0..Width
      /\ {ZB!NUL, ZB!Space, ZB!Lead, ZB!Cont} \cap (Letters \cup Digits) = {}
  BY TrafficAssumption
<1> QED
  BY <1>1 DEF Chars, ZB!NUL, ZB!Space, ZB!Lead, ZB!Cont

\* pack("16s", s): a field has the characters of s up to its width, then NULs.
LEMMA FieldType ==
  ASSUME NEW s \in Seq(Chars)
  PROVE  /\ ZB!Field(s) \in Seq(Chars \cup {ZB!NUL}) /\ Len(ZB!Field(s)) = Width
         /\ \A k \in 1..Width : ZB!Field(s)[k] = IF k <= Len(s) THEN s[k] ELSE ZB!NUL
<1>1. Width \in Nat
  BY FieldsAre
<1> DEFINE f == ZB!Field(s)
<1>2. f = [k \in 1..Width |-> IF k <= Len(s) THEN s[k] ELSE ZB!NUL]
  BY DEF ZB!Field
<1>3. \A k \in 1..Width : f[k] \in Chars \cup {ZB!NUL}
  BY <1>1, <1>2
<1>4. f = [k \in 1..Width |-> f[k]]
  BY <1>2
<1> HIDE DEF f
<1>5. f \in [1..Width -> Chars \cup {ZB!NUL}]
  BY <1>3, <1>4
<1>6. f \in Seq(Chars \cup {ZB!NUL}) /\ Len(f) = Width
  BY <1>1, <1>5
<1> QED
  BY <1>2, <1>6 DEF f

\* The filler of an absent value.
LEMMA FillType ==
  ASSUME NEW c
  PROVE  /\ ZB!Fill(c) \in Seq({c}) /\ Len(ZB!Fill(c)) = Width
         /\ \A k \in 1..Width : ZB!Fill(c)[k] = c
BY FieldsAre DEF ZB!Fill

\* Two texts with the same field are the same, unless both may have been cut.
LEMMA FieldInjective ==
  ASSUME NEW s \in Seq(Chars), NEW t \in Seq(Chars), Len(s) <= Width,
         Len(t) <= Width \/ Len(s) < Width, ZB!Field(s) = ZB!Field(t)
  PROVE  s = t
<1>1. Width \in Nat \ {0} /\ ZB!NUL \notin Chars /\ Len(s) \in Nat /\ Len(t) \in Nat
  BY FieldsAre
<1>2. /\ \A k \in 1..Width : ZB!Field(s)[k] = IF k <= Len(s) THEN s[k] ELSE ZB!NUL
      /\ \A k \in 1..Width : ZB!Field(t)[k] = IF k <= Len(t) THEN t[k] ELSE ZB!NUL
  BY FieldType
<1>3. \A k \in 1..Len(s) : s[k] # ZB!NUL
  BY <1>1
<1>4. \A k \in 1..Len(t) : t[k] # ZB!NUL
  BY <1>1
<1>5. \A k \in 1..Width : k <= Len(s) <=> k <= Len(t)
  BY <1>1, <1>2, <1>3, <1>4
<1>6. Len(s) = Len(t)
  <2>1. CASE Len(s) < Len(t)
    <3>1. Len(s) + 1 \in 1..Width /\ Len(s) + 1 <= Len(t)
      BY <1>1, <2>1
    <3> QED
      BY <1>1, <1>5, <3>1
  <2>2. CASE Len(t) < Len(s)
    <3>1. Len(s) \in 1..Width /\ ~(Len(s) <= Len(t))
      BY <1>1, <2>2
    <3> QED
      BY <1>1, <1>5, <3>1
  <2> QED
    BY <1>1, <2>1, <2>2
<1>7. \A k \in 1..Len(s) : s[k] = t[k]
  BY <1>1, <1>2, <1>6
<1> QED
  BY <1>6, <1>7

\* decode().strip("\0") of a field gives the text, cut to the width.
LEMMA FieldStripped ==
  ASSUME NEW s \in Seq(Chars)
  PROVE  ZB!Stripped(ZB!Field(s)) = SubSeq(s, 1, IF Len(s) < Width THEN Len(s) ELSE Width)
<1> DEFINE f == ZB!Field(s)
           l == IF Len(s) < Width THEN Len(s) ELSE Width
           kept == {k \in DOMAIN f : f[k] # ZB!NUL}
<1>1. Width \in Nat \ {0} /\ ZB!NUL \notin Chars /\ Len(s) \in Nat
  BY FieldsAre
<1>2. /\ f \in Seq(Chars \cup {ZB!NUL}) /\ Len(f) = Width
      /\ \A k \in 1..Width : f[k] = IF k <= Len(s) THEN s[k] ELSE ZB!NUL
  BY FieldType
<1>3. l \in Nat /\ l <= Len(s) /\ l <= Width
  BY <1>1
<1>4. \A k \in 1..Width : k <= l <=> k <= Len(s)
  BY <1>1
<1>5. \A k \in 1..Len(s) : s[k] # ZB!NUL
  BY <1>1
<1> HIDE DEF f, l
<1>6. DOMAIN f = 1..Width
  BY <1>1, <1>2
<1>7. \A k \in 1..Width : f[k] # ZB!NUL <=> k <= Len(s)
  BY <1>1, <1>2, <1>5
<1>8. kept = 1..l
  BY <1>1, <1>3, <1>4, <1>6, <1>7
<1>9. ZB!Stripped(f) = IF kept = {} THEN <<>> ELSE SubSeq(f, ZB!Min(kept), ZB!Max(kept))
  BY DEF ZB!Stripped
<1>10. CASE l = 0
  <2>1. SubSeq(s, 1, l) = <<>> /\ kept = {}
    BY <1>8, <1>10
  <2> QED
    BY <1>9, <2>1 DEF f, l
<1>11. CASE l # 0
  <2>1. 1 \in kept /\ l \in kept /\ \A y \in kept : 1 <= y /\ y <= l /\ y \in Nat
    BY <1>3, <1>8, <1>11
  <2>2. ZB!Min(kept) = 1
    BY <2>1 DEF ZB!Min
  <2>3. ZB!Max(kept) = l
    BY <1>3, <2>1 DEF ZB!Max
  <2>4. SubSeq(f, 1, l) = SubSeq(s, 1, l)
    <3>1. l \in 0..Len(f) /\ l \in 0..Len(s)
      BY <1>1, <1>2, <1>3
    <3>2. \A k \in 1..l : f[k] = s[k]
      BY <1>1, <1>2, <1>3
    <3>3. /\ SubSeq(f, 1, l) \in Seq(Chars \cup {ZB!NUL}) /\ Len(SubSeq(f, 1, l)) = l
          /\ \A k \in 1..l : SubSeq(f, 1, l)[k] = f[k]
      BY <1>2, <3>1, CutAt
    <3>4. /\ SubSeq(s, 1, l) \in Seq(Chars) /\ Len(SubSeq(s, 1, l)) = l
          /\ \A k \in 1..l : SubSeq(s, 1, l)[k] = s[k]
      BY <3>1, CutAt
    <3> QED
      BY <3>2, <3>3, <3>4
  <2> QED
    BY <1>9, <2>1, <2>2, <2>3, <2>4 DEF f, l
<1> QED
  BY <1>10, <1>11

\* Cardinality is the same where Zmsg uses it.
LEMMA SameCardinality == ASSUME NEW S PROVE ZB!Cardinality(S) = Cardinality(S)
BY DEF ZB!Cardinality, Cardinality

\* The part of 1..n has at most n elements.
LEMMA PartOfInterval ==
  ASSUME NEW n \in Nat, NEW T \in SUBSET (1..n)
  PROVE  IsFiniteSet(T) /\ Cardinality(T) \in Nat /\ Cardinality(T) <= n
<1>1. IsFiniteSet(1..n) /\ Cardinality(1..n) = n
  <2>1. 1 \in Int /\ n \in Int
    OBVIOUS
  <2>2. IsFiniteSet(1..n) /\ Cardinality(1..n) = IF 1 > n THEN 0 ELSE n - 1 + 1
    BY <2>1, FS_Interval
  <2>3. (IF 1 > n THEN 0 ELSE n - 1 + 1) = n
    OBVIOUS
  <2> QED
    BY <2>2, <2>3
<1>2. IsFiniteSet(T) /\ Cardinality(T) <= Cardinality(1..n)
  BY <1>1, FS_Subset
<1>3. Cardinality(T) \in Nat
  BY <1>2, FS_CardinalityType
<1> QED
  BY <1>1, <1>2, <1>3

\* Its first Width characters are at least Width bytes of a text, or all of it: what pack
\* makes of them is what it would make of the whole text.
LEMMA CutField ==
  ASSUME NEW s \in Seq(Chars)
  PROVE  ZB!Field(ZB!Cut(s)) = ZB!Field(s)
<1> DEFINE N == Len(s)
           K == {n \in 1..N : ZB!Begun(s, n) <= Width}
           c == Cardinality(K)
           l == IF N < Width THEN N ELSE Width
           t == SubSeq(s, 1, c)
<1>1. Width \in Nat \ {0} /\ N \in Nat /\ DOMAIN s = 1..N
  BY FieldsAre
<1>2. ZB!Cut(s) = t
  BY <1>1, SameCardinality DEF ZB!Cut
<1>3. l \in Nat /\ l <= N /\ l <= Width
  BY <1>1
<1>4. \A k \in 1..Width : k <= N => k <= l
  BY <1>1
<1> HIDE DEF N, l
<1>5. ASSUME NEW n \in 1..l PROVE n \in K
  <2>1. n \in Nat /\ n \in 1..N /\ n <= Width
    BY <1>1, <1>3
  <2>2. {k \in 1..n : s[k] # ZB!Cont} \in SUBSET (1..n)
    OBVIOUS
  <2>3. /\ Cardinality({k \in 1..n : s[k] # ZB!Cont}) \in Nat
        /\ Cardinality({k \in 1..n : s[k] # ZB!Cont}) <= n
    BY <2>1, <2>2, PartOfInterval
  <2>4. ZB!Begun(s, n) = Cardinality({k \in 1..n : s[k] # ZB!Cont})
    BY SameCardinality DEF ZB!Begun
  <2>5. ZB!Begun(s, n) <= Width
    BY <1>1, <2>1, <2>3, <2>4
  <2> QED
    BY <2>1, <2>5
<1>6. K \in SUBSET (1..N)
  OBVIOUS
<1> HIDE DEF K
<1>7. IsFiniteSet(K) /\ c \in Nat /\ c <= N
  BY <1>1, <1>6, PartOfInterval
<1>8. l <= c
  <2>1. 1..l \in SUBSET K
    BY <1>5
  <2>2. Cardinality(1..l) <= Cardinality(K)
    BY <1>7, <2>1, FS_Subset
  <2>3. Cardinality(1..l) = IF 1 > l THEN 0 ELSE l - 1 + 1
    <3>1. 1 \in Int /\ l \in Int
      BY <1>3
    <3> QED
      BY <3>1, FS_Interval
  <2>4. Cardinality(1..l) = l
    BY <1>3, <2>3
  <2> QED
    BY <2>2, <2>4
<1> HIDE DEF c
<1>9. c \in 0..Len(s)
  BY <1>7 DEF N
<1>10. t \in Seq(Chars) /\ Len(t) = c /\ \A k \in 1..c : t[k] = s[k]
  BY <1>9, CutAt
<1> HIDE DEF t
<1>11. ASSUME NEW k \in 1..Width
       PROVE  (IF k <= Len(t) THEN t[k] ELSE ZB!NUL) = (IF k <= Len(s) THEN s[k] ELSE ZB!NUL)
  <2>1. k \in Nat /\ k >= 1
    BY <1>1
  <2>2. CASE k <= N
    <3>1. k <= c
      BY <1>3, <1>4, <1>7, <1>8, <2>1, <2>2
    <3>2. k \in 1..c
      BY <1>7, <2>1, <3>1
    <3> QED
      BY <1>10, <2>2, <3>1, <3>2 DEF N
  <2>3. CASE ~(k <= N)
    <3>1. ~(k <= c)
      BY <1>1, <1>7, <2>1, <2>3
    <3> QED
      BY <1>10, <2>3, <3>1 DEF N
  <2> QED
    BY <2>2, <2>3
<1>12. ZB!Field(t) = ZB!Field(s)
  BY <1>11 DEF ZB!Field
<1> QED
  BY <1>2, <1>12

\* A field that cannot be decoded ends inside a character, and the text goes on.
LEMMA FieldEndsInside ==
  ASSUME NEW p \in Seq(Chars), ZB!Whole(p), ~ZB!Whole(ZB!Field(p))
  PROVE  Len(p) > Width /\ p[Width] = ZB!Lead
<1> DEFINE f == ZB!Field(p)
<1>1. Width \in Nat \ {0} /\ Len(p) \in Nat /\ DOMAIN p = 1..Len(p) /\ DOMAIN f = 1..Width
  <2>1. f \in Seq(Chars \cup {ZB!NUL}) /\ Len(f) = Width
    BY FieldType
  <2> QED
    BY <2>1, FieldsAre
<1>2. \A k \in 1..Width : f[k] = IF k <= Len(p) THEN p[k] ELSE ZB!NUL
  BY FieldType
<1>3. ZB!NUL # ZB!Lead /\ ZB!NUL # ZB!Cont /\ ZB!Lead # ZB!Cont
  BY DEF ZB!NUL, ZB!Lead, ZB!Cont
<1>4. ~ZB!Whole(f)
  OBVIOUS
<1> HIDE DEF f
<1>5. PICK k \in 1..Width : \/ f[k] = ZB!Lead /\ ~(k + 1 \in 1..Width /\ f[k + 1] = ZB!Cont)
                            \/ f[k] = ZB!Cont /\ ~(k - 1 \in 1..Width /\ f[k - 1] = ZB!Lead)
  BY <1>1, <1>4 DEF ZB!Whole
<1>6. k \in Nat /\ k >= 1 /\ k <= Width
  BY <1>1
<1>7. k <= Len(p) /\ p[k] = f[k] /\ k \in 1..Len(p)
  BY <1>1, <1>2, <1>3, <1>5, <1>6
<1>8. CASE f[k] = ZB!Cont /\ ~(k - 1 \in 1..Width /\ f[k - 1] = ZB!Lead)
  <2>1. k - 1 \in 1..Len(p) /\ p[k - 1] = ZB!Lead
    BY <1>1, <1>7, <1>8 DEF ZB!Whole
  <2>2. k - 1 \in 1..Width /\ k - 1 <= Len(p)
    BY <1>1, <1>6, <2>1
  <2>3. f[k - 1] = ZB!Lead
    BY <1>2, <2>1, <2>2
  <2> QED
    BY <1>8, <2>2, <2>3
<1>9. CASE f[k] = ZB!Lead /\ ~(k + 1 \in 1..Width /\ f[k + 1] = ZB!Cont)
  <2>1. k + 1 \in 1..Len(p) /\ p[k + 1] = ZB!Cont
    BY <1>1, <1>7, <1>9 DEF ZB!Whole
  <2>2. k + 1 <= Len(p)
    BY <1>1, <2>1
  <2>3. ~(k + 1 <= Width)
    <3> SUFFICES ASSUME k + 1 <= Width PROVE FALSE
      OBVIOUS
    <3>1. k + 1 \in 1..Width
      BY <1>1, <1>6
    <3>2. f[k + 1] = ZB!Cont
      BY <1>2, <2>1, <2>2, <3>1
    <3> QED
      BY <1>9, <3>1, <3>2
  <2>4. k = Width
    BY <1>1, <1>6, <2>3
  <2> QED
    BY <1>1, <1>7, <1>9, <2>2, <2>4
<1> QED
  BY <1>5, <1>8, <1>9

-----------------------------------------------------------------------------
(* What is packed, and what is read back                                   *)

\* IMEIs fill a field or the first part of it.
LEMMA ImeiType ==
  ASSUME NEW i \in ZB!ImeiTexts
  PROVE  i \in Seq(Chars) /\ Len(i) <= Width /\ i # None
<1>1. Width \in Nat \ {0} /\ Short \in Nat /\ Short <= Width /\ Digits \subseteq Chars
  BY FieldsAre DEF Chars
<1>2. i # None
  BY TrafficAssumption
<1>3. i \in [1..Short -> Digits] \/ i \in [1..Width -> Digits]
  BY DEF ZB!ImeiTexts, ZB!Words
<1>4. \A n \in Nat : i \in [1..n -> Digits] => i \in Seq(Chars) /\ Len(i) = n
  BY <1>1
<1> QED
  BY <1>1, <1>2, <1>3, <1>4

\* Names of protocol modules fit a field.
LEMMA PmodType ==
  ASSUME NEW p \in Pmods
  PROVE  p \in Seq(Chars) /\ Len(p) <= Width /\ p # None
<1>1. p \in Seq(Letters \cup Digits) /\ Len(p) <= Width /\ p # None
  BY TrafficAssumption
<1>2. Letters \cup Digits \subseteq Chars
  BY DEF Chars
<1> QED
  BY <1>1, <1>2

\* Names of messages begin with the letter of their protocol; those of zx303 fit a field.
LEMMA NameType ==
  ASSUME NEW p \in ZB!ZxNames \cup ZB!BsNames
  PROVE  /\ p \in Seq(Chars) /\ Len(p) \in Nat \ {0} /\ ZB!Whole(p)
         /\ p \in ZB!ZxNames => Len(p) <= Width /\ p[1] = "Z"
         /\ p \in ZB!BsNames => p[1] = "B"
<1> DEFINE Alpha == Letters \cup {ZB!Lead, ZB!Cont}
<1>1. /\ Width \in Nat \ {0} /\ Letters \subseteq Chars /\ Alpha \subseteq Chars
      /\ "Z" \in Chars /\ "B" \in Chars
  BY FieldsAre DEF Chars
<1>2. ASSUME NEW S \in SUBSET Chars, NEW h \in S, NEW n \in Nat, NEW w \in [1..n -> S]
      PROVE  <<h>> \o w \in Seq(S) /\ Len(<<h>> \o w) = n + 1 /\ (<<h>> \o w)[1] = h
  <2>1. w \in Seq(S) /\ Len(w) = n /\ <<h>> \in Seq(S) /\ Len(<<h>>) = 1 /\ <<h>>[1] = h
    OBVIOUS
  <2> QED
    BY <2>1, ConcatAt
<1>3. ASSUME p \in ZB!ZxNames
      PROVE  p \in Seq(Chars) /\ Len(p) \in Nat \ {0} /\ Len(p) <= Width /\ p[1] = "Z" /\ ZB!Whole(p)
  <2> DEFINE S == Letters \cup {"Z"}
  <2>1. PICK n \in 0..(Width - 1) : \E w \in [1..n -> Letters] : p = <<"Z">> \o w
    BY <1>3 DEF ZB!ZxNames, ZB!Words
  <2>2. PICK w \in [1..n -> Letters] : p = <<"Z">> \o w
    BY <2>1
  <2>3. n \in Nat /\ n + 1 <= Width
    BY <1>1
  <2>4. S \in SUBSET Chars /\ "Z" \in S /\ w \in [1..n -> S]
    BY <1>1
  <2>5. ZB!Lead \notin S /\ ZB!Cont \notin S
    BY FieldsAre
  <2> HIDE DEF S
  <2>6. p \in Seq(S) /\ Len(p) = n + 1 /\ p[1] = "Z"
    BY <1>2, <2>2, <2>3, <2>4
  <2>7. p \in Seq(Chars)
    BY <2>4, <2>6
  <2>8. ZB!Whole(p)
    <3>1. \A k \in DOMAIN p : p[k] \in S
      BY <2>6
    <3>2. \A k \in DOMAIN p : p[k] # ZB!Lead /\ p[k] # ZB!Cont
      BY <2>5, <3>1
    <3> QED
      BY <3>2 DEF ZB!Whole
  <2> QED
    BY <2>3, <2>6, <2>7, <2>8
<1>4. ASSUME p \in ZB!BsNames
      PROVE  p \in Seq(Chars) /\ Len(p) \in Nat \ {0} /\ p[1] = "B" /\ ZB!Whole(p)
  <2> DEFINE S == Alpha \cup {"B"}
  <2>1. ZB!Whole(p) /\ \E n \in 0..Width : \E w \in [1..n -> Alpha] : p = <<"B">> \o w
    BY <1>4 DEF ZB!BsNames, ZB!Words
  <2>2. PICK n \in 0..Width : \E w \in [1..n -> Alpha] : p = <<"B">> \o w
    BY <2>1
  <2>3. PICK w \in [1..n -> Alpha] : p = <<"B">> \o w
    BY <2>2
  <2>4. n \in Nat
    BY <1>1
  <2>5. S \in SUBSET Chars /\ "B" \in S /\ w \in [1..n -> S]
    BY <1>1
  <2> HIDE DEF S
  <2>6. p \in Seq(S) /\ Len(p) = n + 1 /\ p[1] = "B"
    BY <1>2, <2>3, <2>4, <2>5
  <2>7. p \in Seq(Chars)
    BY <2>5, <2>6
  <2> QED
    BY <2>1, <2>4, <2>6, <2>7
<1> QED
  BY <1>3, <1>4

\* A field of an IMEI is all zeros only if the IMEI is.
LEMMA ZerosAre ==
  ASSUME NEW i \in ZB!ImeiTexts
  PROVE  ZB!Field(i) = ZB!Fill("0") <=> i = ZB!Fill("0")
<1>1. i \in Seq(Chars) /\ Len(i) <= Width /\ Len(i) \in Nat /\ Width \in Nat \ {0} /\ ZB!NUL # "0"
  BY ImeiType, FieldsAre
<1>2. /\ Len(ZB!Field(i)) = Width
      /\ \A k \in 1..Width : ZB!Field(i)[k] = IF k <= Len(i) THEN i[k] ELSE ZB!NUL
  BY <1>1, FieldType
<1>3. /\ ZB!Fill("0") \in Seq({"0"}) /\ Len(ZB!Fill("0")) = Width
      /\ \A k \in 1..Width : ZB!Fill("0")[k] = "0"
  BY FillType
<1>4. ASSUME i = ZB!Fill("0") PROVE ZB!Field(i) = ZB!Fill("0")
  <2>1. ZB!Field(i) \in Seq(Chars \cup {ZB!NUL})
    BY <1>1, FieldType
  <2>2. \A k \in 1..Width : ZB!Field(i)[k] = ZB!Fill("0")[k]
    BY <1>1, <1>2, <1>3, <1>4
  <2> QED
    BY <1>2, <1>3, <2>1, <2>2
<1>5. ASSUME ZB!Field(i) = ZB!Fill("0") PROVE i = ZB!Fill("0")
  <2>1. \A k \in 1..Width : k <= Len(i) /\ i[k] = "0"
    BY <1>1, <1>2, <1>3, <1>5
  <2>2. Len(i) = Width
    BY <1>1, <2>1
  <2> QED
    BY <1>1, <1>3, <2>1, <2>2
<1> QED
  BY <1>4, <1>5

\* An IMEI is read as it was packed, except that zeros stand for none.
LEMMA ImeiRead ==
  ASSUME NEW i \in ZB!ImeiTexts \cup {None}
  PROVE  ZB!NoneOr(ZB!OrNone(i, "0"), "0") = IF i = ZB!Fill("0") THEN None ELSE i
<1>1. CASE i = None
  BY <1>1 DEF ZB!NoneOr, ZB!OrNone
<1>2. CASE i \in ZB!ImeiTexts
  <2>1. i \in Seq(Chars) /\ Len(i) <= Width /\ i # None /\ Width \in Nat /\ Len(i) \in Nat
    BY <1>2, ImeiType, FieldsAre
  <2>2. ZB!OrNone(i, "0") = ZB!Field(i)
    BY <2>1 DEF ZB!OrNone
  <2>3. ZB!Stripped(ZB!Field(i)) = SubSeq(i, 1, IF Len(i) < Width THEN Len(i) ELSE Width)
    BY <2>1, FieldStripped
  <2>4. (IF Len(i) < Width THEN Len(i) ELSE Width) = Len(i)
    BY <2>1
  <2>5. ZB!Stripped(ZB!Field(i)) = i
    BY <2>1, <2>3, <2>4
  <2>6. ZB!Field(i) = ZB!Fill("0") <=> i = ZB!Fill("0")
    BY <1>2, ZerosAre
  <2> QED
    BY <2>2, <2>5, <2>6 DEF ZB!NoneOr
<1> QED
  BY <1>1, <1>2

\* The name of a protocol module is read as it was packed.
LEMMA PmodRead ==
  ASSUME NEW p \in Pmods \cup {None}
  PROVE  ZB!NoneOr(ZB!OrNone(p, ZB!Space), ZB!Space) = p
<1>1. CASE p = None
  BY <1>1 DEF ZB!NoneOr, ZB!OrNone
<1>2. CASE p \in Pmods
  <2>1. p \in Seq(Chars) /\ Len(p) <= Width /\ p # None /\ Width \in Nat \ {0} /\ Len(p) \in Nat
    BY <1>2, PmodType, FieldsAre
  <2>2. ZB!OrNone(p, ZB!Space) = ZB!Field(p)
    BY <2>1 DEF ZB!OrNone
  <2>3. ZB!Stripped(ZB!Field(p)) = SubSeq(p, 1, IF Len(p) < Width THEN Len(p) ELSE Width)
    BY <2>1, FieldStripped
  <2>4. (IF Len(p) < Width THEN Len(p) ELSE Width) = Len(p)
    BY <2>1
  <2>5. ZB!Stripped(ZB!Field(p)) = p
    BY <2>1, <2>3, <2>4
  <2>6. ZB!Field(p) # ZB!Fill(ZB!Space)
    <3>1. 1 \in 1..Width /\ ZB!Space \notin Chars /\ ZB!NUL # ZB!Space
      BY <2>1, FieldsAre
    <3>2. ZB!Field(p)[1] = IF 1 <= Len(p) THEN p[1] ELSE ZB!NUL
      BY <2>1, <3>1, FieldType
    <3>3. 1 <= Len(p) => p[1] \in Chars
      BY <2>1
    <3>4. ZB!Fill(ZB!Space)[1] = ZB!Space
      BY <3>1, FillType
    <3> QED
      BY <3>1, <3>2, <3>3, <3>4
  <2> QED
    BY <2>2, <2>5, <2>6 DEF ZB!NoneOr
<1> QED
  BY <1>1, <1>2

\* An address is read as one that packs alike.
LEMMA PeerRead ==
  ASSUME NEW p \in ZB!Peers \cup {None}
  PROVE  ZB!pack_peer(ZB!unpack_peer(ZB!pack_peer(p))) = ZB!pack_peer(p)
<1>1. CASE p = None
  BY <1>1 DEF ZB!pack_peer, ZB!unpack_peer
<1>2. CASE p \in ZB!Peers
  <2>1. p # None /\ \A a \in Addresses : [v |-> "4", addr |-> a] # None
    BY <1>2, TrafficAssumption DEF ZB!Peers
  <2>2. /\ p.v \in {"4", "6", "mapped"} /\ p.addr \in Addresses
        /\ p = [v |-> p.v, addr |-> p.addr]
    BY <1>2 DEF ZB!Peers
  <2> QED
    BY <2>1, <2>2 DEF ZB!pack_peer, ZB!unpack_peer
<1> QED
  BY <1>1, <1>2

\* A piece of m elements behind the first n.
LEMMA PieceAt ==
  ASSUME NEW S, NEW s \in Seq(S), NEW n \in Nat, NEW m \in Nat, n + m <= Len(s)
  PROVE  /\ SubSeq(s, n + 1, n + m) \in Seq(S) /\ Len(SubSeq(s, n + 1, n + m)) = m
         /\ \A i \in 1..m : SubSeq(s, n + 1, n + m)[i] = s[n + i]
<1>1. n + m - (n + 1) + 1 = m
  OBVIOUS
<1>2. Len(SubSeq(s, n + 1, n + m)) = m
  BY <1>1
<1>3. \A i \in 1..m : i \in 1..(n + m - (n + 1) + 1) /\ (n + 1) + i - 1 = n + i /\ n + i \in 1..Len(s)
  OBVIOUS
<1>4. \A i \in 1..m : SubSeq(s, n + 1, n + m)[i] = s[n + i] /\ s[n + i] \in S
  BY <1>2, <1>3
<1>5. SubSeq(s, n + 1, n + m) \in Seq(S)
  BY <1>2, <1>4
<1> QED
  BY <1>2, <1>4, <1>5

\* The layout of a broadcast: a flag, three fields and an address.
Parts(S, x, a, b, c, y) ==
  /\ x \in S /\ a \in Seq(S) /\ b \in Seq(S) /\ c \in Seq(S) /\ y \in S
  /\ Len(a) = Width /\ Len(b) = Width /\ Len(c) = Width
Joined(x, a, b, c, y) == <<x>> \o a \o b \o c \o <<y>>
Laid(S, r, x, a, b, c, y) ==
  /\ r \in Seq(S) /\ Len(r) = 3 * Width + 2
  /\ r[1] = x /\ r[3 * Width + 2] = y
  /\ SubSeq(r, 1, Width + 1) = <<x>> \o a
  /\ ZB!FieldAt(r, 1) = a /\ ZB!FieldAt(r, 2) = b /\ ZB!FieldAt(r, 3) = c

\* Each part is where the fields of a broadcast are counted to be.
LEMMA Layout ==
  ASSUME NEW S, NEW x, NEW a, NEW b, NEW c, NEW y, Parts(S, x, a, b, c, y)
  PROVE  Laid(S, Joined(x, a, b, c, y), x, a, b, c, y)
<1>p. x \in S /\ a \in Seq(S) /\ b \in Seq(S) /\ c \in Seq(S) /\ y \in S
  BY DEF Parts
<1> DEFINE W == Width
           q == <<x>>
           z == <<y>>
           r1 == q \o a
           r2 == r1 \o b
           r3 == r2 \o c
           r4 == r3 \o z
<1>1. W \in Nat \ {0} /\ Len(a) = W /\ Len(b) = W /\ Len(c) = W
  BY FieldsAre DEF Parts
<1>2. Len(q) = 1 /\ q[1] = x /\ Len(z) = 1 /\ z[1] = y
  OBVIOUS
<1>q. q \in Seq(S) /\ z \in Seq(S)
  BY <1>p
<1> HIDE DEF q, z, W
<1>s1. /\ r1 \in Seq(S) /\ Len(r1) = Len(q) + Len(a)
       /\ \A i \in 1..Len(q) : r1[i] = q[i]
       /\ \A i \in 1..Len(a) : r1[Len(q) + i] = a[i]
  BY <1>p, <1>q, ConcatAt
<1> HIDE DEF r1
<1>r1. r1 \in Seq(S)
  BY <1>s1
<1>3. /\ Len(r1) = 1 + W
      /\ \A i \in 1..1 : r1[i] = q[i]
      /\ \A i \in 1..W : r1[1 + i] = a[i]
  BY <1>1, <1>2, <1>s1
<1>s2. /\ r2 \in Seq(S) /\ Len(r2) = Len(r1) + Len(b)
       /\ \A i \in 1..Len(r1) : r2[i] = r1[i]
       /\ \A i \in 1..Len(b) : r2[Len(r1) + i] = b[i]
  BY <1>p, <1>r1, ConcatAt
<1> HIDE DEF r2
<1>r2. r2 \in Seq(S)
  BY <1>s2
<1>4. /\ Len(r2) = 1 + W + W
      /\ \A i \in 1..(1 + W) : r2[i] = r1[i]
      /\ \A i \in 1..W : r2[1 + W + i] = b[i]
  BY <1>1, <1>3, <1>s2
<1>s3. /\ r3 \in Seq(S) /\ Len(r3) = Len(r2) + Len(c)
       /\ \A i \in 1..Len(r2) : r3[i] = r2[i]
       /\ \A i \in 1..Len(c) : r3[Len(r2) + i] = c[i]
  BY <1>p, <1>r2, ConcatAt
<1> HIDE DEF r3
<1>r3. r3 \in Seq(S)
  BY <1>s3
<1>5. /\ Len(r3) = 1 + W + W + W
      /\ \A i \in 1..(1 + W + W) : r3[i] = r2[i]
      /\ \A i \in 1..W : r3[1 + W + W + i] = c[i]
  BY <1>1, <1>4, <1>s3
<1>s4. /\ r4 \in Seq(S) /\ Len(r4) = Len(r3) + Len(z)
       /\ \A i \in 1..Len(r3) : r4[i] = r3[i]
       /\ \A i \in 1..Len(z) : r4[Len(r3) + i] = z[i]
  BY <1>q, <1>r3, ConcatAt
<1> HIDE DEF r4
<1>r4. r4 \in Seq(S)
  BY <1>s4
<1>6. /\ Len(r4) = 1 + W + W + W + 1
      /\ \A i \in 1..(1 + W + W + W) : r4[i] = r3[i]
      /\ \A i \in 1..1 : r4[1 + W + W + W + i] = z[i]
  BY <1>1, <1>2, <1>5, <1>s4
<1>7. /\ \A i \in 1..(1 + W) : r4[i] = r1[i]
      /\ \A i \in 1..W : r4[1 + i] = a[i]
      /\ \A i \in 1..W : r4[1 + W + i] = b[i]
      /\ \A i \in 1..W : r4[1 + W + W + i] = c[i]
  <2>1. \A i \in 1..(1 + W) : r4[i] = r1[i]
    BY <1>1, <1>4, <1>5, <1>6
  <2>2. \A i \in 1..W : r4[1 + i] = a[i]
    <3>1. \A i \in 1..W : 1 + i \in 1..(1 + W)
      BY <1>1
    <3> QED
      BY <1>3, <2>1, <3>1
  <2>3. \A i \in 1..W : r4[1 + W + i] = b[i]
    <3>1. \A i \in 1..W : 1 + W + i \in 1..(1 + W + W) /\ 1 + W + i \in 1..(1 + W + W + W)
      BY <1>1
    <3> QED
      BY <1>4, <1>5, <1>6, <3>1
  <2>4. \A i \in 1..W : r4[1 + W + W + i] = c[i]
    <3>1. \A i \in 1..W : 1 + W + W + i \in 1..(1 + W + W + W)
      BY <1>1
    <3> QED
      BY <1>5, <1>6, <3>1
  <2> QED
    BY <2>1, <2>2, <2>3, <2>4
<1>8. r4[1] = x /\ r4[1 + W + W + W + 1] = y
  BY <1>1, <1>2, <1>3, <1>6, <1>7
<1>9. ASSUME NEW n \in Nat, n + W <= 1 + W + W + W, NEW d \in Seq(S), Len(d) = W,
             \A i \in 1..W : r4[n + i] = d[i]
      PROVE  SubSeq(r4, n + 1, n + W) = d
  <2> DEFINE e == SubSeq(r4, n + 1, n + W)
  <2>1. e \in Seq(S) /\ Len(e) = W /\ \A i \in 1..W : e[i] = r4[n + i]
    BY <1>1, <1>6, <1>r4, <1>9, PieceAt, SMTT(30)
  <2> HIDE DEF e
  <2>2. \A i \in 1..W : e[i] = d[i]
    BY <1>9, <2>1
  <2>3. e = d
    BY <1>9, <2>1, <2>2
  <2> QED
    BY <2>3 DEF e
<1>10. SubSeq(r4, 1 + 1, 1 + W) = a /\ SubSeq(r4, 1 + W + 1, 1 + W + W) = b
       /\ SubSeq(r4, 1 + W + W + 1, 1 + W + W + W) = c
  BY <1>1, <1>p, <1>7, <1>9
<1>11. SubSeq(r4, 1, W + 1) = r1
  <2> DEFINE e == SubSeq(r4, 1, W + 1)
  <2>1. e \in Seq(S) /\ Len(e) = W + 1 /\ \A i \in 1..(W + 1) : e[i] = r4[i]
    BY <1>1, <1>6, <1>r4
  <2> HIDE DEF e
  <2>2. \A i \in 1..(W + 1) : e[i] = r1[i]
    BY <1>1, <1>7, <2>1, SMTT(30)
  <2>3. Len(r1) = W + 1
    BY <1>1, <1>3
  <2>4. e = r1
    BY <1>r1, <2>1, <2>2, <2>3
  <2> QED
    BY <2>4 DEF e
<1>12. /\ (1 - 1) * W + 2 = 1 + 1 /\ 1 * W + 1 = 1 + W
       /\ (2 - 1) * W + 2 = 1 + W + 1 /\ 2 * W + 1 = 1 + W + W
       /\ (3 - 1) * W + 2 = 1 + W + W + 1 /\ 3 * W + 1 = 1 + W + W + W
       /\ 3 * W + 2 = 1 + W + W + W + 1
  BY <1>1
<1>13. ZB!FieldAt(r4, 1) = a /\ ZB!FieldAt(r4, 2) = b /\ ZB!FieldAt(r4, 3) = c
  BY <1>10, <1>12 DEF ZB!FieldAt, W
<1>14. r4 \in Seq(S) /\ Len(r4) = 3 * W + 2 /\ r4[1] = x /\ r4[3 * W + 2] = y
  BY <1>6, <1>r4, <1>8, <1>12
<1> QED
  BY <1>11, <1>13, <1>14 DEF Joined, Laid, r4, r3, r2, r1, q, z, W

\* What a message on the bus consists of.
Contents == BOOLEAN \cup Chars \cup {ZB!NUL, "0", ZB!Space}
            \cup {ZB!pack_peer(p) : p \in ZB!Peers \cup {None}}

Bcasts == [kind : {"bcast"}, is_incoming : BOOLEAN, proto : ZB!ZxNames \cup ZB!BsNames,
           imei : ZB!ImeiTexts \cup {None}, pmod : Pmods \cup {None},
           peeraddr : ZB!Peers \cup {None}]

\* The kinds of messages that can be sent.
LEMMA SendableIs ==
  ASSUME NEW m \in ZB!Sendable
  PROVE  /\ m.imei \in ZB!ImeiTexts \cup {None}
         /\ m.kind \in {"bcast", "rept", "resp"}
         /\ m.kind = "bcast" => m \in Bcasts
BY DEF ZB!Sendable, Bcasts

\* An optional text is packed to the width of a field.
LEMMA OrNoneType ==
  ASSUME NEW s, NEW c \in {"0", ZB!Space}, s = None \/ s \in Seq(Chars)
  PROVE  ZB!OrNone(s, c) \in Seq(Contents) /\ Len(ZB!OrNone(s, c)) = Width
<1>1. CASE s = None
  <2>1. ZB!Fill(c) \in Seq({c}) /\ Len(ZB!Fill(c)) = Width /\ {c} \subseteq Contents
    BY FillType DEF Contents
  <2> QED
    BY <1>1, <2>1 DEF ZB!OrNone
<1>2. CASE s # None
  <2>1. ZB!Field(s) \in Seq(Chars \cup {ZB!NUL}) /\ Len(ZB!Field(s)) = Width
    BY <1>2, FieldType
  <2>2. Chars \cup {ZB!NUL} \subseteq Contents
    BY DEF Contents
  <2>3. ZB!Field(s) \in Seq(Contents)
    BY <2>1, <2>2
  <2> QED
    BY <1>2, <2>1, <2>3 DEF ZB!OrNone
<1> QED
  BY <1>1, <1>2

\* The fields of a broadcast are where decode looks for them.
LEMMA BcastLayout ==
  ASSUME NEW m \in Bcasts
  PROVE  /\ ZB!packed(m) \in Seq(Contents) /\ Len(ZB!packed(m)) = 3 * Width + 2
         /\ ZB!packed(m)[1] = m.is_incoming
         /\ ZB!packed(m)[3 * Width + 2] = ZB!pack_peer(m.peeraddr)
         /\ SubSeq(ZB!packed(m), 1, Width + 1) = <<m.is_incoming>> \o ZB!Field(m.proto)
         /\ ZB!FieldAt(ZB!packed(m), 1) = ZB!Field(m.proto)
         /\ ZB!FieldAt(ZB!packed(m), 2) = ZB!OrNone(m.imei, "0")
         /\ ZB!FieldAt(ZB!packed(m), 3) = ZB!OrNone(m.pmod, ZB!Space)
<1> DEFINE x == m.is_incoming
           y == ZB!pack_peer(m.peeraddr)
           a == ZB!Field(m.proto)
           b == ZB!OrNone(m.imei, "0")
           c == ZB!OrNone(m.pmod, ZB!Space)
<1>1. /\ m.kind = "bcast" /\ m.is_incoming \in BOOLEAN
      /\ m.proto \in ZB!ZxNames \cup ZB!BsNames
      /\ m.imei \in ZB!ImeiTexts \cup {None} /\ m.pmod \in Pmods \cup {None}
      /\ m.peeraddr \in ZB!Peers \cup {None}
  BY DEF Bcasts
<1>2. ZB!packed(m) = <<x>> \o a \o b \o c \o <<y>>
  <2>1. ZB!Field(ZB!Cut(m.proto)) = a
    BY <1>1, NameType, CutField
  <2> QED
    BY <1>1, <2>1 DEF ZB!packed
<1>3. x \in Contents /\ y \in Contents
  BY <1>1 DEF Contents
<1>4. a \in Seq(Contents) /\ Len(a) = Width
  <2>1. m.proto \in Seq(Chars)
    BY <1>1, NameType
  <2>2. a \in Seq(Chars \cup {ZB!NUL}) /\ Len(a) = Width
    BY <2>1, FieldType
  <2>3. Chars \cup {ZB!NUL} \subseteq Contents
    BY DEF Contents
  <2> HIDE DEF a
  <2> QED
    BY <2>2, <2>3
<1>5. b \in Seq(Contents) /\ Len(b) = Width
  <2>1. m.imei = None \/ m.imei \in Seq(Chars)
    BY <1>1, ImeiType
  <2> QED
    BY <2>1, OrNoneType
<1>6. c \in Seq(Contents) /\ Len(c) = Width
  <2>1. m.pmod = None \/ m.pmod \in Seq(Chars)
    BY <1>1, PmodType
  <2> QED
    BY <2>1, OrNoneType
<1>7. Parts(Contents, x, a, b, c, y)
  BY <1>3, <1>4, <1>5, <1>6 DEF Parts
<1>8. ZB!packed(m) = Joined(x, a, b, c, y)
  BY <1>2 DEF Joined
<1> HIDE DEF x, y, a, b, c
<1>9. Laid(Contents, ZB!packed(m), x, a, b, c, y)
  BY <1>7, <1>8, Layout
<1>10. /\ ZB!packed(m) \in Seq(Contents) /\ Len(ZB!packed(m)) = 3 * Width + 2
       /\ ZB!packed(m)[1] = x /\ ZB!packed(m)[3 * Width + 2] = y
       /\ SubSeq(ZB!packed(m), 1, Width + 1) = <<x>> \o a
       /\ ZB!FieldAt(ZB!packed(m), 1) = a /\ ZB!FieldAt(ZB!packed(m), 2) = b
       /\ ZB!FieldAt(ZB!packed(m), 3) = c
  BY <1>9 DEF Laid
<1> QED
  BY <1>10 DEF x, y, a, b, c

\* A message that could be packed is read as it was sent.
Read(m, g) ==
  /\ g.imei = (IF m.imei = ZB!Fill("0") THEN None ELSE m.imei)
  /\ g.kind = "bcast" =>
       /\ g.is_incoming = m.is_incoming /\ g.pmod = m.pmod
       /\ g.proto = SubSeq(m.proto, 1, IF Len(m.proto) < Width THEN Len(m.proto) ELSE Width)
       /\ ZB!pack_peer(g.peeraddr) = ZB!pack_peer(m.peeraddr)

LEMMA DecodeReads ==
  ASSUME NEW m \in ZB!Sendable, ~(m.kind = "resp" /\ m.imei = None)
  PROVE  Read(m, ZB!decode(m.kind, ZB!packed(m)))
<1>1. /\ m.imei \in ZB!ImeiTexts \cup {None}
      /\ m.kind \in {"bcast", "rept", "resp"}
      /\ m.kind = "bcast" => m \in Bcasts
  BY SendableIs
<1>2. ZB!NoneOr(ZB!OrNone(m.imei, "0"), "0") = IF m.imei = ZB!Fill("0") THEN None ELSE m.imei
  BY <1>1, ImeiRead
<1>3. CASE m.kind # "bcast"
  <2>1. ZB!packed(m) = ZB!OrNone(m.imei, "0")
    <3>1. m.kind = "resp" => m.imei # None
      OBVIOUS
    <3> QED
      BY <1>1, <1>3, <3>1 DEF ZB!packed, ZB!OrNone
  <2>2. ZB!decode(m.kind, ZB!packed(m))
          = [kind |-> m.kind, imei |-> ZB!NoneOr(ZB!packed(m), "0")]
    BY <1>3 DEF ZB!decode
  <2> QED
    BY <1>2, <1>3, <2>1, <2>2 DEF Read
<1>4. CASE m.kind = "bcast"
  <2> DEFINE r == ZB!packed(m)
             g == ZB!decode(m.kind, r)
  <2>1. /\ r[1] = m.is_incoming /\ r[3 * Width + 2] = ZB!pack_peer(m.peeraddr)
        /\ ZB!FieldAt(r, 1) = ZB!Field(m.proto)
        /\ ZB!FieldAt(r, 2) = ZB!OrNone(m.imei, "0")
        /\ ZB!FieldAt(r, 3) = ZB!OrNone(m.pmod, ZB!Space)
    BY <1>1, <1>4, BcastLayout
  <2> HIDE DEF r
  <2>2. g = [kind |-> m.kind, is_incoming |-> r[1], proto |-> ZB!Stripped(ZB!FieldAt(r, 1)),
             imei |-> ZB!NoneOr(ZB!FieldAt(r, 2), "0"),
             pmod |-> ZB!NoneOr(ZB!FieldAt(r, 3), ZB!Space),
             peeraddr |-> ZB!unpack_peer(r[3 * Width + 2])]
    BY <1>4 DEF ZB!decode
  <2>3. /\ g.is_incoming = r[1] /\ g.proto = ZB!Stripped(ZB!FieldAt(r, 1))
        /\ g.imei = ZB!NoneOr(ZB!FieldAt(r, 2), "0")
        /\ g.pmod = ZB!NoneOr(ZB!FieldAt(r, 3), ZB!Space)
        /\ g.peeraddr = ZB!unpack_peer(r[3 * Width + 2])
    BY <2>2
  <2>4. /\ m.pmod \in Pmods \cup {None} /\ m.peeraddr \in ZB!Peers \cup {None}
        /\ m.proto \in ZB!ZxNames \cup ZB!BsNames
    BY <1>1, <1>4 DEF Bcasts
  <2> HIDE DEF g
  <2>5. g.imei = IF m.imei = ZB!Fill("0") THEN None ELSE m.imei
    BY <1>2, <2>1, <2>3
  <2>6. g.pmod = m.pmod
    BY <2>1, <2>3, <2>4, PmodRead
  <2>7. ZB!pack_peer(g.peeraddr) = ZB!pack_peer(m.peeraddr)
    BY <2>1, <2>3, <2>4, PeerRead
  <2>8. g.proto = SubSeq(m.proto, 1, IF Len(m.proto) < Width THEN Len(m.proto) ELSE Width)
    <3>1. m.proto \in Seq(Chars)
      BY <2>4, NameType
    <3> QED
      BY <2>1, <2>3, <3>1, FieldStripped
  <2>9. g.is_incoming = m.is_incoming
    BY <2>1, <2>3
  <2>10. Read(m, g)
    BY <2>5, <2>6, <2>7, <2>8, <2>9 DEF Read
  <2> QED
    BY <2>10 DEF g, r
<1> QED
  BY <1>3, <1>4

-----------------------------------------------------------------------------
(* Subscriptions                                                           *)

\* A class and a message with the same field of a name are the same: a name that fills
\* the field, or is cut to it, is of zx303 or is no class.
LEMMA ClassFields ==
  ASSUME NEW p \in ZB!ZxNames \cup ZB!BsNames, NEW n \in ZB!Classes
  PROVE  ZB!Field(p) = ZB!Field(n) <=> p = n
<1>1. n \in ZB!ZxNames \cup ZB!BsNames /\ (n \in ZB!ZxNames \/ (n \in ZB!BsNames /\ Len(n) < Width))
  BY DEF ZB!Classes
<1>2. /\ p \in Seq(Chars) /\ Len(p) \in Nat \ {0}
      /\ p \in ZB!ZxNames => Len(p) <= Width /\ p[1] = "Z"
      /\ p \in ZB!BsNames => p[1] = "B"
  BY NameType
<1>3. /\ n \in Seq(Chars) /\ Len(n) \in Nat \ {0}
      /\ n \in ZB!ZxNames => Len(n) <= Width /\ n[1] = "Z"
      /\ n \in ZB!BsNames => n[1] = "B"
  BY <1>1, NameType
<1>4. Width \in Nat \ {0}
  BY FieldsAre
<1>5. SUFFICES ASSUME ZB!Field(p) = ZB!Field(n) PROVE p = n
  OBVIOUS
<1>6. p[1] = n[1]
  <2>1. ZB!Field(p)[1] = p[1]
    BY <1>2, <1>4, FieldType
  <2>2. ZB!Field(n)[1] = n[1]
    BY <1>3, <1>4, FieldType
  <2> QED
    BY <1>5, <2>1, <2>2
<1>7. Len(n) <= Width /\ (Len(p) <= Width \/ Len(n) < Width)
  <2>1. CASE n \in ZB!ZxNames
    <3>1. p \notin ZB!BsNames
      BY <1>2, <1>3, <1>6, <2>1
    <3> QED
      BY <1>2, <1>3, <2>1, <3>1
  <2>2. CASE n \in ZB!BsNames /\ Len(n) < Width
    BY <1>3, <1>4, <2>2
  <2> QED
    BY <1>1, <2>1, <2>2
<1>8. n = p
  BY <1>2, <1>3, <1>5, <1>7, FieldInjective
<1> QED
  BY <1>8

\* Reports of a terminal: equal fields are of equal IMEIs.
LEMMA ImeiFields ==
  ASSUME NEW i \in ZB!ImeiTexts \cup {None}, NEW n \in ZB!ImeiTexts
  PROVE  ZB!OrNone(i, "0") = ZB!Field(n) <=> (i = n \/ (i = None /\ n = ZB!Fill("0")))
<1>1. n \in Seq(Chars) /\ Len(n) <= Width /\ n # None
  BY ImeiType
<1>2. CASE i = None
  <2>1. ZB!OrNone(i, "0") = ZB!Fill("0")
    BY <1>2 DEF ZB!OrNone
  <2>2. ZB!Field(n) = ZB!Fill("0") <=> n = ZB!Fill("0")
    BY ZerosAre
  <2> QED
    BY <1>1, <1>2, <2>1, <2>2
<1>3. CASE i \in ZB!ImeiTexts
  <2>1. i \in Seq(Chars) /\ Len(i) <= Width /\ i # None
    BY <1>3, ImeiType
  <2>2. ZB!OrNone(i, "0") = ZB!Field(i)
    BY <2>1 DEF ZB!OrNone
  <2>3. ZB!Field(i) = ZB!Field(n) => i = n
    BY <1>1, <2>1, FieldInjective
  <2> QED
    BY <2>1, <2>2, <2>3
<1> QED
  BY <1>2, <1>3

\* One element and then a sequence.
LEMMA Prepended ==
  ASSUME NEW S, NEW x \in S, NEW a \in Seq(S)
  PROVE  /\ <<x>> \o a \in Seq(S) /\ Len(<<x>> \o a) = Len(a) + 1
         /\ (<<x>> \o a)[1] = x /\ \A i \in 1..Len(a) : (<<x>> \o a)[1 + i] = a[i]
<1> DEFINE s == <<x>>
<1>1. s \in Seq(S)
  OBVIOUS
<1>2. Len(s) = 1 /\ s[1] = x
  OBVIOUS
<1> HIDE DEF s
<1>3. /\ s \o a \in Seq(S) /\ Len(s \o a) = Len(s) + Len(a)
      /\ \A i \in 1..Len(s) : (s \o a)[i] = s[i]
      /\ \A i \in 1..Len(a) : (s \o a)[Len(s) + i] = a[i]
  BY <1>1, ConcatAt
<1> DEFINE r == s \o a
<1>4. /\ r \in Seq(S) /\ Len(r) = Len(s) + Len(a)
      /\ \A i \in 1..Len(s) : r[i] = s[i]
      /\ \A i \in 1..Len(a) : r[Len(s) + i] = a[i]
  BY <1>3
<1> HIDE DEF r
<1>5. Len(a) \in Nat /\ 1 \in 1..1
  OBVIOUS
<1>6. r \in Seq(S) /\ Len(r) = Len(a) + 1 /\ r[1] = x /\ \A i \in 1..Len(a) : r[1 + i] = a[i]
  BY <1>2, <1>4, <1>5
<1> QED
  BY <1>6 DEF r, s

\* The flag of a topic and its field.
LEMMA TopicType ==
  ASSUME NEW g \in Seq(Contents)
  PROVE  <<TRUE>> \o g \in Seq(Contents) /\ Len(<<TRUE>> \o g) = Len(g) + 1
<1>1. TRUE \in Contents
  BY DEF Contents
<1> QED
  BY <1>1, Prepended

\* Two fields behind a flag are equal if both are.
LEMMA FlagAndField ==
  ASSUME NEW x \in BOOLEAN, NEW a \in Seq(Contents), NEW b \in Seq(Contents), Len(a) = Len(b)
  PROVE  <<TRUE>> \o a = <<x>> \o b <=> x /\ a = b
<1> DEFINE s == <<TRUE>> \o a
           t == <<x>> \o b
<1>1. TRUE \in Contents /\ x \in Contents
  BY DEF Contents
<1>2. s[1] = TRUE /\ \A i \in 1..Len(a) : s[1 + i] = a[i]
  BY <1>1, Prepended
<1>3. t[1] = x /\ \A i \in 1..Len(b) : t[1 + i] = b[i]
  BY <1>1, Prepended
<1>4. ASSUME x, a = b PROVE s = t
  <2>1. x = TRUE
    BY <1>4
  <2> QED
    BY <1>4, <2>1
<1> HIDE DEF s, t
<1>5. ASSUME s = t PROVE x /\ a = b
  <2>1. x
    BY <1>2, <1>3, <1>5
  <2>2. \A i \in 1..Len(a) : a[i] = b[i]
    BY <1>2, <1>3, <1>5
  <2>3. a = b
    BY <2>2
  <2> QED
    BY <2>1, <2>3
<1>6. s = t <=> x /\ a = b
  BY <1>4, <1>5
<1> QED
  BY <1>6 DEF s, t

\* What ZeroMQ compares tells exactly what the subscriber wants.
LEMMA SubscriptionTells ==
  ASSUME msg \in ZB!Sendable, want \in ZB!Wanted, want.what \in {"all", msg.kind},
         wire = ZB!packed(msg), ~(msg.kind = "resp" /\ msg.imei = None)
  PROVE  ZB!IsPrefix(ZB!Subscription, wire) <=> ZB!Desired
<1>1. /\ msg.imei \in ZB!ImeiTexts \cup {None}
      /\ msg.kind \in {"bcast", "rept", "resp"}
      /\ msg.kind = "bcast" => msg \in Bcasts
  BY SendableIs
<1>2. /\ want.what \in {"all", "bcast", "rept"}
      /\ want.what = "bcast" => want.name \in ZB!Classes
      /\ want.what = "rept" => want.name \in ZB!ImeiTexts
  BY DEF ZB!Wanted
<1>3. Width \in Nat \ {0}
  BY FieldsAre
<1>4. CASE want.what = "all"
  <2>1. ZB!Subscription = <<>>
    BY <1>4 DEF ZB!Subscription, ZB!Everything
  <2>2. ZB!Desired
    BY <1>4 DEF ZB!Desired
  <2>3. Len(wire) \in Nat
    <3>1. CASE msg.kind = "bcast"
      BY <1>1, <3>1, BcastLayout
    <3>2. CASE msg.kind # "bcast"
      <4>1. wire = ZB!OrNone(msg.imei, "0")
        <5>1. msg.kind = "resp" => msg.imei # None
          OBVIOUS
        <5> QED
          BY <1>1, <3>2, <5>1 DEF ZB!packed, ZB!OrNone
      <4>2. msg.imei = None \/ msg.imei \in Seq(Chars)
        BY <1>1, ImeiType
      <4> QED
        BY <1>3, <4>1, <4>2, OrNoneType
    <3> QED
      BY <3>1, <3>2
  <2>4. Len(<<>>) <= Len(wire) /\ SubSeq(<<>>, 1, Len(<<>>)) = <<>> /\ SubSeq(wire, 1, Len(<<>>)) = <<>>
    BY <2>3
  <2> QED
    BY <2>1, <2>2, <2>4 DEF ZB!IsPrefix
<1>5. CASE want.what = "bcast"
  <2> DEFINE f == ZB!Field(msg.proto)
             g == ZB!Field(want.name)
             t == <<TRUE>> \o g
  <2>1. msg.kind = "bcast" /\ msg \in Bcasts /\ want.name \in ZB!Classes
    BY <1>1, <1>2, <1>5
  <2>2. /\ msg.proto \in ZB!ZxNames \cup ZB!BsNames /\ msg.is_incoming \in BOOLEAN
        /\ want.name \in ZB!ZxNames \cup ZB!BsNames
    BY <2>1 DEF Bcasts, ZB!Classes
  <2>3. f \in Seq(Chars \cup {ZB!NUL}) /\ Len(f) = Width /\ g \in Seq(Chars \cup {ZB!NUL}) /\ Len(g) = Width
    BY <2>2, NameType, FieldType
  <2>4. Chars \cup {ZB!NUL} \subseteq Contents /\ TRUE \in Contents
    BY DEF Contents
  <2>5. /\ Len(wire) = 3 * Width + 2
        /\ SubSeq(wire, 1, Width + 1) = <<msg.is_incoming>> \o f
    BY <2>1, BcastLayout
  <2>6. ZB!Subscription = t
    BY <1>5 DEF ZB!Subscription, ZB!topic
  <2>7. f = g <=> msg.proto = want.name
    BY <2>1, <2>2, ClassFields
  <2> HIDE DEF f, g
  <2>8. f \in Seq(Contents) /\ g \in Seq(Contents)
    BY <2>3, <2>4
  <2>9. t \in Seq(Contents) /\ Len(t) = Width + 1
    <3>1. t \in Seq(Contents) /\ Len(t) = Len(g) + 1
      BY <2>8, TopicType
    <3> QED
      BY <2>3, <3>1
  <2>10. t = <<msg.is_incoming>> \o f <=> msg.is_incoming /\ g = f
    BY <2>2, <2>3, <2>8, FlagAndField
  <2> HIDE DEF t
  <2>11. SubSeq(t, 1, Len(t)) = t /\ Len(t) <= Len(wire)
    BY <1>3, <2>5, <2>9
  <2>12. ZB!IsPrefix(t, wire) <=> t = <<msg.is_incoming>> \o f
    BY <2>5, <2>9, <2>11 DEF ZB!IsPrefix
  <2>13. ZB!Desired <=> msg.is_incoming /\ msg.proto = want.name
    BY <1>5 DEF ZB!Desired
  <2> QED
    BY <2>6, <2>7, <2>10, <2>12, <2>13
<1>6. CASE want.what = "rept"
  <2> DEFINE t == ZB!Field(want.name)
  <2>1. msg.kind = "rept" /\ want.name \in ZB!ImeiTexts
    BY <1>1, <1>2, <1>6
  <2>2. wire = ZB!OrNone(msg.imei, "0")
    BY <2>1 DEF ZB!packed
  <2>3. wire \in Seq(Contents) /\ Len(wire) = Width
    <3>1. msg.imei = None \/ msg.imei \in Seq(Chars)
      BY <1>1, ImeiType
    <3> QED
      BY <2>2, <3>1, OrNoneType
  <2>4. t \in Seq(Chars \cup {ZB!NUL}) /\ Len(t) = Width
    BY <2>1, ImeiType, FieldType
  <2>5. ZB!Subscription = t
    BY <1>6 DEF ZB!Subscription, ZB!rtopic
  <2>6. wire = t <=> (msg.imei = want.name \/ (msg.imei = None /\ want.name = ZB!Fill("0")))
    BY <1>1, <2>1, <2>2, ImeiFields
  <2> HIDE DEF t
  <2>7. SubSeq(t, 1, Len(t)) = t
    BY <2>4
  <2>8. SubSeq(wire, 1, Len(wire)) = wire
    BY <2>3
  <2>9. Len(t) = Len(wire) /\ Len(t) <= Len(wire)
    BY <1>3, <2>3, <2>4
  <2>10. ZB!IsPrefix(t, wire) <=> t = wire
    BY <2>7, <2>8, <2>9 DEF ZB!IsPrefix
  <2>11. ZB!Desired <=> (msg.imei = want.name \/ (msg.imei = None /\ want.name = ZB!Fill("0")))
    BY <1>6 DEF ZB!Desired
  <2> QED
    BY <2>5, <2>6, <2>10, <2>11
<1> QED
  BY <1>2, <1>4, <1>5, <1>6

-----------------------------------------------------------------------------
(* The bus                                                                 *)

\* What the receiver has is what was packed, if it starts with the subscription.
BusInv ==
  IF part # "bus" THEN pc = "send" ELSE
  /\ msg \in ZB!Sendable /\ want \in ZB!Wanted /\ want.what \in {"all", msg.kind}
  /\ pc \in {"sent", "got", "ignored", "broken"} =>
       wire = ZB!packed(msg) /\ ~(msg.kind = "resp" /\ msg.imei = None)
  /\ pc = "got" => ZB!IsPrefix(ZB!Subscription, wire) /\ got = ZB!decode(msg.kind, wire)
  /\ pc = "broken" => ZB!IsPrefix(ZB!Subscription, wire) /\ ZB!Undecodable(msg.kind, wire)
  /\ pc = "ignored" => ~ZB!IsPrefix(ZB!Subscription, wire)

\* The invariant of the bus holds at first.
LEMMA BusInitInv == TrafficInit => BusInv
BY DEF TrafficInit, BusInv, NoBus, ZB!Init

\* It is kept: nothing that was packed changes on the way.
LEMMA BusStepInv ==
  ASSUME BusInv, [TrafficNext]_all
  PROVE  BusInv'
<1>1. CASE UNCHANGED <<part, bus>>
  BY <1>1 DEF BusInv, bus, ZB!Subscription
<1>2. ASSUME part = "bus", part' = part, ZB!Send PROVE BusInv'
  BY <1>2 DEF BusInv, ZB!Send
<1>3. ASSUME part = "bus", part' = part, ZB!Deliver PROVE BusInv'
  BY <1>3 DEF BusInv, ZB!Deliver, ZB!Subscription
<1>4. ASSUME part = "bus", part' = part, ZB!Over PROVE BusInv'
  <2>1. UNCHANGED <<part, bus>>
    BY <1>4 DEF ZB!Over, ZB!vars, bus
  <2> QED
    BY <1>1, <2>1
<1> QED
  BY <1>1, <1>2, <1>3, <1>4
     DEF TrafficNext, FaultsStep, SoundStep, CommandStep, BusStep, Others, all, ZB!Next

\* For any alphabet, width and names, a subscriber gets the messages of the class and the
\* reports of the terminal that it asked for and no other, though ZeroMQ only compares the
\* first bytes (zmsg.py:95-104).
THEOREM SubscriptionsAreExact == TrafficSpec => []SubscriptionExact
<1>1. BusInv => SubscriptionExact
  BY SubscriptionTells DEF BusInv, SubscriptionExact, ZB!SubscriptionExact
<1> QED
  BY <1>1, BusInitInv, BusStepInv, PTL DEF TrafficSpec

\* A broadcast that cannot be decoded has a name that is cut inside a character.
LEMMA BrokenName ==
  ASSUME NEW m \in ZB!Sendable, ZB!Undecodable(m.kind, ZB!packed(m))
  PROVE  m.kind = "bcast" /\ Len(m.proto) > Width /\ m.proto[Width] = ZB!Lead
<1>1. m.kind = "bcast" /\ ~ZB!Whole(ZB!FieldAt(ZB!packed(m), 1))
  BY DEF ZB!Undecodable
<1>2. m \in Bcasts
  BY <1>1, SendableIs
<1>3. ZB!FieldAt(ZB!packed(m), 1) = ZB!Field(m.proto)
  BY <1>2, BcastLayout
<1>4. m.proto \in Seq(Chars) /\ ZB!Whole(m.proto)
  <2>1. m.proto \in ZB!ZxNames \cup ZB!BsNames
    BY <1>2 DEF Bcasts
  <2> QED
    BY <2>1, NameType
<1> QED
  BY <1>1, <1>3, <1>4, FieldEndsInside

\* A subscriber reads the terminal, the class, the protocol module and the address that
\* were packed, whichever of them are absent; it fails to only when a name, longer than its
\* field, has a character at the edge of it (zmsg.py:120-153).
THEOREM MessagesDecoded == TrafficSpec => []DecodedAsSent
<1>1. ASSUME BusInv, pc = "got" PROVE Read(msg, got)
  BY <1>1, DecodeReads DEF BusInv
<1>2. ASSUME BusInv, pc = "broken"
      PROVE  msg.kind = "bcast" /\ Len(msg.proto) > Width /\ msg.proto[Width] = ZB!Lead
  BY <1>2, BrokenName DEF BusInv
<1>3. BusInv => DecodedAsSent
  BY <1>1, <1>2 DEF DecodedAsSent, ZB!DecodedAsSent, Read
<1> QED
  BY <1>3, BusInitInv, BusStepInv, PTL DEF TrafficSpec

=============================================================================
