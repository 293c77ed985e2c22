---------------------------- MODULE Responders ----------------------------
(***************************************************************************)
(* Who answers a terminal's message: the collector at once, or one of the  *)
(* daemons that subscribe to its broadcasts and push responses back to it, *)
(* rectifier (src/loctrkd/rectifier.py) and termconfig                     *)
(* (src/loctrkd/termconfig.py).  Each takes one message at a time from its *)
(* SUB socket; an exception, or a kill at any moment, ends the daemon,     *)
(* what waits in its socket is lost, and systemd starts it again.  The     *)
(* collector itself is modelled in Collector; here it receives,            *)
(* broadcasts, answers inline and relays.                                  *)
(***************************************************************************)
EXTENDS Naturals, Sequences, FiniteSets, SequencesExt

ZX == INSTANCE Zx303Proto
BS == INSTANCE BeesureProto

CONSTANTS
  Imeis,      \* terminals
  None,       \* no IMEI: the connection has not logged in
  Messages,   \* what terminals send: [pmod, class, imei, decodes,
              \* gps_valid, num_of_sats] records
  Lookups,    \* outcomes of qry.lookup: a subset of BOOLEAN
  Section,    \* the section of the configuration for each IMEI, see below
  Fallback,   \* the section [termconfig]
  Killable,   \* daemons that may be killed: a subset of Daemons
  MaxSent     \* bound: messages sent

Daemons == {"rectifier", "termconfig"}

\* A section of the configuration file: the lines of the values that termconfig uses.
\* A line is "number" (int(el, 0) takes it), "big" (a number that does not fit the
\* field), "0hhmm" (a time, digits with a leading zero: int(el, 0) refuses them, int
\* takes them and they do not fit a byte), "quoted" or "empty".
\* NoSection: the file does not have the section.
NoSection == [present |-> FALSE]
Keys == {"statusintervalminutes", "alarms", "phonenumbers"}

ASSUME RespondersAssumption ==
  /\ None \notin Imeis
  /\ Lookups \subseteq BOOLEAN /\ Lookups # {}
  /\ \A m \in Messages : /\ m.imei \in Imeis \cup {None}
                         /\ m.class \in (IF m.pmod = "zx303proto" THEN ZX!CLASSES ELSE BS!CLASSES)
                         /\ m.decodes \/ m.class.strict

VARIABLES
  online,    \* IMEIs with a connection that has logged in: Clients.by_imei
  zsub,      \* SUB queue of each daemon: indices into sent
  up,        \* daemons that run
  zpull,     \* responses pushed to the collector
  sent,      \* history: the messages received from terminals
  answers,   \* history: responses sent to terminals, or gone for want of a connection
  reports,   \* history: reports published by the rectifier
  telling,   \* the message that the rectifier has looked up, and pushed the response
             \* to, and has not reported yet: none or one
  cut        \* history: messages that were in telling when the rectifier ended

rectvars == <<telling, cut>>
vars == <<online, zsub, up, zpull, sent, answers, reports, telling, cut>>

Init ==
  /\ online = Imeis /\ up = Daemons
  /\ zsub = [d \in Daemons |-> <<>>] /\ zpull = <<>>
  /\ sent = <<>> /\ answers = <<>> /\ reports = <<>>
  /\ telling = {} /\ cut = {}

Zx(m) == m.pmod = "zx303proto"

\* Mutant: termconfig does not ask for SETUP.
SubscribedLess(d, m) ==
  IF d = "rectifier"
    THEN m.class \in (IF Zx(m) THEN ZX!Exposed ELSE BS!Exposed)
    ELSE m.class \in {ZX!STATUS, ZX!POSITION_UPLOAD_INTERVAL}

\* topic(proto): rectifier subscribes to exposed_protos() of every protocol module,
\* termconfig to three of zx303.
Subscribed(d, m) ==
  IF d = "rectifier"
    THEN m.class \in (IF Zx(m) THEN ZX!Exposed ELSE BS!Exposed)
    ELSE m.class \in {ZX!STATUS, ZX!SETUP, ZX!POSITION_UPLOAD_INTERVAL}

Inline(m) == IF Zx(m) THEN ZX!Inline(m.class.PROTO) ELSE BS!Inline(m.class.name)

\* Clients.response: a response goes to the terminal if it is connected.
Relay(resp) == answers' = Append(answers, [resp EXCEPT !.gone = resp.imei \notin online])
Resp(imei, n, class) == [imei |-> imei, to |-> n, class |-> class, gone |-> FALSE]

Goodbye(m) == Zx(m) /\ ZX!is_goodbye_packet(m.class.PROTO)

\* The collector receives message m, broadcasts it, drops the connection if the terminal
\* goes to sleep, and answers it if it is one that is answered inline.
Receive(m) ==
  LET n == Len(sent) + 1 IN
  /\ n <= MaxSent
  /\ m.imei = None \/ m.imei \in online
  /\ sent' = Append(sent, m)
  /\ zsub' = [d \in Daemons |-> IF d \in up /\ Subscribed(d, m)
                                  THEN Append(zsub[d], n) ELSE zsub[d]]
  /\ IF Inline(m) THEN Relay(Resp(m.imei, n, m.class))
                  ELSE UNCHANGED answers
  /\ online' = IF Goodbye(m) THEN online \ {m.imei} ELSE online
  /\ UNCHANGED <<up, zpull, reports, rectvars>>

\* The collector takes a response from its PULL socket.
TakeZpull ==
  /\ zpull # <<>>
  /\ zpull' = Tail(zpull)
  /\ Relay(Head(zpull))
  /\ UNCHANGED <<online, zsub, up, sent, reports, rectvars>>

Offline(i) ==
  /\ i \in online /\ online' = online \ {i}
  /\ UNCHANGED <<zsub, up, zpull, sent, answers, reports, rectvars>>

Login(i) ==
  /\ i \notin online /\ online' = online \cup {i}
  /\ UNCHANGED <<zsub, up, zpull, sent, answers, reports, rectvars>>

-----------------------------------------------------------------------------
\* Daemon d ends: what waits in its socket is lost, and so is the turn it is in.
Dies(d) ==
  /\ up' = up \ {d}
  /\ zsub' = [zsub EXCEPT ![d] = <<>>]
  /\ IF d = "rectifier" THEN telling' = {} /\ cut' = cut \cup telling
                        ELSE UNCHANGED rectvars
  /\ UNCHANGED <<zpull, reports>>

Killed(d) ==
  /\ d \in up \cap Killable
  /\ Dies(d)
  /\ UNCHANGED <<online, sent, answers>>

Restart(d) ==
  /\ d \notin up /\ up' = up \cup {d}
  /\ UNCHANGED <<online, zsub, zpull, sent, answers, reports, rectvars>>

\* Resp.packed raises for a response to nobody.
Packs(m) == m.imei # None

Push(n, class) == zpull' = Append(zpull, Resp(sent[n].imei, n, class))
Publish(n, kind) == reports' = Append(reports, [of |-> n, kind |-> kind])

Parsed(m) ==
  IF Zx(m) THEN ZX!parse_message(m.class.PROTO, m.decodes)
           ELSE BS!parse_message(m.class.name, m.decodes)

\* msg.rectified(); "none": the message has no such method.
rectified(m) ==
  IF Zx(m) THEN Parsed(m).rectified
  ELSE IF ~Parsed(m).loc THEN "none"
  ELSE BS!rectified(m.gps_valid, m.num_of_sats)

\* proto_needanswer
NeedsAnswer(m) == m.class \in (IF Zx(m) THEN ZX!NeedAnswer ELSE BS!NeedAnswer)

Alive(d) ==
  /\ up' = up
  /\ zsub' = [zsub EXCEPT ![d] = Tail(@)]

\* Mutant: what could not be looked up is tried again after the other messages.
ApproximateRetry(n) ==
  /\ \E found \in Lookups :
       /\ zsub' = [zsub EXCEPT !["rectifier"] = IF found THEN Tail(@) ELSE Append(Tail(@), n)]
       /\ IF ~found \/ (NeedsAnswer(sent[n]) /\ ~Packs(sent[n]))
            THEN UNCHANGED <<zpull, telling>>
            ELSE /\ IF NeedsAnswer(sent[n]) THEN Push(n, sent[n].class) ELSE UNCHANGED zpull
                 /\ telling' = {n}
  /\ UNCHANGED <<up, reports, cut>>

\* Mutant: only the response is left out when it cannot be packed.
ApproximateReports(n) ==
  /\ Alive("rectifier")
  /\ \E found \in Lookups :
       IF ~found
         THEN UNCHANGED <<zpull, telling>>
         ELSE /\ IF NeedsAnswer(sent[n]) /\ Packs(sent[n])
                   THEN Push(n, sent[n].class) ELSE UNCHANGED zpull
              /\ telling' = {n}
  /\ UNCHANGED <<reports, cut>>

\* The rectifier's turn for an approximate location, up to the report.  lookup may fail,
\* which is logged; so is a response that cannot be packed, and then there is no report
\* either.
Approximate(n) ==
  /\ Alive("rectifier")
  /\ \E found \in Lookups :
       IF ~found \/ (NeedsAnswer(sent[n]) /\ ~Packs(sent[n]))
         THEN UNCHANGED <<zpull, telling>>
         ELSE /\ IF NeedsAnswer(sent[n]) THEN Push(n, sent[n].class) ELSE UNCHANGED zpull
              /\ telling' = {n}
  /\ UNCHANGED <<reports, cut>>

\* Mutant: the rectifier answers everything that needs an answer.
RectifyAndAnswer(n) ==
  CASE rectified(sent[n]) = "none" -> Dies("rectifier")
    [] rectified(sent[n]) = "hint" -> Approximate(n)
    [] rectified(sent[n]) = "coord" ->
         Alive("rectifier") /\ Publish(n, "location") /\ UNCHANGED <<zpull, rectvars>>
    [] rectified(sent[n]) = "status" ->
         /\ Alive("rectifier") /\ Push(n, sent[n].class) /\ Publish(n, "status")
         /\ UNCHANGED rectvars

\* What the rectifier does with message n.
Rectify(n) ==
  CASE rectified(sent[n]) = "none" -> Dies("rectifier")
    [] rectified(sent[n]) = "hint" -> Approximate(n)
    [] rectified(sent[n]) = "coord" ->
         Alive("rectifier") /\ Publish(n, "location") /\ UNCHANGED <<zpull, rectvars>>
    [] rectified(sent[n]) = "status" ->
         Alive("rectifier") /\ Publish(n, "status") /\ UNCHANGED <<zpull, rectvars>>

\* The rest of the turn: the report of an approximate location.
Tell(n) ==
  /\ Publish(n, "location") /\ telling' = {}
  /\ UNCHANGED <<zsub, up, zpull, cut>>

\* One step of the rectifier's loop.
Rectifier ==
  /\ "rectifier" \in up
  /\ \/ telling = {} /\ zsub["rectifier"] # <<>> /\ Rectify(Head(zsub["rectifier"]))
     \/ \E n \in telling : Tell(n)
  /\ UNCHANGED <<online, sent, answers>>

-----------------------------------------------------------------------------
\* The section that runserver of termconfig takes for IMEI i; without any, no values.
SectionOf(i) ==
  IF i # None /\ Section[i].present THEN Section[i] ELSE Fallback

Lines(s, key) == IF s.present THEN s[key] ELSE <<>>
IsInt(line) == line \in {"number", "big"}

\* normconf raises when the lines of one value are not all numbers or all strings, and
\* at an empty one (el[0]).
Normconf(s) ==
  \A key \in Keys : \/ \A i \in DOMAIN Lines(s, key) : IsInt(Lines(s, key)[i])
                    \/ \A i \in DOMAIN Lines(s, key) :
                         ~IsInt(Lines(s, key)[i]) /\ Lines(s, key)[i] # "empty"

\* The values msg.Out takes and packs: STATUS a number of one byte; SETUP three numbers
\* for alarms and three strings for phonenumbers.  A value that is absent has a default.
OutPacks(class, s) ==
  CASE class = ZX!STATUS ->
         Lines(s, "statusintervalminutes") \in {<<>>, <<"number">>}
    [] class = ZX!SETUP ->
         /\ Lines(s, "alarms") \in {<<>>, <<"number", "number", "number">>}
         /\ \/ Lines(s, "phonenumbers") = <<>>
            \/ /\ Len(Lines(s, "phonenumbers")) = 3
               /\ \A i \in 1..3 : ~IsInt(Lines(s, "phonenumbers")[i])
    [] OTHER -> class.sends

\* One turn of termconfig's loop: the configuration is read, the answer built and pushed.
Termconfig ==
  /\ "termconfig" \in up /\ zsub["termconfig"] # <<>>
  /\ LET n == Head(zsub["termconfig"])
         s == SectionOf(sent[n].imei)
     IN IF Normconf(s) /\ OutPacks(Parsed(sent[n]), s) /\ Packs(sent[n])
          THEN /\ Alive("termconfig") /\ Push(n, Parsed(sent[n]))
               /\ UNCHANGED <<reports, rectvars>>
          ELSE Dies("termconfig")
  /\ UNCHANGED <<online, sent, answers>>

Next ==
  \/ \E m \in Messages : Receive(m)
  \/ TakeZpull \/ Rectifier \/ Termconfig
  \/ \E d \in Daemons : Restart(d) \/ Killed(d)
  \/ \E i \in Imeis : Offline(i) \/ Login(i)

Spec == Init /\ [][Next]_vars

-----------------------------------------------------------------------------
Responses == answers \o zpull
Ids(s) == [k \in DOMAIN s |-> s[k].of]
Increasing(s) == \A j, k \in DOMAIN s : j < k => s[j] < s[k]

\* Three programs may answer a message.  Whatever they, crashes and reconnections do, no
\* message is answered twice, an answer is for a message that has one, is of its kind,
\* and goes to the terminal that sent it.
AnsweredOnce ==
  /\ \A j, k \in DOMAIN Responses : Responses[j].to = Responses[k].to => j = k
  /\ \A k \in DOMAIN Responses : LET m == sent[Responses[k].to] IN
       /\ m.class = Responses[k].class /\ m.imei = Responses[k].imei
       /\ m.class.RESPOND # "NON"

\* The reports of a terminal are published once each, in the order of its messages,
\* though some of them wait for a lookup; a status is reported as such.
ReportsInOrder ==
  /\ Increasing(Ids(reports))
  /\ \A k \in DOMAIN reports :
       (reports[k].kind = "status") <=> (sent[reports[k].of].class = ZX!STATUS)

\* The subscribers are told an approximate location only after the response of the
\* terminal that waits for it was pushed; and when it was, they are told too, unless the
\* rectifier is killed before it gets to that.
ToldAlike ==
  \A n \in DOMAIN sent : sent[n].class = ZX!WIFI_POSITIONING =>
    LET responded == \E k \in DOMAIN Responses : Responses[k].to = n
        reported == \E k \in DOMAIN reports : reports[k].of = n
    IN (reported => responded) /\ (responded => reported \/ n \in telling \cup cut)

Asked(n) ==
  /\ n \in DOMAIN sent
  /\ sent[n].class.RESPOND # "NON" /\ sent[n].imei # None /\ sent[n].decodes
Answered(n) == \E k \in DOMAIN answers : answers[k].to = n

=============================================================================
