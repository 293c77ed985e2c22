----------------------------- MODULE MCMessages -----------------------------
(***************************************************************************)
(* Values of the constants of Traffic for TLC.                             *)
(***************************************************************************)
EXTENDS Traffic

-----------------------------------------------------------------------------
(* Messages and configurations of Responders                               *)

Msg(p, c, i, d, v, s) ==
  [pmod |-> p, class |-> c, imei |-> i, decodes |-> d, gps_valid |-> v, num_of_sats |-> s]
ZxMsg(c, i, d) == Msg("zx303proto", c, i, d, FALSE, 0)

\* Malformed ones and those of connections that have not logged in too, and beesure.
Mixed ==
  {m \in {ZxMsg(c, i, d) : c \in {ZX!STATUS, ZX!WIFI_POSITIONING, ZX!WIFI_OFFLINE_POSITIONING, ZX!SETUP},
                           i \in Imeis \cup {None}, d \in BOOLEAN} : m.decodes \/ m.class.strict}
  \cup {Msg("beesure", BS!UD, i, TRUE, v, s) : i \in Imeis, v \in BOOLEAN, s \in {3, 4}}
  \cup {Msg("beesure", BS!AL, i, TRUE, v, 3) : i \in Imeis, v \in BOOLEAN}

\* Every class, well-formed and of a terminal that has logged in.
Every ==
  {ZxMsg(c, i, TRUE) : c \in ZX!CLASSES, i \in Imeis}
  \cup {Msg("beesure", c, i, TRUE, TRUE, 0) : c \in BS!CLASSES, i \in Imeis}

\* debian/loctrkd.conf, and a section as the manual page has it, whose alarm times
\* termconfig does not take.
Sec(status, alarms, phones) ==
  [present |-> TRUE, statusintervalminutes |-> status, alarms |-> alarms, phonenumbers |-> phones]
Shipped == Sec(<<"number">>, <<"number", "number", "number">>, <<"quoted", "quoted", "quoted">>)
WithTimes == Sec(<<"number">>, <<"0hhmm", "number", "number">>, <<"quoted", "quoted", "quoted">>)

NoSections == [i \in Imeis |-> NoSection]
OwnSections == [i \in Imeis |-> Shipped]

-----------------------------------------------------------------------------
(* Command lines and web commands of Commands                              *)

\* The initial pieces of s, none of them included.
Starts(s) == {SubSeq(s, 1, n) : n \in 0..Len(s)}
Verbs(prefix, classes) ==
  {<<prefix>> \o v : v \in UNION {Starts(c.name) : c \in classes} \cup {<<"NOSUCH">>}}
CommandLines ==
  [verb : Verbs("BS:", BS!CLASSES) \cup Verbs("ZX:", ZX!CLASSES) \cup {<<"LOGIN">>},
   kwargs : BOOLEAN]
Buttons == [pmod : {"zx303proto", "beesure", "other"}, cmd : {"poweroff", "refresh", "message", "msg"}]

Configured == <<"zx303proto", "beesure">>
PmodTexts == {<<"a", "1">>}

=============================================================================
