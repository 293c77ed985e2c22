--------------------------- MODULE BeesureProto ---------------------------
(***************************************************************************)
(* The messages of src/loctrkd/beesure.py, a class each, and the functions *)
(* that the daemons call on them.  Of a class the model keeps its name,    *)
(* who answers it and whether it carries a location (_LOC_DATA).  Names    *)
(* are cut into the pieces in which they differ from one another.          *)
(***************************************************************************)
EXTENDS Naturals, Sequences, SequencesExt

NON == "NON"
INL == "INL"

\* BeeSurePkt and _LOC_DATA.  Only the latter's in_decode refuses payloads; Out() can
\* always be packed.
Pkt(name, respond, loc) ==
  [name |-> name, RESPOND |-> respond, loc |-> loc, strict |-> loc, sends |-> TRUE]

BeeSurePkt == Pkt(<<"B", "EESUREPKT">>, NON, FALSE)
UNKNOWN == Pkt(<<"U", "NKNOWN">>, NON, FALSE)
AL == Pkt(<<"AL">>, INL, TRUE)
CALL == Pkt(<<"C", "ALL">>, NON, FALSE)
CENTER == Pkt(<<"C", "ENTER">>, NON, FALSE)
CONFIG == Pkt(<<"C", "ONFIG">>, NON, FALSE)
CR == Pkt(<<"C", "R">>, NON, FALSE)
FIND == Pkt(<<"F", "IND">>, NON, FALSE)
FLOWER == Pkt(<<"F", "LOWER">>, NON, FALSE)
ICCID == Pkt(<<"ICCID">>, NON, FALSE)
LK == Pkt(<<"L", "K">>, INL, FALSE)
LZ == Pkt(<<"L", "Z">>, NON, FALSE)
MESSAGE == Pkt(<<"M", "ESSAGE">>, NON, FALSE)
MONITOR == Pkt(<<"M", "ONITOR">>, NON, FALSE)
PHB == Pkt(<<"P", "HB">>, NON, FALSE)
PHB2 == Pkt(<<"P", "HB", "2">>, NON, FALSE)
POWEROFF == Pkt(<<"P", "OWEROFF">>, NON, FALSE)
RESET == Pkt(<<"RESET">>, NON, FALSE)
SOS == Pkt(<<"SOS">>, NON, FALSE)
SOS1 == Pkt(<<"SOS", "1">>, NON, FALSE)
SOS2 == Pkt(<<"SOS", "2">>, NON, FALSE)
SOS3 == Pkt(<<"SOS", "3">>, NON, FALSE)
TK == Pkt(<<"TK">>, INL, FALSE)
TKQ == Pkt(<<"TK", "Q">>, INL, FALSE)
TKQ2 == Pkt(<<"TK", "Q", "2">>, INL, FALSE)
UD == Pkt(<<"U", "D">>, NON, TRUE)
UD2 == Pkt(<<"U", "D", "2">>, NON, TRUE)
UPLOAD == Pkt(<<"U", "PLOAD">>, NON, FALSE)

\* CLASSES: every class whose name has no leading underscore, BeeSurePkt itself
\* included.
CLASSES ==
  {BeeSurePkt, UNKNOWN, AL, CALL, CENTER, CONFIG, CR, FIND, FLOWER, ICCID, LK,
   LZ, MESSAGE, MONITOR, PHB, PHB2, POWEROFF, RESET, SOS, SOS1, SOS2, SOS3, TK,
   TKQ, TKQ2, UD, UD2, UPLOAD}

PROTO_PREFIX == "BS:"

\* The class of a packet whose data starts with name.
ClassOf(name) ==
  IF \E c \in CLASSES : c.name = name
    THEN CHOOSE c \in CLASSES : c.name = name
    ELSE UNKNOWN

\* parse_message of a packet that decodes or not.  Bad data becomes an UNKNOWN.  (Location
\* data with too few elements raises an AttributeError out of parse_message; callers that
\* ask an UNKNOWN for its location meet the same exception one line later.)
parse_message(name, decodes) ==
  IF decodes \/ ~ClassOf(name).strict THEN ClassOf(name) ELSE UNKNOWN

\* inline_response
Inline(name) == ClassOf(name).RESPOND = INL

\* _LOC_DATA.rectified: coordinates, if there is a fix or enough satellites; else a hint.
rectified(gps_valid, num_of_sats) == IF gps_valid \/ num_of_sats > 3 THEN "coord" ELSE "hint"

\* exposed_protos; none of them needs an answer of the rectifier.
Exposed == {c \in CLASSES : c.loc}
NeedAnswer == {}

\* class_by_prefix: the classes whose names start with what follows PROTO_PREFIX, or the
\* one of exactly that name.
class_by_prefix(prefix) ==
  LET pname == Tail(prefix)
      lst == {c \in CLASSES : IsPrefix(pname, c.name)}
  IN IF \E c \in lst : c.name = pname THEN {c \in lst : c.name = pname} ELSE lst

\* make_response
make_response(cmd) ==
  CASE cmd = "poweroff" -> {POWEROFF}
    [] cmd = "refresh" -> {MONITOR}
    [] cmd = "message" -> {MESSAGE}
    [] OTHER -> {}

=============================================================================
