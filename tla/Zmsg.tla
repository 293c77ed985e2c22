------------------------------- MODULE Zmsg -------------------------------
(***************************************************************************)
(* The messages of src/loctrkd/zmsg.py on the bus: a record is packed into *)
(* fields of fixed width, ZeroMQ delivers it to a subscriber if it starts  *)
(* with the bytes of the subscription, and the subscriber unpacks it.      *)
(* Strings are the sequences of bytes that encode() makes of them.  A      *)
(* letter or digit is a byte of its own, any other character is Lead and   *)
(* Cont, the first byte and the rest of its utf-8.  Width stands for the   *)
(* 16 bytes of a field.  Time and packet, which are copied, are left out.  *)
(***************************************************************************)
EXTENDS Naturals, Sequences, FiniteSets, SequencesExt

CONSTANTS
  Width,     \* of a field
  Short,     \* length of the shorter kind of IMEI (10 digits; the other has 16)
  Letters,   \* of names of messages
  Digits,    \* of IMEIs, "0" among them
  Pmods,     \* names of protocol modules
  Addresses, \* of peers
  None

NUL == "NUL"
Space == "Space"
Lead == "Lead"
Cont == "Cont"
Words(S, n) == [1..n -> S]
Fill(c) == [k \in 1..Width |-> c]

\* decode() takes it: no character is without its end or its beginning.
Whole(s) ==
  \A k \in DOMAIN s : /\ s[k] = Lead => k + 1 \in DOMAIN s /\ s[k + 1] = Cont
                      /\ s[k] = Cont => k - 1 \in DOMAIN s /\ s[k - 1] = Lead

\* proto_of_message: zx303 cuts the name of a class, with its prefix, to Width; beesure
\* sends what the terminal calls it, any text of any length, behind its prefix.
ZxNames == {<<"Z">> \o w : w \in UNION {Words(Letters, n) : n \in 0..(Width - 1)}}
BsNames ==
  {p \in {<<"B">> \o w : w \in UNION {Words(Letters \cup {Lead, Cont}, n) : n \in 0..Width}} : Whole(p)}
ImeiTexts == Words(Digits, Short) \cup Words(Digits, Width)

\* An address of a client socket: of IPv4, of IPv6, and of IPv4 as an IPv6 socket has it.
Peers == [v : {"4", "6", "mapped"}, addr : Addresses]

Sendable ==
  [kind : {"bcast"}, is_incoming : BOOLEAN, proto : ZxNames \cup BsNames,
   imei : ImeiTexts \cup {None}, pmod : Pmods \cup {None}, peeraddr : Peers \cup {None}]
  \cup [kind : {"rept"}, imei : ImeiTexts \cup {None}]
  \cup [kind : {"resp"}, imei : ImeiTexts \cup {None}]

\* What a daemon asks for: everything, the messages of a class (all that have a report
\* have short names in beesure), or the reports of a terminal.
Everything == <<>>
Classes == ZxNames \cup {p \in BsNames : Len(p) < Width}
Wanted == [what : {"all"}, name : {Everything}]
          \cup [what : {"bcast"}, name : Classes] \cup [what : {"rept"}, name : ImeiTexts]

VARIABLES
  msg,    \* what is sent
  want,   \* what the receiver subscribes to
  wire,   \* what was packed
  got,    \* what the receiver decoded
  pc      \* "send", "sent", "got", "ignored"; "raised": not packed, "broken": not decoded

vars == <<msg, want, wire, got, pc>>

Init ==
  /\ msg \in Sendable
  /\ want \in {w \in Wanted : w.what \in {"all", msg.kind}}
  /\ wire = <<>> /\ got = None /\ pc = "send"

-----------------------------------------------------------------------------
\* pack("16s", s): cut, or filled with NULs.
Field(s) == [k \in 1..Width |-> IF k <= Len(s) THEN s[k] ELSE NUL]

\* s[:16]: as many bytes as belong to the first Width characters.
Begun(s, n) == Cardinality({k \in 1..n : s[k] # Cont})
Cut(s) == SubSeq(s, 1, Cardinality({n \in DOMAIN s : Begun(s, n) <= Width}))

\* Mutant: NULs are kept.
KeptField(f) == f

\* decode().strip("\0")
Stripped(f) ==
  LET kept == {k \in DOMAIN f : f[k] # NUL}
  IN IF kept = {} THEN <<>> ELSE SubSeq(f, Min(kept), Max(kept))

\* An absent value has a text of its own.
OrNone(s, c) == IF s = None THEN Fill(c) ELSE Field(s)
NoneOr(f, c) == IF f = Fill(c) THEN None ELSE Stripped(f)

pack_peer(peer) ==
  IF peer = None THEN [v |-> "::"] ELSE
  IF peer.v = "4" THEN [v |-> "mapped", addr |-> peer.addr] ELSE peer

\* None: ("", 0)
unpack_peer(a6) ==
  IF a6.v = "mapped" THEN [v |-> "4", addr |-> a6.addr] ELSE
  IF a6.v = "::" THEN None ELSE a6

\* The properties packed of Bcast, Rept and Resp.
packed(m) ==
  CASE m.kind = "bcast" -> <<m.is_incoming>> \o Field(Cut(m.proto)) \o OrNone(m.imei, "0")
                           \o OrNone(m.pmod, Space) \o <<pack_peer(m.peeraddr)>>
    [] m.kind = "rept"  -> OrNone(m.imei, "0")
    [] m.kind = "resp"  -> Field(m.imei)

\* The n-th field, behind the flag.
FieldAt(buffer, n) == SubSeq(buffer, (n - 1) * Width + 2, n * Width + 1)

\* decode() of a name raises UnicodeDecodeError: the field ends inside a character.
Undecodable(kind, buffer) == kind = "bcast" /\ ~Whole(FieldAt(buffer, 1))

\* The methods decode.
decode(kind, buffer) ==
  IF kind = "bcast"
    THEN [kind |-> kind, is_incoming |-> buffer[1], proto |-> Stripped(FieldAt(buffer, 1)),
          imei |-> NoneOr(FieldAt(buffer, 2), "0"), pmod |-> NoneOr(FieldAt(buffer, 3), Space),
          peeraddr |-> unpack_peer(buffer[3 * Width + 2])]
    ELSE [kind |-> kind, imei |-> NoneOr(buffer, "0")]

\* Mutant: the name is not filled up.
topic_unfilled(proto) == <<TRUE>> \o proto

topic(proto) == <<TRUE>> \o Field(proto)

rtopic(imei) == Field(imei)

Subscription ==
  CASE want.what = "all" -> Everything
    [] want.what = "bcast" -> topic(want.name)
    [] want.what = "rept" -> rtopic(want.name)

\* A response without IMEI cannot be packed: the text for it is not bytes.
Send ==
  /\ pc = "send"
  /\ IF msg.kind = "resp" /\ msg.imei = None
       THEN pc' = "raised" /\ UNCHANGED wire
       ELSE pc' = "sent" /\ wire' = packed(msg)
  /\ UNCHANGED <<msg, want, got>>

\* ZeroMQ compares the first bytes.
Deliver ==
  /\ pc = "sent"
  /\ CASE ~IsPrefix(Subscription, wire) -> pc' = "ignored" /\ UNCHANGED got
       [] IsPrefix(Subscription, wire) /\ Undecodable(msg.kind, wire) ->
            pc' = "broken" /\ UNCHANGED got
       [] OTHER -> pc' = "got" /\ got' = decode(msg.kind, wire)
  /\ UNCHANGED <<msg, want, wire>>

Over == pc \in {"got", "ignored", "raised", "broken"} /\ UNCHANGED vars

Next == Send \/ Deliver \/ Over

-----------------------------------------------------------------------------
Desired ==
  CASE want.what = "all" -> TRUE
    [] want.what = "bcast" -> msg.is_incoming /\ msg.proto = want.name
    [] want.what = "rept" -> \/ msg.imei = want.name
                             \/ msg.imei = None /\ want.name = Fill("0")

\* Though a subscription matches any message that begins with it, and one name or IMEI
\* may begin with another, a daemon gets the messages of the class and the reports of the
\* terminal it subscribes to, and no other.  (An IMEI of zeros stands for none.)
SubscriptionExact ==
  /\ pc \in {"got", "broken"} => Desired
  /\ pc = "ignored" => ~Desired

\* What arrives names the terminal, the class and the protocol module that were sent;
\* names are cut to Width bytes, and an IMEI of zeros means none.  A message arrives that
\* its receiver cannot decode only if the name is longer than the field and has one of
\* its characters at the edge.
DecodedAsSent ==
  /\ pc = "got" =>
       /\ got.imei = (IF msg.imei = Fill("0") THEN None ELSE msg.imei)
       /\ got.kind = "bcast" =>
            /\ got.is_incoming = msg.is_incoming /\ got.pmod = msg.pmod
            /\ got.proto = SubSeq(msg.proto, 1, IF Len(msg.proto) < Width THEN Len(msg.proto) ELSE Width)
            /\ pack_peer(got.peeraddr) = pack_peer(msg.peeraddr)
  /\ pc = "broken" =>
       msg.kind = "bcast" /\ Len(msg.proto) > Width /\ msg.proto[Width] = Lead

=============================================================================
