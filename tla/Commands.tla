----------------------------- MODULE Commands -----------------------------
(***************************************************************************)
(* How a command for a terminal is chosen: on the command line             *)
(* (src/loctrkd/__main__.py) by an abbreviation of a class name after the  *)
(* prefix of a protocol module, "BS:" or "ZX:", and in the web gateway     *)
(* (sendcmd, src/loctrkd/wsgateway.py) by a word that the protocol module  *)
(* of the terminal knows.  src/loctrkd/common.py finds the module.         *)
(***************************************************************************)
EXTENDS Naturals, Sequences, SequencesExt

ZX == INSTANCE Zx303Proto
BS == INSTANCE BeesureProto

CONSTANTS
  pmods,    \* the protocol modules configured, in order, of {"zx303proto", "beesure"}
  Typed,    \* what follows loctrkd IMEI: prefix and pieces of a name; whether the
            \* key=value pairs that follow are ones that Out takes
  Clicked   \* what a browser sends: the terminal's protocol module and a word

VARIABLES
  request,   \* what is typed or clicked
  outcome,   \* "wait", "error" (nothing is sent), or "sent"
  packet     \* the class of the packet pushed to the collector

vars == <<request, outcome, packet>>

Nothing == [name |-> <<>>]

Init ==
  /\ request \in [typed : {TRUE}, what : Typed] \cup [typed : {FALSE}, what : Clicked]
  /\ outcome = "wait" /\ packet = Nothing

CLASSES(pmod) == IF pmod = "beesure" THEN BS!CLASSES ELSE ZX!CLASSES
Prefix(pmod) == IF pmod = "beesure" THEN BS!PROTO_PREFIX ELSE ZX!PROTO_PREFIX

\* pmod_for_proto, pmod_by_name: at most one module is found.
pmod_for_proto(proto) == {p \in ToSet(pmods) : Prefix(p) = proto[1]}
pmod_by_name(name) == {p \in ToSet(pmods) : p = name}

ByPrefix(pmod, verb) ==
  IF pmod = "beesure" THEN BS!class_by_prefix(verb) ELSE ZX!class_by_prefix(verb)

Refuse == outcome' = "error" /\ UNCHANGED packet
Send(class) == outcome' = "sent" /\ packet' = class

\* Mutant: the first class that starts so is taken.
mainFirst ==
  /\ outcome = "wait" /\ request.typed
  /\ LET found == UNION {ByPrefix(p, request.what.verb) : p \in pmod_for_proto(request.what.verb)}
     IN IF found = {} \/ ~request.what.kwargs THEN Refuse ELSE \E c \in found : Send(c)
  /\ UNCHANGED request

\* main of __main__.py: no protocol, no single class, wrong arguments or a class that
\* cannot be packed raise before anything is sent.
main ==
  /\ outcome = "wait" /\ request.typed
  /\ LET found == UNION {ByPrefix(p, request.what.verb) : p \in pmod_for_proto(request.what.verb)}
     IN IF \E c \in found : found = {c} /\ c.sends /\ request.what.kwargs
          THEN \E c \in found : Send(c)
          ELSE Refuse
  /\ UNCHANGED request

make_response(pmodname, cmd) ==
  UNION {IF p = "beesure" THEN BS!make_response(cmd) ELSE ZX!make_response(cmd) :
         p \in pmod_by_name(pmodname)}

\* sendcmd, for a terminal whose protocol module is known.
sendcmd ==
  /\ outcome = "wait" /\ ~request.typed
  /\ LET made == make_response(request.what.pmod, request.what.cmd)
     IN IF made = {} THEN Refuse ELSE \E c \in made : Send(c)
  /\ UNCHANGED request

Done == outcome # "wait" /\ UNCHANGED vars

Next == main \/ sendcmd \/ Done

-----------------------------------------------------------------------------
\* The name that is typed, and the classes it may stand for.
Verb == Tail(request.what.verb)
Meant == {c \in UNION {CLASSES(p) : p \in pmod_for_proto(request.what.verb)} : IsPrefix(Verb, c.name)}

\* No other command is sent than the one typed: it is named in full, or it is the only
\* one of that protocol that starts so.
SentIsMeant ==
  outcome = "sent" /\ request.typed =>
    packet \in Meant /\ (packet.name = Verb \/ Meant = {packet})

=============================================================================
