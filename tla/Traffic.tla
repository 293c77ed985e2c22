------------------------------ MODULE Traffic ------------------------------
(***************************************************************************)
(* What is sent between the daemons and to the terminals.  A behaviour is  *)
(* about one of, named by part: "faults", Responders with malformed        *)
(* messages, failing lookups, terminals that have not logged in and        *)
(* daemons that are killed; "sound", Responders with messages that are as  *)
(* they should be, lookups that succeed, a configuration that termconfig   *)
(* takes and nobody killed; "command", Commands; "bus", Zmsg.              *)
(***************************************************************************)
EXTENDS Responders

CONSTANTS
  SoundMessages, SoundSection, SoundFallback, SoundSent,   \* of Responders, part "sound"
  pmods, Typed, Clicked,                                   \* of Commands
  Width, Short, Letters, Digits, Pmods, Addresses          \* of Zmsg

VARIABLES
  part,
  request, outcome, packet,    \* of Commands
  msg, want, wire, got, pc     \* of Zmsg

responders == vars
command == <<request, outcome, packet>>
bus == <<msg, want, wire, got, pc>>
all == <<part, responders, command, bus>>

Sound == INSTANCE Responders
           WITH Messages <- SoundMessages, Lookups <- {TRUE}, MaxSent <- SoundSent,
                Section <- SoundSection, Fallback <- SoundFallback, Killable <- {}
CM == INSTANCE Commands
ZB == INSTANCE Zmsg

\* IMEIs and names of protocol modules fit their fields, no letter or digit is the filler
\* or part of another character, and None is none of them; something is typed.
ASSUME TrafficAssumption ==
  /\ Width \in Nat \ {0} /\ Short \in 0..Width
  /\ {ZB!NUL, ZB!Space, ZB!Lead, ZB!Cont} \cap (Letters \cup Digits) = {}
  /\ \A p \in Pmods : p \in Seq(Letters \cup Digits) /\ Len(p) <= Width
  /\ None \notin ZB!ImeiTexts \cup Pmods \cup ZB!Peers
  /\ \A t \in Typed : t.verb \in Seq(STRING) /\ t.verb # <<>>

NoCommand == request = None /\ outcome = "wait" /\ packet = None
NoBus == msg = None /\ want = None /\ wire = <<>> /\ got = None /\ pc = "send"

TrafficInit ==
  /\ Init
  /\ \/ part \in {"faults", "sound"} /\ NoCommand /\ NoBus
     \/ part = "command" /\ CM!Init /\ NoBus
     \/ part = "bus" /\ NoCommand /\ ZB!Init

Others == UNCHANGED <<part, command, bus>>
FaultsStep == part = "faults" /\ Next /\ Others
SoundStep == part = "sound" /\ Sound!Next /\ Others
CommandStep == part = "command" /\ CM!Next /\ UNCHANGED <<part, responders, bus>>
BusStep == part = "bus" /\ ZB!Next /\ UNCHANGED <<part, responders, command>>

TrafficNext == FaultsStep \/ SoundStep \/ CommandStep \/ BusStep

TrafficSpec == TrafficInit /\ [][TrafficNext]_all

\* The daemons and the collector run whenever they have something to do.
FairSpec ==
  /\ TrafficSpec
  /\ WF_all(part = "sound" /\ Sound!TakeZpull /\ Others)
  /\ WF_all(part = "sound" /\ Sound!Rectifier /\ Others)
  /\ WF_all(part = "sound" /\ Sound!Termconfig /\ Others)

-----------------------------------------------------------------------------
\* Every message of a kind that needs a response gets one, lost only if the terminal is
\* not connected when it is relayed ("subscribes to messages that need nontrivial
\* response [...] and sends responses to the collector for relaying to the terminal",
\* README.md:45-48), if all messages are well-formed, lookups succeed and termconfig has
\* values it takes.
EveryRequestAnswered ==
  \A n \in 1..SoundSent : part = "sound" /\ Sound!Asked(n) ~> Sound!Answered(n)

\* No other command is sent than the one typed: it is named in full, or it is the only
\* one of that protocol that starts so.
SentIsMeant == part = "command" => CM!SentIsMeant

\* Though a subscription matches any message that begins with it, and one name or IMEI
\* may begin with another, a daemon gets the messages of the class and the reports of the
\* terminal it subscribes to, and no other.
SubscriptionExact == ZB!SubscriptionExact

\* What arrives names the terminal, the class and the protocol module that were sent;
\* it cannot be decoded only if it has a name that the field cuts inside a character.
DecodedAsSent == ZB!DecodedAsSent

=============================================================================
