------------------------------- MODULE Streams -------------------------------
(***************************************************************************)
(* The three places where the program cuts a stream of bytes into pieces:  *)
(* the deframers of the two protocols, of which the collector gives one to *)
(* each connection (src/loctrkd/common.py:60), and the iterator over the   *)
(* lines of a download.  A behaviour is about one of them, named by part.  *)
(***************************************************************************)
EXTENDS Integers, Sequences, SequencesExt

CONSTANTS
  Packets, Junk, ZxBuffer, ZxItems,                \* of Zx303Stream
  Imeis, MaxData, BsBuffer, MaxSegment, BsItems,   \* of BeesureStream
  Bodies, N, MaxPiece                              \* of Unzipped

VARIABLES
  part,
  items, wire, stream, buffer, imei, datalen, pc, msgs, lost,   \* a deframer
  rest, decoder, outdata, line, yielded, body                   \* unzipped

deframer == <<items, wire, stream, buffer, imei, datalen, msgs, lost>>
unzipped == <<rest, decoder, outdata, line, yielded, body>>
vars == <<part, pc, deframer, unzipped>>

ZX == INSTANCE Zx303Stream WITH MAXBUFFER <- ZxBuffer, MaxItems <- ZxItems
BS == INSTANCE BeesureStream WITH MAXBUFFER <- BsBuffer, MaxItems <- BsItems
UZ == INSTANCE Unzipped

\* Packets fit the framing of zx303, and what is between them does not look like one.
ASSUME StreamsAssumption ==
  /\ \A p \in Packets : p \in Seq(Nat) /\ ZX!Framable(p)
  /\ \A j \in Junk : j \in Seq(Nat) /\ ZX!Skippable(j)
  /\ ZxBuffer \in Nat /\ ZxItems \in Nat
  /\ MaxData \in Nat /\ BsBuffer \in Nat /\ MaxSegment \in Nat /\ BsItems \in Nat
  /\ \A b \in Bodies : b \in Seq({"c", "\n"})
  /\ N \in Nat \ {0} /\ MaxPiece \in Nat

NoDeframer == items = <<>> /\ wire = <<>> /\ stream = FALSE /\ buffer = <<>> /\ msgs = <<>> /\ lost = {}
NoLength == imei = "None" /\ datalen = 0
NotUnzipped == /\ rest = <<>> /\ decoder = FALSE /\ outdata = <<>> /\ line = <<>>
               /\ yielded = <<>> /\ body = <<>>

Init ==
  \/ part = "zx303proto" /\ ZX!Init /\ NoLength /\ NotUnzipped
  \/ part = "beesure" /\ BS!Init /\ NotUnzipped
  \/ part = "unzipped" /\ UZ!Init /\ NoDeframer /\ NoLength

Zx303Step == part = "zx303proto" /\ ZX!Next /\ UNCHANGED <<part, imei, datalen, unzipped>>
BeesureStep == part = "beesure" /\ BS!Next /\ UNCHANGED <<part, unzipped>>
UnzippedStep == part = "unzipped" /\ UZ!Next /\ UNCHANGED <<part, deframer>>

Next == Zx303Step \/ BeesureStep \/ UnzippedStep

Spec == Init /\ [][Next]_vars

\* Inside recv and __next__ the process goes on; segments may or may not arrive.
InRecv == pc = "deframe" /\ (Zx303Step \/ BeesureStep)
FairSpec == Spec /\ WF_vars(InRecv) /\ WF_vars(UnzippedStep)

-----------------------------------------------------------------------------
\* However a stream is cut, as long as no segment was thrown away: the deframers return
\* what the terminal sent, unchanged and in order, and all of it once the stream is used
\* up.  Junk and frames too short cost no packet.
FramesSurviveSplits ==
  /\ part = "zx303proto" => ZX!FramesSurviveSplits
  /\ part = "beesure" => BS!FramesSurviveSplits

\* Between segments the datalen of beesure, when set, is the length in the header that the
\* buffer starts with, and the buffer holds less than that frame, as long as no data was
\* dropped at the limit of the buffer.
LengthIsOfBuffer == part = "beesure" => BS!LengthIsOfBuffer

\* The lines of a download are its bytes in their order, none lost or doubled before the
\* end, whatever pieces the compressed body comes in.
EveryByteInOrder == part = "unzipped" => UZ!EveryByteInOrder

\* Stream.recv returns and the iteration over a body ends: no loop goes round without
\* using up its input.
LoopsEnd ==
  /\ pc = "deframe" ~> pc = "idle"
  /\ part = "unzipped" ~> pc = "stop"

=============================================================================
