--------------------------- MODULE BeesureStream ---------------------------
(***************************************************************************)
(* The deframer of the beesure protocol: _framestart, class Stream,        *)
(* probe_buffer and enframe of src/loctrkd/beesure.py, as Client.recv of   *)
(* src/loctrkd/collector.py drives them over one TCP connection.           *)
(*                                                                         *)
(* The twenty bytes of a header, "[VV*IMEI*LEN*", are two symbols: one     *)
(* that is not a header yet and one that completes it and holds IMEI and   *)
(* LEN, so that a segment may end inside a header.  Every 21 of the code   *)
(* is Overhead here.  Error messages, which are only logged, are left out. *)
(***************************************************************************)
EXTENDS Naturals, Sequences, SequencesExt

CONSTANTS
  Imeis,       \* the ten digits of a header
  MaxData,     \* the largest data length (65535)
  MAXBUFFER,   \* 65557: one more than the largest frame
  MaxSegment,  \* what sock.recv is asked for (4096)
  MaxItems     \* bound: frames and pieces of junk in a stream

Overhead == 3

\* Symbols; all are tuples so that they can be compared.
Open   == <<"[">>
End    == <<"]">>
Datum  == <<"d">>
Header(imei, n) == <<"*", imei, n>>

Frame(imei, data, end) == <<Open, Header(imei, Len(data))>> \o data \o <<end>>

Data == UNION {[1..n -> {Datum, End}] : n \in 0..MaxData}
Frames == {Frame(i, d, End) : i \in Imeis, d \in Data}
\* A frame that does not end where its header says, and bytes between frames.
Broken == {Frame(i, <<Datum>>, Datum) : i \in Imeis} \cup {<<Datum>>, <<Open>>, <<End, Open>>}

VARIABLES
  items,     \* history: what the terminal sends, frames and broken data
  wire,      \* symbols not yet received
  stream,    \* Client.stream is not None
  buffer, imei, datalen,   \* of Stream
  pc,        \* "idle", "deframe" (in the loop of Stream.recv), "closed"
  msgs,      \* history: frames returned
  lost       \* history: why symbols were thrown away, of {"probe", "overflow"}

vars == <<items, wire, stream, buffer, imei, datalen, pc, msgs, lost>>

None == "None"

Init ==
  /\ items \in UNION {[1..n -> Frames \cup Broken] : n \in 1..MaxItems}
  /\ wire = FlattenSeq(items)
  /\ stream = FALSE /\ buffer = <<>> /\ imei = None /\ datalen = 0
  /\ pc = "idle" /\ msgs = <<>> /\ lost = {}

Segment(n) == SubSeq(wire, 1, n)
Past(s, n) == SubSeq(s, n + 1, Len(s))

\* _framestart: where headers start in b, and the IMEI and LEN of the one at i.
Starts(b) == {i \in 1..(Len(b) - 1) : b[i] = Open /\ b[i + 1][1] = "*"}
First(b) == CHOOSE i \in Starts(b) : \A j \in Starts(b) : i <= j
ImeiAt(b, i) == b[i + 1][2]
LenAt(b, i) == b[i + 1][3]

probe_buffer(seg) == Starts(seg) # {}

\* Client.recv drops a first segment that no protocol module recognises.
Probe(n) ==
  /\ pc = "idle" /\ ~stream /\ ~probe_buffer(Segment(n))
  /\ wire' = Past(wire, n)
  /\ lost' = lost \cup {"probe"}
  /\ UNCHANGED <<items, stream, buffer, imei, datalen, pc, msgs>>

\* Stream.recv up to its loop.  Too much data is dropped; datalen is kept.
Recv(n) ==
  /\ pc = "idle" /\ (stream \/ probe_buffer(Segment(n)))
  /\ stream' = TRUE
  /\ wire' = Past(wire, n)
  /\ IF Len(buffer) + n > MAXBUFFER
       THEN buffer' = <<>> /\ lost' = lost \cup {"overflow"} /\ UNCHANGED pc
       ELSE buffer' = buffer \o Segment(n) /\ pc' = "deframe" /\ UNCHANGED lost
  /\ UNCHANGED <<items, imei, datalen, msgs>>

\* No start of a packet: break.
NoStart ==
  /\ pc = "deframe" /\ datalen = 0 /\ Starts(buffer) = {}
  /\ pc' = "idle"
  /\ UNCHANGED <<items, wire, stream, buffer, imei, datalen, msgs, lost>>

\* Mutant: the packet is not taken off the buffer.
CutNothing(b, n) ==
  /\ pc' = pc
  /\ buffer' = b
  /\ datalen' = 0
  /\ msgs' = msgs

\* A complete packet is cut off; without its "]" it is reported and dropped.
Cut(b, n) ==
  /\ pc' = pc
  /\ buffer' = Past(b, n + Overhead)
  /\ datalen' = 0
  /\ msgs' = IF b[n + Overhead] = End THEN Append(msgs, SubSeq(b, 1, n + Overhead)) ELSE msgs

Incomplete(b, n) == pc' = "idle" /\ buffer' = b /\ datalen' = n /\ UNCHANGED msgs

\* Mutant: what precedes the header stays in the buffer.
BegunNoSkip == buffer

\* What a turn goes on with: the buffer from the start of its first packet, and the
\* length of that packet.  Once seen, they are not looked for again.
Begun == IF datalen # 0 THEN buffer ELSE Past(buffer, First(buffer) - 1)

BegunLen == IF datalen # 0 THEN datalen ELSE LenAt(buffer, First(buffer))

\* One turn of the loop that sees, or has seen, the start of a packet.  Another IMEI
\* than the first is reported and the first kept.
Turn ==
  /\ pc = "deframe" /\ (datalen # 0 \/ Starts(buffer) # {})
  /\ imei' = IF datalen = 0 /\ imei = None THEN ImeiAt(buffer, First(buffer)) ELSE imei
  /\ IF Len(Begun) < BegunLen + Overhead
       THEN Incomplete(Begun, BegunLen)
       ELSE Cut(Begun, BegunLen)
  /\ UNCHANGED <<items, wire, stream, lost>>

\* The terminal hangs up: Client.close, Stream.close.
Close ==
  /\ pc = "idle" /\ wire = <<>> /\ pc' = "closed"
  /\ buffer' = <<>> /\ imei' = None /\ datalen' = 0
  /\ UNCHANGED <<items, wire, stream, msgs, lost>>

Closed == pc = "closed" /\ UNCHANGED vars

Next ==
  \/ \E n \in 1..(IF Len(wire) < MaxSegment THEN Len(wire) ELSE MaxSegment) :
       Probe(n) \/ Recv(n)
  \/ NoStart \/ Turn \/ Close \/ Closed

-----------------------------------------------------------------------------
Sound(i) == IF i \in Broken THEN <<>> ELSE <<i>>
FramesSent == FlattenSeq([k \in DOMAIN items |-> Sound(items[k])])

\* However the stream is cut, as long as no segment was thrown away: the frames
\* returned are those sent, unchanged and in order, and all of them once the stream
\* is used up.
FramesSurviveSplits ==
  lost = {} => /\ IsPrefix(msgs, FramesSent)
               /\ wire = <<>> /\ pc # "deframe" => msgs = FramesSent

\* Between segments datalen, when set, is the length in the header that the buffer
\* starts with, and the buffer holds less than that frame, as long as no data was
\* dropped at the limit of the buffer.
LengthIsOfBuffer ==
  "overflow" \notin lost /\ pc = "idle" /\ datalen # 0 =>
    /\ 1 \in Starts(buffer) /\ LenAt(buffer, 1) = datalen
    /\ Len(buffer) < datalen + Overhead

=============================================================================
