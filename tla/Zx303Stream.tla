---------------------------- MODULE Zx303Stream ----------------------------
(***************************************************************************)
(* The deframer of the zx303 protocol: class Stream, probe_buffer and      *)
(* enframe of src/loctrkd/zx303proto.py, as Client.recv of                 *)
(* src/loctrkd/collector.py drives them over one TCP connection.  The      *)
(* terminal's bytes arrive cut into segments anywhere.  Bytes are their    *)
(* numbers; error messages, which the collector only logs, are left out.   *)
(***************************************************************************)
EXTENDS Integers, Sequences, SequencesExt

CONSTANTS
  Packets,     \* packets a terminal may send: <<length, proto, payload...>>
  Junk,        \* bytes between frames
  MAXBUFFER,   \* 4096, both what recv asks for and what Stream keeps
  MaxItems     \* bound: frames and pieces of junk in a stream

x  == 120
CR == 13
LF == 10

\* enframe
enframe(p) == <<x, x>> \o p \o <<CR, LF>>

\* The offset, as find counts, of the first two bytes bb in s not before n; None if
\* there are none.
None == -1
Offsets(s, bb, n) == {i \in n..(Len(s) - 2) : s[i + 1] = bb[1] /\ s[i + 2] = bb[2]}
find(s, bb, n) ==
  LET at == Offsets(s, bb, n) IN
  IF at = {} THEN None ELSE CHOOSE i \in at : \A j \in at : i <= j

\* The packets the framing can carry: at least two bytes, a length field that is
\* too large by no more than the comment in recv allows for, and no line end where
\* one is looked for.
Framable(p) ==
  /\ Len(p) >= 2
  /\ p[1] <= Len(p) + 2
  /\ \A i \in Offsets(p \o <<CR, LF>>, <<CR, LF>>, 0) : i + 2 >= p[1] => i = Len(p)

\* Junk that does not look like the start of a frame, or is a frame too short.
Skippable(j) ==
  \/ Offsets(j \o <<x>>, <<x, x>>, 0) = {}
  \/ \E n \in 0..3 : j = enframe(<<n>>)

VARIABLES
  items,    \* history: what the terminal sends, [junk, data] records
  wire,     \* bytes not yet received
  stream,   \* Client.stream is not None
  buffer,   \* Stream.buffer
  pc,       \* "idle", "deframe" (in the loop of Stream.recv), "closed"
  msgs,     \* history: packets returned
  lost      \* history: why bytes were thrown away, of {"probe", "overflow"}

vars == <<items, wire, stream, buffer, pc, msgs, lost>>

Items == [junk : {FALSE}, data : Packets] \cup [junk : {TRUE}, data : Junk]
Bytes(i) == IF i.junk THEN i.data ELSE enframe(i.data)

Init ==
  /\ items \in UNION {[1..n -> Items] : n \in 1..MaxItems}
  /\ wire = FlattenSeq([k \in DOMAIN items |-> Bytes(items[k])])
  /\ stream = FALSE /\ buffer = <<>> /\ pc = "idle" /\ msgs = <<>> /\ lost = {}

Segment(n) == SubSeq(wire, 1, n)
Past(s, n) == SubSeq(s, n + 1, Len(s))

\* probe_buffer
probe_buffer(seg) ==
  LET framestart == find(seg, <<x, x>>, 0) IN
  framestart # None /\ Len(seg) - framestart >= 6

\* Client.recv: the first segment that a protocol module recognises opens the
\* stream; one before it is dropped.
Probe(n) ==
  /\ pc = "idle" /\ ~stream /\ ~probe_buffer(Segment(n))
  /\ wire' = Past(wire, n)
  /\ lost' = lost \cup {"probe"}
  /\ UNCHANGED <<items, stream, buffer, pc, msgs>>

\* Stream.recv up to its loop: too much data is dropped, this segment's with it.
Recv(n) ==
  /\ pc = "idle" /\ (stream \/ probe_buffer(Segment(n)))
  /\ stream' = TRUE
  /\ wire' = Past(wire, n)
  /\ IF Len(buffer) + n > MAXBUFFER
       THEN buffer' = <<>> /\ lost' = lost \cup {"overflow"} /\ UNCHANGED pc
       ELSE buffer' = buffer \o Segment(n) /\ pc' = "deframe" /\ UNCHANGED lost
  /\ UNCHANGED <<items, msgs>>

\* Mutant: the first line end is taken, whatever the length field says.
FirstLineEnd(b) == find(b, <<CR, LF>>, 1)

\* Where the inner loop stops: a line end not before the expected one less three.
frameend(b) == find(b, <<CR, LF>>, IF b[3] > 1 THEN b[3] ELSE 1)

\* buffer[frameend + 2:]
Rest(b, end) == Past(b, end + 2)

\* One turn of the loop of Stream.recv.
Deframe ==
  /\ pc = "deframe"
  /\ LET start == find(buffer, <<x, x>>, 0)
         b == IF start = None THEN buffer ELSE Past(buffer, start)
         end == IF start = None \/ Len(b) < 6 THEN None ELSE frameend(b)
     IN IF end = None
          THEN buffer' = b /\ pc' = "idle" /\ UNCHANGED msgs
          ELSE /\ buffer' = Rest(b, end)
               /\ msgs' = IF end < 4 THEN msgs ELSE Append(msgs, SubSeq(b, 3, end))
               /\ UNCHANGED pc
  /\ UNCHANGED <<items, wire, stream, lost>>

\* The terminal hangs up: Client.close, Stream.close.
Close ==
  /\ pc = "idle" /\ wire = <<>> /\ pc' = "closed"
  /\ buffer' = <<>>
  /\ UNCHANGED <<items, wire, stream, msgs, lost>>

Closed == pc = "closed" /\ UNCHANGED vars

Next ==
  \/ \E n \in 1..(IF Len(wire) < MAXBUFFER THEN Len(wire) ELSE MAXBUFFER) :
       Probe(n) \/ Recv(n)
  \/ Deframe \/ Close \/ Closed

-----------------------------------------------------------------------------
Packet(i) == IF i.junk THEN <<>> ELSE <<i.data>>
PacketsSent == FlattenSeq([k \in DOMAIN items |-> Packet(items[k])])

\* However the stream is cut, as long as no segment was thrown away: the packets
\* returned are those sent, unchanged and in order, and all of them once the stream
\* is used up.  Junk and frames too short cost no packet.
FramesSurviveSplits ==
  lost = {} => /\ IsPrefix(msgs, PacketsSent)
               /\ wire = <<>> /\ pc # "deframe" => msgs = PacketsSent

=============================================================================
