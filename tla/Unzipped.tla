------------------------------ MODULE Unzipped ------------------------------
(***************************************************************************)
(* class unzipped (src/loctrkd/ocid_dload.py:37): an iterator over the     *)
(* lines of a compressed http body.  __next__ calls read(256) until there  *)
(* is a line end in what it has; read takes pieces of the body and         *)
(* decompresses them until it has that many bytes.  A piece decompresses   *)
(* to any number of bytes.                                                 *)
(***************************************************************************)
EXTENDS Naturals, Sequences

CONSTANTS
  Bodies,    \* decompressed bodies: sequences over {"c", "\n"}
  N,         \* the argument of read (256)
  MaxPiece   \* bound: bytes that one piece decompresses to

VARIABLES
  rest,      \* what the pieces to come decompress to
  decoder,   \* self.decoder is not None
  outdata, line,
  pc,        \* "next", "read" (inside read), "stop" (StopIteration)
  yielded,   \* history: the lines returned, with their line ends
  body       \* history: the whole body

vars == <<rest, decoder, outdata, line, pc, yielded, body>>

Init ==
  /\ body \in Bodies /\ rest = body
  /\ decoder = TRUE /\ outdata = <<>> /\ line = <<>>
  /\ pc = "next" /\ yielded = <<>>

Take(s, n) == SubSeq(s, 1, n)
Past(s, n) == SubSeq(s, n + 1, Len(s))
LineEnds(s) == {i \in DOMAIN s : s[i] = "\n"}

\* split(b"\n", maxsplit=1) finds a line: return it.
NextLine ==
  /\ pc = "next" /\ LineEnds(line) # {}
  /\ LET i == CHOOSE i \in LineEnds(line) : \A j \in LineEnds(line) : i <= j IN
       /\ yielded' = yielded \o Take(line, i)
       /\ line' = Past(line, i)
  /\ UNCHANGED <<rest, decoder, outdata, pc, body>>

\* read(256) is called; once the decoder is gone it returns b"" at once.
CallRead ==
  /\ pc = "next" /\ LineEnds(line) = {}
  /\ pc' = IF decoder THEN "read" ELSE "stop"
  /\ UNCHANGED <<rest, decoder, outdata, line, yielded, body>>

\* One turn of the loop in read.  Without raw data the decoder is dropped.
Piece ==
  /\ pc = "read" /\ decoder /\ Len(outdata) < N
  /\ \/ \E k \in 1..MaxPiece :
          /\ k <= Len(rest)
          /\ outdata' = outdata \o Take(rest, k) /\ rest' = Past(rest, k)
          /\ UNCHANGED decoder
     \/ rest = <<>> /\ decoder' = FALSE /\ UNCHANGED <<outdata, rest>>
  /\ UNCHANGED <<line, pc, yielded, body>>

\* Mutant: what was decompressed beyond n bytes is dropped.
KeepNone(s) == <<>>

\* self.outdata[n:]
Keep(s) == IF Len(s) <= N THEN <<>> ELSE Past(s, N)

\* read returns; b"" raises StopIteration.
ReadReturns ==
  /\ pc = "read" /\ (Len(outdata) >= N \/ ~decoder)
  /\ pc' = IF outdata = <<>> THEN "stop" ELSE "next"
  /\ line' = line \o (IF Len(outdata) <= N THEN outdata ELSE Take(outdata, N))
  /\ outdata' = Keep(outdata)
  /\ UNCHANGED <<rest, decoder, yielded, body>>

Stopped == pc = "stop" /\ UNCHANGED vars

Next == NextLine \/ CallRead \/ Piece \/ ReadReturns \/ Stopped

-----------------------------------------------------------------------------
\* However the body is cut into pieces, no byte of it is lost or moved on its way
\* to the lines, and the iterator stops only when it has taken all of it and
\* returned every line that has an end.
EveryByteInOrder ==
  /\ yielded \o line \o outdata \o rest = body
  /\ pc = "stop" => rest = <<>> /\ outdata = <<>> /\ LineEnds(line) = {}

=============================================================================
