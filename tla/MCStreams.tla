------------------------------ MODULE MCStreams ------------------------------
(***************************************************************************)
(* Values of the constants of Streams for TLC.                             *)
(***************************************************************************)
EXTENDS Streams

\* Packets of zx303 that fit its framing, over bytes that matter: length fields too small,
\* right and too large, parts of frame starts and line ends, and a whole line end where the
\* length field tells the deframer to look past it.
SmallPackets ==
  UNION {{0, 4} \X {0, 120, 13}, {0, 3, 5} \X {120, 13} \X {120, 10, 13}, {<<5, 0, 13, 10, 7>>}}
    \ {<<0, 13, 10>>, <<3, 13, 10>>}

\* Bytes between them that do not look like one, and a frame too short.
SomeJunk == {<<0>>, <<13, 10>>, <<120, 0, 10>>, <<120, 120, 0, 13, 10>>}

SmallBodies == UNION {[1..n -> {"c", "\n"}] : n \in 0..5}

=============================================================================
