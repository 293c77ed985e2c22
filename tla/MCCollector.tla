---------------------------- MODULE MCCollector ----------------------------
(***************************************************************************)
(* Values of the constants of Collector for TLC.  The IMEIs of the two     *)
(* protocols differ in length, so no terminal logs in with both.           *)
(***************************************************************************)
EXTENDS Collector, TLC

CONSTANTS zx, bs,       \* zx303proto and beesure
          bsimei        \* a terminal that speaks beesure; the others zx303

Login(i) == [imei |-> i, bye |-> FALSE, inl |-> TRUE]
Plain    == [imei |-> None, bye |-> FALSE, inl |-> FALSE]
Bye      == [imei |-> None, bye |-> TRUE, inl |-> FALSE]

ZxImeis == Imeis \ {bsimei}

\* Junk; part of a frame; a packet and then a login; a goodbye with a packet
\* behind it.
SafetySegments ==
  {[probe |-> None, pkts |-> <<>>],
   [probe |-> zx, pkts |-> <<>>],
   [probe |-> zx, pkts |-> <<Bye, Plain>>]}
  \cup {[probe |-> zx, pkts |-> <<Plain, Login(i)>>] : i \in ZxImeis}

\* Fewer inputs for liveness: logins of beesure.
LiveSegments == {[probe |-> bs, pkts |-> <<Login(bsimei)>>]}

\* A packet of its own protocol for each terminal.
OwnResps == {[imei |-> i, made |-> zx] : i \in ZxImeis}

\* One that enframe() of beesure takes, and one that it refuses so that the daemon dies.
LiveResps == {[imei |-> bsimei, made |-> p] : p \in {bs, zx}}

Perms == Permutations(Conns) \cup Permutations(Fds) \cup Permutations(ZxImeis)

=============================================================================
