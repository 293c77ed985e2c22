---------------------------- MODULE MCCommandPath ----------------------------
(***************************************************************************)
(* Values of the constants of CommandPath for TLC: a terminal of each      *)
(* protocol that stays connected and only reports.                         *)
(***************************************************************************)
EXTENDS CommandPath, TLC

CONSTANTS zx, bs, zximei, bsimei

Login(i) == [imei |-> i, bye |-> FALSE, inl |-> TRUE]

PathSegments ==
  {[probe |-> zx, pkts |-> <<Login(zximei)>>],
   [probe |-> bs, pkts |-> <<Login(bsimei)>>]}

\* Responses come from sendcmd only.
PathResps == {}

Perms == Permutations(Conns) \cup Permutations(Fds)

=============================================================================
