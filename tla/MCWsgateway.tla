----------------------------- MODULE MCWsgateway -----------------------------
(***************************************************************************)
(* Values of the constants of Wsgateway for TLC.                           *)
(***************************************************************************)
EXTENDS Wsgateway, TLC

CONSTANTS i1, i2

Frame(kind, list) == [kind |-> kind, imeis |-> list]
Opening(kind) == [kind |-> kind, frames |-> <<>>]
Sends(frames) == [kind |-> "frames", frames |-> frames]

\* Upgrades, plain http and junk; a ping, a subscription that another replaces
\* at once and a command; a subscription to both terminals and a close.
AllSegments ==
  {Opening("upgrade"), Opening("http"), Opening("bad"),
   Sends(<<Frame("ping", <<>>), Frame("subscribe", <<i1>>), Frame("subscribe", <<i2>>),
           Frame("command", <<i2>>)>>),
   Sends(<<Frame("subscribe", <<i1, i2>>), Frame("close", <<>>)>>)}

\* One terminal is enough to see who waits for whom.
FewSegments ==
  {Opening("upgrade"), Sends(<<Frame("subscribe", <<i1>>)>>)}

Perms == Permutations(Conns) \cup Permutations(Fds)

=============================================================================
