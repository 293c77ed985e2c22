----------------------------- MODULE CommandPath -----------------------------
(***************************************************************************)
(* How a command typed in the web page finds its way to a terminal: the    *)
(* collector broadcasts packets with the name of their protocol module,    *)
(* storage (storage.py, evstore.py) keeps the last name for each IMEI in   *)
(* the table pmodmap, and the gateway (wsgateway.py) builds the packet of  *)
(* the command with that module and pushes it to the collector.            *)
(***************************************************************************)
EXTENDS Collector

CONSTANT MaxRaw    \* bound: high water mark of the PUB socket

VARIABLES
  zraw,      \* broadcasts that storage has not received yet
  pmodmap    \* table pmodmap: rows younger than an hour

pathvars == <<vars, zraw, pmodmap>>

PathTypeOK ==
  /\ TypeOK
  /\ zraw \in Seq(Bcasts)
  /\ pmodmap \in [Imeis -> Pmods \cup {None}]

PathInit == Init /\ zraw = <<>> /\ pmodmap = [i \in Imeis |-> None]

\* A PUB socket drops what its subscriber cannot queue.
Broadcast(queue, msg) ==
  IF msg = NoMsg \/ Len(queue) >= MaxRaw THEN queue ELSE Append(queue, msg)

CollectorStep ==
  /\ Iteration \/ Restart
  /\ zraw' = Broadcast(zraw, zpub')
  /\ UNCHANGED pmodmap

TerminalStep == Terminals /\ UNCHANGED <<zraw, pmodmap>>

\* storage.runserver and evstore.stowpmod, for a broadcast in either direction.
Store ==
  /\ zraw # <<>>
  /\ LET m == Head(zraw) IN
       pmodmap' = [i \in Imeis |-> IF i = m.imei /\ m.pmod # None THEN m.pmod ELSE pmodmap[i]]
  /\ zraw' = Tail(zraw)
  /\ UNCHANGED vars

\* evstore.fetchpmod ignores a row that is an hour old.
Expire(i) ==
  /\ pmodmap[i] # None
  /\ pmodmap' = [pmodmap EXCEPT ![i] = None]
  /\ UNCHANGED <<vars, zraw>>

\* wsgateway.sendcmd, for a command that the protocol module implements.
sendcmd(i) ==
  /\ pmodmap[i] # None
  /\ Push([imei |-> i, made |-> pmodmap[i]])
  /\ UNCHANGED <<zraw, pmodmap>>

PathNext ==
  \/ CollectorStep
  \/ TerminalStep
  \/ Store
  \/ \E i \in Imeis : Expire(i) \/ sendcmd(i)

PathSpec == PathInit /\ [][PathNext]_pathvars

\* The assertion of beesure.enframe, "assert off == 0" (beesure.py:137), holds
\* for every response that Client.send frames: the packet of a command was
\* built by the protocol module of the terminal it is for.
EnframeAssertion ==
  Consumed /\ tosend # <<>> /\ Online(Head(tosend)) => Enframes(Head(tosend))

=============================================================================
