-------------------------- MODULE TerminalDirectory --------------------------
(***************************************************************************)
(* What the collector promises to those who address terminals by IMEI: an  *)
(* IMEI belongs to one open connection at a time, the one that logged in   *)
(* last, and the connection that had it before is closed by that login.    *)
(***************************************************************************)
CONSTANTS Conns, Imeis, NoConn

VARIABLES
  open,    \* connections that are served
  owner    \* the connection of each terminal

dirvars == <<open, owner>>

Init == open = {} /\ owner = [i \in Imeis |-> NoConn]

\* New connections are served; they have not logged in.
Open(new) ==
  /\ open \cap new = {}
  /\ open' = open \cup new
  /\ UNCHANGED owner

\* A connection logs in once, and takes the IMEI from whoever had it.
Login(c, i) ==
  /\ c \in open /\ \A j \in Imeis : owner[j] # c
  /\ open' = open \ {owner[i]}
  /\ owner' = [owner EXCEPT ![i] = c]

\* A connection ends; it leaves the directory if it was in it.
Close(c) ==
  /\ c \in open
  /\ open' = open \ {c}
  /\ owner' = [i \in Imeis |-> IF owner[i] = c THEN NoConn ELSE owner[i]]

\* The process starts anew.
Reset == open' = {} /\ owner' = [i \in Imeis |-> NoConn]

Next ==
  \/ \E new \in SUBSET Conns : Open(new)
  \/ \E c \in Conns : Close(c) \/ \E i \in Imeis : Login(c, i)
  \/ Reset

Spec == Init /\ [][Next]_dirvars

=============================================================================
