----------------------------- MODULE SlotQueue -----------------------------
(***************************************************************************)
(* What the messenger session pool promises of its admission: at most      *)
(* Limit clients hold a slot, later clients stand in one line in arrival   *)
(* order, and a slot that is given up goes straight to the head of the     *)
(* line.  SessionPool implements this specification; nothing here knows    *)
(* of conversations, worker processes or timeouts.                         *)
(***************************************************************************)
EXTENDS Naturals, Sequences, FiniteSets

CONSTANTS Client, Limit

VARIABLES
  running,    \* the clients that hold a slot
  line        \* the clients that wait for one, oldest first

vars == <<running, line>>

\* The sequence s without its element at position i.
Splice(s, i) == [j \in 1..(Len(s) - 1) |-> IF j < i THEN s[j] ELSE s[j + 1]]

InLine(c) == \E i \in DOMAIN line : line[i] = c

Init == running = {} /\ line = <<>>

\* A free slot is taken at once, but never past a client that already waits.
Enter(c) ==
  /\ c \notin running
  /\ ~InLine(c)
  /\ IF Cardinality(running) < Limit /\ line = <<>>
       THEN running' = running \cup {c} /\ UNCHANGED line
       ELSE line' = Append(line, c) /\ UNCHANGED running

\* The slot of a client that leaves is handed on, or freed when nobody waits.
Leave(c) ==
  /\ c \in running
  /\ IF line = <<>>
       THEN running' = running \ {c} /\ UNCHANGED line
       ELSE /\ running' = (running \ {c}) \cup {Head(line)}
            /\ line' = Tail(line)

GiveUp(c) ==
  /\ \E i \in DOMAIN line : line[i] = c /\ line' = Splice(line, i)
  /\ UNCHANGED running

\* The service stops: everybody who waits is sent away.
SendAway == line' = <<>> /\ UNCHANGED running

Next ==
  \/ \E c \in Client : Enter(c) \/ Leave(c) \/ GiveUp(c)
  \/ SendAway

Spec == Init /\ [][Next]_vars
=============================================================================
