------------------------------- MODULE ThorList -------------------------------
(***************************************************************************)
(* What the rest of the server takes the client list for: a sequence that  *)
(* grows at its head, and walks over it, each on a suffix of the sequence  *)
(* as it was when the walk began.  A client that is inserted during a walk *)
(* is not met by it, and every other client is met once and in order.      *)
(* That lasts until the cells of the list are released: from then on a     *)
(* walk may meet anything.                                                 *)
(***************************************************************************)
EXTENDS Sequences

CONSTANTS
  Clients, \* The sessions that can be listed
  Walkers  \* The threads that walk over the list

VARIABLES
  list,    \* The clients of the list, newest first
  cursor,  \* cursor[w]: what the walk of w has still to meet, the current one first
  released \* Cells of the list were released

vars == <<list, cursor, released>>

TypeOK ==
  /\ list \in Seq(Clients)
  /\ cursor \in [Walkers -> Seq(Clients)]
  /\ released \in BOOLEAN

Init ==
  /\ list = <<>>
  /\ cursor = [w \in Walkers |-> <<>>]
  /\ released = FALSE

Insert(c) ==
  /\ list' = <<c>> \o list
  /\ UNCHANGED <<cursor, released>>

\* The walk begins again, at the head.
Start(w) ==
  /\ cursor' = [cursor EXCEPT ![w] = list]
  /\ UNCHANGED <<list, released>>

\* The walk goes on to the next client.
Advance(w) ==
  /\ cursor[w] # <<>>
  /\ cursor' = [cursor EXCEPT ![w] = Tail(@)]
  /\ UNCHANGED <<list, released>>

\* A cell is released, or a walk goes on after one was.
Release ==
  /\ released' = TRUE
  /\ cursor' \in [Walkers -> Seq(Clients)]
  /\ UNCHANGED list

\* The process begins again with an empty list; the walks are where they were.
Forget ==
  /\ list' = <<>>
  /\ UNCHANGED <<cursor, released>>

Next ==
  \/ \E c \in Clients : Insert(c)
  \/ \E w \in Walkers : Start(w) \/ Advance(w)
  \/ Release
  \/ Forget

Spec == Init /\ [][Next]_vars

===============================================================================
