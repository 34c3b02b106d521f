------------------------------ MODULE ThorCells -------------------------------
(***************************************************************************)
(* The client list of headers/list.h, store by store and load by load.     *)
(*                                                                         *)
(* The main thread inserts a cell with five stores and no lock, while the  *)
(* serving thread walks over the list, with get_next_node in a pass and    *)
(* with foreach_node_callback for list-peers and the tear down.  The order *)
(* of the stores is that of the source: the server is built without        *)
(* optimisation (INSTALL.sh installs the Debug build) and x86 keeps stores *)
(* in program order.                                                       *)
(*                                                                         *)
(* A tear down walks over the list a second time and frees it.  That no    *)
(* cell is inserted once it does, and that one thread does it, hold before *)
(* the first fault (Control and Sessions of ThorServer).  What a freed     *)
(* cell holds is undefined.                                                *)
(***************************************************************************)
EXTENDS Naturals, Sequences, FiniteSets

CONSTANTS
  Clients, \* The sessions that can be listed
  Walkers, \* The threads that walk over the list
  Cells,   \* The memory blocks calloc can return
  Null     \* The null pointer

ASSUME CellsAssumption == Null \notin Cells \cup Clients

VARIABLES
  head,    \* ctrl.list_head
  data,    \* data[n]: the field data of cell n
  prev,    \* prev[n]: its field prev
  next,    \* next[n]: its field next
  made,    \* The cells allocated so far
  pc,      \* The store insert_node does next
  node,    \* The variable node of insert_node
  arg,     \* Its argument _data
  at,      \* at[w]: the variable node of the walk of w
  walk,    \* walk[w]: the macro w is in, "load" between the two loads of
           \* get_next_node, "kfree" between the load and the call of a freeing walk
  tmp,     \* The variable tmp of foreach_node_free
  freed,   \* The cells that were freed
  chain    \* The cells that were published, newest first (history)

cells == <<head, data, prev, next, made>>
inserter == <<pc, node, arg>>
walks == <<at, walk>>
frees == <<tmp, freed>>
vars == <<cells, inserter, walks, frees, chain>>

Stores == {"idle", "data", "prev", "next", "back", "head"}
Freeing == {"free", "kfree"}
Macros == {"none", "pass", "load", "each"} \cup Freeing

TypeOK ==
  /\ head \in Cells \cup {Null}
  /\ data \in [Cells -> Clients \cup {Null}]
  /\ prev \in [Cells -> Cells \cup {Null}]
  /\ next \in [Cells -> Cells \cup {Null}]
  /\ made \subseteq Cells
  /\ pc \in Stores
  /\ node \in Cells \cup {Null}
  /\ arg \in Clients \cup {Null}
  /\ at \in [Walkers -> Cells \cup {Null}]
  /\ walk \in [Walkers -> Macros]
  /\ tmp \in Cells \cup {Null}
  /\ freed \subseteq Cells
  /\ chain \in Seq(Cells)

Init ==
  /\ head = Null
  /\ data = [n \in Cells |-> Null]
  /\ prev = [n \in Cells |-> Null]
  /\ next = [n \in Cells |-> Null]
  /\ made = {}
  /\ pc = "idle"
  /\ node = Null
  /\ arg = Null
  /\ at = [w \in Walkers |-> Null]
  /\ walk = [w \in Walkers |-> "none"]
  /\ tmp = Null
  /\ freed = {}
  /\ chain = <<>>

-------------------------------------------------------------------------------
(* Plausible mistakes in insert_node, for the sensitivity of the checks.   *)

\* The cell is published before it is linked.
SetPrevPublishing ==
  /\ pc = "prev"
  /\ prev' = [prev EXCEPT ![node] = Null]
  /\ head' = node
  /\ pc' = "next"
  /\ UNCHANGED <<data, next, made, node, arg, walks, frees, chain>>

\* The new cell points back at the head it replaces.
SetBackSwapped ==
  /\ pc = "back"
  /\ prev' = IF head # Null THEN [prev EXCEPT ![node] = head] ELSE prev
  /\ pc' = "head"
  /\ UNCHANGED <<head, data, next, made, node, arg, walks, frees, chain>>

\* The session is published in place of its cell.
SetHeadToData ==
  /\ pc = "head"
  /\ head' = arg
  /\ chain' = <<node>> \o chain
  /\ pc' = "idle"
  /\ UNCHANGED <<data, prev, next, made, node, arg, walks, frees>>

-------------------------------------------------------------------------------
(* insert_node, on the main thread.                                        *)

\* kmalloc is calloc outside the kernel: the fields of a new cell are null, as
\* Init has them, and no cell is allocated twice.
Malloc(c) ==
  /\ pc = "idle"
  /\ \A w \in Walkers : walk[w] \notin Freeing
  /\ \E n \in Cells \ made :
       /\ node' = n
       /\ made' = made \cup {n}
  /\ arg' = c
  /\ pc' = "data"
  /\ UNCHANGED <<head, data, prev, next, walks, frees, chain>>

SetData ==
  /\ pc = "data"
  /\ data' = [data EXCEPT ![node] = arg]
  /\ pc' = "prev"
  /\ UNCHANGED <<head, prev, next, made, node, arg, walks, frees, chain>>

SetPrev ==
  /\ pc = "prev"
  /\ prev' = [prev EXCEPT ![node] = Null]
  /\ pc' = "next"
  /\ UNCHANGED <<head, data, next, made, node, arg, walks, frees, chain>>

\* The load of *head cannot race: only this thread writes it.
SetNext ==
  /\ pc = "next"
  /\ next' = [next EXCEPT ![node] = head]
  /\ pc' = "back"
  /\ UNCHANGED <<head, data, prev, made, node, arg, walks, frees, chain>>

SetBack ==
  /\ pc = "back"
  /\ prev' = IF head # Null THEN [prev EXCEPT ![head] = node] ELSE prev
  /\ pc' = "head"
  /\ UNCHANGED <<head, data, next, made, node, arg, walks, frees, chain>>

SetHead ==
  /\ pc = "head"
  /\ head' = node
  /\ chain' = <<node>> \o chain
  /\ pc' = "idle"
  /\ UNCHANGED <<data, prev, next, made, node, arg, walks, frees>>

-------------------------------------------------------------------------------
(* The walks.                                                              *)

\* The field next of a cell, which may be anything in a freed one.
Reads(n) == IF n \in freed THEN Cells \cup {Null} ELSE {next[n]}

\* A pass may end and begin again at any cell: its counter bounds it.
StartWalk(w) ==
  /\ walk[w] \notin {"load"} \cup Freeing
  /\ at' = [at EXCEPT ![w] = head]
  /\ \E m \in {"pass", "each"} : walk' = [walk EXCEPT ![w] = m]
  /\ UNCHANGED <<cells, inserter, frees, chain>>

\* get_next_node: the test; on the last cell the walk stays there.
PassTest(w) ==
  /\ walk[w] = "pass" /\ at[w] # Null
  /\ Reads(at[w]) # {Null}
  /\ walk' = [walk EXCEPT ![w] = "load"]
  /\ UNCHANGED <<cells, inserter, at, frees, chain>>

\* get_next_node: the second load of the same field.
PassLoad(w) ==
  /\ walk[w] = "load"
  /\ \E n \in Reads(at[w]) : at' = [at EXCEPT ![w] = n]
  /\ walk' = [walk EXCEPT ![w] = "pass"]
  /\ UNCHANGED <<cells, inserter, frees, chain>>

\* foreach_node_callback goes on until it reads a null pointer.
EachStep(w) ==
  /\ walk[w] = "each" /\ at[w] # Null
  /\ \E n \in Reads(at[w]) : at' = [at EXCEPT ![w] = n]
  /\ UNCHANGED <<cells, inserter, walk, frees, chain>>

-------------------------------------------------------------------------------
(* The tear down: foreach_node_free, after the walk with close_all_clients. *)

StartFree(w) ==
  /\ walk[w] = "each" /\ at[w] = Null
  /\ pc = "idle" /\ \A v \in Walkers : walk[v] \notin Freeing
  /\ at' = [at EXCEPT ![w] = head]
  /\ walk' = [walk EXCEPT ![w] = "free"]
  /\ UNCHANGED <<cells, inserter, frees, chain>>

\* Fault: the cell is freed before its next is read.
FreeNextLate(w) ==
  /\ walk[w] = "free" /\ at[w] # Null
  /\ tmp' = at[w]
  /\ freed' = freed \cup {at[w]}
  /\ \E n \in Cells \cup {Null} : at' = [at EXCEPT ![w] = n]
  /\ walk' = [walk EXCEPT ![w] = "kfree"]
  /\ UNCHANGED <<cells, inserter, chain>>

FreeNext(w) ==
  /\ walk[w] = "free" /\ at[w] # Null
  /\ tmp' = at[w]
  /\ \E n \in Reads(at[w]) : at' = [at EXCEPT ![w] = n]
  /\ walk' = [walk EXCEPT ![w] = "kfree"]
  /\ UNCHANGED <<cells, inserter, freed, chain>>

FreeCell(w) ==
  /\ walk[w] = "kfree"
  /\ freed' = freed \cup {tmp}
  /\ walk' = [walk EXCEPT ![w] = "free"]
  /\ UNCHANGED <<cells, inserter, at, tmp, chain>>

-------------------------------------------------------------------------------

Next ==
  \/ \E c \in Clients : Malloc(c)
  \/ SetData \/ SetPrev \/ SetNext \/ SetBack \/ SetHead
  \/ \E w \in Walkers :
       \/ StartWalk(w) \/ PassTest(w) \/ PassLoad(w) \/ EachStep(w)
       \/ StartFree(w) \/ FreeNext(w) \/ FreeCell(w)

Spec == Init /\ [][Next]_vars

-------------------------------------------------------------------------------
(* The list the cells stand for.                                           *)

\* The data of the cells of a chain, from cell n on.
DataFrom(cs, d, n) ==
  IF \E k \in DOMAIN cs : cs[k] = n
  THEN LET k == CHOOSE k \in DOMAIN cs : cs[k] = n
       IN [j \in 1 .. Len(cs) - k + 1 |-> d[cs[k + j - 1]]]
  ELSE <<>>

ClientsFrom(n) == DataFrom(chain, data, n)

Listed == [k \in DOMAIN chain |-> data[chain[k]]]
Ahead == [w \in Walkers |-> ClientsFrom(at[w])]

L == INSTANCE ThorList WITH list <- Listed, cursor <- Ahead, released <- freed # {}

\* The list is a sequence to whoever walks over it, at every point of an
\* insertion (list.h:61-71 against list.h:105-134): a walk is never on a cell
\* that is not linked yet, is never cut short by a null pointer that was to be
\* overwritten, and meets the clients of the list once and in order, until the
\* tear down frees the first cell.
ImplementsList == L!Spec

\* The two directions of the list agree (list.h:66-69): going back from a
\* cell leads to the cell inserted after it, and from the newest cell to
\* nothing, or, between the store into its prev and the store into the head,
\* to the cell about to be published.
PrevMirrorsNext ==
  \A k \in DOMAIN chain :
    prev[chain[k]] = IF k > 1 THEN chain[k - 1]
                     ELSE IF pc = "head" THEN node ELSE Null

\* The cells of the chain in front of cell n; all of them if n is null.
InFront(n) ==
  {chain[k] : k \in {k \in DOMAIN chain :
                       \A j \in DOMAIN chain : chain[j] = n => k < j}}

\* A tear down frees every published cell and frees it once, newest first, and
\* reads where it goes on before it frees (list.h:136-150): whatever the other
\* thread does meanwhile, the walk leaves no cell and meets no freed one.
FreesEachOnce ==
  \A w \in Walkers :
    /\ walk[w] = "free" => freed = InFront(at[w])
    /\ walk[w] = "kfree" => tmp \notin freed /\ freed \cup {tmp} = InFront(at[w])

===============================================================================
