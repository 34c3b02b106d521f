---------------------------- MODULE MCThorReplies ----------------------------
(* Two sessions, and rows of three sizes: some pairs fit the buffer of the    *)
(* listing, others do not.                                                    *)
EXTENDS ThorReplies

MCNames == {"tea", "milk", "coffee"}
MCRowSize == [tea |-> 1, milk |-> 2, coffee |-> 3]
MCUpcs == {"1", "2"}
MCPictures == {"a"}

MCSymmetry == Permutations(Clients)

\* No guard and no invariant reads the last reply, only properties of steps do.
MCView == <<items, images, session, value, response, level, misuse>>

==============================================================================
