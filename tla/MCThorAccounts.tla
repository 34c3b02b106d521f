---------------------------- MODULE MCThorAccounts ----------------------------
(* Two of the built-in accounts, a root one and an elevated one. *)
EXTENDS ThorAccounts, TLC

MCNames == {"admin", "audit"}
MCPasswords == {"admin", "audit"}
MCModes == {ROOT_USR}
MCFlags == {256}
MCBuiltin ==
  << [name |-> "admin", pass |-> "admin", mode |-> ROOT_USR],
     [name |-> "audit", pass |-> "audit", mode |-> ELVT_USR] >>

MCSymmetry == Permutations(Clients)

\* Nothing reads the last reply: states that differ in it alone have the same
\* successors, and no property of the run mentions it but the type invariant.
MCView == stored

===============================================================================
