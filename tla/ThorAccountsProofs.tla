-------------------------- MODULE ThorAccountsProofs --------------------------
(***************************************************************************)
(* Proofs about ThorAccounts, for every choice of names, passwords, modes, *)
(* built-in accounts and bound.  The inductive invariant says, beside the  *)
(* types, that an account is found by its name and mode once (Unique), and *)
(* that a start has put in what it has passed (Registered), while nobody   *)
(* is logged in (Alone).                                                   *)
(***************************************************************************)
EXTENDS ThorAccounts, SequenceTheorems, TLAPS

Unique ==
  \A k, n \in 1 .. Len(rows) :
    rows[k].name = rows[n].name /\ rows[k].mode = rows[n].mode => k = n

Registered ==
  pc = "register" =>
    \A n \in 1 .. i - 1 : Taken(Builtin[n].name, Builtin[n].mode)

Alone == pc = "register" => \A c \in Clients : session[c] = NoSession

IInv == TypeOK /\ Unique /\ Registered /\ Alone

-------------------------------------------------------------------------------
(* The statements.                                                         *)

\* An insertion appends a row of its own, or leaves the table as it is.
LEMMA InsertAppends ==
  ASSUME NEW name \in Names, NEW pass \in Passwords, NEW mode \in Int,
         rows \in Seq(Row), Unique, Insert(name, pass, mode)
  PROVE  /\ rows' \in Seq(Row) /\ Unique'
         /\ Len(rows') >= Len(rows)
         /\ \A k \in 1 .. Len(rows) : rows'[k] = rows[k]
         /\ Taken(name, mode)'
<1>1. CASE Taken(name, mode)
  <2>1. rows' = rows
    BY <1>1 DEF Insert
  <2> QED
    BY <1>1, <2>1 DEF Taken, Named, Unique
<1>2. CASE ~Taken(name, mode)
  <2> DEFINE row == [name |-> name, pw |-> Hash(pass), mode |-> mode, logged |-> 1]
  <2>1. row \in Row
    BY DEF Row
  <2>2. rows' = Append(rows, row)
    BY <1>2 DEF Insert
  <2> HIDE DEF row
  <2>3. /\ rows' \in Seq(Row)
        /\ Len(rows') = Len(rows) + 1
        /\ \A k \in 1 .. Len(rows) : rows'[k] = rows[k]
        /\ rows'[Len(rows) + 1] = row
    BY <2>1, <2>2
  <2>4. row.name = name /\ row.mode = mode
    BY DEF row
  <2>5. Unique'
    BY <1>2, <2>3, <2>4 DEF Unique, Taken, Named
  <2>6. Taken(name, mode)'
    BY <2>3, <2>4 DEF Taken, Named
  <2> QED
    BY <2>3, <2>5, <2>6
<1> QED
  BY <1>1, <1>2

\* What register_users passes on is an account.
LEMMA BuiltinAccount ==
  ASSUME NEW n \in 1 .. Len(Builtin)
  PROVE  Builtin[n].name \in Names /\ Builtin[n].pass \in Passwords /\ Builtin[n].mode \in Int
<1>1. Builtin[n] \in [name : Names, pass : Passwords, mode : Roles]
  BY AccountsAssumption, ElementOfSeq DEF AccountsAssumption
<1> QED
  BY <1>1 DEF Roles, ROOT_USR, ELVT_USR, DFL_USR

\* A row with one column set is a row, of the same mode.
LEMMA ChangedRow ==
  ASSUME NEW row \in Row, NEW key \in Keys \ {"usermode", "other"}, NEW value \in Values(key)
  PROVE  Changed(row, key, value) \in Row /\ Changed(row, key, value).mode = row.mode
<1>1. CASE key = "userid"
  BY <1>1 DEF Row, Changed, Values
<1>2. CASE key = "userpass"
  <2>1. Hash(value) \in {Hash(p) : p \in Passwords}
    BY <1>2 DEF Values
  <2>2. Changed(row, key, value) = [row EXCEPT !.pw = Hash(value)]
    BY <1>2 DEF Changed
  <2> QED
    BY <2>1, <2>2 DEF Row
<1>3. CASE key = "userlogged"
  <2>1. value \in Int
    BY <1>3, AccountsAssumption DEF Values
  <2>2. Changed(row, key, value) = [row EXCEPT !.logged = value]
    BY <1>3 DEF Changed
  <2> QED
    BY <2>1, <2>2 DEF Row
<1> QED
  BY <1>1, <1>2, <1>3 DEF Keys

\* A store changes one row and not its mode.
LEMMA StoreOne ==
  ASSUME NEW k \in 1 .. Len(rows), NEW row \in Row, row.mode = rows[k].mode,
         rows \in Seq(Row), Unique, Store(k, row)
  PROVE  /\ rows' \in Seq(Row) /\ Unique'
         /\ Len(rows') = Len(rows)
         /\ \A n \in 1 .. Len(rows) : rows'[n].mode = rows[n].mode /\ (n # k => rows'[n] = rows[n])
<1>1. CASE Clashes(k, row)
  BY <1>1 DEF Store, Unique
<1>2. CASE ~Clashes(k, row)
  <2>1. rows' = [rows EXCEPT ![k] = row]
    BY <1>2 DEF Store
  <2>2. rows' \in Seq(Row) /\ Len(rows') = Len(rows)
    BY <2>1, ExceptSeq
  <2>3. \A n \in 1 .. Len(rows) : rows'[n] = IF n = k THEN row ELSE rows[n]
    BY <2>1
  <2>4. Unique'
    BY <1>2, <2>2, <2>3 DEF Unique, Clashes, Named
  <2> QED
    BY <2>2, <2>3, <2>4
<1> QED
  BY <1>1, <1>2

\* An update leaves the table as it is, or stores one row.
LEMMA UpdateOne ==
  ASSUME IInv, NEW c \in Clients, NEW name \in Names, NEW key \in Keys,
         NEW value \in Values(key), Update(c, name, key, value)
  PROVE  /\ rows' \in Seq(Row) /\ Unique'
         /\ Len(rows') = Len(rows)
         /\ \A n \in 1 .. Len(rows) : rows'[n].mode = rows[n].mode
         /\ \A m, n \in 1 .. Len(rows) : rows'[m] # rows[m] /\ rows'[n] # rows[n] => m = n
<1>1. CASE rows' = rows
  BY <1>1 DEF IInv, TypeOK, Unique
<1>2. CASE rows' # rows
  <2>1. key \notin {"usermode", "other"}
    BY <1>2 DEF Update
  <2>2. PICK k \in Named(name) : Store(k, Changed(rows[k], key, value))
    BY <1>2 DEF Update
  <2>3. k \in 1 .. Len(rows) /\ rows \in Seq(Row) /\ rows[k] \in Row
    BY DEF Named, IInv, TypeOK
  <2>4. /\ Changed(rows[k], key, value) \in Row
        /\ Changed(rows[k], key, value).mode = rows[k].mode
    BY <2>1, <2>3, ChangedRow
  <2>5. Unique
    BY DEF IInv
  <2> QED
    BY <2>2, <2>3, <2>4, <2>5, StoreOne
<1> QED
  BY <1>1, <1>2

-------------------------------------------------------------------------------
(* The invariant.                                                          *)

LEMMA InitIInv == Init => IInv
<1> SUFFICES ASSUME Init PROVE IInv
  OBVIOUS
<1>1. TypeOK
  BY AccountsAssumption DEF Init, TypeOK, Reply
<1>2. Unique /\ Registered /\ Alone
  BY DEF Init, Unique, Registered, Alone
<1> QED
  BY <1>1, <1>2 DEF IInv

LEMMA RegisterIInv == IInv /\ Register => IInv'
<1> SUFFICES ASSUME IInv, Register PROVE IInv'
  OBVIOUS
<1>1. i \in 1 .. Len(Builtin)
  BY AccountsAssumption DEF IInv, TypeOK, Register
<1>2. PICK name \in Names, pass \in Passwords, mode \in Int :
        name = Builtin[i].name /\ pass = Builtin[i].pass /\ mode = Builtin[i].mode
  BY <1>1, BuiltinAccount
<1>3. rows \in Seq(Row) /\ Unique /\ Insert(name, pass, mode)
  BY <1>2 DEF IInv, TypeOK, Register
<1>4. /\ rows' \in Seq(Row) /\ Unique'
      /\ Len(rows') >= Len(rows)
      /\ \A k \in 1 .. Len(rows) : rows'[k] = rows[k]
      /\ Taken(name, mode)'
  BY <1>3, InsertAppends
<1>5. TypeOK'
  BY <1>1, <1>4 DEF IInv, TypeOK, Register, Reply
<1>6. Registered'
  <2> SUFFICES ASSUME NEW n \in 1 .. i PROVE Taken(Builtin[n].name, Builtin[n].mode)'
    BY <1>1 DEF Registered, Register
  <2>1. CASE n = i
    BY <1>2, <1>4, <2>1
  <2>2. CASE n \in 1 .. i - 1
    <3>1. Taken(Builtin[n].name, Builtin[n].mode)
      BY <2>2 DEF IInv, Registered, Register
    <3> QED
      BY <3>1, <1>3, <1>4 DEF Taken, Named
  <2> QED
    BY <1>1, <2>1, <2>2
<1> QED
  BY <1>4, <1>5, <1>6 DEF IInv, Alone, Register

LEMMA UpIInv == IInv /\ Up => IInv'
BY DEF IInv, TypeOK, Unique, Registered, Alone, Up, Reply

LEMMA CrashIInv == IInv /\ Crash => IInv'
<1> SUFFICES ASSUME IInv, Crash PROVE IInv'
  OBVIOUS
<1>1. TypeOK'
  BY AccountsAssumption DEF IInv, TypeOK, Crash, Reply
<1>2. Unique' /\ Registered' /\ Alone'
  BY DEF IInv, Unique, Registered, Alone, Crash
<1> QED
  BY <1>1, <1>2 DEF IInv

LEMMA ReadLineIInv ==
  ASSUME IInv, NEW name \in Names, NEW pass \in Passwords, ReadLine(name, pass)
  PROVE  IInv'
BY DEF IInv, TypeOK, Unique, Registered, Alone, ReadLine, Login, Reply

LEMMA AskFlagIInv == IInv /\ AskFlag => IInv'
<1> SUFFICES ASSUME IInv, AskFlag PROVE IInv'
  OBVIOUS
<1>1. logBit' \in 0 .. 255
  <2>1. CASE Named(login.name) = {}
    BY <2>1 DEF AskFlag
  <2>2. CASE Named(login.name) # {}
    <3>1. PICK k \in Named(login.name) : logBit' = rows[k].logged % 256
      BY <2>2 DEF AskFlag
    <3>2. rows[k] \in Row
      BY DEF Named, IInv, TypeOK
    <3>3. rows[k].logged \in Int
      BY <3>2 DEF Row
    <3> QED
      BY <3>1, <3>3
  <2> QED
    BY <2>1, <2>2
<1>2. TypeOK'
  BY <1>1 DEF IInv, TypeOK, AskFlag, Reply
<1> QED
  BY <1>2 DEF IInv, Unique, Registered, Alone, AskFlag

LEMMA AskRoleIInv == IInv /\ AskRole => IInv'
<1> SUFFICES ASSUME IInv, AskRole PROVE IInv'
  OBVIOUS
<1>1. login \in Login /\ logBit \in 0 .. 255
  BY DEF IInv, TypeOK, AskRole
<1>2. session' \in [Clients -> Session \cup {NoSession}]
  <2>1. CASE session' = session
    BY <2>1 DEF IInv, TypeOK
  <2>2. CASE session' # session
    <3>1. PICK mode \in Roles, c \in Clients :
            session' = [session EXCEPT ![c] =
              [name |-> login.name, role |-> mode, logged |-> logBit]]
      BY <2>2 DEF AskRole
    <3>2. [name |-> login.name, role |-> mode, logged |-> logBit] \in Session
      BY <1>1 DEF Session, Login
    <3> QED
      BY <3>1, <3>2 DEF IInv, TypeOK
  <2> QED
    BY <2>1, <2>2
<1>3. TypeOK'
  BY <1>2 DEF IInv, TypeOK, AskRole, Reply
<1> QED
  BY <1>3 DEF IInv, Unique, Registered, Alone, AskRole

LEMMA AddIInv ==
  ASSUME IInv, NEW c \in Clients, NEW name \in Names, NEW pass \in Passwords,
         NEW mode \in Modes, Add(c, name, pass, mode)
  PROVE  IInv'
<1>1. mode \in Int
  BY AccountsAssumption
<1>2. /\ rows' \in Seq(Row) /\ Unique'
      /\ Len(rows') >= Len(rows)
      /\ \A k \in 1 .. Len(rows) : rows'[k] = rows[k]
  BY <1>1, InsertAppends DEF IInv, TypeOK, Add
<1>3. reply' \in Reply
  BY DEF Add, Reply
<1>4. TypeOK'
  BY <1>2, <1>3 DEF IInv, TypeOK, Add
<1>5. pc # "register"
  BY DEF IInv, Alone, NoSession, ROOT_USR, Add, Served
<1>6. Registered' /\ Alone'
  BY <1>5 DEF Registered, Alone, Add
<1> QED
  BY <1>2, <1>4, <1>6 DEF IInv

LEMMA UpdateIInv ==
  ASSUME IInv, NEW c \in Clients, NEW name \in Names, NEW key \in Keys,
         NEW value \in Values(key), Update(c, name, key, value)
  PROVE  IInv'
<1>1. rows' \in Seq(Row) /\ Unique'
  BY UpdateOne
<1>2. PICK ok \in BOOLEAN, clash \in BOOLEAN :
        reply' = [cmd |-> "update", ok |-> ok, key |-> key, clash |-> clash]
  BY DEF Update, Clashes
<1> reply' \in Reply
  BY <1>2 DEF Reply
<1>3. TypeOK'
  BY <1>1 DEF IInv, TypeOK, Update
<1>4. pc # "register"
  <2>1. session[c].role \in {ROOT_USR, ELVT_USR}
    BY DEF Update, Served
  <2> QED
    BY <2>1 DEF IInv, Alone, NoSession, ROOT_USR, ELVT_USR
<1>5. Registered' /\ Alone'
  BY <1>4 DEF Registered, Alone, Update
<1> QED
  BY <1>1, <1>3, <1>5 DEF IInv

LEMMA DelIInv == ASSUME IInv, NEW c \in Clients, Del(c) PROVE IInv'
<1>1. reply' \in Reply
  BY DEF Del, Reply
<1> QED
  BY <1>1 DEF IInv, TypeOK, Unique, Registered, Taken, Named, Alone, Del

LEMMA LeaveIInv == ASSUME IInv, NEW c \in Clients, Leave(c) PROVE IInv'
<1>1. TypeOK'
  BY DEF IInv, TypeOK, Leave, Reply
<1>2. Unique' /\ Registered'
  BY DEF IInv, Unique, Registered, Taken, Named, Leave
<1>3. Alone'
  BY DEF IInv, TypeOK, Alone, Leave
<1> QED
  BY <1>1, <1>2, <1>3 DEF IInv

LEMMA StepIInv == IInv /\ [Next]_vars => IInv'
<1> SUFFICES ASSUME IInv, [Next]_vars PROVE IInv'
  OBVIOUS
<1>1. CASE Register
  BY <1>1, RegisterIInv
<1>2. CASE Up
  BY <1>2, UpIInv
<1>3. CASE Crash
  BY <1>3, CrashIInv
<1>4. CASE \E name \in Names, pass \in Passwords : ReadLine(name, pass)
  BY <1>4, ReadLineIInv
<1>5. CASE AskFlag
  BY <1>5, AskFlagIInv
<1>6. CASE AskRole
  BY <1>6, AskRoleIInv
<1>7. CASE \E c \in Clients, name \in Names, pass \in Passwords, mode \in Modes :
             Add(c, name, pass, mode)
  BY <1>7, AddIInv
<1>8. CASE \E c \in Clients, name \in Names, key \in Keys : \E value \in Values(key) :
             Update(c, name, key, value)
  BY <1>8, UpdateIInv
<1>9. CASE \E c \in Clients : Del(c) \/ Leave(c)
  BY <1>9, DelIInv, LeaveIInv
<1>10. CASE UNCHANGED vars
  BY <1>10 DEF IInv, TypeOK, Unique, Registered, Taken, Named, Alone, vars, stored
<1> QED
  BY <1>1, <1>2, <1>3, <1>4, <1>5, <1>6, <1>7, <1>8, <1>9, <1>10 DEF Next

\* The inductive invariant holds of every behaviour.
THEOREM Invariance == Spec => []IInv
<1>1. Init => IInv
  BY InitIInv
<1>2. IInv /\ [Next]_vars => IInv'
  BY StepIInv
<1> QED
  BY <1>1, <1>2, PTL DEF Spec

\* The types of the table, the login and the sessions (thor_db.c:109-117).
THEOREM TypeCorrect == Spec => []TypeOK
<1>1. IInv => TypeOK
  BY DEF IInv
<1> QED
  BY <1>1, Invariance, PTL

-------------------------------------------------------------------------------
(* The table under the steps of Next.                                      *)

\* What a step does to the table: an insertion, an update, or nothing.
LEMMA TableStep ==
  ASSUME IInv, [Next]_vars
  PROVE  /\ Len(rows') >= Len(rows)
         /\ \A n \in 1 .. Len(rows) : rows'[n].mode = rows[n].mode
         /\ \A m, n \in 1 .. Len(rows) : rows'[m] # rows[m] /\ rows'[n] # rows[n] => m = n
         /\ pc = "register" => \A n \in 1 .. Len(rows) : rows'[n] = rows[n]
<1> rows \in Seq(Row) /\ Len(rows) \in Nat
  BY DEF IInv, TypeOK
<1>1. CASE Register
  <2>1. i \in 1 .. Len(Builtin)
    BY <1>1, AccountsAssumption DEF IInv, TypeOK, Register
  <2>2. PICK name \in Names, pass \in Passwords, mode \in Int :
          name = Builtin[i].name /\ pass = Builtin[i].pass /\ mode = Builtin[i].mode
    BY <2>1, BuiltinAccount
  <2>3. Unique /\ Insert(name, pass, mode)
    BY <1>1, <2>2 DEF IInv, Register
  <2> QED
    BY <2>3, InsertAppends
<1>2. CASE \E c \in Clients, name \in Names, pass \in Passwords, mode \in Modes :
             Add(c, name, pass, mode)
  <2>1. PICK c \in Clients, name \in Names, pass \in Passwords, mode \in Modes :
          Add(c, name, pass, mode)
    BY <1>2
  <2>2. mode \in Int /\ Unique /\ Insert(name, pass, mode)
    BY <2>1, AccountsAssumption DEF IInv, Add
  <2> QED
    BY <2>2, InsertAppends
<1>3. CASE \E c \in Clients, name \in Names, key \in Keys : \E value \in Values(key) :
             Update(c, name, key, value)
  <2>1. PICK c \in Clients, name \in Names, key \in Keys : \E value \in Values(key) :
          Update(c, name, key, value)
    BY <1>3
  <2>2. PICK value \in Values(key) : Update(c, name, key, value)
    BY <2>1
  <2>3. session[c].role \in {ROOT_USR, ELVT_USR}
    BY <2>2 DEF Update, Served
  <2>4. pc # "register"
    BY <2>3 DEF IInv, Alone, NoSession, ROOT_USR, ELVT_USR
  <2> QED
    BY <2>2, <2>4, UpdateOne
<1>4. CASE rows' = rows
  BY <1>4
<1>5. Register \/ (\E c \in Clients, name \in Names, pass \in Passwords, mode \in Modes :
                     Add(c, name, pass, mode))
        \/ (\E c \in Clients, name \in Names, key \in Keys : \E value \in Values(key) :
              Update(c, name, key, value))
        \/ rows' = rows
  BY DEF Next, vars, stored, Up, Crash, ReadLine, AskFlag, AskRole, Del, Leave
<1> QED
  BY <1>1, <1>2, <1>3, <1>4, <1>5

\* No command and no start takes an account or its mode away (usr_info_db.c:34).
THEOREM AccountsStay == Spec => AccountsKept
<1>1. IInv /\ [Next]_vars =>
        [/\ Len(rows') >= Len(rows)
         /\ \A k \in 1 .. Len(rows) : rows'[k].mode = rows[k].mode]_vars
  BY TableStep
<1> QED
  BY <1>1, Invariance, PTL DEF Spec, AccountsKept

\* One step changes at most one account that was there (usr_info_db.c:34).
THEOREM OneChanged == Spec => OneAccountChanged
<1>1. IInv /\ [Next]_vars =>
        [\A k, n \in 1 .. Len(rows) : rows'[k] # rows[k] /\ rows'[n] # rows[n] => k = n]_vars
  BY TableStep
<1> QED
  BY <1>1, Invariance, PTL DEF Spec, OneAccountChanged

\* A start leaves the accounts that are there alone (authorize.c:56-64).
THEOREM StartKeeps == Spec => StartKeepsAccounts
<1>1. IInv /\ [Next]_vars =>
        [pc = "register" => \A k \in 1 .. Len(rows) : rows'[k] = rows[k]]_vars
  BY TableStep
<1> QED
  BY <1>1, Invariance, PTL DEF Spec, StartKeepsAccounts

\* A start that ends has put every built-in account in (authorize.c:56-64).
THEOREM StartEnds == Spec => StartCompletes
<1> DEFINE Ended == pc = "register" /\ pc' = "accept" =>
                      \A n \in 1 .. Len(Builtin) : Taken(Builtin[n].name, Builtin[n].mode)
<1>1. ASSUME IInv, [Next]_vars PROVE [Ended]_vars
  <2> SUFFICES ASSUME pc = "register", pc' = "accept" PROVE Ended
    OBVIOUS
  <2>1. i > Len(Builtin)
    BY <1>1 DEF Next, vars, stored, Register, Up, Crash, ReadLine, AskFlag, AskRole, Add, Del,
           Update, Leave
  <2>2. i = Len(Builtin) + 1 /\ Len(Builtin) \in Nat
    BY <1>1, <2>1, AccountsAssumption DEF IInv, TypeOK
  <2> QED
    BY <1>1, <2>2 DEF IInv, Registered
<1> QED
  BY <1>1, Invariance, PTL DEF Spec, StartCompletes

\* An account is found once, and a password opens it (usr_info_db.c:20).
THEOREM AccountsOpen == Spec => []EveryAccountOpens
<1>1. ASSUME IInv PROVE EveryAccountOpens
  <2> SUFFICES ASSUME NEW k \in 1 .. Len(rows)
               PROVE  /\ \E p \in Passwords : rows[k].mode \in Granted(rows[k].name, p)
                      /\ \A n \in Named(rows[k].name) : rows[n].mode = rows[k].mode => n = k
    BY DEF EveryAccountOpens
  <2>1. rows[k] \in Row
    BY <1>1 DEF IInv, TypeOK
  <2>2. PICK p \in Passwords : rows[k].pw = Hash(p)
    BY <2>1 DEF Row
  <2>3. k \in {n \in Named(rows[k].name) : rows[n].pw = Hash(p)}
    BY <2>2 DEF Named
  <2>4. rows[k].mode \in Granted(rows[k].name, p)
    BY <2>3 DEF Granted
  <2>5. \A n \in Named(rows[k].name) : rows[n].mode = rows[k].mode => n = k
    BY <1>1 DEF IInv, Unique, Named
  <2> QED
    BY <2>4, <2>5
<1> QED
  BY <1>1, Invariance, PTL

\* A session that begins has a mode its name and password give (server.c:214-239).
THEOREM RoleGranted == Spec => RoleIsGranted
<1> DEFINE Granting ==
      \A c \in Clients : session[c] = NoSession /\ session'[c] # NoSession =>
        \E k \in Named(login.name) :
          /\ session'[c].name = login.name
          /\ rows[k].pw = Hash(login.pass)
          /\ rows[k].mode = session'[c].role
<1>1. ASSUME IInv, [Next]_vars PROVE [Granting]_vars
  <2> SUFFICES ASSUME NEW c \in Clients, session[c] = NoSession, session'[c] # NoSession
               PROVE  \E k \in Named(login.name) :
                        /\ session'[c].name = login.name
                        /\ rows[k].pw = Hash(login.pass)
                        /\ rows[k].mode = session'[c].role
    OBVIOUS
  <2>1. AskRole
    BY <1>1 DEF Next, vars, stored, Register, Up, Crash, ReadLine, AskFlag, Add, Del, Update, Leave,
           IInv, TypeOK
  <2>2. PICK mode \in Granted(login.name, login.pass) :
          /\ mode \in Roles
          /\ \E d \in Clients : session' = [session EXCEPT ![d] =
               [name |-> login.name, role |-> mode, logged |-> logBit]]
    BY <2>1 DEF AskRole
  <2>3. session'[c] = [name |-> login.name, role |-> mode, logged |-> logBit]
    BY <1>1, <2>2 DEF IInv, TypeOK
  <2>4. \E k \in Named(login.name) : rows[k].pw = Hash(login.pass) /\ rows[k].mode = mode
    BY <2>2 DEF Granted, Roles, ROOT_USR, ELVT_USR, DFL_USR
  <2> QED
    BY <2>3, <2>4
<1> QED
  BY <1>1, Invariance, PTL DEF Spec, RoleIsGranted

===============================================================================
