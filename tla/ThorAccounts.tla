----------------------------- MODULE ThorAccounts -----------------------------
(***************************************************************************)
(* The accounts: the table UserInformation (database/thor_db.c,            *)
(* database/usr_info_db.c), the built-in accounts that every start of the  *)
(* server puts into it (security/authorize.c), what a login reads from it, *)
(* and the commands of the sessions that change it (rpc/db_manager.c).     *)
(*                                                                         *)
(* The main thread registers the built-in accounts and then takes one      *)
(* login at a time; the serving thread runs the commands meanwhile, on the *)
(* same handle of the database.  SQLite runs one statement at a time and   *)
(* commits it at once, so that one statement is one step.  A crash, or the *)
(* restart after SIGSEGV, leaves the table as it is.                       *)
(***************************************************************************)
EXTENDS Integers, Sequences, FiniteSets

CONSTANTS
  Clients,   \* Connections that can be logged in at the same time
  Names,     \* User names
  Passwords, \* Passwords
  Modes,     \* The modes a command can ask for, roles or not
  Flags,     \* The values a command can give to the logging flag
  Builtin,   \* valid_users, a sequence of accounts
  MaxRows    \* Bound: rows of the table

ROOT_USR == 0
ELVT_USR == 1000
DFL_USR == 2000
Roles == {ROOT_USR, ELVT_USR, DFL_USR}

ASSUME AccountsAssumption ==
  /\ Modes \subseteq Int
  /\ Flags \subseteq Int
  /\ Builtin \in Seq([name : Names, pass : Passwords, mode : Roles])
  /\ MaxRows \in Nat

\* __compute_hash: MD5, taken to be injective, and never one of the passwords.
Hash(p) == <<"md5", p>>

VARIABLES
  rows,    \* The table, by ID: no statement of the server deletes an account
  pc,      \* What main does: "register", "accept", "flag" or "role"
  i,       \* The built-in account to register next
  login,   \* The name and the password of the login in hand
  logBit,  \* tmp_cli_info.log_bit
  session, \* session[c]: what is fixed at login, or NoSession
  reply    \* The command that was just answered, and how

stored == <<rows, pc, i, login, logBit, session>>
vars == <<stored, reply>>

Row == [name : Names, pw : {Hash(p) : p \in Passwords}, mode : Int, logged : Int]
Login == [name : Names, pass : Passwords]
Keys == {"userid", "userpass", "usermode", "userlogged", "other"}

NoSession == [role |-> -1]
NoReply == [cmd |-> "none"]
Session == [name : Names, role : Roles, logged : 0 .. 255]
Reply ==
  {NoReply}
    \cup [cmd : {"add", "del"}, ok : BOOLEAN]
    \cup [cmd : {"update"}, ok : BOOLEAN, key : Keys, clash : BOOLEAN]

TypeOK ==
  /\ rows \in Seq(Row)
  /\ pc \in {"register", "accept", "flag", "role"}
  /\ i \in 1 .. Len(Builtin) + 1
  /\ login \in Login \cup {NoSession}
  /\ pc \in {"flag", "role"} => login \in Login
  /\ logBit \in 0 .. 255
  /\ session \in [Clients -> Session \cup {NoSession}]
  /\ reply \in Reply

Init ==
  /\ rows = <<>>
  /\ pc = "register" /\ i = 1
  /\ login = NoSession /\ logBit = 0
  /\ session = [c \in Clients |-> NoSession]
  /\ reply = NoReply

-------------------------------------------------------------------------------
(* The statements.                                                         *)

Named(name) == {k \in 1 .. Len(rows) : rows[k].name = name}

\* UNIQUE(UserName, PrivMode)
Taken(name, mode) == \E k \in Named(name) : rows[k].mode = mode

\* Plausible mistake, for the sensitivity of the checks: INSERT OR REPLACE.
InsertReplacing(name, pass, mode) ==
  LET row == [name |-> name, pw |-> Hash(pass), mode |-> mode, logged |-> 1]
  IN rows' = IF Taken(name, mode)
             THEN [k \in 1 .. Len(rows) |->
                     IF rows[k].name = name /\ rows[k].mode = mode THEN row ELSE rows[k]]
             ELSE Append(rows, row)

\* Every user is logged by default.  The constraint refuses a second row.
Insert(name, pass, mode) ==
  rows' = IF Taken(name, mode) THEN rows
          ELSE Append(rows, [name |-> name, pw |-> Hash(pass), mode |-> mode, logged |-> 1])

\* Plausible mistake, for the sensitivity of the checks: the password is stored as
\* it is, not as its hash.
ChangedPlain(row, key, value) ==
  CASE key = "userid"     -> [row EXCEPT !.name = value]
    [] key = "userpass"   -> [row EXCEPT !.pw = <<"plain", value>>]
    [] key = "userlogged" -> [row EXCEPT !.logged = value]

\* The row with one column set; a password is hashed first.
Changed(row, key, value) ==
  CASE key = "userid"     -> [row EXCEPT !.name = value]
    [] key = "userpass"   -> [row EXCEPT !.pw = Hash(value)]
    [] key = "userlogged" -> [row EXCEPT !.logged = value]

\* The values of a key.
Values(key) ==
  CASE key = "userid"     -> Names
    [] key = "userpass"   -> Passwords
    [] key = "userlogged" -> Flags
    [] OTHER              -> Modes

-------------------------------------------------------------------------------
(* Start.                                                                  *)

\* Plausible mistake, for the sensitivity of the checks: an account that is there
\* already ends the registration.
RegisterStops ==
  /\ pc = "register" /\ i <= Len(Builtin)
  /\ LET b == Builtin[i]
     IN /\ Insert(b.name, b.pass, b.mode)
        /\ i' = IF Taken(b.name, b.mode) THEN Len(Builtin) + 1 ELSE i + 1
  /\ reply' = NoReply
  /\ UNCHANGED <<pc, login, logBit, session>>

\* One turn of register_users, which does not look at the result.
Register ==
  /\ pc = "register" /\ i <= Len(Builtin)
  /\ LET b == Builtin[i] IN Insert(b.name, b.pass, b.mode)
  /\ i' = i + 1
  /\ reply' = NoReply
  /\ UNCHANGED <<pc, login, logBit, session>>

\* __up and the accept loop.
Up ==
  /\ pc = "register" /\ i > Len(Builtin)
  /\ pc' = "accept"
  /\ reply' = NoReply
  /\ UNCHANGED <<rows, i, login, logBit, session>>

Crash ==
  /\ pc' = "register" /\ i' = 1
  /\ login' = NoSession /\ logBit' = 0
  /\ session' = [c \in Clients |-> NoSession]
  /\ reply' = NoReply
  /\ UNCHANGED rows

-------------------------------------------------------------------------------
(* Login, on the main thread.                                              *)

ReadLine(name, pass) ==
  /\ pc = "accept"
  /\ \E c \in Clients : session[c] = NoSession
  /\ pc' = "flag"
  /\ login' = [name |-> name, pass |-> pass]
  /\ reply' = NoReply
  /\ UNCHANGED <<rows, i, logBit, session>>

\* Plausible mistake, for the sensitivity of the checks: the flag keeps the width
\* of the column.
AskFlagWide ==
  /\ pc = "flag"
  /\ pc' = "role"
  /\ IF Named(login.name) = {} THEN logBit' = 1
     ELSE \E k \in Named(login.name) : logBit' = rows[k].logged
  /\ reply' = NoReply
  /\ UNCHANGED <<rows, i, login, session>>

\* __is_logged asks by the name alone.  The callback keeps the last row that
\* the database returns, in no order the statement fixes; the result is a uint8_t.
AskFlag ==
  /\ pc = "flag"
  /\ pc' = "role"
  /\ IF Named(login.name) = {} THEN logBit' = 1
     ELSE \E k \in Named(login.name) : logBit' = rows[k].logged % 256
  /\ reply' = NoReply
  /\ UNCHANGED <<rows, i, login, session>>

\* Plausible mistake, for the sensitivity of the checks: the variable mode of
\* __get_usr_role starts at 0, which is a role.
GrantedZero(name, pass) ==
  LET hits == {k \in Named(name) : rows[k].pw = Hash(pass)}
  IN IF hits = {} THEN {0} ELSE {rows[k].mode : k \in hits}

\* __get_usr_role: the modes it can return, the last row wins again.
Granted(name, pass) ==
  LET hits == {k \in Named(name) : rows[k].pw = Hash(pass)}
  IN IF hits = {} THEN {-1} ELSE {rows[k].mode : k \in hits}

\* A mode that is a role gets a session with the table of that role; any other
\* is kicked.
AskRole ==
  /\ pc = "role"
  /\ pc' = "accept"
  /\ login' = NoSession /\ logBit' = 0
  /\ \E mode \in Granted(login.name, login.pass) :
       IF mode \in Roles
       THEN \E c \in Clients :
              /\ session[c] = NoSession
              /\ session' = [session EXCEPT ![c] =
                   [name |-> login.name, role |-> mode, logged |-> logBit]]
       ELSE session' = session
  /\ reply' = NoReply
  /\ UNCHANGED <<rows, i>>

-------------------------------------------------------------------------------
(* Commands, on the serving thread, which Up starts.                       *)

Served(c, roles) == session[c].role \in roles

\* db,add,user: creat_usr is in the table of root only.
Add(c, name, pass, mode) ==
  /\ Served(c, {ROOT_USR})
  /\ Len(rows) < MaxRows
  /\ Insert(name, pass, mode)
  /\ reply' = [cmd |-> "add", ok |-> ~Taken(name, mode)]
  /\ UNCHANGED <<pc, i, login, logBit, session>>

\* db,del,user: dlt_usr logs the call and returns.
Del(c) ==
  /\ Served(c, {ROOT_USR})
  /\ reply' = [cmd |-> "del", ok |-> TRUE]
  /\ UNCHANGED <<rows, pc, i, login, logBit, session>>

\* Plausible mistake, for the sensitivity of the checks: UPDATE OR REPLACE.
StoreReplacing(k, row) ==
  rows' = SelectSeq([rows EXCEPT ![k] = row],
                    LAMBDA r : r = row \/ r.name # row.name \/ r.mode # row.mode)

\* Plausible mistake, for the sensitivity of the checks: every row of the name.
StoreAll(k, row) ==
  rows' = [n \in 1 .. Len(rows) |-> IF n \in Named(rows[k].name) THEN row ELSE rows[n]]

\* The update of row k would break UNIQUE(UserName, PrivMode).
Clashes(k, row) == \E n \in Named(row.name) \ {k} : rows[n].mode = row.mode

\* UPDATE ... WHERE ID = (SELECT ID ...)
Store(k, row) == rows' = IF Clashes(k, row) THEN rows ELSE [rows EXCEPT ![k] = row]

\* db,update,user: update_usr is in the tables of root and elevated users.  The
\* inner SELECT returns one of the rows of that name, or none, which is no
\* error.  The column of usermode is called UserMode in mappings.h, and the table
\* has none of that name; a key of no column is refused before.
Update(c, name, key, value) ==
  /\ Served(c, {ROOT_USR, ELVT_USR})
  /\ \/ /\ key \in {"usermode", "other"}
        /\ reply' = [cmd |-> "update", ok |-> FALSE, key |-> key, clash |-> FALSE]
        /\ rows' = rows
     \/ /\ key \notin {"usermode", "other"} /\ Named(name) = {}
        /\ reply' = [cmd |-> "update", ok |-> TRUE, key |-> key, clash |-> FALSE]
        /\ rows' = rows
     \/ /\ key \notin {"usermode", "other"}
        /\ \E k \in Named(name) :
             LET row == Changed(rows[k], key, value)
             IN /\ reply' = [cmd |-> "update", ok |-> ~Clashes(k, row), key |-> key,
                             clash |-> Clashes(k, row)]
                /\ Store(k, row)
  /\ UNCHANGED <<pc, i, login, logBit, session>>

\* bye, end of file.
Leave(c) ==
  /\ session[c] # NoSession
  /\ session' = [session EXCEPT ![c] = NoSession]
  /\ reply' = NoReply
  /\ UNCHANGED <<rows, pc, i, login, logBit>>

Next ==
  \/ Register \/ Up \/ Crash
  \/ \E name \in Names, pass \in Passwords : ReadLine(name, pass)
  \/ AskFlag \/ AskRole
  \/ \E c \in Clients, name \in Names, pass \in Passwords, mode \in Modes :
       Add(c, name, pass, mode)
  \/ \E c \in Clients, name \in Names, key \in Keys : \E value \in Values(key) :
       Update(c, name, key, value)
  \/ \E c \in Clients : Del(c) \/ Leave(c)

Spec == Init /\ [][Next]_vars

-------------------------------------------------------------------------------
(* Properties.                                                             *)

\* A start ends with every built-in account in the table, whatever was there
\* before and wherever earlier starts were cut off (authorize.c:56-64).
StartCompletes ==
  [][pc = "register" /\ pc' = "accept" =>
       \A n \in 1 .. Len(Builtin) : Taken(Builtin[n].name, Builtin[n].mode)]_vars

\* A start changes no account that is there: a password that was changed by a
\* command survives crashes and restarts (authorize.c:59, usr_info_db.c:68).
StartKeepsAccounts == [][pc = "register" => \A k \in 1 .. Len(rows) : rows'[k] = rows[k]]_vars

\* No command takes an account or the mode of an account away (usr_info_db.c:34,
\* thor_db.c:116): the accounts of a role only become more.
AccountsKept ==
  [][/\ Len(rows') >= Len(rows)
     /\ \A k \in 1 .. Len(rows) : rows'[k].mode = rows[k].mode]_vars

\* One command changes at most one account, also where several accounts have the
\* same name (usr_info_db.c:34).
OneAccountChanged ==
  [][\A k, n \in 1 .. Len(rows) :
       rows'[k] # rows[k] /\ rows'[n] # rows[n] => k = n]_vars

\* Whatever sequence of commands made it, an account is found by its name and
\* mode at most once, and there is a password that its row answers to
\* (usr_info_db.c:20, thor_db.c:80).
EveryAccountOpens ==
  \A k \in 1 .. Len(rows) :
    /\ \E p \in Passwords : rows[k].mode \in Granted(rows[k].name, p)
    /\ \A n \in Named(rows[k].name) : rows[n].mode = rows[k].mode => n = k

\* A session that begins has the mode of an account of its name that its
\* password opens at that moment, though the table may have changed since the
\* line was read; without such an account none begins (thor_db.c:71-93,
\* server.c:214-239).
RoleIsGranted ==
  [][\A c \in Clients : session[c] = NoSession /\ session'[c] # NoSession =>
       \E k \in Named(login.name) :
         /\ session'[c].name = login.name
         /\ rows[k].pw = Hash(login.pass)
         /\ rows[k].mode = session'[c].role]_vars

\* "Where keys are: userid userpass usermode userlogged" (readme.md:66-70): an
\* update with one of these keys fails only because the account would clash with
\* another.
DocumentedKeysUpdate ==
  reply.cmd = "update" /\ reply.key # "other" => reply.ok \/ reply.clash

===============================================================================
