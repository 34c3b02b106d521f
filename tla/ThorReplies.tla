------------------------------ MODULE ThorReplies ------------------------------
(***************************************************************************)
(* The commands of a session and their replies (rpc/interface.c,           *)
(* rpc/db_manager.c): which functions the session's role has               *)
(* (core/thor.c), what a command does to the tables of ThorItems, what is  *)
(* sent back, and the two pointers through which the functions return      *)
(* their results, ret.value and response.                                  *)
(*                                                                         *)
(* Only the serving thread runs commands, each to its end, so that a       *)
(* command is one step.  The table of accounts has a module of its own,    *)
(* ThorAccounts: here its statements succeed or fail.                      *)
(***************************************************************************)
EXTENDS ThorItems

CONSTANTS
  Clients, \* Sessions
  UINT_MAX \* What -1 becomes in the unsigned type that holds a level

ASSUME LevelAssumption == UINT_MAX \in Nat /\ UINT_MAX > 8

VARIABLES
  session,  \* session[s]: the role and the logging flag, fixed at login
  value,    \* ret.value between two commands: "null", or "freed" memory
  response, \* Between two commands: "none", or the statement whose error it holds
  level,    \* The level of the log
  reply,    \* The command that was just run, and the text sent back
  misuse    \* The first use of released memory or of a function that is not there

vars == <<items, images, session, value, response, level, reply, misuse>>

Roles == {"root", "elevated", "default"}
NoSession == [role |-> "none"]
Session == [role : Roles, logged : BOOLEAN]
NoReply == [to |-> "none", table |-> "none", action |-> "none", upc |-> "none", text |-> "none"]
NoMisuse == <<>>

\* Plausible mistake, for the sensitivity of the checks: a row too many is copied
\* from the table of elevated users.
DefaultTableWide == {"log_cmd", "items.get_all", "update_item", "dlt_item", "get_image"}

\* The functions of interest in the structure of a session of each role.
DefaultTable == {"log_cmd", "items.get_all", "update_item", "get_image"}
ElevatedTable ==
  DefaultTable \cup {"update_usr", "add_item", "dlt_item",
                     "add_image", "update_image", "delete_image", "images.get_all"}
RootTable ==
  ElevatedTable \cup {"creat_usr", "dlt_usr", "users.get_all",
                      "set_mode", "get_mode", "logger.get_all", "server.list", "server.down"}

Table(role) ==
  CASE role = "root"     -> RootTable
    [] role = "elevated" -> ElevatedTable
    [] role = "default"  -> DefaultTable

Has(s, function) == function \in Table(session[s].role)

\* The levels of logger.h, in order, and what the enum holds after a name that is
\* none of them.
Levels == <<"fatal", "error", "critical", "warning", "alert", "info", "debug", "verbose">>

\* Plausible mistake, for the sensitivity of the checks: the type is signed.
LevelSigned(word) ==
  IF \E l \in 1 .. 8 : Levels[l] = word THEN CHOOSE l \in 1 .. 8 : Levels[l] = word
  ELSE -1

\* str_to_loglvl.  A prefix of a name does, and no two names begin alike.
Level(word) ==
  IF \E l \in 1 .. 8 : Levels[l] = word THEN CHOOSE l \in 1 .. 8 : Levels[l] = word
  ELSE UINT_MAX

\* loglvl_to_str
LevelName(l) == IF l \in 1 .. 8 THEN Levels[l] ELSE "unknown"

\* _logv .. _logf: a message of this severity is written.
Written(severity) == level >= severity

TypeOK ==
  /\ TablesOK
  /\ session \in [Clients -> Session \cup {NoSession}]
  /\ value \in [Clients -> {"null", "freed"}]
  /\ response \in [Clients -> {"none", "log"}]
  /\ level \in 1 .. 8 \cup {UINT_MAX}
  /\ misuse \in {NoMisuse} \cup (Roles \X {"memory", "call"})

\* The level starts verbose.
Init ==
  /\ EmptyTables
  /\ session = [s \in Clients |-> NoSession]
  /\ value = [s \in Clients |-> "null"]
  /\ response = [s \in Clients |-> "none"]
  /\ level = 8
  /\ reply = NoReply
  /\ misuse = NoMisuse

-------------------------------------------------------------------------------
(* What commands have in common.                                           *)

\* A session that can be served; what follows a misuse is not modelled.
Serves(s) == session[s] # NoSession /\ misuse = NoMisuse

Says(s, table, action, upc, text) ==
  reply' = [to |-> s, table |-> table, action |-> action, upc |-> upc, text |-> text]

\* The reply of a command that is not about a table.
Tells(s, action, text) == Says(s, "none", action, "none", text)

\* The text of a command that ends without a reply.
Silent == "silent"

\* Under this condition the command reads or frees what value points to.
Uses(s, condition) ==
  misuse' = IF condition /\ value[s] = "freed" THEN <<session[s].role, "memory">>
            ELSE NoMisuse

\* A statement runs if the session has the function that executes it.
Outcome(s, function, result, statement) ==
  \/ ~Has(s, function) /\ result = "denied" /\ NoEffect
  \/ Has(s, function) /\ result \in Results /\ statement

Outcomes == Results \cup {"denied"}

\* What response holds then: sqlite3_exec sets it, and nothing else does.
Left(s, statement, result) ==
  CASE result = "error" -> statement
    [] result = "ok"    -> "none"
    [] OTHER            -> response[s]

Reason(s, statement, result) ==
  IF Left(s, statement, result) = "none" THEN "db-error" ELSE Left(s, statement, result)

\* Plausible mistake, for the sensitivity of the checks: response is freed on the
\* paths of success only.
EndKept(s, left) == response' = [response EXCEPT ![s] = left]

\* The end of __process_db_cmds frees and resets what is left in response.
EndDb(s, left) == response' = [response EXCEPT ![s] = "none"]

\* Plausible mistake, for the sensitivity of the checks: value is freed and not
\* reset.
ReleaseOnly(s) == value' = [value EXCEPT ![s] = "freed"]

Release(s) == value' = [value EXCEPT ![s] = "null"]

\* __process_db_items_cmds.  Its end releases value and resets response; a listing
\* has overwritten value before.
ItemsCommand(s, action, upc, function, result, statement, ok) ==
  /\ Serves(s)
  /\ Outcome(s, function, result, statement)
  /\ Says(s, "items", action, upc,
          CASE result = "ok"     -> ok
            [] result = "denied" -> "unauthorized"
            [] OTHER             -> Reason(s, "items", result))
  /\ Uses(s, action # "get-list" \/ result = "denied")
  /\ Release(s)
  /\ EndDb(s, "none")
  /\ UNCHANGED <<session, level>>

\* The commands on users and images that change a row: the acknowledgement prints
\* value if it is set.
RowCommand(s, table, action, upc, function, result, statement, denied) ==
  /\ Serves(s)
  /\ Outcome(s, function, result, statement)
  /\ Says(s, table, action, upc,
          CASE result = "ok"     -> "success"
            [] result = "denied" -> denied
            [] OTHER             -> Reason(s, table, result))
  /\ Uses(s, result = "ok")
  /\ EndDb(s, Left(s, table, result))
  /\ UNCHANGED <<session, value, level>>

\* The commands on users and images that read: any failure is "unauthorized".
ReadCommand(s, table, action, function) ==
  /\ Serves(s)
  /\ \E result \in Outcomes :
       /\ Outcome(s, function, result, result # "refused" /\ NoEffect)
       /\ Says(s, table, action, "none", IF result = "ok" THEN "listing" ELSE "unauthorized")
       /\ Uses(s, result = "denied")
       /\ Release(s)
       /\ EndDb(s, Left(s, table, result))
  /\ UNCHANGED <<session, level>>

-------------------------------------------------------------------------------
(* db,<action>,items                                                       *)

ItemsAdd(s, upc, name) ==
  \E result \in Outcomes :
    ItemsCommand(s, "add", upc, "add_item", result,
                 AddItem(upc, name, result), "success")

ItemsDel(s, upc) ==
  \E result \in Outcomes :
    ItemsCommand(s, "del", upc, "dlt_item", result,
                 DeleteItem(upc, result), "success")

ItemsUpdate(s, upc, key, new) ==
  \E result \in Outcomes :
    ItemsCommand(s, "update", upc, "update_item", result,
                 UpdateItem(upc, key, new, result), "success")

\* The text is Shown.
ItemsList(s) ==
  \E result \in Outcomes :
    ItemsCommand(s, "get-list", "none", "items.get_all", result,
                 result # "refused" /\ NoEffect, "listing")

-------------------------------------------------------------------------------
(* db,<action>,user: the statements are those of ThorAccounts.             *)

UsersAdd(s) ==
  \E result \in Outcomes :
    RowCommand(s, "user", "add", "none", "creat_usr", result,
               result # "refused" /\ NoEffect, "unauthorized")

\* dlt_usr executes nothing and succeeds.
UsersDel(s) ==
  /\ Serves(s)
  /\ NoEffect
  /\ Says(s, "user", "del", "none", IF Has(s, "dlt_usr") THEN "success" ELSE "unauthorized")
  /\ Uses(s, Has(s, "dlt_usr"))
  /\ EndDb(s, response[s])
  /\ UNCHANGED <<session, value, level>>

UsersUpdate(s, key) ==
  \E result \in Outcomes :
    RowCommand(s, "user", "update", "none", "update_usr", result,
               (result = "refused" <=> key = "unmapped") /\ NoEffect, Silent)

UsersList(s) == ReadCommand(s, "user", "get-list", "users.get_all")

-------------------------------------------------------------------------------
(* db,<action>,images                                                      *)

ImagesAdd(s, upc, picture) ==
  \E result \in Outcomes :
    RowCommand(s, "images", "add", upc, "add_image", result,
               AddImage(upc, picture, result), "unauthorized")

ImagesDel(s, upc) ==
  \E result \in Outcomes :
    RowCommand(s, "images", "del", upc, "delete_image", result,
               DeleteImage(upc, result), "unauthorized")

ImagesUpdate(s, upc, key, new) ==
  \E result \in Outcomes :
    RowCommand(s, "images", "update", upc, "update_image", result,
               UpdateImage(upc, key, new, result), Silent)

ImagesList(s) == ReadCommand(s, "images", "get-list", "images.get_all")

ImagesGet(s) == ReadCommand(s, "images", "get-image", "get_image")

\* No such action, or no such table.
NoSuchTable(s) ==
  /\ Serves(s)
  /\ NoEffect
  /\ Tells(s, "none", "invalid-command")
  /\ EndDb(s, response[s])
  /\ UNCHANGED <<session, value, level, misuse>>

-------------------------------------------------------------------------------
(* log-cmd and rpc-cmd                                                     *)

\* log_cmd is called without a test, and its error stays in response.
Log(s) ==
  \/ /\ Has(s, "log_cmd")
     /\ \E result \in {"ok", "error"} :
          response' = [response EXCEPT ![s] = Left(s, "log", result)]
     /\ misuse' = NoMisuse
  \/ /\ ~Has(s, "log_cmd")
     /\ misuse' = <<session[s].role, "call">>
     /\ response' = response

LogCmd(s) ==
  /\ Serves(s)
  /\ Log(s)
  /\ Tells(s, "log-cmd", Silent)
  /\ UNCHANGED <<items, images, session, value, level>>

\* lightning-cli runs whatever became of the log.
CliNode(s) ==
  /\ Serves(s)
  /\ IF session[s].logged THEN Log(s) ELSE UNCHANGED <<response, misuse>>
  /\ Tells(s, "rpc-cmd", "output")
  /\ UNCHANGED <<items, images, session, value, level>>

-------------------------------------------------------------------------------
(* control                                                                 *)

SetLogging(s, word) ==
  /\ Serves(s)
  /\ level' = IF Has(s, "set_mode") THEN Level(word) ELSE level
  /\ Tells(s, "set-logging", IF Has(s, "set_mode") THEN "success" ELSE "un-authorized")
  /\ UNCHANGED <<items, images, session, value, response, misuse>>

GetLogging(s) ==
  /\ Serves(s)
  /\ Tells(s, "get-logging", IF Has(s, "get_mode") THEN LevelName(level) ELSE "un-authorized")
  /\ UNCHANGED <<items, images, session, value, response, level, misuse>>

GetLogLevels(s) ==
  /\ Serves(s)
  /\ Tells(s, "get-log-levels", IF Has(s, "logger.get_all") THEN "listing" ELSE "un-authorized")
  /\ UNCHANGED <<items, images, session, value, response, level, misuse>>

\* The pointer is left as it is after the memory is freed.
ListPeers(s) ==
  /\ Serves(s)
  /\ IF Has(s, "server.list")
     THEN value' = [value EXCEPT ![s] = "freed"] /\ Tells(s, "list-peers", "listing")
     ELSE value' = value /\ Tells(s, "list-peers", "un-authorized")
  /\ UNCHANGED <<items, images, session, response, level, misuse>>

\* __down on the session ends the process's sessions (ThorServer); the tables and
\* the level stay.
Shutdown(s) ==
  /\ Serves(s)
  /\ IF Has(s, "server.down")
     THEN /\ Tells(s, "shutdown", "successful")
          /\ session' = [c \in Clients |-> NoSession]
          /\ value' = [c \in Clients |-> "null"]
          /\ response' = [c \in Clients |-> "none"]
     ELSE /\ Tells(s, "shutdown", "un-authorized")
          /\ UNCHANGED <<session, value, response>>
  /\ UNCHANGED <<items, images, level, misuse>>

\* The commands with a fixed answer, super-mode among them, and those with none.
Fixed ==
  {<<"auth", "logged-in">>, <<"get-tax", "tax">>, <<"kick-peer", "under-way">>,
   <<"execute-query", "under-way">>, <<"super-mode", "output">>,
   <<"unknown", "invalid-command">>, <<"unfinished", "invalid-format">>,
   <<"unknown-subcommand", Silent>>}

Other(s, answer) ==
  /\ Serves(s)
  /\ Tells(s, answer[1], answer[2])
  /\ UNCHANGED <<items, images, session, value, response, level, misuse>>

-------------------------------------------------------------------------------
(* A login copies the structure of its role.                               *)

Login(s, role, logged) ==
  /\ misuse = NoMisuse
  /\ session[s] = NoSession
  /\ session' = [session EXCEPT ![s] = [role |-> role, logged |-> logged]]
  /\ reply' = NoReply
  /\ UNCHANGED <<items, images, value, response, level, misuse>>

\* bye or end of file.  The structure is left behind; s is free for a new one.
Leave(s) ==
  /\ Serves(s)
  /\ session' = [session EXCEPT ![s] = NoSession]
  /\ value' = [value EXCEPT ![s] = "null"]
  /\ response' = [response EXCEPT ![s] = "none"]
  /\ reply' = NoReply
  /\ UNCHANGED <<items, images, level, misuse>>

Words == {"fatal", "verbose", "other"}

\* The values that a key can be given.
ItemValues(key) ==
  CASE key = "item-upc" -> Upcs [] key = "item-name" -> Names [] OTHER -> {"none"}
ImageValues(key) ==
  CASE key = "item-upc" -> Upcs [] key = "images" -> Pictures [] OTHER -> {"none"}

Command(s) ==
  \/ \E upc \in Upcs, name \in Names : ItemsAdd(s, upc, name)
  \/ \E upc \in Upcs : ItemsDel(s, upc) \/ ImagesDel(s, upc)
  \/ \E upc \in Upcs, key \in Keys :
       \/ \E new \in ItemValues(key) : ItemsUpdate(s, upc, key, new)
       \/ \E new \in ImageValues(key) : ImagesUpdate(s, upc, key, new)
  \/ \E upc \in Upcs, picture \in Pictures : ImagesAdd(s, upc, picture)
  \/ \E key \in {"userid", "unmapped"} : UsersUpdate(s, key)
  \/ ItemsList(s) \/ UsersAdd(s) \/ UsersDel(s) \/ UsersList(s)
  \/ ImagesList(s) \/ ImagesGet(s) \/ NoSuchTable(s)
  \/ LogCmd(s) \/ CliNode(s)
  \/ \E word \in Words : SetLogging(s, word)
  \/ GetLogging(s) \/ GetLogLevels(s) \/ ListPeers(s) \/ Shutdown(s)
  \/ \E answer \in Fixed : Other(s, answer)

Next ==
  \E s \in Clients :
    \/ Command(s)
    \/ \E role \in Roles, logged \in BOOLEAN : Login(s, role, logged)
    \/ Leave(s)

Spec == Init /\ [][Next]_vars

-------------------------------------------------------------------------------
(* Properties.                                                             *)

Answered == reply' # NoReply

\* The reason of a failure is the error of the command's own statement.  The one
\* exception: an update whose key is unknown executes nothing, and gives the
\* error of a log-cmd or rpc-cmd before it (db_manager.c:65, rpc_log_db.c:33).
ReasonIsOwn ==
  [][Answered /\ reply'.text \in {"items", "user", "images", "log"} =>
       \/ reply'.text = reply'.table
       \/ reply'.text = "log" /\ reply'.action = "update"]_vars

\* A pointer to released memory is kept in sessions of root only, which have
\* list-peers, so that such memory is used in those only (interface.c:123-130);
\* and no session calls a function that its role's table does not have
\* (interface.c:44, 68, and the tests before the others).
OnlyRootDangles ==
  /\ \A s \in Clients : value[s] = "freed" => session[s] # NoSession /\ session[s].role = "root"
  /\ misuse \in {NoMisuse, <<"root", "memory">>}

\* A command that is not answered with success has changed no table, and one that
\* is has changed its own table only, whatever its role, its keys and the
\* constraints (db_manager.c:19-34, 232-243).
FailureChangesNothing ==
  [][/\ tables' # tables => Answered /\ reply'.text = "success"
     /\ items' # items => reply'.table = "items"
     /\ images' # images => reply'.table = "images"]_vars

\* Whatever was added and renamed, an item's name is that of no other
\* (thor_db.c:134, items_info_db.c:26).
NamesUnique == \A k, n \in DOMAIN items : items[k].name = items[n].name => k = n

\* Items are addressed by product code, which several can share: a command
\* touches only items with its code, an update at most one of them, and a
\* deletion leaves none (items_info_db.c:26, 122).
OnlyAddressed ==
  [][/\ \A k \in DOMAIN items :
          k \notin DOMAIN items' \/ items'[k] # items[k] => items[k].upc = reply'.upc
     /\ \A k, n \in DOMAIN items \cap DOMAIN items' :
          items'[k] # items[k] /\ items'[n] # items[n] => k = n
     /\ DOMAIN items \subseteq DOMAIN items' \/
          \A k \in DOMAIN items' : items'[k].upc # reply'.upc]_vars

\* A default user's commands change columns of items and nothing else: no item
\* comes or goes and no image changes (thor.c:226-272).
DefaultKeepsStock ==
  [][Answered /\ session[reply'.to].role = "default" =>
       DOMAIN items' = DOMAIN items /\ images' = images]_vars

\* A listing is the whole table, in order, as long as its rows fit the buffer; of
\* more rows it is the last BUFSIZ bytes only, and begins with the last of these
\* (items_info_db.c:82-102).
ListingExact ==
  IF Len(Rows) <= BUFSIZ THEN Shown = Rows
  ELSE \E n \in 1 .. BUFSIZ :
         Shown = SubSeq(Rows, Len(Rows) - n + 1, Len(Rows))
                   \o SubSeq(Rows, Len(Rows) - BUFSIZ + 1, Len(Rows) - n)

\* Whatever set-logging was given, fatal messages are written, and with a level
\* that is none of the eight so is everything (logger.h:63-68, logger.c:24-205):
\* "log.f() is enabled", "log.e() and higher is enabled".
FatalAlwaysWritten == Written(1) /\ (level \notin 1 .. 8 => \A l \in 1 .. 8 : Written(l))

===============================================================================
