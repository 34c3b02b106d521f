--------------------------- MODULE ThorRepliesProofs ---------------------------
(***************************************************************************)
(* What ThorReplies keeps, for any sessions, names, codes, pictures and    *)
(* bounds.                                                                 *)
(***************************************************************************)
EXTENDS ThorReplies, SequenceTheorems, WellFoundedInduction, TLAPS

-------------------------------------------------------------------------------
(* The tables.                                                             *)

\* A statement with another result than "ok" has no effect.
LEMMA Failing ==
  ASSUME NEW upc, NEW name, NEW key, NEW new, NEW result, result # "ok"
  PROVE  /\ AddItem(upc, name, result) => NoEffect
         /\ DeleteItem(upc, result) => NoEffect
         /\ UpdateItem(upc, key, new, result) => NoEffect
         /\ AddImage(upc, new, result) => NoEffect
         /\ DeleteImage(upc, result) => NoEffect
         /\ UpdateImage(upc, key, new, result) => NoEffect
BY DEF AddItem, DeleteItem, UpdateItem, AddImage, DeleteImage, UpdateImage, NoEffect

\* Each statement keeps the tables well formed and the names of items unique.
LEMMA AddItemKeeps ==
  ASSUME TablesOK, NamesUnique, NEW upc \in Upcs, NEW name \in Names, AddItem(upc, name, "ok")
  PROVE  TablesOK' /\ NamesUnique'
<1>1. PICK id \in 1 .. MaxItems :
        /\ \A k \in DOMAIN items : k < id
        /\ items' = [k \in DOMAIN items \cup {id} |->
                       IF k = id THEN [upc |-> upc, name |-> name] ELSE items[k]]
  BY DEF AddItem, NextId
<1>2. images' = images /\ \A k \in DOMAIN items : items[k].name # name
  BY DEF AddItem, Named
<1>3. PICK ids \in SUBSET (1 .. MaxItems) : items \in [ids -> Item]
  BY DEF TablesOK
<1>4. items' \in [ids \cup {id} -> Item] /\ ids \cup {id} \in SUBSET (1 .. MaxItems)
  BY <1>1, <1>3 DEF Item
<1>5. TablesOK'
  BY <1>2, <1>4 DEF TablesOK
<1>6. NamesUnique'
  BY <1>1, <1>2, <1>3 DEF NamesUnique
<1> QED BY <1>5, <1>6

LEMMA DeleteItemKeeps ==
  ASSUME TablesOK, NamesUnique, NEW upc \in Upcs, DeleteItem(upc, "ok")
  PROVE  TablesOK' /\ NamesUnique'
<1>1. /\ items' = [k \in DOMAIN items \ Coded(upc) |-> items[k]]
      /\ images' = images
  BY DEF DeleteItem
<1>2. PICK ids \in SUBSET (1 .. MaxItems) : items \in [ids -> Item]
  BY DEF TablesOK
<1>3. items' \in [ids \ Coded(upc) -> Item] /\ ids \ Coded(upc) \in SUBSET (1 .. MaxItems)
  BY <1>1, <1>2
<1>4. TablesOK'
  BY <1>1, <1>3 DEF TablesOK
<1>5. NamesUnique'
  BY <1>1, <1>2 DEF NamesUnique
<1> QED BY <1>4, <1>5

LEMMA UpdateItemKeeps ==
  ASSUME TablesOK, NamesUnique,
         NEW upc \in Upcs, NEW key \in Keys, NEW new \in ItemValues(key),
         UpdateItem(upc, key, new, "ok")
  PROVE  TablesOK' /\ NamesUnique'
<1>1. CASE NoEffect
  BY <1>1 DEF NoEffect, tables, TablesOK, NamesUnique
<1>2. CASE ~NoEffect
  <2>1. PICK k \in DOMAIN items :
          KeepsUnique(k, key, new) /\ SetColumn(k, key, new) /\ images' = images
    BY <1>2 DEF UpdateItem, Coded
  <2>2. PICK ids \in SUBSET (1 .. MaxItems) : items \in [ids -> Item]
    BY DEF TablesOK
  <2>3. \/ key = "item-upc" /\ new \in Upcs /\ items' = [items EXCEPT ![k].upc = new]
        \/ key = "item-name" /\ new \in Names /\ items' = [items EXCEPT ![k].name = new]
        \/ items' = items
    BY <2>1, <2>2 DEF SetColumn, ItemValues
  <2>4. items' \in [ids -> Item]
    BY <2>1, <2>2, <2>3 DEF Item
  <2>5. TablesOK'
    BY <2>1, <2>4 DEF TablesOK
  <2>6. NamesUnique'
    <3>1. CASE items' = items
      BY <3>1 DEF NamesUnique
    <3>2. CASE key = "item-upc" /\ items' = [items EXCEPT ![k].upc = new]
      BY <3>2, <2>2 DEF NamesUnique, Item
    <3>3. CASE key = "item-name" /\ items' = [items EXCEPT ![k].name = new]
      <4>1. \A n \in DOMAIN items : items[n].name = new => n = k
        BY <3>3, <2>1 DEF KeepsUnique, Named
      <4> QED BY <4>1, <3>3, <2>2 DEF NamesUnique, Item
    <3> QED BY <2>3, <3>1, <3>2, <3>3
  <2> QED BY <2>5, <2>6
<1> QED BY <1>1, <1>2

LEMMA ImagesKeep ==
  ASSUME TablesOK, NamesUnique, NEW upc \in Upcs, NEW key \in Keys,
         \/ \E picture \in Pictures : AddImage(upc, picture, "ok")
         \/ DeleteImage(upc, "ok")
         \/ \E new \in ImageValues(key) : UpdateImage(upc, key, new, "ok")
  PROVE  TablesOK' /\ NamesUnique'
<1>1. PICK upcs \in SUBSET Upcs : images \in [upcs -> Pictures]
  BY DEF TablesOK
<1>2. NoEffect \/ items' = items
  BY DEF AddImage, DeleteImage, UpdateImage
<1>3. items' = items
  BY <1>2 DEF NoEffect, tables
<1>4. \E us \in SUBSET Upcs : images' \in [us -> Pictures]
  <2>1. CASE \E picture \in Pictures : AddImage(upc, picture, "ok")
    <3>1. PICK picture \in Pictures :
            images' = [u \in upcs \cup {upc} |-> IF u = upc THEN picture ELSE images[u]]
      BY <2>1, <1>1 DEF AddImage
    <3>2. images' \in [upcs \cup {upc} -> Pictures] BY <3>1, <1>1
    <3> QED BY <3>2
  <2>2. CASE DeleteImage(upc, "ok")
    <3>1. images' \in [upcs \ {upc} -> Pictures] BY <2>2, <1>1 DEF DeleteImage
    <3> QED BY <3>1
  <2>3. CASE \E new \in ImageValues(key) : UpdateImage(upc, key, new, "ok")
    <3>1. PICK new \in ImageValues(key) :
            \/ images' = images
            \/ /\ upc \in DOMAIN images /\ key = "images"
               /\ images' = [images EXCEPT ![upc] = new]
            \/ /\ upc \in DOMAIN images /\ key = "item-upc"
               /\ images' = [u \in (DOMAIN images \ {upc}) \cup {new} |->
                               IF u = new THEN images[upc] ELSE images[u]]
      BY <2>3 DEF UpdateImage, NoEffect, tables
    <3>2. CASE images' = images
      BY <3>2, <1>1
    <3>3. CASE key = "images" /\ upc \in DOMAIN images /\ images' = [images EXCEPT ![upc] = new]
      <4>1. new \in Pictures BY <3>3 DEF ImageValues
      <4>2. images' \in [upcs -> Pictures] BY <4>1, <3>3, <1>1
      <4> QED BY <4>2
    <3>4. CASE /\ upc \in DOMAIN images /\ key = "item-upc"
               /\ images' = [u \in (DOMAIN images \ {upc}) \cup {new} |->
                               IF u = new THEN images[upc] ELSE images[u]]
      <4>1. new \in Upcs BY <3>4 DEF ImageValues
      <4>2. images' \in [(upcs \ {upc}) \cup {new} -> Pictures] BY <3>4, <1>1
      <4> QED BY <4>1, <4>2
    <3> QED BY <3>1, <3>2, <3>3, <3>4
  <2> QED BY <2>1, <2>2, <2>3
<1>5. TablesOK'
  BY <1>3, <1>4 DEF TablesOK
<1>6. NamesUnique'
  BY <1>3 DEF NamesUnique
<1> QED BY <1>5, <1>6

-------------------------------------------------------------------------------
(* What the commands do.                                                   *)

Acknowledged(s, table, upc) ==
  /\ reply'.to = s /\ reply'.table = table /\ reply'.upc = upc /\ reply'.text = "success"

\* The effect of a command on the items, and its reply.
ItemsEffect(s) ==
  \E upc \in Upcs :
    /\ Acknowledged(s, "items", upc)
    /\ images' = images
    /\ \/ Has(s, "add_item") /\ \E name \in Names : AddItem(upc, name, "ok")
       \/ Has(s, "dlt_item") /\ DeleteItem(upc, "ok")
       \/ \E key \in Keys : \E new \in ItemValues(key) : UpdateItem(upc, key, new, "ok")

ImagesEffect(s) ==
  \E upc \in Upcs, key \in Keys :
    /\ Acknowledged(s, "images", upc)
    /\ items' = items
    /\ \/ /\ Has(s, "add_image")
          /\ \E picture \in Pictures : AddImage(upc, picture, "ok")
       \/ Has(s, "delete_image") /\ DeleteImage(upc, "ok")
       \/ /\ Has(s, "update_image")
          /\ \E new \in ImageValues(key) : UpdateImage(upc, key, new, "ok")

Effect(s) == NoEffect \/ ItemsEffect(s) \/ ImagesEffect(s)

\* A reason is the error of the command's own statement, or an older one of an
\* update that executed nothing.
Reasons(s) ==
  reply'.text \in {"items", "user", "images", "log"} =>
    \/ reply'.text = reply'.table
    \/ reply'.text = "log" /\ reply'.action = "update"

\* The effect of a command on the tables' database on everything else.
Bookkeeping(s) ==
  /\ Serves(s)
  /\ UNCHANGED <<session, level>>
  /\ value' = value \/ value' = [value EXCEPT ![s] = "null"]
  /\ response' = [response EXCEPT ![s] = "none"]
  /\ \/ misuse' = NoMisuse
     \/ value[s] = "freed" /\ misuse' = <<session[s].role, "memory">>

\* Commands on the tables.
DbCommand(s) ==
  \/ \E upc \in Upcs, name \in Names : ItemsAdd(s, upc, name)
  \/ \E upc \in Upcs : ItemsDel(s, upc) \/ ImagesDel(s, upc)
  \/ \E upc \in Upcs, key \in Keys :
       \/ \E new \in ItemValues(key) : ItemsUpdate(s, upc, key, new)
       \/ \E new \in ImageValues(key) : ImagesUpdate(s, upc, key, new)
  \/ \E upc \in Upcs, picture \in Pictures : ImagesAdd(s, upc, picture)
  \/ \E key \in {"userid", "unmapped"} : UsersUpdate(s, key)
  \/ ItemsList(s) \/ UsersAdd(s) \/ UsersDel(s) \/ UsersList(s)
  \/ ImagesList(s) \/ ImagesGet(s) \/ NoSuchTable(s)

OtherCommand(s) ==
  \/ LogCmd(s) \/ CliNode(s)
  \/ \E word \in Words : SetLogging(s, word)
  \/ GetLogging(s) \/ GetLogLevels(s) \/ ListPeers(s) \/ Shutdown(s)
  \/ \E answer \in Fixed : Other(s, answer)

LEMMA Commands == ASSUME NEW s, Command(s) PROVE DbCommand(s) \/ OtherCommand(s)
BY DEF Command, DbCommand, OtherCommand

\* The text of a reply, by the result.
LEMMA Text ==
  ASSUME TypeOK, NEW s \in Clients, NEW table, NEW action, NEW upc, NEW ok, NEW denied,
         NEW result \in Outcomes,
         Says(s, table, action, upc,
              CASE result = "ok"     -> ok
                [] result = "denied" -> denied
                [] OTHER             -> Reason(s, table, result))
  PROVE  /\ reply'.to = s /\ reply'.table = table /\ reply'.action = action /\ reply'.upc = upc
         /\ result = "ok" => reply'.text = ok
         /\ result = "denied" => reply'.text = denied
         /\ result = "error" => reply'.text \in {table, "db-error"}
         /\ result = "refused" => reply'.text \in {"db-error", "log"}
<1>1. response[s] \in {"none", "log"}
  BY DEF TypeOK
<1>2. /\ reply'.to = s /\ reply'.table = table /\ reply'.action = action /\ reply'.upc = upc
      /\ reply'.text = CASE result = "ok"     -> ok
                         [] result = "denied" -> denied
                         [] OTHER             -> Reason(s, table, result)
  BY DEF Says
<1>3. result = "ok" => reply'.text = ok
  BY <1>2
<1>4. result = "denied" => reply'.text = denied
  BY <1>2
<1>5. result = "error" => reply'.text = Reason(s, table, "error")
  BY <1>2
<1>6. result = "refused" => reply'.text = Reason(s, table, "refused")
  BY <1>2
<1>7. Reason(s, table, "error") \in {table, "db-error"}
  BY DEF Reason, Left
<1>8. Reason(s, table, "refused") \in {"db-error", "log"}
  BY <1>1 DEF Reason, Left
<1> QED BY <1>2, <1>3, <1>4, <1>5, <1>6, <1>7, <1>8

\* What a reply says of the command's result.
LEMMA Reply ==
  ASSUME TypeOK, NEW s \in Clients, NEW table \in {"items", "user", "images"},
         NEW action, NEW upc, NEW ok \in {"success", "listing"},
         NEW denied \in {"unauthorized", Silent}, NEW result \in Outcomes,
         result = "refused" => action = "update",
         Says(s, table, action, upc,
              CASE result = "ok"     -> ok
                [] result = "denied" -> denied
                [] OTHER             -> Reason(s, table, result))
  PROVE  /\ reply'.to = s
         /\ Reasons(s)
         /\ result = "ok" /\ ok = "success" => Acknowledged(s, table, upc)
<1>1. /\ reply'.to = s /\ reply'.table = table /\ reply'.action = action /\ reply'.upc = upc
      /\ result = "ok" => reply'.text = ok
      /\ result = "denied" => reply'.text = denied
      /\ result = "error" => reply'.text \in {table, "db-error"}
      /\ result = "refused" => reply'.text \in {"db-error", "log"}
  BY Text
<1>2. result \in {"ok", "error", "refused", "denied"}
  BY DEF Outcomes, Results
<1>3. Reasons(s)
  BY <1>1, <1>2 DEF Reasons, Silent
<1> QED BY <1>1, <1>3 DEF Acknowledged

LEMMA DbEffect ==
  ASSUME TypeOK, NEW s \in Clients, DbCommand(s)
  PROVE  Effect(s) /\ Reasons(s) /\ Bookkeeping(s) /\ reply'.to = s
<1> DEFINE Goal == Effect(s) /\ Reasons(s) /\ Bookkeeping(s) /\ reply'.to = s
<1>1. ASSUME NEW upc \in Upcs, NEW name \in Names, ItemsAdd(s, upc, name)
      PROVE  Goal
  <2>1. PICK result \in Outcomes :
          /\ Outcome(s, "add_item", result, AddItem(upc, name, result))
          /\ Says(s, "items", "add", upc,
                  CASE result = "ok"     -> "success"
                    [] result = "denied" -> "unauthorized"
                    [] OTHER             -> Reason(s, "items", result))
    BY <1>1 DEF ItemsAdd, ItemsCommand
  <2>2. Bookkeeping(s)
    BY <1>1 DEF ItemsAdd, ItemsCommand, Bookkeeping, EndDb, Uses, Release
  <2>3. reply'.to = s /\ Reasons(s) /\ (result = "ok" => Acknowledged(s, "items", upc))
    <3>1. result # "refused"
      BY <2>1 DEF Outcome, AddItem
    <3> QED BY <2>1, <3>1, Reply
  <2>4. CASE result = "ok"
    <3>1. Has(s, "add_item") /\ AddItem(upc, name, "ok") /\ images' = images
      BY <2>1, <2>4 DEF Outcome, AddItem
    <3> QED BY <2>2, <2>3, <2>4, <3>1 DEF Effect, ItemsEffect
  <2>5. CASE result # "ok"
    <3>1. NoEffect
      BY <2>1, <2>5, Failing DEF Outcome
    <3> QED BY <2>2, <2>3, <3>1 DEF Effect
  <2> QED BY <2>4, <2>5
<1>2. ASSUME NEW upc \in Upcs, ItemsDel(s, upc)
      PROVE  Goal
  <2>1. PICK result \in Outcomes :
          /\ Outcome(s, "dlt_item", result, DeleteItem(upc, result))
          /\ Says(s, "items", "del", upc,
                  CASE result = "ok"     -> "success"
                    [] result = "denied" -> "unauthorized"
                    [] OTHER             -> Reason(s, "items", result))
    BY <1>2 DEF ItemsDel, ItemsCommand
  <2>2. Bookkeeping(s)
    BY <1>2 DEF ItemsDel, ItemsCommand, Bookkeeping, EndDb, Uses, Release
  <2>3. reply'.to = s /\ Reasons(s) /\ (result = "ok" => Acknowledged(s, "items", upc))
    <3>1. result # "refused"
      BY <2>1 DEF Outcome, DeleteItem
    <3> QED BY <2>1, <3>1, Reply
  <2>4. CASE result = "ok"
    <3>1. Has(s, "dlt_item") /\ DeleteItem(upc, "ok") /\ images' = images
      BY <2>1, <2>4 DEF Outcome, DeleteItem
    <3> QED BY <2>2, <2>3, <2>4, <3>1 DEF Effect, ItemsEffect
  <2>5. CASE result # "ok"
    <3>1. NoEffect
      BY <2>1, <2>5, Failing DEF Outcome
    <3> QED BY <2>2, <2>3, <3>1 DEF Effect
  <2> QED BY <2>4, <2>5
<1>3. ASSUME NEW upc \in Upcs, NEW key \in Keys, NEW new \in ItemValues(key), ItemsUpdate(s, upc, key, new)
      PROVE  Goal
  <2>1. PICK result \in Outcomes :
          /\ Outcome(s, "update_item", result, UpdateItem(upc, key, new, result))
          /\ Says(s, "items", "update", upc,
                  CASE result = "ok"     -> "success"
                    [] result = "denied" -> "unauthorized"
                    [] OTHER             -> Reason(s, "items", result))
    BY <1>3 DEF ItemsUpdate, ItemsCommand
  <2>2. Bookkeeping(s)
    BY <1>3 DEF ItemsUpdate, ItemsCommand, Bookkeeping, EndDb, Uses, Release
  <2>3. reply'.to = s /\ Reasons(s) /\ (result = "ok" => Acknowledged(s, "items", upc))
    BY <2>1, Reply
  <2>4. CASE result = "ok"
    <3>1. Has(s, "update_item") /\ UpdateItem(upc, key, new, "ok") /\ images' = images
      BY <2>1, <2>4 DEF Outcome, UpdateItem, NoEffect, tables
    <3> QED BY <2>2, <2>3, <2>4, <3>1 DEF Effect, ItemsEffect
  <2>5. CASE result # "ok"
    <3>1. NoEffect
      BY <2>1, <2>5, Failing DEF Outcome
    <3> QED BY <2>2, <2>3, <3>1 DEF Effect
  <2> QED BY <2>4, <2>5
<1>4. ASSUME NEW upc \in Upcs, NEW picture \in Pictures, ImagesAdd(s, upc, picture)
      PROVE  Goal
  <2>1. PICK result \in Outcomes :
          /\ Outcome(s, "add_image", result, AddImage(upc, picture, result))
          /\ Says(s, "images", "add", upc,
                  CASE result = "ok"     -> "success"
                    [] result = "denied" -> "unauthorized"
                    [] OTHER             -> Reason(s, "images", result))
    BY <1>4 DEF ImagesAdd, RowCommand
  <2>2. Bookkeeping(s)
    BY <1>4 DEF ImagesAdd, RowCommand, Bookkeeping, EndDb, Uses
  <2>3. reply'.to = s /\ Reasons(s) /\ (result = "ok" => Acknowledged(s, "images", upc))
    <3>1. result # "refused"
      BY <2>1 DEF Outcome, AddImage
    <3> QED BY <2>1, <3>1, Reply
  <2>4. CASE result = "ok"
    <3>1. Has(s, "add_image") /\ AddImage(upc, picture, "ok") /\ items' = items
      BY <2>1, <2>4 DEF Outcome, AddImage
    <3> QED BY <2>2, <2>3, <2>4, <3>1 DEF Effect, ImagesEffect, Keys
  <2>5. CASE result # "ok"
    <3>1. NoEffect
      BY <2>1, <2>5, Failing DEF Outcome
    <3> QED BY <2>2, <2>3, <3>1 DEF Effect
  <2> QED BY <2>4, <2>5
<1>5. ASSUME NEW upc \in Upcs, ImagesDel(s, upc)
      PROVE  Goal
  <2>1. PICK result \in Outcomes :
          /\ Outcome(s, "delete_image", result, DeleteImage(upc, result))
          /\ Says(s, "images", "del", upc,
                  CASE result = "ok"     -> "success"
                    [] result = "denied" -> "unauthorized"
                    [] OTHER             -> Reason(s, "images", result))
    BY <1>5 DEF ImagesDel, RowCommand
  <2>2. Bookkeeping(s)
    BY <1>5 DEF ImagesDel, RowCommand, Bookkeeping, EndDb, Uses
  <2>3. reply'.to = s /\ Reasons(s) /\ (result = "ok" => Acknowledged(s, "images", upc))
    <3>1. result # "refused"
      BY <2>1 DEF Outcome, DeleteImage
    <3> QED BY <2>1, <3>1, Reply
  <2>4. CASE result = "ok"
    <3>1. Has(s, "delete_image") /\ DeleteImage(upc, "ok") /\ items' = items
      BY <2>1, <2>4 DEF Outcome, DeleteImage
    <3> QED BY <2>2, <2>3, <2>4, <3>1 DEF Effect, ImagesEffect, Keys
  <2>5. CASE result # "ok"
    <3>1. NoEffect
      BY <2>1, <2>5, Failing DEF Outcome
    <3> QED BY <2>2, <2>3, <3>1 DEF Effect
  <2> QED BY <2>4, <2>5
<1>6. ASSUME NEW upc \in Upcs, NEW key \in Keys, NEW new \in ImageValues(key), ImagesUpdate(s, upc, key, new)
      PROVE  Goal
  <2>1. PICK result \in Outcomes :
          /\ Outcome(s, "update_image", result, UpdateImage(upc, key, new, result))
          /\ Says(s, "images", "update", upc,
                  CASE result = "ok"     -> "success"
                    [] result = "denied" -> Silent
                    [] OTHER             -> Reason(s, "images", result))
    BY <1>6 DEF ImagesUpdate, RowCommand
  <2>2. Bookkeeping(s)
    BY <1>6 DEF ImagesUpdate, RowCommand, Bookkeeping, EndDb, Uses
  <2>3. reply'.to = s /\ Reasons(s) /\ (result = "ok" => Acknowledged(s, "images", upc))
    BY <2>1, Reply
  <2>4. CASE result = "ok"
    <3>1. Has(s, "update_image") /\ UpdateImage(upc, key, new, "ok") /\ items' = items
      BY <2>1, <2>4 DEF Outcome, UpdateImage
    <3> QED BY <2>2, <2>3, <2>4, <3>1 DEF Effect, ImagesEffect
  <2>5. CASE result # "ok"
    <3>1. NoEffect
      BY <2>1, <2>5, Failing DEF Outcome
    <3> QED BY <2>2, <2>3, <3>1 DEF Effect
  <2> QED BY <2>4, <2>5
<1>7. ASSUME ItemsList(s) PROVE Goal
  <2>1. PICK result \in Outcomes :
          /\ Outcome(s, "items.get_all", result, result # "refused" /\ NoEffect)
          /\ Says(s, "items", "get-list", "none",
                  CASE result = "ok"     -> "listing"
                    [] result = "denied" -> "unauthorized"
                    [] OTHER             -> Reason(s, "items", result))
    BY <1>7 DEF ItemsList, ItemsCommand
  <2>2. Bookkeeping(s)
    BY <1>7 DEF ItemsList, ItemsCommand, Bookkeeping, EndDb, Uses, Release
  <2>3. NoEffect /\ result # "refused"
    BY <2>1 DEF Outcome
  <2>4. reply'.to = s /\ Reasons(s)
    BY <2>1, <2>3, Reply
  <2> QED BY <2>2, <2>3, <2>4 DEF Effect
<1>8. ASSUME UsersAdd(s) PROVE Goal
  <2>1. PICK result \in Outcomes :
          /\ Outcome(s, "creat_usr", result, result # "refused" /\ NoEffect)
          /\ Says(s, "user", "add", "none",
                  CASE result = "ok"     -> "success"
                    [] result = "denied" -> "unauthorized"
                    [] OTHER             -> Reason(s, "user", result))
    BY <1>8 DEF UsersAdd, RowCommand
  <2>2. Bookkeeping(s)
    BY <1>8 DEF UsersAdd, RowCommand, Bookkeeping, EndDb, Uses
  <2>3. NoEffect /\ result # "refused"
    BY <2>1 DEF Outcome
  <2>4. reply'.to = s /\ Reasons(s)
    BY <2>1, <2>3, Reply
  <2> QED BY <2>2, <2>3, <2>4 DEF Effect
<1>9. ASSUME NEW key, UsersUpdate(s, key) PROVE Goal
  <2>1. PICK result \in Outcomes :
          /\ Outcome(s, "update_usr", result,
                     (result = "refused" <=> key = "unmapped") /\ NoEffect)
          /\ Says(s, "user", "update", "none",
                  CASE result = "ok"     -> "success"
                    [] result = "denied" -> Silent
                    [] OTHER             -> Reason(s, "user", result))
    BY <1>9 DEF UsersUpdate, RowCommand
  <2>2. Bookkeeping(s)
    BY <1>9 DEF UsersUpdate, RowCommand, Bookkeeping, EndDb, Uses
  <2>3. NoEffect
    BY <2>1 DEF Outcome
  <2>4. reply'.to = s /\ Reasons(s)
    BY <2>1, Reply
  <2> QED BY <2>2, <2>3, <2>4 DEF Effect
<1>10. ASSUME UsersDel(s) PROVE Goal
  <2>1. Bookkeeping(s)
    BY <1>10 DEF UsersDel, Bookkeeping, EndDb, Uses
  <2>2. reply'.to = s /\ Reasons(s)
    BY <1>10 DEF UsersDel, Says, Reasons
  <2> QED BY <1>10, <2>1, <2>2 DEF UsersDel, Effect
<1>11. ASSUME UsersList(s) \/ ImagesList(s) \/ ImagesGet(s) PROVE Goal
  <2>1. Bookkeeping(s)
    BY <1>11 DEF UsersList, ImagesList, ImagesGet, ReadCommand, Bookkeeping, EndDb, Uses, Release
  <2>2. NoEffect
    BY <1>11 DEF UsersList, ImagesList, ImagesGet, ReadCommand, Outcome
  <2>3. reply'.to = s /\ reply'.text \in {"listing", "unauthorized"}
    <3>1. PICK table, action, result :
            Says(s, table, action, "none", IF result = "ok" THEN "listing" ELSE "unauthorized")
      BY <1>11 DEF UsersList, ImagesList, ImagesGet, ReadCommand
    <3> QED BY <3>1 DEF Says
  <2>4. Reasons(s)
    BY <2>3 DEF Reasons
  <2> QED BY <2>1, <2>2, <2>3, <2>4 DEF Effect
<1>12. ASSUME NoSuchTable(s) PROVE Goal
  <2>1. Bookkeeping(s)
    BY <1>12 DEF NoSuchTable, Bookkeeping, EndDb, Serves
  <2>2. reply'.to = s /\ Reasons(s)
    BY <1>12 DEF NoSuchTable, Tells, Says, Reasons
  <2> QED BY <1>12, <2>1, <2>2 DEF NoSuchTable, Effect
<1> HIDE DEF Goal
<1>13. Goal
  BY <1>1, <1>2, <1>3, <1>4, <1>5, <1>6, <1>7, <1>8, <1>9, <1>10, <1>11, <1>12 DEF DbCommand
<1> QED BY <1>13 DEF Goal

LEMMA OtherEffect ==
  ASSUME TypeOK, NEW s \in Clients, OtherCommand(s)
  PROVE  NoEffect /\ Reasons(s) /\ reply'.to = s
<1>1. NoEffect
  BY DEF OtherCommand, LogCmd, CliNode, SetLogging, GetLogging, GetLogLevels, ListPeers, Shutdown,
         Other, NoEffect, tables
<1> DEFINE Own == reply'.to = s /\ reply'.text \notin {"items", "user", "images", "log"}
<1>2. Own
  <2>1. CASE LogCmd(s) \/ CliNode(s)
    <3>1. CASE Tells(s, "log-cmd", "silent")
      BY <3>1 DEF Tells, Says
    <3>2. CASE Tells(s, "rpc-cmd", "output")
      BY <3>2 DEF Tells, Says
    <3> QED BY <2>1, <3>1, <3>2 DEF LogCmd, CliNode, Silent
  <2>2. CASE \E word \in Words : SetLogging(s, word)
    <3>1. \/ Tells(s, "set-logging", "success")
          \/ Tells(s, "set-logging", "un-authorized")
      BY <2>2 DEF SetLogging
    <3> QED BY <3>1 DEF Tells, Says
  <2>3. CASE GetLogging(s)
    <3>1. LevelName(level) \notin {"items", "user", "images", "log"}
      <4>1. CASE level \in 1 .. 8
        BY <4>1 DEF LevelName, Levels
      <4>2. CASE level \notin 1 .. 8
        BY <4>2 DEF LevelName
      <4> QED BY <4>1, <4>2
    <3> QED BY <2>3, <3>1 DEF GetLogging, Tells, Says
  <2>4. CASE GetLogLevels(s) \/ ListPeers(s) \/ Shutdown(s)
    <3>1. \E action :
            \/ Tells(s, action, "listing")
            \/ Tells(s, action, "successful")
            \/ Tells(s, action, "un-authorized")
      <4>1. CASE GetLogLevels(s)
        BY <4>1 DEF GetLogLevels
      <4>2. CASE ListPeers(s)
        BY <4>2 DEF ListPeers
      <4>3. CASE Shutdown(s)
        BY <4>3 DEF Shutdown
      <4> QED BY <2>4, <4>1, <4>2, <4>3
    <3> QED BY <3>1 DEF Tells, Says
  <2>5. CASE \E answer \in Fixed : Other(s, answer)
    <3>1. PICK answer \in Fixed : Tells(s, answer[1], answer[2])
      BY <2>5 DEF Other
    <3>2. answer[2] \notin {"items", "user", "images", "log"}
      BY DEF Fixed, Silent
    <3> QED BY <3>1, <3>2 DEF Tells, Says
  <2> QED BY <2>1, <2>2, <2>3, <2>4, <2>5 DEF OtherCommand
<1>3. reply'.to = s /\ Reasons(s)
  BY <1>2 DEF Reasons
<1> QED BY <1>1, <1>3

-------------------------------------------------------------------------------
(* The rest of the state.                                                  *)

\* The type invariant without the tables, and who can have a dangling pointer.
Rest ==
  /\ session \in [Clients -> Session \cup {NoSession}]
  /\ value \in [Clients -> {"null", "freed"}]
  /\ response \in [Clients -> {"none", "log"}]
  /\ level \in 1 .. 8 \cup {UINT_MAX}
  /\ OnlyRootDangles

Inductive == TablesOK /\ NamesUnique /\ Rest

LEMMA InductiveTypes == Inductive => TypeOK
<1>1. <<"root", "memory">> \in Roles \X {"memory", "call"}
  BY DEF Roles
<1> QED BY <1>1 DEF Inductive, Rest, TypeOK, OnlyRootDangles

\* Every role's table has log_cmd, and only that of root has list-peers.
LEMMA Permissions ==
  ASSUME Rest, NEW s \in Clients, session[s] # NoSession
  PROVE  /\ session[s] \in Session
         /\ Has(s, "log_cmd")
         /\ Has(s, "server.list") => session[s].role = "root"
         /\ session[s].role = "default" =>
              \A f \in {"add_item", "dlt_item", "add_image", "delete_image", "update_image"} :
                ~Has(s, f)
<1>1. session[s] \in Session
  BY DEF Rest
<1>2. session[s].role \in Roles
  BY <1>1 DEF Session
<1> QED BY <1>1, <1>2 DEF Has, Table, Roles, RootTable, ElevatedTable, DefaultTable

LEMMA LevelType == \A word : Level(word) \in 1 .. 8 \cup {UINT_MAX}
<1>1. ASSUME NEW word, \E l \in 1 .. 8 : Levels[l] = word
      PROVE  (CHOOSE l \in 1 .. 8 : Levels[l] = word) \in 1 .. 8
  BY <1>1
<1> QED BY <1>1 DEF Level

LEMMA DbRest ==
  ASSUME Rest, NEW s \in Clients, Bookkeeping(s)
  PROVE  Rest'
<1>1. value' \in [Clients -> {"null", "freed"}] /\ response' \in [Clients -> {"none", "log"}]
  BY DEF Rest, Bookkeeping
<1>2. \A c \in Clients : value'[c] = "freed" => value[c] = "freed"
  BY DEF Rest, Bookkeeping
<1>3. OnlyRootDangles'
  BY <1>2 DEF Rest, Bookkeeping, OnlyRootDangles, Serves
<1> QED BY <1>1, <1>3 DEF Rest, Bookkeeping

LEMMA OtherRest ==
  ASSUME Rest, NEW s \in Clients, OtherCommand(s)
  PROVE  Rest'
<1>0. session[s] # NoSession /\ misuse = NoMisuse
  BY DEF OtherCommand, LogCmd, CliNode, SetLogging, GetLogging, GetLogLevels, ListPeers, Shutdown,
         Other, Serves
<1>1. CASE LogCmd(s) \/ CliNode(s)
  <2>1. UNCHANGED <<session, value, level>>
    BY <1>1 DEF LogCmd, CliNode
  <2>2. UNCHANGED <<response, misuse>> \/ Log(s)
    BY <1>1 DEF LogCmd, CliNode
  <2>3. misuse' = NoMisuse /\ response' \in [Clients -> {"none", "log"}]
    <3>1. CASE UNCHANGED <<response, misuse>>
      BY <3>1, <1>0 DEF Rest
    <3>2. CASE Log(s)
      <4>1. \A result \in {"ok", "error"} : Left(s, "log", result) \in {"none", "log"}
        BY DEF Left
      <4> QED BY <3>2, <4>1, <1>0, Permissions DEF Log, Rest
    <3> QED BY <2>2, <3>1, <3>2
  <2> QED BY <2>1, <2>3 DEF Rest, OnlyRootDangles
<1>2. CASE \E word \in Words : SetLogging(s, word)
  BY <1>2, LevelType DEF SetLogging, Rest, OnlyRootDangles
<1>3. CASE GetLogging(s) \/ GetLogLevels(s) \/ \E answer \in Fixed : Other(s, answer)
  BY <1>3 DEF GetLogging, GetLogLevels, Other, Rest, OnlyRootDangles
<1>4. CASE ListPeers(s)
  <2>1. UNCHANGED <<session, response, level, misuse>>
    BY <1>4 DEF ListPeers
  <2>2. \/ value' = value
        \/ Has(s, "server.list") /\ value' = [value EXCEPT ![s] = "freed"]
    BY <1>4 DEF ListPeers
  <2>3. OnlyRootDangles' /\ value' \in [Clients -> {"null", "freed"}]
    BY <2>1, <2>2, <1>0, Permissions DEF Rest, OnlyRootDangles
  <2> QED BY <2>1, <2>3 DEF Rest
<1>5. CASE Shutdown(s)
  <2>1. UNCHANGED <<level, misuse>>
    BY <1>5 DEF Shutdown
  <2>2. CASE UNCHANGED <<session, value, response>>
    BY <2>1, <2>2 DEF Rest, OnlyRootDangles
  <2>3. CASE /\ session' = [c \in Clients |-> NoSession]
             /\ value' = [c \in Clients |-> "null"]
             /\ response' = [c \in Clients |-> "none"]
    BY <2>1, <2>3 DEF Rest, OnlyRootDangles
  <2> QED BY <1>5, <2>2, <2>3 DEF Shutdown
<1> QED BY <1>1, <1>2, <1>3, <1>4, <1>5 DEF OtherCommand

LEMMA SessionsRest ==
  ASSUME Rest, NEW s \in Clients,
         Leave(s) \/ \E role \in Roles, logged \in BOOLEAN : Login(s, role, logged)
  PROVE  Rest' /\ NoEffect /\ reply' = NoReply
<1>1. CASE Leave(s)
  BY <1>1 DEF Leave, Rest, OnlyRootDangles, NoEffect, tables
<1>2. CASE \E role \in Roles, logged \in BOOLEAN : Login(s, role, logged)
  <2>1. PICK role \in Roles, logged \in BOOLEAN : Login(s, role, logged)
    BY <1>2
  <2>2. [role |-> role, logged |-> logged] \in Session
    BY DEF Session
  <2>3. session' \in [Clients -> Session \cup {NoSession}]
    BY <2>1, <2>2 DEF Login, Rest
  <2>4. OnlyRootDangles'
    BY <2>1 DEF Login, Rest, OnlyRootDangles
  <2> QED BY <2>1, <2>3, <2>4 DEF Login, Rest, NoEffect, tables
<1> QED BY <1>1, <1>2

-------------------------------------------------------------------------------
(* The invariant and the theorems.                                         *)

LEMMA InitInductive == Init => Inductive
<1> SUFFICES ASSUME Init PROVE Inductive
  OBVIOUS
<1>1. items \in [{} -> Item] /\ images \in [{} -> Pictures]
  BY DEF Init, EmptyTables
<1>2. TablesOK
  BY <1>1 DEF TablesOK
<1>3. NamesUnique
  BY <1>1 DEF NamesUnique
<1>4. Rest
  BY DEF Init, Rest, OnlyRootDangles
<1> QED BY <1>2, <1>3, <1>4 DEF Inductive

LEMMA EffectKeeps ==
  ASSUME TablesOK, NamesUnique, NEW s \in Clients, Effect(s)
  PROVE  TablesOK' /\ NamesUnique'
<1>1. CASE NoEffect
  BY <1>1 DEF NoEffect, tables, TablesOK, NamesUnique
<1>2. CASE ItemsEffect(s)
  BY <1>2, AddItemKeeps, DeleteItemKeeps, UpdateItemKeeps DEF ItemsEffect
<1>3. CASE ImagesEffect(s)
  BY <1>3, ImagesKeep DEF ImagesEffect
<1> QED BY <1>1, <1>2, <1>3 DEF Effect

LEMMA NotNoReply ==
  ASSUME NEW s, NEW table, NEW upc, reply' = NoReply PROVE ~Acknowledged(s, table, upc)
BY DEF NoReply, Acknowledged

\* What a step does: nothing, or what one session's command does.
LEMMA Step ==
  ASSUME Inductive, [Next]_vars
  PROVE  /\ Inductive'
         /\ \/ UNCHANGED vars
            \/ NoEffect /\ reply' = NoReply
            \/ \E s \in Clients :
                 session[s] # NoSession /\ reply'.to = s /\ Reasons(s) /\ Effect(s)
<1>0. TypeOK
  BY InductiveTypes
<1>1. CASE UNCHANGED vars
  BY <1>1 DEF vars, Inductive, TablesOK, NamesUnique, Rest, OnlyRootDangles
<1>2. ASSUME NEW s \in Clients, Command(s)
      PROVE  /\ Inductive'
             /\ session[s] # NoSession /\ reply'.to = s /\ Reasons(s) /\ Effect(s)
  <2>1. CASE DbCommand(s)
    <3>1. Effect(s) /\ Reasons(s) /\ Bookkeeping(s) /\ reply'.to = s
      BY <1>0, <2>1, DbEffect
    <3>2. Rest'
      BY <3>1, DbRest DEF Inductive
    <3>3. TablesOK' /\ NamesUnique'
      BY <3>1, EffectKeeps DEF Inductive
    <3> QED BY <3>1, <3>2, <3>3 DEF Inductive, Bookkeeping, Serves
  <2>2. CASE OtherCommand(s)
    <3>1. NoEffect /\ Reasons(s) /\ reply'.to = s
      BY <1>0, <2>2, OtherEffect
    <3>2. Effect(s) /\ Rest'
      BY <2>2, <3>1, OtherRest DEF Inductive, Effect
    <3>3. TablesOK' /\ NamesUnique'
      BY <3>2, EffectKeeps DEF Inductive
    <3>4. session[s] # NoSession
      BY <2>2 DEF OtherCommand, LogCmd, CliNode, SetLogging, GetLogging, GetLogLevels, ListPeers,
                  Shutdown, Other, Serves
    <3> QED BY <3>1, <3>2, <3>3, <3>4 DEF Inductive
  <2> QED BY <1>2, <2>1, <2>2, Commands
<1>3. ASSUME NEW s \in Clients,
             Leave(s) \/ \E role \in Roles, logged \in BOOLEAN : Login(s, role, logged)
      PROVE  Inductive' /\ NoEffect /\ reply' = NoReply
  <2>1. Rest' /\ NoEffect /\ reply' = NoReply
    BY <1>3, SessionsRest DEF Inductive
  <2> QED BY <2>1 DEF Inductive, NoEffect, tables, TablesOK, NamesUnique
<1> QED BY <1>1, <1>2, <1>3 DEF Next

LEMMA Invariance == Spec => []Inductive
<1>1. Inductive /\ [Next]_vars => Inductive'
  BY Step
<1> QED BY InitInductive, <1>1, PTL DEF Spec

\* The type invariant of the replies holds of every behaviour.
THEOREM TypeCorrect == Spec => []TypeOK
BY Invariance, InductiveTypes, PTL

\* Names of items stay unique.
THEOREM NamesStayUnique == Spec => []NamesUnique
<1>1. Inductive => NamesUnique
  BY DEF Inductive
<1> QED BY <1>1, Invariance, PTL

\* Released memory is kept and used in sessions of root only, and no missing
\* function is called.
THEOREM OnlyRoot == Spec => []OnlyRootDangles
<1>1. Inductive => OnlyRootDangles
  BY DEF Inductive, Rest
<1> QED BY <1>1, Invariance, PTL

\* Fatal messages are always written, and with an unknown level all are.
THEOREM FatalIsWritten == Spec => []FatalAlwaysWritten
<1>1. Inductive => FatalAlwaysWritten
  <2> SUFFICES ASSUME Inductive PROVE FatalAlwaysWritten
    OBVIOUS
  <2>1. level \in 1 .. 8 \/ level = UINT_MAX
    BY DEF Inductive, Rest
  <2> QED BY <2>1, LevelAssumption DEF FatalAlwaysWritten, Written
<1> QED BY <1>1, Invariance, PTL

\* A command that is not answered with success changes no table, one that is only
\* its own.
THEOREM FailureHarmless == Spec => FailureChangesNothing
<1> DEFINE A ==
      /\ tables' # tables => Answered /\ reply'.text = "success"
      /\ items' # items => reply'.table = "items"
      /\ images' # images => reply'.table = "images"
<1>1. Inductive /\ [Next]_vars => [A]_vars
  <2> SUFFICES ASSUME Inductive, [Next]_vars PROVE A
    OBVIOUS
  <2>1. CASE NoEffect
    BY <2>1 DEF NoEffect, tables
  <2>2. ASSUME NEW s \in Clients, Effect(s) PROVE A
    BY <2>1, <2>2, NotNoReply DEF Effect, ItemsEffect, ImagesEffect, Acknowledged, Answered, tables
  <2>3. UNCHANGED vars => NoEffect
    BY DEF NoEffect, tables, vars
  <2> QED BY <2>1, <2>2, <2>3, Step
<1> QED BY <1>1, Invariance, PTL DEF Spec, FailureChangesNothing

\* The reason of a failure is the command's own, or that of an older log entry
\* when nothing was executed.
THEOREM ReasonsOwn == Spec => ReasonIsOwn
<1> DEFINE A ==
      Answered /\ reply'.text \in {"items", "user", "images", "log"} =>
        \/ reply'.text = reply'.table
        \/ reply'.text = "log" /\ reply'.action = "update"
<1>1. Inductive /\ [Next]_vars => [A]_vars
  <2> SUFFICES ASSUME Inductive, Next, ~UNCHANGED vars PROVE A
    OBVIOUS
  <2>1. CASE reply' = NoReply
    BY <2>1 DEF Answered
  <2>2. CASE \E s \in Clients : Reasons(s)
    BY <2>2 DEF Reasons
  <2> QED BY <2>1, <2>2, Step
<1> QED BY <1>1, Invariance, PTL DEF Spec, ReasonIsOwn

\* A default user's commands leave the sets of items and of images alone.
THEOREM DefaultHarmless == Spec => DefaultKeepsStock
<1> DEFINE A ==
      Answered /\ session[reply'.to].role = "default" =>
        DOMAIN items' = DOMAIN items /\ images' = images
<1>1. Inductive /\ [Next]_vars => [A]_vars
  <2> SUFFICES ASSUME Inductive, [Next]_vars, ~UNCHANGED vars PROVE A
    OBVIOUS
  <2>1. CASE NoEffect
    BY <2>1 DEF NoEffect, tables
  <2>2. ASSUME NEW s \in Clients, session[s] # NoSession, reply'.to = s, Effect(s) PROVE A
    <3> SUFFICES ASSUME session[s].role = "default"
                 PROVE  DOMAIN items' = DOMAIN items /\ images' = images
      BY <2>2
    <3>1. \A f \in {"add_item", "dlt_item", "add_image", "delete_image", "update_image"} :
            ~Has(s, f)
      BY <2>2, Permissions DEF Inductive
    <3>2. CASE ItemsEffect(s)
      BY <2>1, <3>1, <3>2 DEF ItemsEffect, UpdateItem, SetColumn, NoEffect, tables
    <3>3. ~ImagesEffect(s)
      BY <3>1 DEF ImagesEffect
    <3> QED BY <2>1, <2>2, <3>2, <3>3 DEF Effect, NoEffect, tables
  <2>3. CASE reply' = NoReply
    BY <2>3 DEF Answered
  <2> QED BY <2>1, <2>2, <2>3, Step
<1> QED BY <1>1, Invariance, PTL DEF Spec, DefaultKeepsStock

\* A command touches only items with its product code, an update at most one of
\* them, and a deletion leaves none.
THEOREM Addressed == Spec => OnlyAddressed
<1> DEFINE A ==
      /\ \A k \in DOMAIN items :
           k \notin DOMAIN items' \/ items'[k] # items[k] => items[k].upc = reply'.upc
      /\ \A k, n \in DOMAIN items \cap DOMAIN items' :
           items'[k] # items[k] /\ items'[n] # items[n] => k = n
      /\ DOMAIN items \subseteq DOMAIN items' \/
           \A k \in DOMAIN items' : items'[k].upc # reply'.upc
<1>1. Inductive /\ [Next]_vars => [A]_vars
  <2> SUFFICES ASSUME Inductive, [Next]_vars PROVE A
    OBVIOUS
  <2>1. CASE items' = items
    BY <2>1
  <2>2. ASSUME NEW s \in Clients, ItemsEffect(s), items' # items PROVE A
    <3>1. PICK upc \in Upcs :
            /\ Acknowledged(s, "items", upc)
            /\ \/ \E name \in Names : AddItem(upc, name, "ok")
               \/ DeleteItem(upc, "ok")
               \/ \E key \in Keys : \E new \in ItemValues(key) : UpdateItem(upc, key, new, "ok")
      BY <2>2 DEF ItemsEffect
    <3>2. reply'.upc = upc
      BY <3>1 DEF Acknowledged
    <3>3. CASE \E name \in Names : AddItem(upc, name, "ok")
      <4>1. PICK id \in 1 .. MaxItems, name \in Names :
              /\ NextId(id)
              /\ items' = [k \in DOMAIN items \cup {id} |->
                             IF k = id THEN [upc |-> upc, name |-> name] ELSE items[k]]
        BY <3>3 DEF AddItem
      <4>2. DOMAIN items \subseteq 1 .. MaxItems
        BY DEF Inductive, TablesOK
      <4>3. id \notin DOMAIN items
        BY <4>1, <4>2, ItemsAssumption DEF NextId
      <4> QED BY <4>1, <4>3
    <3>4. CASE DeleteItem(upc, "ok")
      BY <3>2, <3>4 DEF DeleteItem, Coded
    <3>5. CASE \E key \in Keys : \E new \in ItemValues(key) : UpdateItem(upc, key, new, "ok")
      <4>1. PICK k \in Coded(upc) : \E row : items' = [items EXCEPT ![k] = row]
        <5>1. PICK key, new : UpdateItem(upc, key, new, "ok")
          BY <3>5
        <5>2. PICK k \in Coded(upc) : SetColumn(k, key, new)
          BY <2>2, <5>1 DEF UpdateItem, NoEffect, tables
        <5> QED BY <5>2 DEF SetColumn
      <4>2. items[k].upc = upc
        BY DEF Coded
      <4> QED BY <3>2, <4>1, <4>2
    <3> QED BY <3>1, <3>3, <3>4, <3>5
  <2>3. ASSUME NEW s \in Clients, NoEffect \/ ImagesEffect(s) PROVE A
    BY <2>1, <2>3 DEF NoEffect, ImagesEffect, tables
  <2>4. UNCHANGED vars => items' = items
    BY DEF vars
  <2> QED BY <2>1, <2>2, <2>3, <2>4, Step DEF Effect, NoEffect, tables
<1> QED BY <1>1, Invariance, PTL DEF Spec, OnlyAddressed

-------------------------------------------------------------------------------
(* Functions defined by recursion.                                         *)

\* A set of numbers that contains 0 and with each number the next contains all.
LEMMA Induction ==
  ASSUME NEW P, 0 \in P, \A n \in Nat : n \in P => n + 1 \in P
  PROVE  Nat \subseteq P
<1> DEFINE T == Nat \ P
<1>1. SUFFICES ASSUME T # {}
               PROVE  FALSE
  OBVIOUS
<1>2. PICK x \in T : \A y \in T : ~(<<y, x>> \in OpToRel(<, Nat))
  BY <1>1, NatLessThanWellFounded, WFMin
<1>3. \A y \in T : ~(y < x)
  BY <1>2 DEF OpToRel
<1>4. x \in Nat /\ x # 0
  OBVIOUS
<1>5. x - 1 \in Nat /\ x - 1 < x /\ x - 1 + 1 = x
  BY <1>4
<1>6. x - 1 \in P
  BY <1>3, <1>5
<1> QED BY <1>5, <1>6

\* Starting with x and taking the step F[., k] for each k, m steps can be made.
Runs(m, X, x, F) ==
  \E r \in [0 .. m -> X] : r[0] = x /\ \A k \in 1 .. m : r[k] = F[<<r[k - 1], k>>]

LEMMA RunExists ==
  ASSUME NEW m \in Nat, NEW X, NEW x \in X, NEW F \in [X \X (1 .. m) -> X]
  PROVE  Runs(m, X, x, F)
<1> DEFINE Run(n, r) == r[0] = x /\ \A k \in 1 .. n : r[k] = F[<<r[k - 1], k>>]
           P == {n \in Nat : n <= m => \E r \in [0 .. n -> X] : Run(n, r)}
<1>1. 0 \in P
  <2>1. [k \in 0 .. 0 |-> x] \in [0 .. 0 -> X] /\ Run(0, [k \in 0 .. 0 |-> x])
    OBVIOUS
  <2> QED BY <2>1
<1>2. ASSUME NEW n \in Nat, n \in P
      PROVE  n + 1 \in P
  <2> SUFFICES ASSUME n + 1 <= m
               PROVE  \E r \in [0 .. n + 1 -> X] : Run(n + 1, r)
    OBVIOUS
  <2>1. PICK r \in [0 .. n -> X] : Run(n, r)
    BY <1>2
  <2> DEFINE q == [k \in 0 .. n + 1 |-> IF k = n + 1 THEN F[<<r[n], n + 1>>] ELSE r[k]]
  <2>2. r[n] \in X /\ n + 1 \in 1 .. m
    OBVIOUS
  <2>3. F[<<r[n], n + 1>>] \in X
    BY <2>2
  <2>4. q \in [0 .. n + 1 -> X]
    BY <2>3
  <2>5. q[0] = x
    BY <2>1
  <2>6. ASSUME NEW k \in 1 .. n + 1
        PROVE  q[k] = F[<<q[k - 1], k>>]
    <3>1. k - 1 \in 0 .. n /\ q[k - 1] = r[k - 1]
      OBVIOUS
    <3>2. CASE k = n + 1
      <4>1. q[k] = F[<<r[n], n + 1>>] /\ k - 1 = n
        BY <3>2
      <4> HIDE DEF q
      <4> QED BY <3>1, <3>2, <4>1
    <3>3. CASE k # n + 1
      <4>1. k \in 1 .. n /\ q[k] = r[k]
        BY <3>3
      <4> HIDE DEF q
      <4> QED BY <2>1, <3>1, <4>1
    <3> QED BY <3>2, <3>3
  <2> HIDE DEF q
  <2>7. Run(n + 1, q)
    BY <2>5, <2>6
  <2> QED BY <2>4, <2>7
<1>3. m \in P
  <2> HIDE DEF P
  <2> QED BY <1>1, <1>2, Induction
<1> QED BY <1>3 DEF Runs

-------------------------------------------------------------------------------
(* The listing.                                                            *)

\* The bytes of the listing, and those that one ID contributes.
Byte == (1 .. MaxItems) \X Nat
Piece(k) == IF k \in DOMAIN items THEN Bytes(k) ELSE <<>>

LEMMA PieceType ==
  ASSUME TablesOK, NEW k \in 1 .. MaxItems
  PROVE  Piece(k) \in Seq(Byte)
<1>1. CASE k \in DOMAIN items
  <2>1. items[k].name \in Names
    BY <1>1 DEF TablesOK, Item
  <2>2. RowSize[items[k].name] \in Nat
    BY <2>1, ItemsAssumption
  <2>3. PICK size \in Nat : size = RowSize[items[k].name]
    BY <2>2
  <2>4. \A n \in 1 .. size : <<k, n>> \in Byte
    BY DEF Byte
  <2>5. Piece(k) = [n \in 1 .. size |-> <<k, n>>]
    BY <1>1, <2>3 DEF Piece, Bytes
  <2>6. Piece(k) \in [1 .. size -> Byte]
    BY <2>4, <2>5, Zenon
  <2> QED BY <2>6
<1>2. CASE k \notin DOMAIN items
  BY <1>2 DEF Piece
<1> QED BY <1>1, <1>2

LEMMA RowsToIs ==
  ASSUME TablesOK
  PROVE  /\ RowsTo \in [0 .. MaxItems -> Seq(Byte)]
         /\ RowsTo[0] = <<>>
         /\ \A k \in 1 .. MaxItems : RowsTo[k] = RowsTo[k - 1] \o Piece(k)
<1> DEFINE F == [xk \in Seq(Byte) \X (1 .. MaxItems) |-> xk[1] \o Piece(xk[2])]
           Body(g) == [k \in 0 .. MaxItems |->
                         IF k = 0 THEN <<>>
                         ELSE g[k - 1] \o (IF k \in DOMAIN items THEN Bytes(k) ELSE <<>>)]
<1>1. F \in [Seq(Byte) \X (1 .. MaxItems) -> Seq(Byte)]
  <2>1. ASSUME NEW x \in Seq(Byte), NEW k \in 1 .. MaxItems
        PROVE  x \o Piece(k) \in Seq(Byte)
    BY PieceType
  <2> QED BY <2>1
<1>2. \A x \in Seq(Byte) : \A k \in 1 .. MaxItems : F[<<x, k>>] = x \o Piece(k)
  OBVIOUS
<1>3. <<>> \in Seq(Byte) /\ MaxItems \in Nat
  BY ItemsAssumption
<1> HIDE DEF F
<1>4. PICK r \in [0 .. MaxItems -> Seq(Byte)] :
         r[0] = <<>> /\ \A k \in 1 .. MaxItems : r[k] = F[<<r[k - 1], k>>]
  <2> DEFINE X == Seq(Byte)
             m == MaxItems
             x == <<>>
  <2>1. x \in X /\ m \in Nat /\ F \in [X \X (1 .. m) -> X]
    BY <1>1, <1>3
  <2> HIDE DEF X, m, x
  <2>2. Runs(m, X, x, F)
    BY <2>1, RunExists
  <2> QED BY <2>2 DEF Runs, X, m, x
<1>5. \A k \in 1 .. MaxItems : r[k - 1] \in Seq(Byte)
  BY <1>3, <1>4
<1>6. \A k \in 1 .. MaxItems : r[k] = r[k - 1] \o Piece(k)
  BY <1>2, <1>4, <1>5
<1>7. r = Body(r)
  <2>1. \A k \in 0 .. MaxItems : r[k] = Body(r)[k]
    <3> TAKE k \in 0 .. MaxItems
    <3>1. CASE k = 0
      BY <1>4, <3>1
    <3>2. CASE k # 0
      <4>1. k \in 1 .. MaxItems
        BY <1>3, <3>2
      <4>2. r[k] = r[k - 1] \o Piece(k)
        BY <1>6, <4>1
      <4>3. Body(r)[k] = r[k - 1] \o Piece(k)
        BY <3>2 DEF Piece
      <4> HIDE DEF Body
      <4> QED BY <4>2, <4>3
    <3> QED BY <3>1, <3>2
  <2> QED BY <1>4, <2>1
<1>8. RowsTo = CHOOSE g : g = Body(g)
  BY DEF RowsTo
<1> HIDE DEF Body
<1>9. RowsTo = Body(RowsTo)
  BY <1>7, <1>8
<1> USE DEF Body
<1>10. ASSUME NEW k \in 1 .. MaxItems
       PROVE  RowsTo[k] = RowsTo[k - 1] \o Piece(k)
  <2>1. k \in 0 .. MaxItems /\ k # 0
    BY <1>3
  <2>2. Body(RowsTo)[k] = RowsTo[k - 1] \o Piece(k)
    BY <2>1 DEF Piece
  <2> HIDE DEF Body
  <2> QED BY <1>9, <2>2
<1>11. RowsTo[0] = <<>> /\ DOMAIN RowsTo = 0 .. MaxItems
  BY <1>3, <1>9
<1>12. \A k \in 0 .. MaxItems : RowsTo[k] = r[k]
  <2> DEFINE P == {k \in Nat : k <= MaxItems => RowsTo[k] = r[k]}
  <2>1. 0 \in P
    BY <1>4, <1>11
  <2>2. ASSUME NEW k \in Nat, k \in P
        PROVE  k + 1 \in P
    <3> SUFFICES ASSUME k + 1 <= MaxItems PROVE RowsTo[k + 1] = r[k + 1]
      OBVIOUS
    <3>1. PICK j \in 1 .. MaxItems : j = k + 1
      BY <1>3
    <3>2. j - 1 = k /\ RowsTo[k] = r[k]
      BY <1>3, <2>2, <3>1
    <3>3. RowsTo[j] = RowsTo[j - 1] \o Piece(j) /\ r[j] = r[j - 1] \o Piece(j)
      BY <1>6, <1>10
    <3>4. RowsTo[j - 1] = r[j - 1]
      BY <3>2
    <3>5. RowsTo[j] = r[j]
      BY <3>3, <3>4
    <3> QED BY <3>1, <3>5
  <2> HIDE DEF P
  <2>3. Nat \subseteq P
    BY <2>1, <2>2, Induction
  <2> QED BY <2>3, <1>3 DEF P
<1>13. RowsTo = [k \in 0 .. MaxItems |-> RowsTo[k]]
  BY <1>9
<1>14. RowsTo \in [0 .. MaxItems -> Seq(Byte)]
  <2>1. \A k \in 0 .. MaxItems : RowsTo[k] \in Seq(Byte)
    BY <1>4, <1>12
  <2> QED BY <1>13, <2>1
<1> QED BY <1>10, <1>11, <1>14

\* A stream with its buffer, and with a number of bytes in it.
Stream == [buf : Seq(Byte), pos : Nat]

\* What Put does, by the three cases of the next position.
LEMMA PutAt ==
  ASSUME NEW buf \in Seq(Byte), NEW pos \in Nat, NEW byte \in Byte
  PROVE  LET at == IF pos = BUFSIZ THEN 0 ELSE pos
             s == Put([buf |-> buf, pos |-> pos], byte)
         IN /\ s \in Stream
            /\ s.pos = at + 1
            /\ at < Len(buf) => /\ Len(s.buf) = Len(buf)
                                /\ \A i \in 1 .. Len(buf) :
                                     s.buf[i] = IF i = at + 1 THEN byte ELSE buf[i]
            /\ at >= Len(buf) => /\ Len(s.buf) = Len(buf) + 1
                                 /\ \A i \in 1 .. Len(buf) : s.buf[i] = buf[i]
                                 /\ s.buf[Len(buf) + 1] = byte
<1> DEFINE at == IF pos = BUFSIZ THEN 0 ELSE pos
           s == Put([buf |-> buf, pos |-> pos], byte)
<1>1. at \in Nat
  BY ItemsAssumption
<1>2. s = [buf |-> IF at < Len(buf) THEN ReplaceAt(buf, at + 1, byte) ELSE Append(buf, byte),
           pos |-> at + 1]
  BY DEF Put
<1> HIDE DEF at, s
<1>3. CASE at < Len(buf)
  <2> DEFINE b == ReplaceAt(buf, at + 1, byte)
  <2>1. at + 1 \in 1 .. Len(buf)
    BY <1>1, <1>3
  <2>2. b \in Seq(Byte) /\ Len(b) = Len(buf)
        /\ \A i \in 1 .. Len(buf) : b[i] = IF i = at + 1 THEN byte ELSE buf[i]
    BY <2>1 DEF ReplaceAt
  <2>3. s = [buf |-> b, pos |-> at + 1]
    BY <1>2, <1>3
  <2> HIDE DEF b
  <2>4. s \in Stream /\ s.pos = at + 1 /\ s.buf = b
    BY <1>1, <2>2, <2>3 DEF Stream
  <2> QED BY <1>1, <1>3, <2>2, <2>4 DEF at, s
<1>4. CASE ~(at < Len(buf))
  <2> DEFINE b == Append(buf, byte)
  <2>1. b \in Seq(Byte) /\ Len(b) = Len(buf) + 1
        /\ b[Len(buf) + 1] = byte
        /\ \A i \in 1 .. Len(buf) : b[i] = buf[i]
    OBVIOUS
  <2>2. s = [buf |-> b, pos |-> at + 1]
    BY <1>2, <1>4
  <2> HIDE DEF b
  <2>3. s \in Stream /\ s.pos = at + 1 /\ s.buf = b
    BY <1>1, <2>1, <2>2 DEF Stream
  <2> QED BY <1>1, <1>4, <2>1, <2>3 DEF at, s
<1> QED BY <1>3, <1>4

LEMMA PrintedIs ==
  ASSUME TablesOK
  PROVE  /\ Printed \in [0 .. Len(Rows) -> Stream]
         /\ Printed[0] = [buf |-> <<>>, pos |-> 0]
         /\ \A n \in 1 .. Len(Rows) : Printed[n] = Put(Printed[n - 1], Rows[n])
<1>1. Rows \in Seq(Byte)
  BY RowsToIs, ItemsAssumption DEF Rows
<1>2. PICK m \in Nat : m = Len(Rows)
  BY <1>1
<1> DEFINE X == Stream
           x == [buf |-> <<>>, pos |-> 0]
           F == [sn \in X \X (1 .. m) |-> Put(sn[1], Rows[sn[2]])]
           Body(g) == [n \in 0 .. m |-> IF n = 0 THEN x ELSE Put(g[n - 1], Rows[n])]
<1>3. x \in X
  BY DEF Stream
<1>4. ASSUME NEW s \in X, NEW n \in 1 .. m
      PROVE  Put(s, Rows[n]) \in X
  <2>1. Rows[n] \in Byte
    BY <1>1, <1>2
  <2>2. PICK buf \in Seq(Byte), pos \in Nat : s = [buf |-> buf, pos |-> pos]
    BY DEF Stream
  <2> QED BY <2>1, <2>2, PutAt
<1>5. F \in [X \X (1 .. m) -> X]
  BY <1>4
<1>6. \A s \in X : \A n \in 1 .. m : F[<<s, n>>] = Put(s, Rows[n])
  OBVIOUS
<1> HIDE DEF F, x, X
<1>7. PICK r \in [0 .. m -> X] :
         r[0] = x /\ \A n \in 1 .. m : r[n] = F[<<r[n - 1], n>>]
  <2>1. Runs(m, X, x, F)
    BY <1>2, <1>3, <1>5, RunExists
  <2> QED BY <2>1 DEF Runs
<1>8. \A n \in 1 .. m : r[n] = Put(r[n - 1], Rows[n])
  <2>1. \A n \in 1 .. m : r[n - 1] \in X
    BY <1>2, <1>7
  <2> QED BY <1>6, <1>7, <2>1
<1>9. r = Body(r)
  <2>1. \A n \in 0 .. m : r[n] = Body(r)[n]
    <3> TAKE n \in 0 .. m
    <3>1. CASE n = 0
      BY <1>7, <3>1
    <3>2. CASE n # 0
      <4>1. n \in 1 .. m
        BY <1>2, <3>2
      <4>2. r[n] = Put(r[n - 1], Rows[n])
        BY <1>8, <4>1
      <4>3. Body(r)[n] = Put(r[n - 1], Rows[n])
        BY <3>2
      <4> HIDE DEF Body
      <4> QED BY <4>2, <4>3
    <3> QED BY <3>1, <3>2
  <2> QED BY <1>7, <2>1
<1>10. Printed = CHOOSE g : g = Body(g)
  BY <1>2 DEF Printed, x
<1> HIDE DEF Body
<1>11. Printed = Body(Printed)
  BY <1>9, <1>10
<1>12. Printed[0] = x /\ Printed = [n \in 0 .. m |-> Printed[n]]
  BY <1>2, <1>11 DEF Body
<1>13. ASSUME NEW n \in 1 .. m
       PROVE  Printed[n] = Put(Printed[n - 1], Rows[n])
  <2>1. n \in 0 .. m /\ n # 0
    BY <1>2
  <2>2. Body(Printed)[n] = Put(Printed[n - 1], Rows[n])
    BY <2>1 DEF Body
  <2> QED BY <1>11, <2>2
<1>14. \A n \in 0 .. m : Printed[n] \in X
  <2> DEFINE P == {n \in Nat : n <= m => Printed[n] \in X}
  <2>1. 0 \in P
    BY <1>3, <1>12
  <2>2. ASSUME NEW n \in Nat, n \in P
        PROVE  n + 1 \in P
    <3> SUFFICES ASSUME n + 1 <= m PROVE Printed[n + 1] \in X
      OBVIOUS
    <3>1. PICK k \in 1 .. m : k = n + 1
      BY <1>2
    <3>2. k - 1 = n /\ Printed[n] \in X
      BY <1>2, <2>2, <3>1
    <3>3. Printed[k - 1] \in X
      BY <3>2
    <3>4. Printed[k] \in X
      BY <1>4, <1>13, <3>3
    <3> QED BY <3>1, <3>4
  <2> HIDE DEF P
  <2>3. Nat \subseteq P
    BY <2>1, <2>2, Induction
  <2> QED BY <2>3, <1>2 DEF P
<1>15. Printed \in [0 .. m -> X]
  BY <1>12, <1>14
<1> QED BY <1>2, <1>12, <1>13, <1>15 DEF X, x

\* The buffer when n bytes were printed, with p of them since it was last full: the
\* last p bytes, and behind them what the round before left there.
Image(n, buf, p) ==
  IF n < BUFSIZ
  THEN p = n /\ Len(buf) = n /\ \A i \in 1 .. n : buf[i] = Rows[i]
  ELSE /\ p \in 1 .. BUFSIZ /\ (n = BUFSIZ => p = n)
       /\ Len(buf) = BUFSIZ
       /\ \A i \in 1 .. p, j \in 1 .. n : j + p = n + i => buf[i] = Rows[j]
       /\ \A i \in p + 1 .. BUFSIZ, j \in 1 .. n : j + p + BUFSIZ = n + i => buf[i] = Rows[j]

LEMMA ImageStep ==
  ASSUME TablesOK, NEW n \in Nat, n + 1 <= Len(Rows), NEW buf \in Seq(Byte), NEW p \in Nat,
         Image(n, buf, p)
  PROVE  LET s == Put([buf |-> buf, pos |-> p], Rows[n + 1])
         IN Image(n + 1, s.buf, s.pos)
<1> DEFINE s == Put([buf |-> buf, pos |-> p], Rows[n + 1])
<1>1. PICK B \in Nat \ {0} : B = BUFSIZ
  BY ItemsAssumption
<1>2. Rows \in Seq(Byte)
  BY RowsToIs, ItemsAssumption DEF Rows
<1>3. PICK byte \in Byte : byte = Rows[n + 1]
  BY <1>2
<1>4. PICK c, q : c = s.buf /\ q = s.pos
  OBVIOUS
<1>5. /\ q = (IF p = B THEN 0 ELSE p) + 1
      /\ c \in Seq(Byte)
      /\ (IF p = B THEN 0 ELSE p) < Len(buf) =>
           Len(c) = Len(buf) /\ \A i \in 1 .. Len(buf) : c[i] = IF i = q THEN byte ELSE buf[i]
      /\ (IF p = B THEN 0 ELSE p) >= Len(buf) =>
           /\ Len(c) = Len(buf) + 1
           /\ \A i \in 1 .. Len(buf) : c[i] = buf[i]
           /\ c[Len(buf) + 1] = byte
  <2>1. Put([buf |-> buf, pos |-> p], byte) = s
    BY <1>3
  <2>2. s \in Stream
    BY <2>1, PutAt
  <2>3. c \in Seq(Byte)
    BY <1>4, <2>2 DEF Stream
  <2> HIDE DEF s
  <2> QED BY <1>1, <1>4, <2>1, <2>3, PutAt
<1> HIDE DEF s
<1>6. PICK l \in Nat : l = Len(buf)
  OBVIOUS
<1>7. CASE n < B
  <2>1. p = n /\ l = n /\ \A i \in 1 .. n : buf[i] = Rows[i]
    BY <1>1, <1>6, <1>7 DEF Image
  <2>2. q = n + 1 /\ Len(c) = n + 1
    BY <1>1, <1>5, <1>6, <1>7, <2>1
  <2>3. c[n + 1] = byte /\ \A i \in 1 .. n : c[i] = Rows[i]
    BY <1>1, <1>5, <1>6, <1>7, <2>1
  <2>4. PICK m \in Nat : m = n + 1
    OBVIOUS
  <2>5. q = m /\ Len(c) = m /\ \A i \in 1 .. m : c[i] = Rows[i]
    BY <1>3, <2>2, <2>3, <2>4
  <2>6. ASSUME m < B
        PROVE  Image(m, c, q)
    BY <1>1, <2>5, <2>6 DEF Image
  <2>7. ASSUME ~(m < B)
        PROVE  Image(m, c, q)
    <3>1. m = B
      BY <1>7, <2>4, <2>7
    <3>2. q = B /\ Len(c) = B /\ \A i \in 1 .. B : c[i] = Rows[i]
      BY <2>5, <3>1
    <3>3. \A i \in 1 .. B, j \in 1 .. B : j + B = B + i => c[i] = Rows[j]
      <4>1. \A i \in 1 .. B, j \in 1 .. B : j + B = B + i => i = j
        OBVIOUS
      <4> QED BY <3>2, <4>1
    <3>4. Image(B, c, B)
      BY <1>1, <3>2, <3>3 DEF Image
    <3> QED BY <3>1, <3>2, <3>4
  <2>8. Image(m, c, q)
    BY <2>6, <2>7
  <2> QED BY <1>4, <2>4, <2>8 DEF s
<1>8. CASE n >= B
  <2>1. /\ p \in 1 .. B
        /\ l = B
        /\ \A i \in 1 .. p, j \in 1 .. n : j + p = n + i => buf[i] = Rows[j]
        /\ \A i \in p + 1 .. B, j \in 1 .. n : j + p + B = n + i => buf[i] = Rows[j]
    BY <1>1, <1>6, <1>8 DEF Image
  <2>2. /\ q \in 1 .. B
        /\ q = IF p = B THEN 1 ELSE p + 1
        /\ Len(c) = B
        /\ \A i \in 1 .. B : c[i] = IF i = q THEN byte ELSE buf[i]
    BY <1>1, <1>5, <1>6, <1>8, <2>1
  <2>3. ASSUME NEW i \in 1 .. q, NEW j \in 1 .. n + 1, j + q = n + 1 + i
        PROVE  c[i] = Rows[j]
    <3>1. CASE i = q
      BY <1>3, <2>2, <2>3, <3>1
    <3>2. CASE i # q
      <4>1. p # B /\ q = p + 1 /\ i \in 1 .. p /\ j \in 1 .. n /\ j + p = n + i
        BY <2>1, <2>2, <2>3, <3>2
      <4>2. c[i] = buf[i]
        BY <2>2, <3>2
      <4> QED BY <2>1, <4>1, <4>2
    <3> QED BY <3>1, <3>2
  <2>4. ASSUME NEW i \in q + 1 .. B, NEW j \in 1 .. n + 1, j + q + B = n + 1 + i
        PROVE  c[i] = Rows[j]
    <3>1. c[i] = buf[i]
      BY <1>1, <2>2
    <3>2. CASE p = B
      <4>1. i \in 1 .. p /\ j \in 1 .. n /\ j + p = n + i
        BY <1>1, <1>8, <2>1, <2>2, <2>4, <3>2
      <4> QED BY <2>1, <3>1, <4>1
    <3>3. CASE p # B
      <4>1. i \in p + 1 .. B /\ j \in 1 .. n /\ j + p + B = n + i
        BY <1>1, <1>8, <2>1, <2>2, <2>4, <3>3
      <4> QED BY <2>1, <3>1, <4>1
    <3> QED BY <3>2, <3>3
  <2>5. Image(n + 1, c, q)
    BY <1>1, <1>8, <2>2, <2>3, <2>4 DEF Image
  <2> QED BY <1>4, <2>5 DEF s
<1> QED BY <1>1, <1>7, <1>8

LEMMA PrintedImage ==
  ASSUME TablesOK
  PROVE  Image(Len(Rows), Printed[Len(Rows)].buf, Printed[Len(Rows)].pos)
         /\ Printed[Len(Rows)].buf \in Seq(Byte)
<1>1. PICK m \in Nat : m = Len(Rows)
  <2>1. Rows \in Seq(Byte)
    BY RowsToIs, ItemsAssumption DEF Rows
  <2> QED BY <2>1
<1> DEFINE Holds(n) == Image(n, Printed[n].buf, Printed[n].pos)
           P == {n \in Nat : n <= m => Holds(n)}
<1>2. \A n \in 0 .. m : Printed[n] \in Stream
  BY <1>1, PrintedIs
<1>3. 0 \in P
  <2>1. Printed[0].buf = <<>> /\ Printed[0].pos = 0
    BY PrintedIs
  <2>2. Holds(0)
    BY <2>1, ItemsAssumption DEF Image
  <2> QED BY <2>2
<1>4. ASSUME NEW n \in Nat, n \in P
      PROVE  n + 1 \in P
  <2> SUFFICES ASSUME n + 1 <= m PROVE Holds(n + 1)
    OBVIOUS
  <2>1. PICK k \in 1 .. m : k = n + 1
    BY <1>1
  <2>2. PICK buf \in Seq(Byte), p \in Nat : Printed[n] = [buf |-> buf, pos |-> p]
    BY <1>1, <1>2 DEF Stream
  <2>3. k - 1 = n
    BY <2>1
  <2>4. Printed[k] = Put(Printed[k - 1], Rows[k])
    BY <1>1, PrintedIs
  <2>5. Printed[k] = Put(Printed[n], Rows[k])
    BY <2>3, <2>4
  <2>6. Image(n, buf, p)
    <3>1. Holds(n)
      BY <1>4
    <3> QED BY <2>2, <3>1
  <2>7. n + 1 <= Len(Rows)
    BY <1>1
  <2>8. LET s == Put([buf |-> buf, pos |-> p], Rows[n + 1]) IN Image(n + 1, s.buf, s.pos)
    BY <2>6, <2>7, ImageStep
  <2> QED BY <2>1, <2>2, <2>5, <2>8
<1>5. m \in P
  <2> HIDE DEF P
  <2> QED BY <1>3, <1>4, Induction
<1> QED BY <1>1, <1>2, <1>5 DEF Stream

LEMMA Listing == TablesOK => ListingExact
<1> SUFFICES ASSUME TablesOK
             PROVE  ListingExact
  OBVIOUS
<1>1. PICK B \in Nat \ {0} : B = BUFSIZ
  BY ItemsAssumption
<1>2. Rows \in Seq(Byte)
  BY RowsToIs, ItemsAssumption DEF Rows
<1>3. PICK R \in Seq(Byte) : R = Rows
  BY <1>2
<1>4. PICK L \in Nat : L = Len(R)
  OBVIOUS
<1>5. PICK p : Image(L, Shown, p) /\ Shown \in Seq(Byte)
  BY <1>3, <1>4, PrintedImage DEF Shown
<1>6. PICK buf \in Seq(Byte) : buf = Shown /\ Image(L, buf, p)
  BY <1>5
<1>7. CASE L < B
  <2>1. Len(buf) = L /\ \A i \in 1 .. L : buf[i] = R[i]
    BY <1>1, <1>3, <1>6, <1>7 DEF Image
  <2>2. buf = R
    BY <1>4, <2>1, SeqEqual
  <2> QED BY <1>1, <1>3, <1>4, <1>6, <1>7, <2>2 DEF ListingExact
<1>8. CASE ~(L < B)
  <2>1. /\ p \in 1 .. B /\ (L = B => p = L)
        /\ Len(buf) = B
        /\ \A i \in 1 .. p, j \in 1 .. L : j + p = L + i => buf[i] = R[j]
        /\ \A i \in p + 1 .. B, j \in 1 .. L : j + p + B = L + i => buf[i] = R[j]
    BY <1>1, <1>3, <1>6, <1>8 DEF Image
  <2>2. CASE L = B
    <3>1. \A i \in 1 .. L : buf[i] = R[i]
      BY <2>1, <2>2
    <3>2. buf = R
      BY <1>4, <2>1, <2>2, <3>1, SeqEqual
    <3> QED BY <1>1, <1>3, <1>4, <1>6, <2>2, <3>2 DEF ListingExact
  <2>3. CASE L # B
    <3> DEFINE late == SubSeq(R, L - p + 1, L)
               early == SubSeq(R, L - B + 1, L - p)
    <3>1. L > B /\ p \in 1 .. B
      BY <1>8, <2>1, <2>3
    <3>2. late \in Seq(Byte) /\ Len(late) = p
      BY <1>4, <3>1
    <3>3. early \in Seq(Byte) /\ Len(early) + p = B
      BY <1>4, <3>1
    <3>4. \A i \in 1 .. p : late[i] = buf[i]
      BY <1>4, <2>1, <3>1
    <3>5. \A i \in p + 1 .. B : early[i - p] = buf[i]
      BY <1>4, <2>1, <3>1
    <3> HIDE DEF late, early
    <3>6. late \o early \in Seq(Byte) /\ Len(late \o early) = B
      BY <3>1, <3>2, <3>3, ConcatProperties
    <3>7. \A i \in 1 .. B : (late \o early)[i] = buf[i]
      BY <3>1, <3>2, <3>3, <3>4, <3>5
    <3>8. buf = late \o early
      BY <2>1, <3>6, <3>7, SeqEqual
    <3>9. \E n \in 1 .. B : buf = SubSeq(R, L - n + 1, L) \o SubSeq(R, L - B + 1, L - n)
      BY <3>1, <3>8 DEF late, early
    <3>10. ~(L <= B)
      BY <3>1
    <3> QED BY <1>1, <1>3, <1>4, <1>6, <3>9, <3>10, Zenon DEF ListingExact
  <2> QED BY <2>2, <2>3
<1> QED BY <1>7, <1>8

\* From some byte on, the bytes are those of the row k.
HasRow(bytes, k) ==
  \E o \in Nat : /\ o + RowSize[items[k].name] <= Len(bytes)
                 /\ \A i \in 1 .. RowSize[items[k].name] : bytes[o + i] = <<k, i>>

LEMMA RowsHave ==
  ASSUME TablesOK, NEW k \in DOMAIN items
  PROVE  HasRow(Rows, k)
<1>1. k \in 1 .. MaxItems /\ items[k].name \in Names
  BY DEF TablesOK, Item
<1>2. PICK size \in Nat : size = RowSize[items[k].name]
  BY <1>1, ItemsAssumption
<1>3. PICK m \in Nat : m = MaxItems
  BY ItemsAssumption
<1>4. /\ \A n \in 0 .. m : RowsTo[n] \in Seq(Byte)
      /\ \A n \in 1 .. m : RowsTo[n] = RowsTo[n - 1] \o Piece(n)
  BY <1>3, RowsToIs
<1>5. \A n \in 1 .. m : Piece(n) \in Seq(Byte)
  BY <1>3, PieceType
<1> DEFINE P == {n \in Nat : k <= n /\ n <= m => HasRow(RowsTo[n], k)}
<1>6. ASSUME NEW n \in 1 .. m, NEW s \in Seq(Byte), NEW t \in Seq(Byte), RowsTo[n] = s \o t
      PROVE  /\ HasRow(s, k) => HasRow(RowsTo[n], k)
             /\ t = Bytes(k) => HasRow(RowsTo[n], k)
  <2>1. /\ Len(s \o t) = Len(s) + Len(t)
        /\ \A i \in 1 .. Len(s) + Len(t) :
             (s \o t)[i] = IF i <= Len(s) THEN s[i] ELSE t[i - Len(s)]
    BY ConcatProperties
  <2>2. PICK u \in Seq(Byte) : u = s \o t
    BY ConcatProperties
  <2>3. PICK a \in Nat, b \in Nat : a = Len(s) /\ b = Len(t)
    OBVIOUS
  <2>4. /\ Len(u) = a + b
        /\ \A i \in 1 .. a : u[i] = s[i]
        /\ \A i \in 1 .. b : u[a + i] = t[i]
    BY <2>1, <2>2, <2>3
  <2>5. ASSUME HasRow(s, k)
        PROVE  HasRow(u, k)
    <3>1. PICK o \in Nat : o + size <= a /\ \A i \in 1 .. size : s[o + i] = <<k, i>>
      BY <1>2, <2>3, <2>5 DEF HasRow
    <3>2. o + size <= a + b /\ \A i \in 1 .. size : o + i \in 1 .. a
      BY <3>1
    <3>3. \A i \in 1 .. size : u[o + i] = <<k, i>>
      BY <2>4, <3>1, <3>2
    <3> QED BY <1>2, <2>4, <3>2, <3>3 DEF HasRow
  <2>6. ASSUME t = Bytes(k)
        PROVE  HasRow(u, k)
    <3>1. t = [i \in 1 .. size |-> <<k, i>>]
      BY <1>2, <2>6 DEF Bytes
    <3>2. b = size /\ \A i \in 1 .. size : t[i] = <<k, i>>
      BY <2>3, <3>1
    <3>3. \A i \in 1 .. size : u[a + i] = <<k, i>>
      BY <2>4, <3>2
    <3>4. a + size <= Len(u)
      BY <2>4, <3>2
    <3> QED BY <1>2, <3>3, <3>4 DEF HasRow
  <2> QED BY <1>6, <2>2, <2>5, <2>6
<1>7. 0 \in P
  BY <1>1
<1>8. ASSUME NEW n \in Nat, n \in P
      PROVE  n + 1 \in P
  <2> SUFFICES ASSUME k <= n + 1, n + 1 <= m
               PROVE  HasRow(RowsTo[n + 1], k)
    OBVIOUS
  <2>1. PICK j \in 1 .. m : j = n + 1
    BY <1>3
  <2>2. j - 1 = n /\ n \in 0 .. m
    BY <2>1, <1>3
  <2>3. RowsTo[j] = RowsTo[n] \o Piece(j)
    BY <1>4, <2>2
  <2>4. RowsTo[n] \in Seq(Byte) /\ Piece(j) \in Seq(Byte)
    BY <1>4, <1>5, <2>2
  <2>5. CASE j = k
    <3>1. Piece(j) = Bytes(k)
      BY <2>5 DEF Piece
    <3> QED BY <1>6, <2>1, <2>3, <2>4, <3>1
  <2>6. CASE j # k
    <3>1. HasRow(RowsTo[n], k)
      BY <1>1, <1>3, <1>8, <2>1, <2>2, <2>6
    <3> QED BY <1>6, <2>1, <2>3, <2>4, <3>1
  <2> QED BY <2>5, <2>6
<1>9. Nat \subseteq P
  <2> HIDE DEF P
  <2> QED BY <1>7, <1>8, Induction
<1> QED BY <1>1, <1>3, <1>9 DEF Rows

\* A listing is the whole table in order, or the end of it as the last round of the
\* buffer left it (items_info_db.c:82-109).
THEOREM ListingIsExact == Spec => []ListingExact
<1>1. Inductive => ListingExact
  BY Listing DEF Inductive
<1> QED BY <1>1, Invariance, PTL

\* A listing that fits the buffer has the row of every item, in one piece.
EveryItemListed == Len(Rows) <= BUFSIZ => \A k \in DOMAIN items : HasRow(Shown, k)

THEOREM NoItemMissing == Spec => []EveryItemListed
<1>1. Inductive => EveryItemListed
  <2>1. TablesOK => EveryItemListed
    BY Listing, RowsHave DEF ListingExact, EveryItemListed
  <2> QED BY <2>1 DEF Inductive
<1> QED BY <1>1, Invariance, PTL


================================================================================
