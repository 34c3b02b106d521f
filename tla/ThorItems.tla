------------------------------- MODULE ThorItems -------------------------------
(***************************************************************************)
(* The stock: the tables ItemsInformation and ItemImages                   *)
(* (database/thor_db.c), the statements that change them                   *)
(* (database/items_info_db.c, database/items_images.c), and the listing of *)
(* the items, which is printed through the buffer of a stdio stream.       *)
(*                                                                         *)
(* This module has the tables and the statements; ThorReplies has the      *)
(* commands that execute them.  A statement is an action with a result:    *)
(* "ok", "error" when SQLite reports one, whatever the cause, and          *)
(* "refused" when the function returns before it executes anything.        *)
(***************************************************************************)
EXTENDS Integers, Sequences, FiniteSets, SequencesExt

CONSTANTS
  Names,    \* Names of items
  Upcs,     \* Product codes
  Pictures, \* Contents of images
  MaxItems, \* Bound: the largest ID of an item
  RowSize,  \* RowSize[n]: bytes of the row of the item n in the listing
  BUFSIZ    \* Bytes of the stream's buffer

ASSUME ItemsAssumption ==
  /\ MaxItems \in Nat
  /\ BUFSIZ \in Nat \ {0}
  /\ RowSize \in [Names -> 1 .. BUFSIZ]

VARIABLES
  items, \* The rows of ItemsInformation, by ID
  images \* images[u]: the row of ItemImages with UPC u, its Image

tables == <<items, images>>

Item == [upc : Upcs, name : Names]
Results == {"ok", "error", "refused"}

TablesOK ==
  /\ items \in UNION {[ids -> Item] : ids \in SUBSET (1 .. MaxItems)}
  /\ images \in UNION {[upcs -> Pictures] : upcs \in SUBSET Upcs}

EmptyTables == items = <<>> /\ images = <<>>

NoEffect == UNCHANGED tables

\* The keys that mappings.h maps to a column of the table; a price, like a
\* quantity, is not modelled.  A "foreign" key is mapped to a column of another
\* table, which SQLite does not find; any other key is not mapped.
ItemKeys == {"item-upc", "item-name", "item-price"}
ImageKeys == {"item-upc", "images", "image-extra"}
Keys == ItemKeys \cup ImageKeys \cup {"unmapped"}

Coded(upc) == {k \in DOMAIN items : items[k].upc = upc}

\* AUTOINCREMENT, up to the order of the IDs.
NextId(id) == id - 1 \in DOMAIN items \cup {0} /\ \A k \in DOMAIN items : k < id

\* UNIQUE(Name)
Named(name) == {k \in DOMAIN items : items[k].name = name}

AddItem(upc, name, result) ==
  \/ /\ result = "ok"
     /\ Named(name) = {}
     /\ \E id \in 1 .. MaxItems :
          /\ NextId(id)
          /\ items' = [k \in DOMAIN items \cup {id} |->
                         IF k = id THEN [upc |-> upc, name |-> name] ELSE items[k]]
     /\ images' = images
  \/ result = "error" /\ NoEffect

\* Plausible mistake, for the sensitivity of the checks: without the inner SELECT,
\* the condition of the UPDATE is the product code itself.
SetColumnAll(k, key, value) ==
  items' = [n \in DOMAIN items |->
              IF n \notin Coded(items[k].upc) THEN items[n]
              ELSE CASE key = "item-upc"  -> [items[n] EXCEPT !.upc = value]
                     [] key = "item-name" -> [items[n] EXCEPT !.name = value]
                     [] OTHER             -> items[n]]

SetColumn(k, key, value) ==
  items' = [items EXCEPT ![k] =
              CASE key = "item-upc"  -> [@ EXCEPT !.upc = value]
                [] key = "item-name" -> [@ EXCEPT !.name = value]
                [] OTHER             -> @]

\* Plausible mistake, for the sensitivity of the checks: the constraint is on the
\* product code, which the commands address.
KeepsUniqueUpc(k, key, value) == key = "item-upc" => Coded(value) \subseteq {k}

KeepsUnique(k, key, value) == key = "item-name" => Named(value) \subseteq {k}

\* One of the items with the code is changed, or none, which is no error.
UpdateItem(upc, key, value, result) ==
  \/ result = "refused" /\ key = "unmapped" /\ NoEffect
  \/ result = "error" /\ key # "unmapped" /\ NoEffect
  \/ /\ result = "ok" /\ key \in ItemKeys
     /\ IF Coded(upc) = {} THEN NoEffect
        ELSE \E k \in Coded(upc) :
               /\ KeepsUnique(k, key, value)
               /\ SetColumn(k, key, value)
               /\ images' = images

\* Every item with the code.
DeleteItem(upc, result) ==
  \/ /\ result = "ok"
     /\ items' = [k \in DOMAIN items \ Coded(upc) |-> items[k]]
     /\ images' = images
  \/ result = "error" /\ NoEffect

\* UNIQUE(UPC)
AddImage(upc, picture, result) ==
  \/ /\ result = "ok"
     /\ upc \notin DOMAIN images
     /\ images' = [u \in DOMAIN images \cup {upc} |-> IF u = upc THEN picture ELSE images[u]]
     /\ items' = items
  \/ result = "error" /\ NoEffect

\* Of the columns, the code and the picture are modelled.
UpdateImage(upc, key, value, result) ==
  \/ result = "refused" /\ key = "unmapped" /\ NoEffect
  \/ result = "error" /\ key # "unmapped" /\ NoEffect
  \/ /\ result = "ok" /\ key \in ImageKeys
     /\ items' = items
     /\ \/ /\ upc \notin DOMAIN images \/ key = "image-extra"
           /\ images' = images
        \/ /\ upc \in DOMAIN images /\ key = "images"
           /\ images' = [images EXCEPT ![upc] = value]
        \/ /\ upc \in DOMAIN images /\ key = "item-upc"
           /\ value \notin DOMAIN images \ {upc}
           /\ images' = [u \in (DOMAIN images \ {upc}) \cup {value} |->
                           IF u = value THEN images[upc] ELSE images[u]]

\* Plausible mistake, for the sensitivity of the checks: the statement was copied
\* from the items and still names their table.
DeleteImageCopied(upc, result) == DeleteItem(upc, result)

DeleteImage(upc, result) ==
  \/ /\ result = "ok"
     /\ images' = [u \in DOMAIN images \ {upc} |-> images[u]]
     /\ items' = items
  \/ result = "error" /\ NoEffect

-------------------------------------------------------------------------------
(* The listing.                                                            *)

\* The bytes that the callback prints for one row.
Bytes(k) == [n \in 1 .. RowSize[items[k].name] |-> <<k, n>>]

\* The bytes of the rows up to an ID, in the order of the IDs; and of the table.
RowsTo[k \in 0 .. MaxItems] ==
  IF k = 0 THEN <<>>
  ELSE RowsTo[k - 1] \o (IF k \in DOMAIN items THEN Bytes(k) ELSE <<>>)

Rows == RowsTo[MaxItems]

\* Plausible mistake, for the sensitivity of the checks: every row is printed to the
\* start of the buffer.
PutFirst(stream, byte) ==
  LET at == IF byte[2] = 1 THEN 0 ELSE stream.pos
  IN [buf |-> IF at < Len(stream.buf) THEN ReplaceAt(stream.buf, at + 1, byte)
              ELSE Append(stream.buf, byte),
      pos |-> at + 1]

\* One byte through a fully buffered stream: a full buffer is first written to
\* /dev/null, and filling starts again at its first byte.  (No row is longer than
\* the buffer: what does not fit into several would be written past it.)
Put(stream, byte) ==
  LET at == IF stream.pos = BUFSIZ THEN 0 ELSE stream.pos
  IN [buf |-> IF at < Len(stream.buf) THEN ReplaceAt(stream.buf, at + 1, byte)
              ELSE Append(stream.buf, byte),
      pos |-> at + 1]

\* The stream when so many bytes were printed.
Printed[n \in 0 .. Len(Rows)] ==
  IF n = 0 THEN [buf |-> <<>>, pos |-> 0] ELSE Put(Printed[n - 1], Rows[n])

\* What is read back of the buffer, up to the first byte never written.
Shown == Printed[Len(Rows)].buf

===============================================================================
