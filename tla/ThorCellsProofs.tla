--------------------------- MODULE ThorCellsProofs ----------------------------
(***************************************************************************)
(* Proof that the cells of headers/list.h implement the sequence ThorList, *)
(* for any number of sessions, cells and walks.                            *)
(*                                                                         *)
(* The inductive invariant says what the history chain is: the published   *)
(* cells, all different, linked in its order from the head on, and apart   *)
(* from the cell under construction.  From it each load of a walk reads    *)
(* the cell that comes next in the chain, and a store of the inserting     *)
(* thread changes no field a walk can reach.                               *)
(***************************************************************************)
EXTENDS ThorCells, SequenceTheorems, TLAPS

InChain(n) == \E k \in DOMAIN chain : chain[k] = n

\* The published cells are different, and were allocated.
Distinct ==
  /\ \A i, j \in DOMAIN chain : chain[i] = chain[j] => i = j
  /\ \A k \in DOMAIN chain : chain[k] \in made

\* They are linked in the order of the chain, from the head to a null pointer.
Linked ==
  /\ head = IF chain = <<>> THEN Null ELSE chain[1]
  /\ \A k \in DOMAIN chain :
       /\ next[chain[k]] = IF k < Len(chain) THEN chain[k + 1] ELSE Null
       /\ data[chain[k]] \in Clients

\* The cell under construction is not published, and what was stored is there.
Building ==
  pc # "idle" =>
    /\ node \in made
    /\ ~InChain(node)
    /\ arg \in Clients
    /\ pc \notin {"data"} => data[node] = arg
    /\ pc \in {"next", "back", "head"} => prev[node] = Null
    /\ pc \in {"back", "head"} => next[node] = head

\* A walk is on a published cell or has ended, unless it may have read a freed
\* cell; between its two loads the field it tested is not null.
Walking ==
  \A w \in Walkers :
    /\ freed = {} \/ walk[w] \in Freeing => at[w] = Null \/ InChain(at[w])
    /\ walk[w] = "load" => at[w] # Null

\* One walk frees, nothing is inserted once it has begun, and it has freed the
\* cells in front of where it is.
TearDown ==
  /\ freed # {} => \E w \in Walkers : walk[w] \in Freeing
  /\ \A w \in Walkers : walk[w] \in Freeing =>
       /\ pc = "idle"
       /\ \A v \in Walkers : walk[v] \in Freeing => v = w
  /\ FreesEachOnce

IInv ==
  /\ TypeOK /\ Distinct /\ Linked /\ Building /\ Walking
  /\ TearDown /\ PrevMirrorsNext

-------------------------------------------------------------------------------
(* Facts about the chain.                                                  *)

\* Putting a cell in front of a sequence moves the others by one.
LEMMA Fronted ==
  ASSUME NEW S, NEW s \in Seq(S), NEW e \in S
  PROVE  LET t == <<e>> \o s
         IN /\ t \in Seq(S)
            /\ Len(t) = Len(s) + 1
            /\ t[1] = e
            /\ \A k \in 1 .. Len(s) : t[k + 1] = s[k]
            /\ \A k \in 2 .. Len(t) : t[k] = s[k - 1]
            /\ t # <<>>
OBVIOUS

\* A function on an initial part of the numbers is a sequence.
LEMMA FunctionSeq ==
  ASSUME NEW S, NEW n \in Nat, NEW f \in [1 .. n -> S]
  PROVE  f \in Seq(S) /\ Len(f) = n
OBVIOUS

LEMMA TailOfOne ==
  ASSUME NEW S, NEW s \in Seq(S), Len(s) = 1
  PROVE  Tail(s) = <<>>
<1>1. Tail(s) \in Seq(S) /\ Len(Tail(s)) = 0
  BY HeadTailProperties
<1> QED  BY <1>1, EmptySeq

\* What lies ahead of a cell, read off its position.
LEMMA FromPosition ==
  ASSUME NEW cs \in Seq(Cells), NEW d, NEW k \in DOMAIN cs,
         \A i, j \in DOMAIN cs : cs[i] = cs[j] => i = j
  PROVE  DataFrom(cs, d, cs[k]) = [j \in 1 .. Len(cs) - k + 1 |-> d[cs[k + j - 1]]]
<1>1. (CHOOSE i \in DOMAIN cs : cs[i] = cs[k]) = k
  OBVIOUS
<1>2. \E i \in DOMAIN cs : cs[i] = cs[k]
  OBVIOUS
<1> QED  BY <1>1, <1>2 DEF DataFrom

\* Nothing lies ahead of the null pointer.
LEMMA FromNull ==
  ASSUME NEW cs \in Seq(Cells), NEW d
  PROVE  DataFrom(cs, d, Null) = <<>>
<1>1. \A k \in DOMAIN cs : cs[k] # Null
  BY CellsAssumption
<1> QED  BY <1>1 DEF DataFrom

\* A store that touches no cell of the chain changes nothing for a walk.
LEMMA FromUnchanged ==
  ASSUME NEW cs \in Seq(Cells), NEW d, NEW e, NEW n,
         \A k \in DOMAIN cs : d[cs[k]] = e[cs[k]]
  PROVE  DataFrom(cs, d, n) = DataFrom(cs, e, n)
<1>1. CASE \E k \in DOMAIN cs : cs[k] = n
  <2> DEFINE k == CHOOSE k \in DOMAIN cs : cs[k] = n
  <2>1. k \in DOMAIN cs
    BY <1>1
  <2> HIDE DEF k
  <2>2. \A j \in 1 .. Len(cs) - k + 1 : k + j - 1 \in DOMAIN cs
    BY <2>1
  <2>3. [j \in 1 .. Len(cs) - k + 1 |-> d[cs[k + j - 1]]] =
        [j \in 1 .. Len(cs) - k + 1 |-> e[cs[k + j - 1]]]
    BY <2>2
  <2> QED  BY <1>1, <2>3 DEF DataFrom, k
<1>2. CASE ~\E k \in DOMAIN cs : cs[k] = n
  BY <1>2 DEF DataFrom
<1> QED  BY <1>1, <1>2

\* The same two facts about the list, and the last for a step.
LEMMA PositionAhead ==
  ASSUME TypeOK, Distinct, NEW k \in DOMAIN chain
  PROVE  ClientsFrom(chain[k]) = [j \in 1 .. Len(chain) - k + 1 |-> data[chain[k + j - 1]]]
<1>1. chain \in Seq(Cells) /\ \A i, j \in DOMAIN chain : chain[i] = chain[j] => i = j
  BY DEF TypeOK, Distinct
<1>2. DataFrom(chain, data, chain[k]) =
        [j \in 1 .. Len(chain) - k + 1 |-> data[chain[k + j - 1]]]
  BY <1>1, FromPosition
<1> QED  BY <1>2 DEF ClientsFrom

LEMMA NullAhead ==
  ASSUME TypeOK
  PROVE  ClientsFrom(Null) = <<>>
BY FromNull DEF TypeOK, ClientsFrom


LEMMA StepUnchanged ==
  ASSUME TypeOK, chain' = chain, \A k \in DOMAIN chain : data'[chain[k]] = data[chain[k]],
         NEW n
  PROVE  ClientsFrom(n)' = ClientsFrom(n)
BY FromUnchanged DEF ClientsFrom, TypeOK

-------------------------------------------------------------------------------
(* The inductive invariant.                                                *)

LEMMA InitIInv == Init => IInv
BY CellsAssumption
   DEF Init, IInv, TypeOK, Distinct, Linked, Building, Walking, PrevMirrorsNext,
       InChain, Stores, Macros, Freeing, TearDown, FreesEachOnce

LEMMA MallocIInv ==
  ASSUME IInv, NEW c \in Clients, Malloc(c)
  PROVE  IInv'
<1> USE DEF IInv, Malloc, walks, frees
<1>1. TypeOK' /\ Distinct' /\ Linked' /\ Building' /\ Walking' /\ PrevMirrorsNext'
  BY DEF TypeOK, Distinct, Linked, Building, Walking, PrevMirrorsNext, InChain, Stores,
         Macros
<1>2. TearDown'
  BY DEF TearDown, FreesEachOnce, InFront
<1> QED  BY <1>1, <1>2

LEMMA SetDataIInv ==
  ASSUME IInv, SetData
  PROVE  IInv'
<1> USE DEF IInv, SetData, walks, frees
<1>1. TypeOK' /\ Distinct' /\ Linked' /\ Building' /\ Walking' /\ PrevMirrorsNext'
  BY DEF TypeOK, Distinct, Linked, Building, Walking, PrevMirrorsNext, InChain, Stores,
         Macros
<1>2. TearDown'
  BY DEF TearDown, FreesEachOnce, InFront
<1> QED  BY <1>1, <1>2

LEMMA SetPrevIInv ==
  ASSUME IInv, SetPrev
  PROVE  IInv'
<1> USE DEF IInv, SetPrev, walks, frees
<1>1. TypeOK' /\ Distinct' /\ Linked' /\ Building' /\ Walking' /\ PrevMirrorsNext'
  BY DEF TypeOK, Distinct, Linked, Building, Walking, PrevMirrorsNext, InChain, Stores,
         Macros
<1>2. TearDown'
  BY DEF TearDown, FreesEachOnce, InFront
<1> QED  BY <1>1, <1>2

LEMMA SetNextIInv ==
  ASSUME IInv, SetNext
  PROVE  IInv'
<1> USE DEF IInv, SetNext, walks, frees
<1>1. TypeOK' /\ Distinct' /\ Linked' /\ Building' /\ Walking' /\ PrevMirrorsNext'
  BY DEF TypeOK, Distinct, Linked, Building, Walking, PrevMirrorsNext, InChain, Stores,
         Macros
<1>2. TearDown'
  BY DEF TearDown, FreesEachOnce, InFront
<1> QED  BY <1>1, <1>2

\* The store goes into the old head, whose prev was null until now.
LEMMA SetBackIInv ==
  ASSUME IInv, SetBack
  PROVE  IInv'
<1> USE DEF IInv, SetBack, walks, frees, TypeOK, InChain
<1>1. TypeOK' /\ Distinct' /\ Linked' /\ Walking'
  BY DEF Stores, Macros, Distinct, Linked, Walking
<1>2. head # Null => head \in Cells /\ chain # <<>> /\ head = chain[1]
  BY DEF Linked
<1>3. Building'
  BY <1>2 DEF Building, Stores
<1>4. PrevMirrorsNext'
  <2>1. CASE head = Null
    <3>1. chain = <<>>
      BY <2>1, CellsAssumption DEF Linked
    <3> QED  BY <2>1, <3>1 DEF PrevMirrorsNext
  <2>2. CASE head # Null
    <3> SUFFICES ASSUME NEW k \in DOMAIN chain
                 PROVE  prev'[chain[k]] = IF k > 1 THEN chain[k - 1] ELSE node
      BY DEF PrevMirrorsNext
    <3>1. CASE k = 1
      BY <2>2, <1>2, <3>1
    <3>2. CASE k # 1
      BY <2>2, <1>2, <3>2 DEF PrevMirrorsNext, Distinct
    <3> QED  BY <3>1, <3>2
  <2> QED  BY <2>1, <2>2
<1>5. TearDown'
  BY DEF TearDown, FreesEachOnce, InFront
<1> QED  BY <1>1, <1>3, <1>4, <1>5

\* The cell joins the chain: every other cell moves back by one position.
LEMMA SetHeadIInv ==
  ASSUME IInv, SetHead
  PROVE  IInv'
<1> USE DEF IInv, SetHead, walks, frees
<1>1. node \in Cells /\ node \in made /\ ~InChain(node) /\ arg \in Clients
      /\ data[node] = arg /\ prev[node] = Null /\ next[node] = head
  BY DEF Building, TypeOK, Stores
<1>2. /\ chain' \in Seq(Cells) /\ Len(chain') = Len(chain) + 1
      /\ chain'[1] = node /\ chain' # <<>>
      /\ \A k \in 1 .. Len(chain) : chain'[k + 1] = chain[k]
      /\ \A k \in 2 .. Len(chain') : chain'[k] = chain[k - 1]
  BY <1>1, Fronted DEF TypeOK
<1>3. DOMAIN chain = 1 .. Len(chain) /\ DOMAIN chain' = 1 .. Len(chain) + 1
      /\ Len(chain) \in Nat
  BY <1>2 DEF TypeOK
<1>4. TypeOK'
  BY <1>1, <1>2 DEF TypeOK, Stores
<1>5. Distinct'
  <2>1. \A k \in DOMAIN chain' : chain'[k] = IF k = 1 THEN node ELSE chain[k - 1]
    BY <1>2, <1>3
  <2>2. \A k \in DOMAIN chain' : k # 1 => k - 1 \in DOMAIN chain
    BY <1>3
  <2>3. \A k \in DOMAIN chain' : chain'[k] \in made
    BY <1>1, <2>1, <2>2 DEF Distinct
  <2>4. ASSUME NEW i \in DOMAIN chain', NEW j \in DOMAIN chain', chain'[i] = chain'[j]
        PROVE  i = j
    <3>1. CASE i = 1 /\ j = 1
      BY <3>1
    <3>2. CASE i # 1 /\ j # 1
      <4>1. i - 1 \in DOMAIN chain /\ j - 1 \in DOMAIN chain /\ chain[i - 1] = chain[j - 1]
        BY <3>2, <2>1, <2>2, <2>4
      <4>2. i - 1 = j - 1
        BY <4>1 DEF Distinct
      <4> QED  BY <4>2, <1>3
    <3>3. CASE (i = 1) # (j = 1)
      BY <3>3, <2>1, <2>2, <2>4, <1>1 DEF InChain
    <3> QED  BY <3>1, <3>2, <3>3
  <2> QED  BY <2>3, <2>4 DEF Distinct
<1>6. Linked'
  <2>1. head' = IF chain' = <<>> THEN Null ELSE chain'[1]
    BY <1>2
  <2>2. ASSUME NEW k \in DOMAIN chain'
        PROVE  /\ next[chain'[k]] = IF k < Len(chain') THEN chain'[k + 1] ELSE Null
               /\ data[chain'[k]] \in Clients
    <3>1. CASE k = 1
      <4>1. next[node] = IF 1 < Len(chain) + 1 THEN chain[1] ELSE Null
        BY <1>1, <1>3 DEF Linked, TypeOK
      <4>2. 1 < Len(chain) + 1 => chain'[2] = chain[1]
        BY <1>2, <1>3
      <4> QED  BY <3>1, <4>1, <4>2, <1>1, <1>2
    <3>2. CASE k # 1
      <4>1. k - 1 \in DOMAIN chain /\ chain'[k] = chain[k - 1]
        BY <3>2, <1>2, <1>3
      <4>2. k < Len(chain') => chain'[k + 1] = chain[k]
        BY <3>2, <1>2, <1>3
      <4>3. /\ next[chain[k - 1]] = IF k - 1 < Len(chain) THEN chain[k - 1 + 1] ELSE Null
            /\ data[chain[k - 1]] \in Clients
        BY <4>1 DEF Linked
      <4> QED  BY <4>1, <4>2, <4>3, <1>2, <1>3
    <3> QED  BY <3>1, <3>2
  <2> QED  BY <2>1, <2>2 DEF Linked
<1>7. Building'
  BY DEF Building
<1>8. Walking'
  <2>1. ASSUME NEW n, InChain(n)
        PROVE  InChain(n)'
    <3>1. PICK k \in DOMAIN chain : chain[k] = n
      BY <2>1 DEF InChain
    <3>2. k + 1 \in DOMAIN chain' /\ chain'[k + 1] = n
      BY <3>1, <1>2, <1>3
    <3> QED  BY <3>2 DEF InChain
  <2> QED  BY <2>1 DEF Walking
<1>9. PrevMirrorsNext'
  <2> SUFFICES ASSUME NEW k \in DOMAIN chain'
               PROVE  prev[chain'[k]] = IF k > 1 THEN chain'[k - 1] ELSE Null
    BY DEF PrevMirrorsNext
  <2>1. CASE k = 1
    BY <2>1, <1>1, <1>2
  <2>2. CASE k # 1
    <3>1. k - 1 \in DOMAIN chain /\ chain'[k] = chain[k - 1] /\ k > 1
      BY <2>2, <1>2, <1>3
    <3>2. prev[chain[k - 1]] = IF k - 1 > 1 THEN chain[k - 1 - 1] ELSE node
      BY <3>1 DEF PrevMirrorsNext
    <3>3. k - 1 > 1 => chain'[k - 1] = chain[k - 1 - 1]
      BY <3>1, <1>2, <1>3
    <3>4. ~(k - 1 > 1) => k - 1 = 1
      BY <3>1, <1>3
    <3> QED  BY <3>1, <3>2, <3>3, <3>4, <1>2, <1>3
  <2> QED  BY <2>1, <2>2
<1>10. TearDown'
  <2>1. \A w \in Walkers : walk[w] \notin Freeing
    BY DEF TearDown
  <2>2. freed = {}
    BY <2>1 DEF TearDown
  <2> QED  BY <2>1, <2>2 DEF TearDown, FreesEachOnce, Freeing
<1> QED  BY <1>4, <1>5, <1>6, <1>7, <1>8, <1>9, <1>10

\* A load of next from a published cell gives a published cell or null.
LEMMA NextInChain ==
  ASSUME IInv, NEW k \in DOMAIN chain
  PROVE  next[chain[k]] = Null \/ InChain(next[chain[k]])
BY DEF IInv, Linked, InChain, TypeOK

\* What a walk reads before anything was freed, or a walk that frees, is the
\* field of a published cell.
LEMMA ReadsNext ==
  ASSUME IInv, NEW w \in Walkers, at[w] # Null, NEW n \in Reads(at[w])
  PROVE  /\ n \in Cells \cup {Null}
         /\ at[w] \in Cells
         /\ freed = {} \/ walk[w] = "free" =>
              /\ n = next[at[w]]
              /\ InChain(at[w])
              /\ n = Null \/ InChain(n)
<1>1. at[w] \in Cells /\ n \in Cells \cup {Null}
  BY DEF IInv, TypeOK, Reads
<1>2. ASSUME freed = {} \/ walk[w] = "free"
      PROVE  InChain(at[w]) /\ at[w] \notin freed
  <2>1. InChain(at[w])
    BY <1>2 DEF IInv, Walking, Freeing
  <2>2. walk[w] = "free" => freed = InFront(at[w])
    BY DEF IInv, TearDown, FreesEachOnce
  <2>3. at[w] \notin InFront(at[w])
    <3> SUFFICES ASSUME NEW k \in DOMAIN chain, chain[k] = at[w],
                        \A j \in DOMAIN chain : chain[j] = at[w] => k < j
                 PROVE  FALSE
      BY DEF InFront
    <3> QED  BY DEF IInv, TypeOK
  <2> QED  BY <1>2, <2>1, <2>2, <2>3
<1>3. ASSUME freed = {} \/ walk[w] = "free"
      PROVE  n = next[at[w]] /\ (n = Null \/ InChain(n))
  <2>1. n = next[at[w]] /\ InChain(at[w])
    BY <1>2, <1>3 DEF Reads
  <2> QED  BY <2>1, NextInChain DEF InChain
<1> QED  BY <1>1, <1>2, <1>3

\* The cells in front of the next cell are those in front of this one, and this one.
LEMMA FrontGrows ==
  ASSUME IInv, NEW n, InChain(n)
  PROVE  InFront(next[n]) = InFront(n) \cup {n} /\ n \notin InFront(n)
<1>1. PICK k \in DOMAIN chain : chain[k] = n
  BY DEF InChain
<1>2. /\ DOMAIN chain = 1 .. Len(chain) /\ Len(chain) \in Nat
      /\ \A i, j \in DOMAIN chain : chain[i] = chain[j] => i = j
      /\ \A i \in DOMAIN chain : chain[i] \in Cells
  BY DEF IInv, TypeOK, Distinct
<1>3. InFront(n) = {chain[i] : i \in {i \in DOMAIN chain : i < k}}
  <2>1. \A i \in DOMAIN chain : (\A j \in DOMAIN chain : chain[j] = n => i < j) <=> i < k
    BY <1>1, <1>2
  <2> QED  BY <2>1 DEF InFront
<1>4. InFront(next[n]) = {chain[i] : i \in {i \in DOMAIN chain : i < k + 1}}
  <2>1. CASE k < Len(chain)
    <3>1. k + 1 \in DOMAIN chain /\ next[n] = chain[k + 1]
      BY <1>1, <1>2, <2>1 DEF IInv, Linked
    <3>2. \A i \in DOMAIN chain :
            (\A j \in DOMAIN chain : chain[j] = next[n] => i < j) <=> i < k + 1
      BY <1>2, <3>1
    <3> QED  BY <3>2 DEF InFront
  <2>2. CASE ~(k < Len(chain))
    <3>1. next[n] = Null /\ k = Len(chain)
      BY <1>1, <1>2, <2>2 DEF IInv, Linked
    <3>2. \A j \in DOMAIN chain : chain[j] # next[n]
      BY <1>2, <3>1, CellsAssumption
    <3>3. \A i \in DOMAIN chain :
            (\A j \in DOMAIN chain : chain[j] = next[n] => i < j) <=> i < k + 1
      BY <1>2, <3>1, <3>2
    <3> QED  BY <3>3 DEF InFront
  <2> QED  BY <2>1, <2>2
<1>5. \A i \in DOMAIN chain : i < k + 1 <=> i < k \/ i = k
  BY <1>2
<1>6. n \notin InFront(n)
  BY <1>1, <1>2, <1>3
<1> QED  BY <1>1, <1>3, <1>4, <1>5, <1>6

\* Nothing is in front of the head.
LEMMA FrontOfHead ==
  ASSUME IInv
  PROVE  InFront(head) = {}
<1>1. CASE chain = <<>>
  BY <1>1 DEF InFront
<1>2. CASE chain # <<>>
  <2>1. 1 \in DOMAIN chain /\ chain[1] = head /\ DOMAIN chain = 1 .. Len(chain)
        /\ Len(chain) \in Nat
    BY <1>2 DEF IInv, Linked, TypeOK
  <2>2. \A k \in DOMAIN chain : ~(k < 1)
    BY <2>1
  <2> QED  BY <2>1, <2>2 DEF InFront
<1> QED  BY <1>1, <1>2

\* What no walk changes.
LEMMA WalkFrame ==
  ASSUME IInv, UNCHANGED <<cells, inserter, chain>>
  PROVE  /\ Distinct' /\ Linked' /\ Building' /\ PrevMirrorsNext'
         /\ \A n : InChain(n)' = InChain(n)
         /\ \A n : InFront(n)' = InFront(n)
BY DEF IInv, Distinct, Linked, Building, PrevMirrorsNext, InChain, InFront, cells, inserter

LEMMA WalkIInv ==
  ASSUME IInv, NEW w \in Walkers,
         StartWalk(w) \/ PassTest(w) \/ PassLoad(w) \/ EachStep(w)
  PROVE  IInv'
<1>1. UNCHANGED <<cells, inserter, chain>> /\ UNCHANGED frees
  BY DEF StartWalk, PassTest, PassLoad, EachStep
<1>2. walk[w] = "load" => at[w] # Null
  BY DEF IInv, Walking
<1>3. TypeOK'
  <2>1. PassLoad(w) \/ EachStep(w) => at'[w] \in Cells \cup {Null}
    BY <1>2, ReadsNext DEF IInv, TypeOK, PassLoad, EachStep
  <2>2. at' \in [Walkers -> Cells \cup {Null}] /\ walk' \in [Walkers -> Macros]
    BY <2>1 DEF IInv, TypeOK, StartWalk, PassTest, PassLoad, EachStep, Macros
  <2> QED  BY <1>1, <2>2 DEF IInv, TypeOK, cells, inserter, frees
<1>4. head = Null \/ InChain(head)
  BY DEF IInv, Linked, InChain, TypeOK
<1>5. Walking'
  <2>1. CASE StartWalk(w)
    BY <1>1, <1>4, <2>1, WalkFrame DEF IInv, TypeOK, Walking, StartWalk, frees, Freeing
  <2>2. CASE PassTest(w)
    BY <1>1, <2>2, WalkFrame DEF IInv, TypeOK, Walking, PassTest, frees, Freeing
  <2>3. CASE PassLoad(w)
    BY <1>1, <1>2, <2>3, WalkFrame, ReadsNext
       DEF IInv, TypeOK, Walking, PassLoad, frees, Freeing
  <2>4. CASE EachStep(w)
    BY <1>1, <2>4, WalkFrame, ReadsNext DEF IInv, TypeOK, Walking, EachStep, frees, Freeing
  <2> QED  BY <2>1, <2>2, <2>3, <2>4
<1>6. /\ walk[w] \notin Freeing /\ walk'[w] \notin Freeing
      /\ \A v \in Walkers : v # w => walk'[v] = walk[v] /\ at'[v] = at[v]
  BY DEF IInv, TypeOK, StartWalk, PassTest, PassLoad, EachStep, Freeing
<1>7. TearDown'
  BY <1>1, <1>6, WalkFrame DEF IInv, TearDown, FreesEachOnce, frees, inserter, Freeing
<1> QED  BY <1>1, <1>3, <1>5, <1>7, WalkFrame DEF IInv

LEMMA FreeIInv ==
  ASSUME IInv, NEW w \in Walkers, StartFree(w) \/ FreeNext(w) \/ FreeCell(w)
  PROVE  IInv'
<1>1. UNCHANGED <<cells, inserter, chain>>
  BY DEF StartFree, FreeNext, FreeCell
<1>2. \A v \in Walkers : v # w => walk'[v] = walk[v] /\ at'[v] = at[v]
  BY DEF IInv, TypeOK, StartFree, FreeNext, FreeCell
<1>3. CASE StartFree(w)
  <2>1. freed = {} /\ freed' = {} /\ at'[w] = head /\ walk'[w] = "free" /\ pc = "idle"
    BY <1>3 DEF IInv, TypeOK, TearDown, StartFree, frees
  <2>2. head = Null \/ InChain(head)
    BY DEF IInv, Linked, InChain, TypeOK
  <2>3. TypeOK'
    BY <1>1, <1>3 DEF IInv, TypeOK, StartFree, cells, inserter, frees, Macros, Freeing
  <2>4. Walking'
    BY <1>1, <1>2, <2>1, <2>2, WalkFrame DEF IInv, Walking, Freeing
  <2>5. TearDown'
    BY <1>1, <1>2, <1>3, <2>1, WalkFrame, FrontOfHead
       DEF TearDown, FreesEachOnce, StartFree, Freeing, inserter
  <2> QED  BY <1>1, <2>3, <2>4, <2>5, WalkFrame DEF IInv
<1>4. CASE FreeNext(w)
  <2>0. PICK n \in Reads(at[w]) : at' = [at EXCEPT ![w] = n]
    BY <1>4 DEF FreeNext
  <2>1. /\ n \in Cells \cup {Null} /\ at[w] \in Cells /\ n = next[at[w]]
        /\ InChain(at[w]) /\ (n = Null \/ InChain(n))
    BY <1>4, ReadsNext DEF FreeNext
  <2>2. /\ freed' = freed /\ tmp' = at[w] /\ at'[w] = n
        /\ walk[w] = "free" /\ walk'[w] = "kfree"
    BY <1>4, <2>0 DEF FreeNext, IInv, TypeOK
  <2>3. freed = InFront(at[w])
    BY <2>2 DEF IInv, TearDown, FreesEachOnce
  <2>4. TypeOK'
    BY <1>1, <1>4, <2>0, <2>1, <2>2
       DEF IInv, TypeOK, FreeNext, cells, inserter, Macros, Freeing
  <2>5. Walking'
    BY <1>1, <1>2, <2>1, <2>2, WalkFrame DEF IInv, Walking, Freeing
  <2>6. TearDown'
    BY <1>1, <1>2, <2>1, <2>2, <2>3, WalkFrame, FrontGrows
       DEF IInv, TearDown, FreesEachOnce, Freeing, inserter
  <2> QED  BY <1>1, <2>4, <2>5, <2>6, WalkFrame DEF IInv
<1>5. CASE FreeCell(w)
  <2>1. /\ freed' = freed \cup {tmp} /\ UNCHANGED <<at, tmp>>
        /\ walk[w] = "kfree" /\ walk'[w] = "free"
    BY <1>5 DEF FreeCell, IInv, TypeOK
  <2>2. tmp \notin freed /\ freed \cup {tmp} = InFront(at[w])
    BY <2>1 DEF IInv, TearDown, FreesEachOnce
  <2>3. \A c \in InFront(at[w]) : c \in Cells
    BY DEF InFront, IInv, TypeOK
  <2>4. TypeOK'
    BY <1>1, <1>5, <2>1, <2>2, <2>3
       DEF IInv, TypeOK, FreeCell, cells, inserter, Macros, Freeing
  <2>5. Walking'
    BY <1>1, <1>2, <2>1, WalkFrame DEF IInv, Walking, Freeing
  <2>6. TearDown'
    BY <1>1, <1>2, <2>1, <2>2, WalkFrame
       DEF IInv, TearDown, FreesEachOnce, Freeing, inserter
  <2> QED  BY <1>1, <2>4, <2>5, <2>6, WalkFrame DEF IInv
<1> QED  BY <1>3, <1>4, <1>5

LEMMA StepIInv ==
  ASSUME IInv, [Next]_vars
  PROVE  IInv'
<1>1. CASE UNCHANGED vars
  BY <1>1 DEF IInv, vars, cells, inserter, walks, frees, TypeOK, Distinct, Linked,
              Building, Walking, TearDown, FreesEachOnce, InFront, PrevMirrorsNext, InChain
<1>2. CASE Next
  BY <1>2, MallocIInv, SetDataIInv, SetPrevIInv, SetNextIInv, SetBackIInv, SetHeadIInv,
     WalkIInv, FreeIInv DEF Next
<1> QED  BY <1>1, <1>2

THEOREM Invariance == Spec => []IInv
<1>1. Init => IInv
  BY InitIInv
<1>2. IInv /\ [Next]_vars => IInv'
  BY StepIInv
<1> QED  BY <1>1, <1>2, PTL DEF Spec

\* At every point of an insertion the two directions of the list agree
\* (list.h:61-71).
THEOREM PrevCorrect == Spec => []PrevMirrorsNext
<1>1. IInv => PrevMirrorsNext
  BY DEF IInv
<1> QED  BY <1>1, Invariance, PTL

\* A tear down frees every cell of the list once and reads nothing it has freed
\* (list.h:136-150).
THEOREM FreesCorrect == Spec => []FreesEachOnce
<1>1. IInv => FreesEachOnce
  BY DEF IInv, TearDown
<1> QED  BY <1>1, Invariance, PTL

\* The variables hold cells, sessions and labels of their kinds.
THEOREM TypeCorrect == Spec => []TypeOK
<1>1. IInv => TypeOK
  BY DEF IInv
<1> QED  BY <1>1, Invariance, PTL

-------------------------------------------------------------------------------
(* The refinement.                                                         *)

LEMMA InitImplements == Init => L!Init
BY DEF Init, L!Init, Listed, Ahead, ClientsFrom, DataFrom

\* A store into the cell under construction leaves the list and the walks alone.
LEMMA StoreStutters ==
  ASSUME IInv, chain' = chain, at' = at, freed' = freed,
         \A k \in DOMAIN chain : data'[chain[k]] = data[chain[k]]
  PROVE  UNCHANGED L!vars
<1>1. Listed' = Listed
  BY DEF Listed
<1>2. \A n : ClientsFrom(n)' = ClientsFrom(n)
  BY StepUnchanged DEF IInv
<1>3. Ahead' = Ahead
  BY <1>2 DEF Ahead
<1> QED  BY <1>1, <1>3 DEF L!vars

\* Publishing the cell inserts its session at the head of the sequence.
LEMMA SetHeadInserts ==
  ASSUME IInv, SetHead
  PROVE  L!Insert(arg)
<1> USE DEF IInv, SetHead, frees
<1>1. node \in Cells /\ ~InChain(node) /\ data[node] = arg /\ arg \in Clients
  BY DEF Building, TypeOK, Stores
<1>2. /\ chain' \in Seq(Cells) /\ Len(chain') = Len(chain) + 1
      /\ chain'[1] = node
      /\ \A k \in 1 .. Len(chain) : chain'[k + 1] = chain[k]
      /\ \A k \in 2 .. Len(chain') : chain'[k] = chain[k - 1]
  BY <1>1, Fronted DEF TypeOK
<1>3. Len(chain) \in Nat /\ DOMAIN chain = 1 .. Len(chain)
      /\ DOMAIN chain' = 1 .. Len(chain) + 1
  BY <1>2 DEF TypeOK
<1>4. Listed \in Seq(Clients) /\ Len(Listed) = Len(chain)
  BY <1>3 DEF Listed, Linked, TypeOK
<1>5. Listed' = <<arg>> \o Listed
  <2> DEFINE s == <<arg>> \o Listed
  <2>1. s \in Seq(Clients) /\ Len(s) = Len(chain) + 1 /\ s[1] = arg
        /\ \A k \in 2 .. Len(s) : s[k] = Listed[k - 1]
    BY <1>1, <1>4, Fronted
  <2>2. Listed' = [k \in 1 .. Len(chain) + 1 |-> data[chain'[k]]]
    BY <1>3 DEF Listed
  <2>3. s = [k \in 1 .. Len(chain) + 1 |-> s[k]]
    BY <2>1
  <2> HIDE DEF s
  <2>4. ASSUME NEW k \in 1 .. Len(chain) + 1
        PROVE  data[chain'[k]] = s[k]
    <3>1. CASE k = 1
      BY <3>1, <1>1, <1>2, <2>1
    <3>2. CASE k # 1
      <4>1. k - 1 \in DOMAIN chain /\ k \in 2 .. Len(s) /\ k \in 2 .. Len(chain')
        BY <3>2, <1>2, <1>3, <2>1
      <4>2. Listed[k - 1] = data[chain[k - 1]]
        BY <4>1 DEF Listed
      <4> QED  BY <4>1, <4>2, <1>2, <2>1
    <3> QED  BY <3>1, <3>2
  <2>5. Listed' = s
    BY <2>2, <2>3, <2>4
  <2> QED  BY <2>5 DEF s
<1>6. Ahead' = Ahead
  <2> SUFFICES ASSUME NEW w \in Walkers
               PROVE  ClientsFrom(at[w])' = ClientsFrom(at[w])
    BY DEF Ahead, walks
  <2>0. /\ at' = at /\ data' = data
        /\ \A i, j \in DOMAIN chain' : chain'[i] = chain'[j] => i = j
    BY SetHeadIInv DEF walks, Distinct
  <2> USE DEF ClientsFrom
  <2>1. CASE at[w] = Null
    <3>1. ClientsFrom(Null) = <<>>
      BY FromNull DEF TypeOK
    <3>2. ClientsFrom(Null)' = <<>>
      BY <1>2, FromNull
    <3> QED  BY <2>0, <2>1, <3>1, <3>2
  <2>2. CASE InChain(at[w])
    <3>1. PICK k \in DOMAIN chain : chain[k] = at[w]
      BY <2>2 DEF InChain
    <3>2. k + 1 \in DOMAIN chain' /\ chain'[k + 1] = at[w]
      BY <3>1, <1>2, <1>3
    <3>3. ClientsFrom(at[w]) = [j \in 1 .. Len(chain) - k + 1 |-> data[chain[k + j - 1]]]
      BY <3>1, PositionAhead
    <3>4. ClientsFrom(at[w])' =
            [j \in 1 .. Len(chain') - (k + 1) + 1 |-> data'[chain'[k + 1 + j - 1]]]
      <4> DEFINE cs == chain'
                 d == data'
                 m == k + 1
      <4>1. /\ cs \in Seq(Cells) /\ m \in DOMAIN cs
            /\ \A i, j \in DOMAIN cs : cs[i] = cs[j] => i = j
        BY <2>0, <3>2, <1>2
      <4> HIDE DEF cs, d, m
      <4>2. DataFrom(cs, d, cs[m]) = [j \in 1 .. Len(cs) - m + 1 |-> d[cs[m + j - 1]]]
        BY <4>1, FromPosition
      <4> QED  BY <2>0, <3>2, <4>2 DEF cs, d, m
    <3>5. Len(chain') - (k + 1) + 1 = Len(chain) - k + 1
      BY <1>2, <1>3
    <3>6. \A j \in 1 .. Len(chain) - k + 1 : chain'[k + 1 + j - 1] = chain[k + j - 1]
      <4> TAKE j \in 1 .. Len(chain) - k + 1
      <4>1. k + j - 1 \in 1 .. Len(chain) /\ k + 1 + j - 1 = (k + j - 1) + 1
        BY <1>3
      <4> QED  BY <4>1, <1>2
    <3>7. [j \in 1 .. Len(chain) - k + 1 |-> data'[chain'[k + 1 + j - 1]]] =
          [j \in 1 .. Len(chain) - k + 1 |-> data[chain[k + j - 1]]]
      BY <2>0, <3>6
    <3> QED  BY <3>3, <3>4, <3>5, <3>7
  <2>3. freed = {}
    BY DEF TearDown
  <2> QED  BY <2>1, <2>2, <2>3 DEF Walking
<1>7. (freed # {})' = (freed # {})
  OBVIOUS
<1> QED  BY <1>5, <1>6, <1>7 DEF L!Insert

\* A walk that starts has the whole list ahead of it.
LEMMA StartImplements ==
  ASSUME IInv, NEW w \in Walkers, StartWalk(w) \/ StartFree(w)
  PROVE  L!Start(w)
<1> USE DEF IInv
<1>1. UNCHANGED <<data, chain, freed>> /\ at' = [at EXCEPT ![w] = head]
  BY DEF StartWalk, StartFree, cells, frees
<1>2. \A n : ClientsFrom(n)' = ClientsFrom(n)
  BY <1>1, StepUnchanged
<1>3. ClientsFrom(head) = Listed
  <2>1. CASE chain = <<>>
    <3>1. ClientsFrom(head) = <<>>
      BY <2>1, NullAhead DEF Linked
    <3>2. DOMAIN chain = {}
      BY <2>1
    <3>3. Listed = [k \in {} |-> data[chain[k]]]
      BY <3>2 DEF Listed
    <3> QED  BY <3>1, <3>3
  <2>2. CASE chain # <<>>
    <3>1. 1 \in DOMAIN chain /\ head = chain[1] /\ DOMAIN chain = 1 .. Len(chain)
          /\ Len(chain) \in Nat
      BY <2>2 DEF Linked, TypeOK
    <3>2. ClientsFrom(head) = [j \in 1 .. Len(chain) - 1 + 1 |-> data[chain[1 + j - 1]]]
      BY <3>1, PositionAhead
    <3>3. Len(chain) - 1 + 1 = Len(chain) /\ \A j \in 1 .. Len(chain) : 1 + j - 1 = j
      BY <3>1
    <3> QED  BY <3>1, <3>2, <3>3 DEF Listed
  <2> QED  BY <2>1, <2>2
<1>4. Ahead' = [Ahead EXCEPT ![w] = Listed]
  BY <1>1, <1>2, <1>3 DEF Ahead, TypeOK
<1>5. Listed' = Listed
  BY <1>1 DEF Listed
<1>6. (freed # {})' = (freed # {})
  BY <1>1
<1> QED  BY <1>4, <1>5, <1>6 DEF L!Start

\* A load of next moves the walk to the next session.
LEMMA LoadImplements ==
  ASSUME IInv, NEW w \in Walkers, PassLoad(w) \/ EachStep(w) \/ FreeNext(w), freed = {}
  PROVE  L!Advance(w)
<1> USE DEF IInv
<1>1. /\ UNCHANGED <<data, next, chain, freed>>
      /\ at[w] # Null /\ at' = [at EXCEPT ![w] = next[@]]
  BY DEF PassLoad, EachStep, FreeNext, cells, frees, Walking, Reads
<1>2. \A n : ClientsFrom(n)' = ClientsFrom(n)
  BY <1>1, StepUnchanged
<1>3. PICK k \in DOMAIN chain : chain[k] = at[w]
  BY <1>1 DEF Walking, InChain
<1>4. k \in 1 .. Len(chain) /\ Len(chain) \in Nat /\ DOMAIN chain = 1 .. Len(chain)
  BY DEF TypeOK
<1>5. ClientsFrom(at[w]) = [j \in 1 .. Len(chain) - k + 1 |-> data[chain[k + j - 1]]]
  BY <1>3, PositionAhead
<1> DEFINE s == ClientsFrom(at[w])
<1>6. s \in Seq(Clients) /\ Len(s) = Len(chain) - k + 1
  <2>1. \A j \in 1 .. Len(chain) - k + 1 : k + j - 1 \in DOMAIN chain
    BY <1>4
  <2>2. s \in [1 .. Len(chain) - k + 1 -> Clients]
    BY <1>5, <2>1 DEF Linked
  <2>3. Len(chain) - k + 1 \in Nat
    BY <1>4
  <2> HIDE DEF s
  <2> QED  BY <2>2, <2>3, FunctionSeq
<1>7. s # <<>>
  BY <1>4, <1>6
<1>8. ClientsFrom(next[at[w]]) = Tail(s)
  <2>0. Tail(s) = [j \in 1 .. Len(s) - 1 |-> s[j + 1]]
    BY <1>6, <1>7
  <2>1. CASE k = Len(chain)
    <3>1. ClientsFrom(next[at[w]]) = <<>>
      BY <2>1, <1>3, NullAhead DEF Linked
    <3>2. Len(s) = 1
      BY <2>1, <1>4, <1>6
    <3> HIDE DEF s
    <3>3. Tail(s) = <<>>
      BY <3>2, <1>6, TailOfOne
    <3> QED  BY <3>1, <3>3
  <2>2. CASE k # Len(chain)
    <3>1. k + 1 \in DOMAIN chain /\ next[at[w]] = chain[k + 1]
      BY <2>2, <1>3, <1>4 DEF Linked
    <3>2. ClientsFrom(next[at[w]]) =
            [j \in 1 .. Len(chain) - (k + 1) + 1 |-> data[chain[k + 1 + j - 1]]]
      BY <3>1, PositionAhead
    <3>3. Len(chain) - (k + 1) + 1 = Len(s) - 1
      BY <1>4, <1>6
    <3>4. ASSUME NEW j \in 1 .. Len(s) - 1
          PROVE  data[chain[k + 1 + j - 1]] = s[j + 1]
      <4>1. j + 1 \in 1 .. Len(chain) - k + 1 /\ k + 1 + j - 1 = k + (j + 1) - 1
        BY <1>4, <1>6
      <4> QED  BY <4>1, <1>5
    <3> QED  BY <2>0, <3>2, <3>3, <3>4
  <2> QED  BY <2>1, <2>2
<1>9. Ahead' = [Ahead EXCEPT ![w] = Tail(@)]
  BY <1>1, <1>2, <1>8 DEF Ahead, TypeOK
<1>10. Listed' = Listed
  BY <1>1 DEF Listed
<1>11. Ahead[w] # <<>>
  BY <1>7 DEF Ahead
<1>12. (freed # {})' = (freed # {})
  BY <1>1
<1> QED  BY <1>9, <1>10, <1>11, <1>12 DEF L!Advance

\* What a walk has ahead is sessions, wherever it stands.
LEMMA FromType ==
  ASSUME NEW cs \in Seq(Cells), NEW d, NEW n,
         \A i, j \in DOMAIN cs : cs[i] = cs[j] => i = j,
         \A k \in DOMAIN cs : d[cs[k]] \in Clients
  PROVE  DataFrom(cs, d, n) \in Seq(Clients)
<1>1. CASE \E k \in DOMAIN cs : cs[k] = n
  <2>1. PICK k \in DOMAIN cs : cs[k] = n
    BY <1>1
  <2>2. DataFrom(cs, d, n) = [j \in 1 .. Len(cs) - k + 1 |-> d[cs[k + j - 1]]]
    <3>1. (CHOOSE i \in DOMAIN cs : cs[i] = n) = k
      BY <2>1
    <3> QED  BY <1>1, <3>1 DEF DataFrom
  <2>3. k \in 1 .. Len(cs) /\ Len(cs) \in Nat /\ DOMAIN cs = 1 .. Len(cs)
    OBVIOUS
  <2>4. \A j \in 1 .. Len(cs) - k + 1 : k + j - 1 \in DOMAIN cs
    BY <2>3
  <2>5. Len(cs) - k + 1 \in Nat
    BY <2>3
  <2>6. DataFrom(cs, d, n) \in [1 .. Len(cs) - k + 1 -> Clients]
    BY <2>2, <2>4
  <2> QED  BY <2>5, <2>6, FunctionSeq
<1>2. CASE ~\E k \in DOMAIN cs : cs[k] = n
  BY <1>2 DEF DataFrom
<1> QED  BY <1>1, <1>2

\* Once a cell is freed, the walks are anywhere.
LEMMA ReleaseImplements ==
  ASSUME IInv, IInv', UNCHANGED <<data, chain>>, freed' # {}
  PROVE  L!Release
<1>1. ASSUME NEW n
      PROVE  DataFrom(chain, data, n) \in Seq(Clients)
  BY FromType DEF IInv, TypeOK, Distinct, Linked
<1>2. Ahead' = [w \in Walkers |-> DataFrom(chain, data, at'[w])]
  BY DEF Ahead, ClientsFrom
<1>3. Ahead' \in [Walkers -> Seq(Clients)]
  BY <1>1, <1>2
<1>4. Listed' = Listed
  BY DEF Listed
<1> QED  BY <1>3, <1>4 DEF L!Release

LEMMA StepImplements ==
  ASSUME IInv, [Next]_vars
  PROVE  [L!Next]_(L!vars)
<1> USE DEF frees
<1>1. CASE UNCHANGED vars
  BY <1>1, StoreStutters DEF vars, cells, walks
<1>2. ASSUME NEW c \in Clients, Malloc(c)
      PROVE  UNCHANGED L!vars
  BY <1>2, StoreStutters DEF Malloc, walks
<1>3. CASE SetData
  BY <1>3, StoreStutters DEF SetData, walks, IInv, TypeOK, Building, InChain, Stores
<1>4. CASE SetPrev \/ SetNext \/ SetBack
  BY <1>4, StoreStutters DEF SetPrev, SetNext, SetBack, walks
<1>5. CASE SetHead
  <2>1. arg \in Clients
    BY <1>5 DEF SetHead, IInv, Building
  <2> QED  BY <1>5, <2>1, SetHeadInserts DEF L!Next
<1>6. ASSUME NEW w \in Walkers, StartWalk(w) \/ StartFree(w)
      PROVE  L!Next
  BY <1>6, StartImplements DEF L!Next
<1>7. ASSUME NEW w \in Walkers, PassLoad(w) \/ EachStep(w) \/ FreeNext(w)
      PROVE  L!Next
  <2>1. CASE freed = {}
    BY <1>7, <2>1, LoadImplements DEF L!Next
  <2>2. CASE freed # {}
    <3>1. UNCHANGED <<data, chain, freed>>
      BY <1>7 DEF PassLoad, EachStep, FreeNext, cells
    <3> QED  BY <1>7, <2>2, <3>1, WalkIInv, FreeIInv, ReleaseImplements DEF L!Next
  <2> QED  BY <2>1, <2>2
<1>8. ASSUME NEW w \in Walkers, PassTest(w)
      PROVE  UNCHANGED L!vars
  BY <1>8, StoreStutters DEF PassTest, cells
<1>9. ASSUME NEW w \in Walkers, FreeCell(w)
      PROVE  L!Next
  <2>1. UNCHANGED <<data, chain>> /\ freed' # {}
    BY <1>9 DEF FreeCell, cells
  <2> QED  BY <1>9, <2>1, FreeIInv, ReleaseImplements DEF L!Next
<1> QED  BY <1>1, <1>2, <1>3, <1>4, <1>5, <1>6, <1>7, <1>8, <1>9 DEF Next

\* The list of headers/list.h is the sequence the other modules take it for,
\* while the main thread inserts and the serving thread walks without a lock, until
\* the tear down frees its first cell.
THEOREM Implements == Spec => ImplementsList
<1>1. Init => L!Init
  BY InitImplements
<1>2. IInv /\ [Next]_vars => [L!Next]_(L!vars)
  BY StepImplements
<1> QED  BY <1>1, <1>2, Invariance, PTL DEF Spec, L!Spec, ImplementsList

===============================================================================
