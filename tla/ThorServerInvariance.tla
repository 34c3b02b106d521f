------------------------- MODULE ThorServerInvariance -------------------------
(***************************************************************************)
(* The safety of the session core before its first fault: Inductive is an  *)
(* inductive invariant, and the safety properties follow from it.  One     *)
(* lemma per action, one step per part of the invariant.                   *)
(***************************************************************************)
EXTENDS ThorServerProofs

USE DEF At, Goto, Die, Threads, runVars, procVars, thisVars, ctlVars, handVars, passVars,
        nodeVars, netVars, viewVars, Current

-----------------------------------------------------------------------------
(* Lemmas about sequences *)

\* Membership in the list, by position.
LEMMA ListedAt ==
  ASSUME NEW S, NEW s \in Seq(S)
  PROVE  /\ \A j \in 1..Len(s) : s[j] \in ToSet(s) /\ s[j] \in S
         /\ \A x \in ToSet(s) : \E j \in 1..Len(s) : s[j] = x
         /\ ToSet(s) = {} <=> s = <<>>
  BY DEF ToSet

LEMMA ConsSet ==
  ASSUME NEW S, NEW s \in Seq(S), NEW x \in S
  PROVE  /\ <<x>> \o s \in Seq(S)
         /\ Len(<<x>> \o s) = Len(s) + 1
         /\ (<<x>> \o s)[1] = x
         /\ \A j \in 1..Len(s) : (<<x>> \o s)[j + 1] = s[j]
         /\ ToSet(<<x>> \o s) = {x} \cup ToSet(s)
  <1>1. /\ <<x>> \o s \in Seq(S)
        /\ Len(<<x>> \o s) = Len(s) + 1
        /\ (<<x>> \o s)[1] = x
        /\ \A j \in 1..Len(s) : (<<x>> \o s)[j + 1] = s[j]
    OBVIOUS
  <1>2. ASSUME NEW y \in ToSet(<<x>> \o s) PROVE y \in {x} \cup ToSet(s)
    <2>1. PICK j \in 1..(Len(s) + 1) : y = (<<x>> \o s)[j]
      BY <1>1, <1>2 DEF ToSet
    <2>2. CASE j = 1
      BY <1>1, <2>1, <2>2
    <2>3. CASE j # 1
      <3>1. PICK k \in 1..Len(s) : j = k + 1
        BY <1>1, <2>1, <2>3
      <3>2. y = s[k]
        BY <1>1, <2>1, <3>1
      <3> QED
        BY <3>2 DEF ToSet
    <2> QED
      BY <2>2, <2>3
  <1>3. ASSUME NEW y \in {x} \cup ToSet(s) PROVE y \in ToSet(<<x>> \o s)
    <2>1. CASE y = x
      BY <1>1, <2>1 DEF ToSet
    <2>2. CASE y \in ToSet(s)
      <3>1. PICK j \in 1..Len(s) : y = s[j]
        BY <2>2 DEF ToSet
      <3>2. j + 1 \in 1..Len(<<x>> \o s) /\ y = (<<x>> \o s)[j + 1]
        BY <1>1, <3>1
      <3> QED
        BY <1>1, <3>2, ListedAt
    <2> QED
      BY <1>3, <2>1, <2>2
  <1> QED
    BY <1>1, <1>2, <1>3

LEMMA AppendSet ==
  ASSUME NEW S, NEW s \in Seq(S), NEW x \in S
  PROVE  /\ ToSet(Append(s, x)) = ToSet(s) \cup {x}
         /\ IsInjective(s) /\ x \notin ToSet(s) => IsInjective(Append(s, x))
  <1>1. /\ Append(s, x) \in Seq(S)
        /\ Len(Append(s, x)) = Len(s) + 1
        /\ Append(s, x)[Len(s) + 1] = x
        /\ \A j \in 1..Len(s) : Append(s, x)[j] = s[j]
    OBVIOUS
  <1>2. ToSet(Append(s, x)) \subseteq ToSet(s) \cup {x}
    BY <1>1 DEF ToSet
  <1>3. ToSet(s) \cup {x} \subseteq ToSet(Append(s, x))
    BY <1>1 DEF ToSet
  <1>4. IsInjective(s) /\ x \notin ToSet(s) => IsInjective(Append(s, x))
    BY <1>1 DEF IsInjective, ToSet
  <1> QED
    BY <1>2, <1>3, <1>4

LEMMA TailSet ==
  ASSUME NEW S, NEW s \in Seq(S), s # <<>>
  PROVE  /\ Head(s) \in S /\ Tail(s) \in Seq(S)
         /\ Len(s) > 0 /\ Len(Tail(s)) = Len(s) - 1
         /\ \A j \in 1..Len(Tail(s)) : Tail(s)[j] = s[j + 1]
         /\ ToSet(s) = {Head(s)} \cup ToSet(Tail(s))
         /\ IsInjective(s) => IsInjective(Tail(s)) /\ Head(s) \notin ToSet(Tail(s))
  <1>1. /\ Head(s) \in S /\ Tail(s) \in Seq(S) /\ Head(s) = s[1]
        /\ Len(s) > 0 /\ Len(Tail(s)) = Len(s) - 1
        /\ \A j \in 1..Len(Tail(s)) : Tail(s)[j] = s[j + 1]
    OBVIOUS
  <1>2. ASSUME NEW y \in ToSet(s) PROVE y \in {Head(s)} \cup ToSet(Tail(s))
    <2>1. PICK j \in 1..Len(s) : y = s[j]
      BY <1>2 DEF ToSet
    <2>2. CASE j = 1
      BY <1>1, <2>1, <2>2
    <2>3. CASE j # 1
      <3>1. PICK k \in 1..Len(Tail(s)) : j = k + 1
        BY <1>1, <2>1, <2>3
      <3>2. y = Tail(s)[k]
        BY <1>1, <2>1, <3>1
      <3> QED
        BY <1>1, <3>2, ListedAt
    <2> QED
      BY <2>2, <2>3
  <1>3. ASSUME NEW y \in {Head(s)} \cup ToSet(Tail(s)) PROVE y \in ToSet(s)
    <2>1. CASE y = Head(s)
      BY <1>1, <2>1 DEF ToSet
    <2>2. CASE y \in ToSet(Tail(s))
      <3>1. PICK j \in 1..Len(Tail(s)) : y = Tail(s)[j]
        BY <1>1, <2>2 DEF ToSet
      <3>2. j + 1 \in 1..Len(s) /\ y = s[j + 1]
        BY <1>1, <3>1
      <3> QED
        BY <3>2 DEF ToSet
    <2> QED
      BY <1>3, <2>1, <2>2
  <1>4. ASSUME IsInjective(s) PROVE IsInjective(Tail(s)) /\ Head(s) \notin ToSet(Tail(s))
    <2>1. \A a, b \in 1..Len(s) : s[a] = s[b] => a = b
      BY <1>4 DEF IsInjective
    <2>2. \A a, b \in 1..Len(Tail(s)) : Tail(s)[a] = Tail(s)[b] => a = b
      BY <1>1, <2>1
    <2>3. \A a \in 1..Len(Tail(s)) : Tail(s)[a] # s[1]
      BY <1>1, <2>1
    <2> QED
      BY <1>1, <2>2, <2>3 DEF IsInjective, ToSet
  <1> QED
    BY <1>1, <1>2, <1>3, <1>4

\* The cell a cursor stands on is a cell of the list.
LEMMA RestHead ==
  ASSUME NEW s \in Seq(Clients), list \in Seq(Clients), IsRest(s), s # <<>>
  PROVE  /\ Head(s) \in Listed /\ Head(s) \in Clients
         /\ Len(list) - Len(s) + 1 \in 1..Len(list)
         /\ Head(s) = list[Len(list) - Len(s) + 1]
  <1>1. /\ Head(s) = s[1] /\ 1 \in 1..Len(s) /\ Len(s) \in Nat /\ Len(list) \in Nat
        /\ Head(s) \in Clients
    OBVIOUS
  <1>2. Head(s) = list[Len(list) - Len(s) + 1]
    BY <1>1 DEF IsRest
  <1>3. Len(list) - Len(s) + 1 \in 1..Len(list)
    BY <1>1 DEF IsRest
  <1> QED
    BY <1>1, <1>2, <1>3, ListedAt DEF Listed

LEMMA RestTail ==
  ASSUME NEW s \in Seq(Clients), list \in Seq(Clients), IsRest(s), s # <<>>
  PROVE  IsRest(Tail(s))
  <1>1. /\ Len(s) \in Nat /\ Len(list) \in Nat /\ Len(Tail(s)) = Len(s) - 1
        /\ \A j \in 1..Len(Tail(s)) : Tail(s)[j] = s[j + 1] /\ j + 1 \in 1..Len(s)
    OBVIOUS
  <1>2. \A j \in 1..Len(Tail(s)) :
           Tail(s)[j] = list[Len(list) - Len(s) + (j + 1)]
    BY <1>1 DEF IsRest
  <1>3. \A j \in 1..Len(Tail(s)) :
           Len(list) - Len(s) + (j + 1) = Len(list) - Len(Tail(s)) + j
    BY <1>1
  <1> QED
    BY <1>1, <1>2, <1>3 DEF IsRest

\* A cursor stays a rest of the list when a cell is put in front.
LEMMA RestInsert ==
  ASSUME NEW s \in Seq(Clients), list \in Seq(Clients), NEW x \in Clients, IsRest(s),
         list' = <<x>> \o list
  PROVE  /\ Len(s) <= Len(list')
         /\ \A j \in 1..Len(s) : s[j] = list'[Len(list') - Len(s) + j]
  <1>1. /\ Len(list') = Len(list) + 1 /\ Len(s) \in Nat /\ Len(list) \in Nat
        /\ \A k \in 1..Len(list) : list'[k + 1] = list[k]
    BY ConsSet
  <1>2. ASSUME NEW j \in 1..Len(s)
        PROVE  s[j] = list'[Len(list') - Len(s) + j]
    <2>1. Len(list) - Len(s) + j \in 1..Len(list)
      BY <1>1 DEF IsRest
    <2>2. list'[(Len(list) - Len(s) + j) + 1] = list[Len(list) - Len(s) + j]
      BY <1>1, <2>1
    <2>3. (Len(list) - Len(s) + j) + 1 = Len(list') - Len(s) + j
      BY <1>1
    <2> QED
      BY <2>2, <2>3 DEF IsRest
  <1> QED
    BY <1>1, <1>2 DEF IsRest

LEMMA DescriptorsFrame ==
  ASSUME Descriptors, UNCHANGED <<list, conn, cfd, closes, fdtab, hand, handFd>>,
         hand # NoClient /\ pc'["main"] \in {"check", "prompt", "cred", "parse",
         "insert", "kick"}
            => pc["main"] \in {"check", "prompt", "cred", "parse", "insert", "kick"},
         pc'["main"] \in {"insert", "count", "setrun"}
            => pc["main"] \in {"insert", "count", "setrun"},
         pc'["serve"] # "selfjoin" => pc["serve"] # "selfjoin",
         Downing => Downing'
  PROVE  Descriptors'
  <1>1. Listed' = Listed
    BY DEF Listed
  <1> HIDE DEF Listed, Downing
  <1> QED
    BY <1>1 DEF Descriptors

LEMMA MainBootStep ==
  ASSUME TypeOK, TypeOK', Inductive, Placed', ~trapped, MainBoot
  PROVE  Inductive'
  <1> USE DEF Inductive, TypeOK
  <1>1. Control'
    BY DEF MainBoot, Placed, Control, Downing, ThisType, CtlType, HandType, DownLabels
  <1>2. Counted'
    BY DEF MainBoot, Control, Counted, Downing, ThisType, CtlType
  <1>3. Apart'
    BY ClientsAssumption DEF MainBoot, Placed, Control, Apart, Listed, Downing,
           ThisType, CtlType, HandType, NetType
  <1>4. Sessions'
    BY ClientsAssumption DEF MainBoot, Placed, Control, Apart, Sessions, Descriptors,
           Downing, Listed, ThisType, CtlType, HandType, PassType, NodeType, FdType
  <1>5. Cursors'
    BY DEF MainBoot, Control, Cursors, Sessions, IsRest, Downing, ThisType, CtlType,
           PassType, NodeType
  <1>6. Covered'
    BY DEF MainBoot, Placed, Control, Covered, Cursors, Downing, ThisType, CtlType,
           PassType
  <1>7. Descriptors'
    BY DescriptorsFrame DEF MainBoot, Control, CtlType, Downing
  <1> QED
    BY <1>1, <1>2, <1>3, <1>4, <1>5, <1>6, <1>7

LEMMA MainListenStep ==
  ASSUME TypeOK, TypeOK', Inductive, Placed', ~trapped, MainListen
  PROVE  Inductive'
  <1> USE DEF Inductive, TypeOK
  <1>1. Control'
    BY DEF MainListen, Lowest, Placed, Control, Downing, ThisType, CtlType, HandType,
           DownLabels
  <1>2. Counted'
    BY DEF MainListen, Lowest, Control, Counted, Downing, ThisType, CtlType
  <1>3. Apart'
    BY ClientsAssumption DEF MainListen, Lowest, Placed, Control, Apart, Listed,
           Downing, ThisType, CtlType, HandType, NetType
  <1>4. Sessions'
    BY ClientsAssumption DEF MainListen, Lowest, Placed, Control, Apart, Sessions,
           Descriptors, Downing, Listed, ThisType, CtlType, HandType, PassType,
           NodeType, FdType
  <1>5. Cursors'
    BY DEF MainListen, Lowest, Control, Cursors, Sessions, IsRest, Downing, ThisType,
           CtlType, PassType, NodeType
  <1>6. Covered'
    BY DEF MainListen, Lowest, Placed, Control, Covered, Cursors, Downing, ThisType,
           CtlType, PassType
  <1>7. Descriptors'
    <2>1. /\ UNCHANGED <<list, conn, cfd, closes, hand, handFd>>
          /\ pc["main"] = "listen" /\ pc'["main"] = "run" /\ pc'["serve"] = pc["serve"]
      BY DEF MainListen, CtlType
    <2>2. PICK f \in Fds : fdtab[f] = "free" /\ fdtab' = [fdtab EXCEPT ![f] = "listen"]
      BY DEF MainListen, Lowest
    <2>3. fdtab'[f] = "listen" /\ \A g \in Fds : g # f => fdtab'[g] = fdtab[g]
      BY <2>2 DEF FdType
    <2>4. Listed' = Listed /\ ~Downing
      BY <2>1 DEF Listed, Downing
    <2> QED
      BY <2>1, <2>2, <2>3, <2>4, ClientsAssumption, FdZero DEF Descriptors
  <1> QED
    BY <1>1, <1>2, <1>3, <1>4, <1>5, <1>6, <1>7

LEMMA MainBindFailsStep ==
  ASSUME TypeOK, TypeOK', Inductive, Placed', ~trapped, MainBindFails
  PROVE  Inductive'
  <1> USE DEF Inductive, TypeOK
  <1>1. Control'
    BY DEF MainBindFails, Placed, Control, Downing, ThisType, CtlType, HandType,
           DownLabels
  <1>2. Counted'
    BY DEF MainBindFails, Control, Counted, Downing, ThisType, CtlType
  <1>3. Apart'
    BY ClientsAssumption DEF MainBindFails, Placed, Control, Apart, Listed, Downing,
           ThisType, CtlType, HandType, NetType
  <1>4. Sessions'
    BY ClientsAssumption DEF MainBindFails, Placed, Control, Apart, Sessions,
           Descriptors, Downing, Listed, ThisType, CtlType, HandType, PassType,
           NodeType, FdType
  <1>5. Cursors'
    BY DEF MainBindFails, Control, Cursors, Sessions, IsRest, Downing, ThisType,
           CtlType, PassType, NodeType
  <1>6. Covered'
    BY DEF MainBindFails, Placed, Control, Covered, Cursors, Downing, ThisType,
           CtlType, PassType
  <1>7. Descriptors'
    BY DescriptorsFrame DEF MainBindFails, Control, CtlType, Downing
  <1> QED
    BY <1>1, <1>2, <1>3, <1>4, <1>5, <1>6, <1>7

LEMMA MainRunStep ==
  ASSUME TypeOK, TypeOK', Inductive, Placed', ~trapped, MainRun
  PROVE  Inductive'
  <1> USE DEF Inductive, TypeOK
  <1>1. Control'
    BY DEF MainRun, Placed, Control, Downing, ThisType, CtlType, HandType, DownLabels
  <1>2. Counted'
    BY DEF MainRun, Control, Counted, Downing, ThisType, CtlType
  <1>3. Apart'
    BY ClientsAssumption DEF MainRun, Placed, Control, Apart, Listed, Downing,
           ThisType, CtlType, HandType, NetType
  <1>4. Sessions'
    BY ClientsAssumption DEF MainRun, Placed, Control, Apart, Sessions, Descriptors,
           Downing, Listed, ThisType, CtlType, HandType, PassType, NodeType, FdType
  <1>5. Cursors'
    BY DEF MainRun, Control, Cursors, Sessions, IsRest, Downing, ThisType, CtlType,
           PassType, NodeType
  <1>6. Covered'
    BY DEF MainRun, Placed, Control, Covered, Cursors, Downing, ThisType, CtlType,
           PassType
  <1>7. Descriptors'
    BY ClientsAssumption DEF MainRun, Placed, Control, Apart, Sessions, Descriptors,
           Cursors, Downing, Listed, ThisType, CtlType, HandType, NodeType, FdType
  <1> QED
    BY <1>1, <1>2, <1>3, <1>4, <1>5, <1>6, <1>7

LEMMA MainLoopStep ==
  ASSUME TypeOK, TypeOK', Inductive, Placed', ~trapped, MainLoop
  PROVE  Inductive'
  <1> USE DEF Inductive, TypeOK
  <1>1. Control'
    BY DEF MainLoop, Placed, Control, Downing, ThisType, CtlType, HandType, DownLabels
  <1>2. Counted'
    BY DEF MainLoop, Control, Counted, Downing, ThisType, CtlType
  <1>3. Apart'
    BY ClientsAssumption DEF MainLoop, Placed, Control, Apart, Listed, Downing,
           ThisType, CtlType, HandType, NetType
  <1>4. Sessions'
    <2>1. /\ UNCHANGED <<list, conn, closes, freed, hand, node, cfd, fdtab>>
          /\ pc["main"] = "loop" /\ pc'["main"] \in {"accept", "down"}
          /\ pc'["serve"] = pc["serve"]
      BY DEF MainLoop, CtlType
    <2>2. Listed' = Listed /\ ~Downing /\ ~Downing'
      BY <2>1 DEF Listed, Downing
    <2> HIDE DEF Downing
    <2> QED
      BY <2>1, <2>2 DEF Sessions
  <1>5. Cursors'
    BY DEF MainLoop, Control, Cursors, Sessions, IsRest, Downing, ThisType, CtlType,
           PassType, NodeType
  <1>6. Covered'
    BY DEF MainLoop, Placed, Control, Covered, Cursors, Downing, ThisType, CtlType,
           PassType
  <1>7. Descriptors'
    BY DescriptorsFrame DEF MainLoop, Control, CtlType, Downing
  <1> QED
    BY <1>1, <1>2, <1>3, <1>4, <1>5, <1>6, <1>7

LEMMA MainAcceptStep ==
  ASSUME TypeOK, TypeOK', Inductive, Placed', ~trapped, MainAccept
  PROVE  Inductive'
  <1> USE DEF Inductive, TypeOK
  <1>1. Control'
    BY DEF MainAccept, Lowest, Placed, Control, Downing, ThisType, CtlType, HandType,
           DownLabels
  <1>2. Counted'
    BY DEF MainAccept, Lowest, Control, Counted, Downing, ThisType, CtlType
  <1>3. Apart'
    <2>1. /\ backlog # <<>> /\ hand' = Head(backlog) /\ hand = NoClient
          /\ backlog' = <<>> \/ backlog' = Tail(backlog)
          /\ UNCHANGED list /\ pc["main"] = "accept" /\ pc'["main"] = "check"
      BY DEF MainAccept, Control, CtlType
    <2>2. /\ ToSet(backlog) = {hand'} \cup ToSet(Tail(backlog))
          /\ IsInjective(Tail(backlog)) /\ hand' \notin ToSet(Tail(backlog))
      BY <2>1, TailSet DEF NetType, Apart
    <2>3. ToSet(<<>>) = {} /\ IsInjective(<<>>)
      BY DEF ToSet, IsInjective
    <2>4. \A c \in Clients : net'[c] = "away" => net[c] = "away"
      BY DEF MainAccept, NetType
    <2>5. Listed' = Listed
      BY <2>1 DEF Listed
    <2> QED
      BY <2>1, <2>2, <2>3, <2>4, <2>5 DEF Apart
  <1>4. Sessions'
    BY ClientsAssumption DEF MainAccept, Lowest, Placed, Control, Apart, Sessions,
           Descriptors, Downing, Listed, ThisType, CtlType, HandType, PassType,
           NodeType, FdType
  <1>5. Cursors'
    BY DEF MainAccept, Lowest, Control, Cursors, Sessions, IsRest, Downing, ThisType,
           CtlType, PassType, NodeType
  <1>6. Covered'
    BY DEF MainAccept, Lowest, Placed, Control, Covered, Cursors, Downing, ThisType,
           CtlType, PassType
  <1>7. Descriptors'
    <2>1. /\ hand' = Head(backlog) /\ hand = NoClient /\ backlog # <<>>
          /\ UNCHANGED <<list, conn, cfd, closes>> /\ pc'["serve"] = pc["serve"]
          /\ pc["main"] = "accept" /\ pc'["main"] = "check"
      BY DEF MainAccept, Control, CtlType
    <2>2. PICK f \in Fds : /\ fdtab[f] = "free" /\ handFd' = f
                           /\ fdtab' = [fdtab EXCEPT ![f] = Head(backlog)]
      BY DEF MainAccept, Lowest
    <2>3. hand' \in Clients /\ hand' \notin Listed
      BY <2>1, TailSet DEF NetType, Apart
    <2>4. closes[hand'] = 0
      BY <2>3 DEF Sessions, NodeType
    <2>5. fdtab'[f] = hand' /\ \A g \in Fds : g # f => fdtab'[g] = fdtab[g]
      BY <2>1, <2>2 DEF FdType
    <2>6. Listed' = Listed /\ ~Downing
      BY <2>1 DEF Listed, Downing
    <2> QED
      BY <2>1, <2>2, <2>3, <2>4, <2>5, <2>6, ClientsAssumption, FdZero DEF Descriptors
  <1> QED
    BY <1>1, <1>2, <1>3, <1>4, <1>5, <1>6, <1>7

LEMMA MainAcceptFailsStep ==
  ASSUME TypeOK, TypeOK', Inductive, Placed', ~trapped, MainAcceptFails
  PROVE  Inductive'
  <1> USE DEF Inductive, TypeOK
  <1>1. Control'
    BY DEF MainAcceptFails, Placed, Control, Downing, ThisType, CtlType, HandType,
           DownLabels
  <1>2. Counted'
    BY DEF MainAcceptFails, Control, Counted, Downing, ThisType, CtlType
  <1>3. Apart'
    BY ClientsAssumption DEF MainAcceptFails, Placed, Control, Apart, Listed, Downing,
           ThisType, CtlType, HandType, NetType
  <1>4. Sessions'
    BY ClientsAssumption DEF MainAcceptFails, Placed, Control, Apart, Sessions,
           Descriptors, Downing, Listed, ThisType, CtlType, HandType, PassType,
           NodeType, FdType
  <1>5. Cursors'
    BY DEF MainAcceptFails, Control, Cursors, Sessions, IsRest, Downing, ThisType,
           CtlType, PassType, NodeType
  <1>6. Covered'
    BY DEF MainAcceptFails, Placed, Control, Covered, Cursors, Downing, ThisType,
           CtlType, PassType
  <1>7. Descriptors'
    BY ClientsAssumption DEF MainAcceptFails, Placed, Control, Apart, Sessions,
           Descriptors, Cursors, Downing, Listed, ThisType, CtlType, HandType,
           NodeType, FdType
  <1> QED
    BY <1>1, <1>2, <1>3, <1>4, <1>5, <1>6, <1>7

LEMMA MainCheckStep ==
  ASSUME TypeOK, TypeOK', Inductive, Placed', ~trapped, MainCheck
  PROVE  Inductive'
  <1> USE DEF Inductive, TypeOK
  <1>1. Control'
    BY DEF MainCheck, Placed, Control, Downing, ThisType, CtlType, HandType,
           DownLabels
  <1>2. Counted'
    BY DEF MainCheck, Control, Counted, Downing, ThisType, CtlType
  <1>3. Apart'
    BY ClientsAssumption DEF MainCheck, Placed, Control, Apart, Listed, Downing,
           ThisType, CtlType, HandType, NetType
  <1>4. Sessions'
    BY ClientsAssumption DEF MainCheck, Placed, Control, Apart, Sessions, Descriptors,
           Downing, Listed, ThisType, CtlType, HandType, PassType, NodeType, FdType
  <1>5. Cursors'
    BY DEF MainCheck, Control, Cursors, Sessions, IsRest, Downing, ThisType, CtlType,
           PassType, NodeType
  <1>6. Covered'
    BY DEF MainCheck, Placed, Control, Covered, Cursors, Downing, ThisType, CtlType,
           PassType
  <1>7. Descriptors'
    BY DescriptorsFrame DEF MainCheck, Control, CtlType, Downing
  <1> QED
    BY <1>1, <1>2, <1>3, <1>4, <1>5, <1>6, <1>7

LEMMA MainPromptStep ==
  ASSUME TypeOK, TypeOK', Inductive, Placed', ~trapped, MainPrompt
  PROVE  Inductive'
  <1> USE DEF Inductive, TypeOK
  <1>1. Control'
    BY DEF MainPrompt, Placed, Control, Downing, ThisType, CtlType, HandType,
           DownLabels
  <1>2. Counted'
    BY DEF MainPrompt, Control, Counted, Downing, ThisType, CtlType
  <1>3. Apart'
    BY ClientsAssumption DEF MainPrompt, Placed, Control, Apart, Listed, Downing,
           ThisType, CtlType, HandType, NetType
  <1>4. Sessions'
    BY ClientsAssumption DEF MainPrompt, Placed, Control, Apart, Sessions,
           Descriptors, Downing, Listed, ThisType, CtlType, HandType, PassType,
           NodeType, FdType
  <1>5. Cursors'
    BY DEF MainPrompt, Control, Cursors, Sessions, IsRest, Downing, ThisType, CtlType,
           PassType, NodeType
  <1>6. Covered'
    BY DEF MainPrompt, Placed, Control, Covered, Cursors, Downing, ThisType, CtlType,
           PassType
  <1>7. Descriptors'
    BY ClientsAssumption DEF MainPrompt, Placed, Control, Apart, Sessions,
           Descriptors, Cursors, Downing, Listed, ThisType, CtlType, HandType,
           NodeType, FdType
  <1> QED
    BY <1>1, <1>2, <1>3, <1>4, <1>5, <1>6, <1>7

LEMMA MainLineStep ==
  ASSUME TypeOK, TypeOK', Inductive, Placed', ~trapped, MainLine
  PROVE  Inductive'
  <1> USE DEF Inductive, TypeOK
  <1>1. Control'
    BY DEF MainLine, Placed, Control, Downing, ThisType, CtlType, HandType,
           DownLabels
  <1>2. Counted'
    BY DEF MainLine, Control, Counted, Downing, ThisType, CtlType
  <1>3. Apart'
    BY ClientsAssumption DEF MainLine, Placed, Control, Apart, Listed, Downing,
           ThisType, CtlType, HandType, NetType
  <1>4. Sessions'
    BY ClientsAssumption DEF MainLine, Placed, Control, Apart, Sessions,
           Descriptors, Downing, Listed, ThisType, CtlType, HandType, PassType,
           NodeType, FdType
  <1>5. Cursors'
    BY DEF MainLine, Control, Cursors, Sessions, IsRest, Downing, ThisType, CtlType,
           PassType, NodeType
  <1>6. Covered'
    BY DEF MainLine, Placed, Control, Covered, Cursors, Downing, ThisType, CtlType,
           PassType
  <1>7. Descriptors'
    BY ClientsAssumption DEF MainLine, Placed, Control, Apart, Sessions,
           Descriptors, Cursors, Downing, Listed, ThisType, CtlType, HandType,
           NodeType, FdType
  <1> QED
    BY <1>1, <1>2, <1>3, <1>4, <1>5, <1>6, <1>7

LEMMA MainLeftStep ==
  ASSUME TypeOK, TypeOK', Inductive, Placed', ~trapped, MainLeft
  PROVE  Inductive'
  <1> USE DEF Inductive, TypeOK
  <1>1. Control'
    BY DEF MainLeft, Placed, Control, Downing, ThisType, CtlType, HandType,
           DownLabels
  <1>2. Counted'
    BY DEF MainLeft, Control, Counted, Downing, ThisType, CtlType
  <1>3. Apart'
    BY ClientsAssumption DEF MainLeft, Placed, Control, Apart, Listed, Downing,
           ThisType, CtlType, HandType, NetType
  <1>4. Sessions'
    BY ClientsAssumption DEF MainLeft, Placed, Control, Apart, Sessions,
           Descriptors, Downing, Listed, ThisType, CtlType, HandType, PassType,
           NodeType, FdType
  <1>5. Cursors'
    BY DEF MainLeft, Control, Cursors, Sessions, IsRest, Downing, ThisType, CtlType,
           PassType, NodeType
  <1>6. Covered'
    BY DEF MainLeft, Placed, Control, Covered, Cursors, Downing, ThisType, CtlType,
           PassType
  <1>7. Descriptors'
    BY ClientsAssumption DEF MainLeft, Placed, Control, Apart, Sessions,
           Descriptors, Cursors, Downing, Listed, ThisType, CtlType, HandType,
           NodeType, FdType
  <1> QED
    BY <1>1, <1>2, <1>3, <1>4, <1>5, <1>6, <1>7

LEMMA MainAdmitStep ==
  ASSUME TypeOK, TypeOK', Inductive, Placed', ~trapped, MainAdmit
  PROVE  Inductive'
  <1> USE DEF Inductive, TypeOK
  <1>1. Control'
    BY DEF MainAdmit, Parsed, Placed, Control, Downing, ThisType, CtlType, HandType,
           DownLabels
  <1>2. Counted'
    BY DEF MainAdmit, Parsed, Control, Counted, Downing, ThisType, CtlType
  <1>3. Apart'
    BY ClientsAssumption DEF MainAdmit, Parsed, Placed, Control, Apart, Listed, Downing,
           ThisType, CtlType, HandType, NetType
  <1>4. Sessions'
    BY ClientsAssumption DEF MainAdmit, Parsed, Placed, Control, Apart, Sessions,
                             Descriptors,
           Downing, Listed, ThisType, CtlType, HandType, PassType, NodeType, FdType
  <1>5. Cursors'
    BY DEF MainAdmit, Parsed, Control, Cursors, Sessions, IsRest, Downing, ThisType,
           CtlType,
           PassType, NodeType
  <1>6. Covered'
    BY DEF MainAdmit, Parsed, Placed, Control, Covered, Cursors, Downing, ThisType,
           CtlType,
           PassType
  <1>7. Descriptors'
    <2>1. /\ UNCHANGED <<list, closes, fdtab, hand, handFd>>
          /\ conn' = [conn EXCEPT ![hand] = TRUE] /\ cfd' = [cfd EXCEPT ![hand] = handFd]
          /\ pc["main"] = "parse" /\ pc'["main"] = "insert" /\ pc'["serve"] = pc["serve"]
      BY DEF MainAdmit, Parsed, CtlType
    <2>2. /\ hand \in Clients /\ hand \notin Listed
          /\ handFd \in Fds /\ fdtab[handFd] = hand
      BY <2>1 DEF Placed, Apart, Descriptors, HandType
    <2>3. /\ \A c \in Clients : c # hand => conn'[c] = conn[c] /\ cfd'[c] = cfd[c]
          /\ conn'[hand] /\ cfd'[hand] = handFd
      BY <2>1, <2>2 DEF NodeType
    <2>4. Listed' = Listed /\ ~Downing /\ ~Downing'
      BY <2>1 DEF Listed, Downing
    <2>5. \A j \in 1..Len(list) : list[j] \in Clients /\ list[j] # hand
      BY <2>2, ListedAt DEF Listed, ThisType
    <2> HIDE DEF Downing
    <2> QED
      BY <2>1, <2>2, <2>3, <2>4, <2>5 DEF Descriptors
  <1> QED
    BY <1>1, <1>2, <1>3, <1>4, <1>5, <1>6, <1>7

LEMMA MainRejectStep ==
  ASSUME TypeOK, TypeOK', Inductive, Placed', ~trapped, MainReject
  PROVE  Inductive'
  <1> USE DEF Inductive, TypeOK
  <1>1. Control'
    BY DEF MainReject, Parsed, Placed, Control, Downing, ThisType, CtlType, HandType,
           DownLabels
  <1>2. Counted'
    BY DEF MainReject, Parsed, Control, Counted, Downing, ThisType, CtlType
  <1>3. Apart'
    BY ClientsAssumption DEF MainReject, Parsed, Placed, Control, Apart, Listed, Downing,
           ThisType, CtlType, HandType, NetType
  <1>4. Sessions'
    BY ClientsAssumption DEF MainReject, Parsed, Placed, Control, Apart, Sessions,
           Descriptors, Downing, Listed, ThisType, CtlType, HandType, PassType,
           NodeType, FdType
  <1>5. Cursors'
    BY DEF MainReject, Parsed, Control, Cursors, Sessions, IsRest, Downing, ThisType,
           CtlType,
           PassType, NodeType
  <1>6. Covered'
    BY DEF MainReject, Parsed, Placed, Control, Covered, Cursors, Downing, ThisType,
           CtlType,
           PassType
  <1>7. Descriptors'
    BY ClientsAssumption DEF MainReject, Parsed, Placed, Control, Apart, Sessions,
           Descriptors, Cursors, Downing, Listed, ThisType, CtlType, HandType,
           NodeType, FdType
  <1> QED
    BY <1>1, <1>2, <1>3, <1>4, <1>5, <1>6, <1>7

LEMMA MainKickStep ==
  ASSUME TypeOK, TypeOK', Inductive, Placed', ~trapped, MainKick
  PROVE  Inductive'
  <1> USE DEF Inductive, TypeOK
  <1>1. Control'
    BY DEF MainKick, Closing, Placed, Control, Downing, ThisType, CtlType, HandType,
           DownLabels
  <1>2. Counted'
    BY DEF MainKick, Closing, Control, Counted, Downing, ThisType, CtlType
  <1>3. Apart'
    <2>1. /\ UNCHANGED <<list, net, backlog>> /\ hand' = NoClient
          /\ pc'["main"] = "loop"
      BY DEF MainKick, CtlType
    <2>2. NoClient \notin ToSet(backlog) /\ NoClient \notin Listed
      BY ToSetType, ClientsAssumption DEF Listed, ThisType, NetType
    <2>3. Listed' = Listed
      BY <2>1 DEF Listed
    <2> QED
      BY <2>1, <2>2, <2>3, ClientsAssumption DEF Apart
  <1>4. Sessions'
    BY ClientsAssumption DEF MainKick, Closing, Placed, Control, Apart, Sessions,
           Descriptors, Downing, Listed, ThisType, CtlType, HandType, PassType,
           NodeType, FdType
  <1>5. Cursors'
    BY DEF MainKick, Closing, Control, Cursors, Sessions, IsRest, Downing, ThisType,
           CtlType, PassType, NodeType
  <1>6. Covered'
    BY DEF MainKick, Closing, Placed, Control, Covered, Cursors, Downing, ThisType,
           CtlType, PassType
  <1>7. Descriptors'
    <2>1. /\ UNCHANGED <<list, conn, cfd, closes>> /\ fdtab' = Closing(handFd)
          /\ hand' = NoClient
          /\ pc["main"] = "kick" /\ pc'["main"] = "loop" /\ pc'["serve"] = pc["serve"]
      BY DEF MainKick, CtlType
    <2>2. /\ hand = NoClient => handFd \notin Fds
          /\ hand # NoClient => handFd \in Fds /\ fdtab[handFd] = hand /\ hand \in Clients
      BY <2>1, BoundsAssumption DEF Placed, Descriptors, HandType, Fds
    <2>3. \A f \in Fds : f # handFd => fdtab'[f] = fdtab[f]
      BY <2>1 DEF Closing, FdType
    <2>4. \A f \in Fds : fdtab'[f] \in Clients => fdtab'[f] = fdtab[f] /\ f # handFd
      BY <2>1, ClientsAssumption DEF Closing, FdType
    <2>5. \A c \in Clients : conn[c] => cfd[c] # handFd
      BY <2>1, <2>2 DEF Descriptors, Sessions, Apart
    <2>6. fdtab[0] = "std" => fdtab'[0] = "std"
      BY <2>2, <2>3, FdZero, ClientsAssumption
    <2>7. Listed' = Listed /\ ~Downing
      BY <2>1 DEF Listed, Downing
    <2> QED
      BY <2>1, <2>3, <2>4, <2>5, <2>6, <2>7, ClientsAssumption, FdZero DEF Descriptors
  <1> QED
    BY <1>1, <1>2, <1>3, <1>4, <1>5, <1>6, <1>7

LEMMA MainInsertStep ==
  ASSUME TypeOK, TypeOK', Inductive, Placed', ~trapped, MainInsert
  PROVE  Inductive'
  <1> USE DEF Inductive, TypeOK
  <1>1. Control'
    BY DEF MainInsert, Placed, Control, Downing, ThisType, CtlType, HandType,
           DownLabels
  <1>2. Counted'
    <2>1. /\ list' = <<hand>> \o list /\ count' = count
          /\ pc["main"] = "insert" /\ pc'["main"] = "count" /\ hand \in Clients
      BY DEF MainInsert, CtlType, Placed, HandType
    <2>2. Len(list') = Len(list) + 1
      BY <2>1, ConsSet DEF ThisType
    <2> QED
      BY <2>1, <2>2, BoundsAssumption DEF Counted, ThisType
  <1>3. Apart'
    <2>1. /\ list' = <<hand>> \o list /\ UNCHANGED <<net, backlog, hand>>
          /\ pc["main"] = "insert" /\ pc'["main"] = "count" /\ hand \in Clients
      BY DEF MainInsert, CtlType, Placed, HandType
    <2>2. Listed' = {hand} \cup Listed
      BY <2>1, ConsSet DEF Listed, ThisType
    <2> QED
      BY <2>1, <2>2 DEF Apart
  <1>4. Sessions'
    <2>1. /\ list' = <<hand>> \o list
          /\ UNCHANGED <<conn, closes, freed, hand, node, cfd, fdtab>>
          /\ pc["main"] = "insert" /\ pc'["main"] = "count" /\ hand \in Clients
          /\ pc'["serve"] = pc["serve"]
      BY DEF MainInsert, CtlType, Placed, HandType
    <2>2. Listed' = {hand} \cup Listed
      BY <2>1, ConsSet DEF Listed, ThisType
    <2>3. ~Downing /\ ~Downing'
      BY <2>1 DEF Downing
    <2> HIDE DEF Downing
    <2> QED
      BY <2>1, <2>2, <2>3 DEF Sessions
  <1>5. Cursors'
    <2>1. /\ list' = <<hand>> \o list /\ UNCHANGED node
          /\ pc'["main"] = "count" /\ hand \in Clients
      BY DEF MainInsert, CtlType, Placed, HandType
    <2>2. IsRest(node)'
      BY <2>1, RestInsert DEF Cursors, PassType, ThisType, IsRest
    <2> QED
      BY <2>1, <2>2 DEF Cursors
  <1>6. Covered'
    <2>1. /\ list' = <<hand>> \o list /\ UNCHANGED <<node, i, todo>>
          /\ pc'["serve"] = pc["serve"] /\ hand \in Clients
      BY DEF MainInsert, CtlType, Placed, HandType
    <2>2. Len(list') = Len(list) + 1 /\ Len(list) \in Nat
      BY <2>1, ConsSet DEF ThisType
    <2>3. Len(node) + i <= Len(list) => Len(node) + i <= Len(list')
      BY <2>2 DEF PassType
    <2> QED
      BY <2>1, <2>3 DEF Covered
  <1>7. Descriptors'
    <2>1. /\ list' = <<hand>> \o list
          /\ UNCHANGED <<conn, closes, hand, handFd, cfd, fdtab>>
          /\ pc["main"] = "insert" /\ pc'["main"] = "count" /\ hand \in Clients
          /\ pc'["serve"] = pc["serve"]
      BY DEF MainInsert, CtlType, Placed, HandType
    <2>2. /\ Listed' = {hand} \cup Listed /\ hand \notin Listed
          /\ Len(list') = Len(list) + 1 /\ list'[1] = hand
          /\ \A j \in 1..Len(list) : list'[j + 1] = list[j]
      BY <2>1, ConsSet DEF Listed, ThisType, Apart
    <2>3. ASSUME NEW j \in 1..Len(list'), NEW k \in 1..Len(list'), j < k, conn[list'[k]]
          PROVE  cfd[list'[k]] # cfd[list'[j]]
      <3>1. PICK l \in 1..Len(list) : k = l + 1
        BY <2>2, <2>3 DEF ThisType
      <3>2. /\ list'[k] = list[l] /\ list[l] \in Listed /\ list[l] \in Clients
            /\ fdtab[cfd[list[l]]] = list[l]
        BY <2>2, <2>3, <3>1, ListedAt DEF Listed, ThisType, Descriptors
      <3>3. CASE j = 1
        <4>1. fdtab[cfd[hand]] = hand
          BY <2>1, ClientsAssumption DEF Descriptors
        <4> QED
          BY <2>2, <3>2, <3>3, <4>1
      <3>4. CASE j # 1
        <4>1. PICK m \in 1..Len(list) : j = m + 1
          BY <2>2, <2>3, <3>4 DEF ThisType
        <4>2. m < l /\ list'[j] = list[m] /\ conn[list[l]]
          BY <2>2, <2>3, <3>1, <3>2, <4>1
        <4> QED
          BY <3>2, <4>2 DEF Descriptors
      <3> QED
        BY <3>3, <3>4
    <2>4. ~Downing /\ ~Downing'
      BY <2>1 DEF Downing
    <2>5. cfd[hand] = handFd
      BY <2>1 DEF Descriptors
    <2>6. \A j,
    k \in 1..Len(list') : j < k /\ conn'[list'[k]] => cfd'[list'[k]] # cfd'[list'[j]]
      BY <2>1, <2>3
    <2>7. \A f \in Fds : fdtab'[f] \in Clients =>
            /\ closes'[fdtab'[f]] = 0
            /\ \/ fdtab'[f] = hand' /\ f = handFd'
               \/ fdtab'[f] \in Listed' /\ cfd'[fdtab'[f]] = f
      BY <2>1, <2>2 DEF Descriptors
    <2>8. \A c \in Clients : conn'[c] => cfd'[c] \in Fds /\ fdtab'[cfd'[c]] = c
      BY <2>1 DEF Descriptors
    <2>9. pc'["serve"] # "selfjoin" =>
            fdtab'[0] \notin Clients /\ (Downing' \/ fdtab'[0] = "std")
      BY <2>1, <2>4 DEF Descriptors
    <2> HIDE DEF Downing
    <2> QED
      BY <2>1, <2>5, <2>6, <2>7, <2>8, <2>9 DEF Descriptors
  <1> QED
    BY <1>1, <1>2, <1>3, <1>4, <1>5, <1>6, <1>7

LEMMA MainCountStep ==
  ASSUME TypeOK, TypeOK', Inductive, Placed', ~trapped, MainCount
  PROVE  Inductive'
  <1> USE DEF Inductive, TypeOK
  <1>1. Control'
    BY DEF MainCount, Placed, Control, Downing, ThisType, CtlType, HandType,
           DownLabels
  <1>2. Counted'
    BY DEF MainCount, Control, Counted, Downing, ThisType, CtlType
  <1>3. Apart'
    BY ClientsAssumption DEF MainCount, Placed, Control, Apart, Listed, Downing,
           ThisType, CtlType, HandType, NetType
  <1>4. Sessions'
    BY ClientsAssumption DEF MainCount, Placed, Control, Apart, Sessions, Descriptors,
           Downing, Listed, ThisType, CtlType, HandType, PassType, NodeType, FdType
  <1>5. Cursors'
    BY DEF MainCount, Control, Cursors, Sessions, IsRest, Downing, ThisType, CtlType,
           PassType, NodeType
  <1>6. Covered'
    BY DEF MainCount, Placed, Control, Covered, Cursors, Downing, ThisType, CtlType,
           PassType
  <1>7. Descriptors'
    BY ClientsAssumption DEF MainCount, Placed, Control, Apart, Sessions, Descriptors,
           Cursors, Downing, Listed, ThisType, CtlType, HandType, NodeType, FdType
  <1> QED
    BY <1>1, <1>2, <1>3, <1>4, <1>5, <1>6, <1>7

LEMMA MainSetRunStep ==
  ASSUME TypeOK, TypeOK', Inductive, Placed', ~trapped, MainSetRun
  PROVE  Inductive'
  <1> USE DEF Inductive, TypeOK
  <1>1. Control'
    BY DEF MainSetRun, Placed, Control, Downing, ThisType, CtlType, HandType,
           DownLabels
  <1>2. Counted'
    BY DEF MainSetRun, Control, Counted, Downing, ThisType, CtlType
  <1>3. Apart'
    <2>1. /\ UNCHANGED <<list, net, backlog>> /\ hand' = NoClient
          /\ pc'["main"] = "loop"
      BY DEF MainSetRun, CtlType
    <2>2. NoClient \notin ToSet(backlog) /\ NoClient \notin Listed
      BY ToSetType, ClientsAssumption DEF Listed, ThisType, NetType
    <2>3. Listed' = Listed
      BY <2>1 DEF Listed
    <2> QED
      BY <2>1, <2>2, <2>3, ClientsAssumption DEF Apart
  <1>4. Sessions'
    BY ClientsAssumption DEF MainSetRun, Placed, Control, Apart, Sessions,
           Descriptors, Downing, Listed, ThisType, CtlType, HandType, PassType,
           NodeType, FdType
  <1>5. Cursors'
    BY DEF MainSetRun, Control, Cursors, Sessions, IsRest, Downing, ThisType, CtlType,
           PassType, NodeType
  <1>6. Covered'
    BY DEF MainSetRun, Placed, Control, Covered, Cursors, Downing, ThisType, CtlType,
           PassType
  <1>7. Descriptors'
    BY ClientsAssumption DEF MainSetRun, Placed, Control, Apart, Sessions,
           Descriptors, Cursors, Downing, Listed, ThisType, CtlType, HandType,
           NodeType, FdType
  <1> QED
    BY <1>1, <1>2, <1>3, <1>4, <1>5, <1>6, <1>7

LEMMA ServeWakeStep ==
  ASSUME TypeOK, TypeOK', Inductive, Placed', ~trapped, ServeWake
  PROVE  Inductive'
  <1> USE DEF Inductive, TypeOK
  <1>1. Control'
    BY DEF ServeWake, Placed, Control, Downing, ThisType, CtlType, HandType,
           DownLabels
  <1>2. Counted'
    BY DEF ServeWake, Control, Counted, Downing, ThisType, CtlType
  <1>3. Apart'
    BY ClientsAssumption DEF ServeWake, Placed, Control, Apart, Listed, Downing,
           ThisType, CtlType, HandType, NetType
  <1>4. Sessions'
    BY ClientsAssumption DEF ServeWake, Placed, Control, Apart, Sessions, Descriptors,
           Downing, Listed, ThisType, CtlType, HandType, PassType, NodeType, FdType
  <1>5. Cursors'
    BY DEF ServeWake, Control, Cursors, Sessions, IsRest, Downing, ThisType, CtlType,
           PassType, NodeType
  <1>6. Covered'
    BY DEF ServeWake, Placed, Control, Covered, Cursors, Downing, ThisType, CtlType,
           PassType
  <1>7. Descriptors'
    BY ClientsAssumption DEF ServeWake, Placed, Control, Apart, Sessions, Descriptors,
           Cursors, Downing, Listed, ThisType, CtlType, HandType, NodeType, FdType
  <1> QED
    BY <1>1, <1>2, <1>3, <1>4, <1>5, <1>6, <1>7

LEMMA ServePassStep ==
  ASSUME TypeOK, TypeOK', Inductive, Placed', ~trapped, ServePass
  PROVE  Inductive'
  <1> USE DEF Inductive, TypeOK
  <1>1. Control'
    BY DEF ServePass, Placed, Control, Downing, ThisType, CtlType, HandType,
           DownLabels
  <1>2. Counted'
    BY DEF ServePass, Control, Counted, Downing, ThisType, CtlType
  <1>3. Apart'
    BY ClientsAssumption DEF ServePass, Placed, Control, Apart, Listed, Downing,
           ThisType, CtlType, HandType, NetType
  <1>4. Sessions'
    BY ClientsAssumption DEF ServePass, Placed, Control, Apart, Sessions, Descriptors,
           Downing, Listed, ThisType, CtlType, HandType, PassType, NodeType, FdType
  <1>5. Cursors'
    BY DEF ServePass, Control, Cursors, Sessions, IsRest, Downing, ThisType, CtlType,
           PassType, NodeType
  <1>6. Covered'
    BY DEF ServePass, Placed, Control, Covered, Cursors, Downing, ThisType, CtlType,
           PassType
  <1>7. Descriptors'
    BY ClientsAssumption DEF ServePass, Placed, Control, Apart, Sessions, Descriptors,
           Cursors, Downing, Listed, ThisType, CtlType, HandType, NodeType, FdType
  <1> QED
    BY <1>1, <1>2, <1>3, <1>4, <1>5, <1>6, <1>7

LEMMA ServeTestStep ==
  ASSUME TypeOK, TypeOK', Inductive, Placed', ~trapped, ServeTest
  PROVE  Inductive'
  <1> USE DEF Inductive, TypeOK
  <1>1. Control'
    BY DEF ServeTest, GoesOn, Placed, Control, Downing, ThisType, CtlType, HandType,
           DownLabels
  <1>2. Counted'
    BY DEF ServeTest, GoesOn, Control, Counted, Downing, ThisType, CtlType
  <1>3. Apart'
    BY ClientsAssumption DEF ServeTest, GoesOn, Placed, Control, Apart, Listed,
           Downing, ThisType, CtlType, HandType, NetType
  <1>4. Sessions'
    BY ClientsAssumption DEF ServeTest, GoesOn, Placed, Control, Apart, Sessions,
           Descriptors, Downing, Listed, ThisType, CtlType, HandType, PassType,
           NodeType, FdType
  <1>5. Cursors'
    BY DEF ServeTest, GoesOn, Control, Cursors, Sessions, IsRest, Downing, ThisType,
           CtlType, PassType, NodeType
  <1>6. Covered'
    BY DEF ServeTest, GoesOn, Placed, Control, Covered, Cursors, Downing, ThisType,
           CtlType, PassType
  <1>7. Descriptors'
    BY ClientsAssumption DEF ServeTest, GoesOn, Placed, Control, Apart, Sessions,
           Descriptors, Cursors, Downing, Listed, ThisType, CtlType, HandType,
           NodeType, FdType
  <1> QED
    BY <1>1, <1>2, <1>3, <1>4, <1>5, <1>6, <1>7

LEMMA ServePollStep ==
  ASSUME TypeOK, TypeOK', Inductive, Placed', ~trapped, ServePoll
  PROVE  Inductive'
  <1> USE DEF Inductive, TypeOK
  <1>1. Control'
    BY DEF ServePoll, Placed, Control, Downing, ThisType, CtlType, HandType,
           DownLabels
  <1>2. Counted'
    BY DEF ServePoll, Control, Counted, Downing, ThisType, CtlType
  <1>3. Apart'
    BY ClientsAssumption DEF ServePoll, Placed, Control, Apart, Listed, Downing,
           ThisType, CtlType, HandType, NetType
  <1>4. Sessions'
    BY ClientsAssumption DEF ServePoll, Placed, Control, Apart, Sessions, Descriptors,
           Downing, Listed, ThisType, CtlType, HandType, PassType, NodeType, FdType
  <1>5. Cursors'
    BY DEF ServePoll, Control, Cursors, Sessions, IsRest, Downing, ThisType, CtlType,
           PassType, NodeType
  <1>6. Covered'
    <2>1. /\ node # <<>> /\ UNCHANGED <<list, i, node>> /\ todo' = todo \ {Current}
          /\ pc["serve"] = "poll" /\ pc'["serve"] \in {"read", "next"}
      BY DEF ServePoll, Placed, CtlType
    <2>2. SUFFICES ASSUME todo' # {}
                   PROVE  todo' \subseteq ToSet(Tail(node)) /\ Len(node) + i <= Len(list)
      BY <2>1 DEF Covered
    <2>3. todo \subseteq ToSet(node) /\ Len(node) + i <= Len(list)
      BY <2>1, <2>2 DEF Covered
    <2>4. ToSet(node) = {Current} \cup ToSet(Tail(node))
      BY <2>1, TailSet DEF PassType
    <2> QED
      BY <2>1, <2>3, <2>4
  <1>7. Descriptors'
    BY ClientsAssumption DEF ServePoll, Placed, Control, Apart, Sessions, Descriptors,
           Cursors, Downing, Listed, ThisType, CtlType, HandType, NodeType, FdType
  <1> QED
    BY <1>1, <1>2, <1>3, <1>4, <1>5, <1>6, <1>7

LEMMA ServeReadStep ==
  ASSUME TypeOK, TypeOK', Inductive, Placed', ~trapped, ServeRead
  PROVE  Inductive'
  <1> USE DEF Inductive, TypeOK
  <1>1. Control'
    BY DEF ServeRead, Placed, Control, Downing, ThisType, CtlType, HandType,
           DownLabels
  <1>2. Counted'
    BY DEF ServeRead, Control, Counted, Downing, ThisType, CtlType
  <1>3. Apart'
    BY ClientsAssumption DEF ServeRead, Placed, Control, Apart, Listed, Downing,
           ThisType, CtlType, HandType, NetType
  <1>4. Sessions'
    BY ClientsAssumption DEF ServeRead, Placed, Control, Apart, Sessions, Descriptors,
           Downing, Listed, ThisType, CtlType, HandType, PassType, NodeType, FdType
  <1>5. Cursors'
    BY DEF ServeRead, Control, Cursors, Sessions, IsRest, Downing, ThisType, CtlType,
           PassType, NodeType
  <1>6. Covered'
    BY DEF ServeRead, Placed, Control, Covered, Cursors, Downing, ThisType, CtlType,
           PassType
  <1>7. Descriptors'
    BY ClientsAssumption DEF ServeRead, Placed, Control, Apart, Sessions, Descriptors,
           Cursors, Downing, Listed, ThisType, CtlType, HandType, NodeType, FdType
  <1> QED
    BY <1>1, <1>2, <1>3, <1>4, <1>5, <1>6, <1>7

LEMMA ServeTimeoutStep ==
  ASSUME TypeOK, TypeOK', Inductive, Placed', ~trapped, ServeTimeout
  PROVE  Inductive'
  <1> USE DEF Inductive, TypeOK
  <1>1. Control'
    BY DEF ServeTimeout, Placed, Control, Downing, ThisType, CtlType, HandType,
           DownLabels
  <1>2. Counted'
    BY DEF ServeTimeout, Control, Counted, Downing, ThisType, CtlType
  <1>3. Apart'
    BY ClientsAssumption DEF ServeTimeout, Placed, Control, Apart, Listed, Downing,
           ThisType, CtlType, HandType, NetType
  <1>4. Sessions'
    BY ClientsAssumption DEF ServeTimeout, Placed, Control, Apart, Sessions,
           Descriptors, Downing, Listed, ThisType, CtlType, HandType, PassType,
           NodeType, FdType
  <1>5. Cursors'
    BY DEF ServeTimeout, Control, Cursors, Sessions, IsRest, Downing, ThisType,
           CtlType, PassType, NodeType
  <1>6. Covered'
    BY DEF ServeTimeout, Placed, Control, Covered, Cursors, Downing, ThisType,
           CtlType, PassType
  <1>7. Descriptors'
    BY ClientsAssumption DEF ServeTimeout, Placed, Control, Apart, Sessions,
           Descriptors, Cursors, Downing, Listed, ThisType, CtlType, HandType,
           NodeType, FdType
  <1> QED
    BY <1>1, <1>2, <1>3, <1>4, <1>5, <1>6, <1>7

LEMMA ServeEofStep ==
  ASSUME TypeOK, TypeOK', Inductive, Placed', ~trapped, ServeEof
  PROVE  Inductive'
  <1> USE DEF Inductive, TypeOK
  <1>1. Control'
    BY DEF ServeEof, Placed, Control, Downing, ThisType, CtlType, HandType, DownLabels
  <1>2. Counted'
    BY DEF ServeEof, Control, Counted, Downing, ThisType, CtlType
  <1>3. Apart'
    BY ClientsAssumption DEF ServeEof, Placed, Control, Apart, Listed, Downing,
           ThisType, CtlType, HandType, NetType
  <1>4. Sessions'
    BY ClientsAssumption DEF ServeEof, Placed, Control, Apart, Sessions, Descriptors,
           Downing, Listed, ThisType, CtlType, HandType, PassType, NodeType, FdType
  <1>5. Cursors'
    BY DEF ServeEof, Control, Cursors, Sessions, IsRest, Downing, ThisType, CtlType,
           PassType, NodeType
  <1>6. Covered'
    BY DEF ServeEof, Placed, Control, Covered, Cursors, Downing, ThisType, CtlType,
           PassType
  <1>7. Descriptors'
    <2>1. /\ UNCHANGED <<list, cfd, closes, fdtab, hand, handFd>>
          /\ \A c \in Clients : conn'[c] => conn[c]
          /\ pc["serve"] = "read" /\ pc'["serve"] = "next" /\ pc'["main"] = pc["main"]
      BY DEF ServeEof, NodeType, CtlType
    <2>2. Listed' = Listed /\ (Downing' <=> Downing)
      BY <2>1 DEF Listed, Downing
    <2>3. \A j \in 1..Len(list) : list[j] \in Clients
      BY ListedAt DEF ThisType
    <2> HIDE DEF Downing
    <2> QED
      BY <2>1, <2>2, <2>3 DEF Descriptors
  <1> QED
    BY <1>1, <1>2, <1>3, <1>4, <1>5, <1>6, <1>7

LEMMA ServePlainStep ==
  ASSUME TypeOK, TypeOK', Inductive, Placed', ~trapped, ServePlain
  PROVE  Inductive'
  <1> USE DEF Inductive, TypeOK
  <1>1. Control'
    BY DEF ServePlain, Handled, Placed, Control, Downing, ThisType, CtlType, HandType,
           DownLabels
  <1>2. Counted'
    BY DEF ServePlain, Handled, Control, Counted, Downing, ThisType, CtlType
  <1>3. Apart'
    BY ClientsAssumption DEF ServePlain, Handled, Placed, Control, Apart, Listed, Downing,
           ThisType, CtlType, HandType, NetType
  <1>4. Sessions'
    BY ClientsAssumption DEF ServePlain, Handled, Placed, Control, Apart, Sessions,
           Descriptors, Downing, Listed, ThisType, CtlType, HandType, PassType,
           NodeType, FdType
  <1>5. Cursors'
    BY DEF ServePlain, Handled, Control, Cursors, Sessions, IsRest, Downing, ThisType,
           CtlType,
           PassType, NodeType
  <1>6. Covered'
    BY DEF ServePlain, Handled, Placed, Control, Covered, Cursors, Downing, ThisType,
           CtlType,
           PassType
  <1>7. Descriptors'
    BY ClientsAssumption DEF ServePlain, Handled, Placed, Control, Apart, Sessions,
           Descriptors, Cursors, Downing, Listed, ThisType, CtlType, HandType,
           NodeType, FdType
  <1> QED
    BY <1>1, <1>2, <1>3, <1>4, <1>5, <1>6, <1>7

LEMMA ServeHogStep ==
  ASSUME TypeOK, TypeOK', Inductive, Placed', ~trapped, ServeHog
  PROVE  Inductive'
  <1> USE DEF Inductive, TypeOK
  <1>1. Control'
    BY DEF ServeHog, Handled, Placed, Control, Downing, ThisType, CtlType, HandType,
           DownLabels
  <1>2. Counted'
    BY DEF ServeHog, Handled, Control, Counted, Downing, ThisType, CtlType
  <1>3. Apart'
    BY ClientsAssumption DEF ServeHog, Handled, Placed, Control, Apart, Listed, Downing,
           ThisType, CtlType, HandType, NetType
  <1>4. Sessions'
    BY ClientsAssumption DEF ServeHog, Handled, Placed, Control, Apart, Sessions,
           Descriptors, Downing, Listed, ThisType, CtlType, HandType, PassType,
           NodeType, FdType
  <1>5. Cursors'
    BY DEF ServeHog, Handled, Control, Cursors, Sessions, IsRest, Downing, ThisType,
           CtlType,
           PassType, NodeType
  <1>6. Covered'
    BY DEF ServeHog, Handled, Placed, Control, Covered, Cursors, Downing, ThisType,
           CtlType,
           PassType
  <1>7. Descriptors'
    BY ClientsAssumption DEF ServeHog, Handled, Placed, Control, Apart, Sessions,
           Descriptors, Cursors, Downing, Listed, ThisType, CtlType, HandType,
           NodeType, FdType
  <1> QED
    BY <1>1, <1>2, <1>3, <1>4, <1>5, <1>6, <1>7

LEMMA ServeByeStep ==
  ASSUME TypeOK, TypeOK', Inductive, Placed', ~trapped, ServeBye
  PROVE  Inductive'
  <1> USE DEF Inductive, TypeOK
  <1>1. Control'
    BY DEF ServeBye, Release, Placed, Control, Downing, ThisType, CtlType, HandType,
           DownLabels
  <1>2. Counted'
    BY DEF ServeBye, Release, Control, Counted, Downing, ThisType, CtlType
  <1>3. Apart'
    BY ClientsAssumption DEF ServeBye, Release, Placed, Control, Apart, Listed,
           Downing, ThisType, CtlType, HandType, NetType
  <1>4. Sessions'
    <2>1. /\ UNCHANGED <<list, freed, hand, node, cfd>> /\ Release(Current)
          /\ pc'["serve"] = "next" /\ pc'["main"] = pc["main"] /\ node # <<>>
      BY DEF ServeBye, Release, CtlType, Placed
    <2>2. Current \in Listed /\ Current \in Clients
      BY <2>1, RestHead DEF Cursors, PassType, ThisType
    <2>3. /\ \A c \in Clients : conn'[c] <=> conn[c] /\ c # Current
          /\ \A c \in Clients : c # Current => closes'[c] = closes[c]
      BY <2>1, <2>2 DEF Release, NodeType
    <2>4. Listed' = Listed /\ Listed \subseteq Clients
      BY <2>1, ToSetType DEF Listed, ThisType
    <2> HIDE DEF Current
    <2> QED
      BY <2>1, <2>2, <2>3, <2>4 DEF Sessions
  <1>5. Cursors'
    BY DEF ServeBye, Release, Control, Cursors, Sessions, IsRest, Downing, ThisType,
           CtlType, PassType, NodeType
  <1>6. Covered'
    BY DEF ServeBye, Release, Placed, Control, Covered, Cursors, Downing, ThisType,
           CtlType, PassType
  <1>7. Descriptors'
    <2> DEFINE d == Current
    <2>1. /\ UNCHANGED <<list, hand, handFd, cfd>> /\ Release(d)
          /\ pc["serve"] = "handle" /\ pc'["serve"] = "next" /\ pc'["main"] = pc["main"]
          /\ node # <<>>
      BY DEF ServeBye, Release, CtlType, Placed
    <2>2. d \in Listed /\ d \in Clients
      BY <2>1, RestHead DEF Cursors, PassType, ThisType
    <2>3. /\ \A c \in Clients : conn'[c] <=> conn[c] /\ c # d
          /\ \A c \in Clients : c # d => closes'[c] = closes[c]
          /\ fdtab' = Closing(cfd[d])
      BY <2>1, <2>2 DEF Release, NodeType
    <2>4. conn[d] \/ fdtab[cfd[d]] \notin Clients
      BY <2>1 DEF Sessions
    <2>5. \A f \in Fds : f # cfd[d] => fdtab'[f] = fdtab[f]
      BY <2>3 DEF Closing, FdType
    <2>6. \A f \in Fds : fdtab'[f] \in Clients => fdtab'[f] = fdtab[f] /\ f # cfd[d]
      BY <2>3, ClientsAssumption DEF Closing, FdType
    <2>7. Listed' = Listed
      BY <2>1 DEF Listed
    <2> HIDE DEF d
    <2>8. ASSUME NEW c \in Clients, conn'[c]
          PROVE  cfd[c] \in Fds /\ fdtab'[cfd[c]] = c
      <3>1. conn[c] /\ c # d /\ cfd[c] \in Fds /\ fdtab[cfd[c]] = c
        BY <2>3, <2>8 DEF Descriptors
      <3>2. cfd[c] # cfd[d]
        BY <2>2, <2>4, <3>1 DEF Descriptors
      <3> QED
        BY <2>5, <3>1, <3>2
    <2>9. ASSUME NEW f \in Fds, fdtab'[f] \in Clients
          PROVE  /\ fdtab'[f] = fdtab[f] /\ closes'[fdtab[f]] = 0
                 /\ \/ fdtab[f] = hand /\ f = handFd
                    \/ fdtab[f] \in Listed /\ cfd[fdtab[f]] = f
      <3>1. fdtab'[f] = fdtab[f] /\ f # cfd[d]
        BY <2>6, <2>9
      <3>2. /\ closes[fdtab[f]] = 0
            /\ \/ fdtab[f] = hand /\ f = handFd
               \/ fdtab[f] \in Listed /\ cfd[fdtab[f]] = f
        BY <2>9, <3>1 DEF Descriptors
      <3>3. fdtab[f] # d
        BY <2>2, <3>1, <3>2 DEF Descriptors, Apart
      <3> QED
        BY <2>3, <2>9, <3>1, <3>2, <3>3
    <2>10. \A j \in 1..Len(list) : list[j] \in Clients
      BY ListedAt DEF ThisType
    <2>11. ASSUME hand # NoClient,
                  pc["main"] \in {"check", "prompt", "cred", "parse", "insert", "kick"}
           PROVE  handFd \in Fds /\ fdtab'[handFd] = hand
      <3>1. /\ handFd \in Fds /\ fdtab[handFd] = hand
            /\ hand \in Clients /\ hand \notin Listed
        BY <2>11 DEF Descriptors, Apart, HandType
      <3>2. handFd # cfd[d]
        BY <2>2, <2>4, <3>1 DEF Descriptors
      <3> QED
        BY <2>5, <3>1, <3>2
    <2>12. \A f \in Fds : fdtab[f] \notin Clients => fdtab'[f] \notin Clients
      BY <2>6
    <2>13. Downing \/ fdtab[0] = "std" => Downing \/ fdtab'[0] = "std"
      <3>1. CASE conn[d]
        <4>1. fdtab[cfd[d]] = d
          BY <2>2, <3>1 DEF Descriptors
        <4> QED
          BY <2>2, <2>5, <4>1, FdZero, ClientsAssumption
      <3>2. CASE ~conn[d]
        BY <2>1, <3>2 DEF Sessions, d
      <3> QED
        BY <3>1, <3>2
    <2>14. Downing' <=> Downing
      BY <2>1 DEF Downing
    <2> HIDE DEF Downing
    <2> QED
      BY <2>1, <2>3, <2>7, <2>8, <2>9, <2>10, <2>11, <2>12, <2>13, <2>14, FdZero
         DEF Descriptors
  <1> QED
    BY <1>1, <1>2, <1>3, <1>4, <1>5, <1>6, <1>7

LEMMA ServePeersStep ==
  ASSUME TypeOK, TypeOK', Inductive, Placed', ~trapped, ServePeers
  PROVE  Inductive'
  <1> USE DEF Inductive, TypeOK
  <1>1. Control'
    BY DEF ServePeers, Handled, Placed, Control, Downing, ThisType, CtlType, HandType,
           DownLabels
  <1>2. Counted'
    BY DEF ServePeers, Handled, Control, Counted, Downing, ThisType, CtlType
  <1>3. Apart'
    BY ClientsAssumption DEF ServePeers, Handled, Placed, Control, Apart, Listed, Downing,
           ThisType, CtlType, HandType, NetType
  <1>4. Sessions'
    BY ClientsAssumption DEF ServePeers, Handled, Placed, Control, Apart, Sessions,
           Descriptors, Downing, Listed, ThisType, CtlType, HandType, PassType,
           NodeType, FdType
  <1>5. Cursors'
    BY DEF ServePeers, Handled, Control, Cursors, Sessions, IsRest, Downing, ThisType,
           CtlType,
           PassType, NodeType
  <1>6. Covered'
    BY DEF ServePeers, Handled, Placed, Control, Covered, Cursors, Downing, ThisType,
           CtlType,
           PassType
  <1>7. Descriptors'
    BY ClientsAssumption DEF ServePeers, Handled, Placed, Control, Apart, Sessions,
           Descriptors, Cursors, Downing, Listed, ThisType, CtlType, HandType,
           NodeType, FdType
  <1> QED
    BY <1>1, <1>2, <1>3, <1>4, <1>5, <1>6, <1>7

LEMMA ServeShutdownStep ==
  ASSUME TypeOK, TypeOK', Inductive, Placed', ~trapped, ServeShutdown
  PROVE  Inductive'
  <1> USE DEF Inductive, TypeOK
  <1>1. Control'
    BY DEF ServeShutdown, Handled, Closing, Placed, Control, Downing, ThisType, CtlType,
           HandType, DownLabels
  <1>2. Counted'
    BY DEF ServeShutdown, Handled, Closing, Control, Counted, Downing, ThisType, CtlType
  <1>3. Apart'
    BY ClientsAssumption DEF ServeShutdown, Handled, Closing, Placed, Control, Apart,
                             Listed,
           Downing, ThisType, CtlType, HandType, NetType
  <1>4. Sessions'
    BY ClientsAssumption DEF ServeShutdown, Handled, Closing, Placed, Control, Apart,
                             Sessions,
           Descriptors, Downing, Listed, ThisType, CtlType, HandType, PassType,
           NodeType, FdType
  <1>5. Cursors'
    BY DEF ServeShutdown, Handled, Closing, Control, Cursors, Sessions, IsRest, Downing,
           ThisType, CtlType, PassType, NodeType
  <1>6. Covered'
    BY DEF ServeShutdown, Handled, Closing, Placed, Control, Covered, Cursors, Downing,
           ThisType, CtlType, PassType
  <1>7. Descriptors'
    <2>1. /\ UNCHANGED <<list, conn, cfd, closes, hand, handFd>> /\ fdtab' = Closing(0)
          /\ pc["serve"] = "handle" /\ pc'["serve"] = "selfjoin" /\ pc'["main"] = pc["main"]
      BY DEF ServeShutdown, Handled, CtlType
    <2>2. fdtab[0] \notin Clients
      BY <2>1 DEF Descriptors
    <2>3. \A f \in Fds : /\ fdtab'[f] \in Clients => fdtab'[f] = fdtab[f]
                         /\ fdtab[f] \in Clients => fdtab'[f] = fdtab[f]
      BY <2>1, <2>2, ClientsAssumption DEF Closing, FdType
    <2>4. Listed' = Listed
      BY <2>1 DEF Listed
    <2>5. hand \in Clients \/ hand = NoClient
      BY DEF HandType
    <2> QED
      BY <2>1, <2>3, <2>4, <2>5 DEF Descriptors
  <1> QED
    BY <1>1, <1>2, <1>3, <1>4, <1>5, <1>6, <1>7

LEMMA ServeNextStep ==
  ASSUME TypeOK, TypeOK', Inductive, Placed', ~trapped, ServeNext
  PROVE  Inductive'
  <1> USE DEF Inductive, TypeOK
  <1>1. Control'
    BY DEF ServeNext, Placed, Control, Downing, ThisType, CtlType, HandType,
           DownLabels
  <1>2. Counted'
    BY DEF ServeNext, Control, Counted, Downing, ThisType, CtlType
  <1>3. Apart'
    BY ClientsAssumption DEF ServeNext, Placed, Control, Apart, Listed, Downing,
           ThisType, CtlType, HandType, NetType
  <1>4. Sessions'
    BY ClientsAssumption DEF ServeNext, Placed, Control, Apart, Sessions, Descriptors,
           Downing, Listed, ThisType, CtlType, HandType, PassType, NodeType, FdType
  <1>5. Cursors'
    <2>1. /\ node # <<>> /\ UNCHANGED <<list, conn, iter>> /\ pc'["main"] = pc["main"]
          /\ node' = node \/ node' = Tail(node)
      BY DEF ServeNext, Placed, CtlType
    <2>2. IsRest(Tail(node))
      BY <2>1, RestTail DEF Cursors, PassType, ThisType
    <2>3. IsRest(node)'
      BY <2>1, <2>2 DEF IsRest, Cursors
    <2> QED
      BY <2>1, <2>3 DEF Cursors, IsRest
  <1>6. Covered'
    <2>1. /\ node # <<>> /\ UNCHANGED <<list, todo>> /\ i' = i + 1
          /\ pc["serve"] = "next" /\ pc'["serve"] = "test"
          /\ Tail(node) # <<>> => node' = Tail(node)
      BY DEF ServeNext, Placed, CtlType
    <2>2. SUFFICES ASSUME todo # {}
                   PROVE  todo \subseteq ToSet(node') /\ Len(node') + i' <= Len(list)
      BY <2>1 DEF Covered
    <2>3. todo \subseteq ToSet(Tail(node)) /\ Len(node) + i <= Len(list)
      BY <2>1, <2>2 DEF Covered
    <2>4. Tail(node) \in Seq(Clients) /\ Len(Tail(node)) = Len(node) - 1
      BY <2>1, TailType DEF PassType
    <2>5. Tail(node) # <<>>
      BY <2>2, <2>3, <2>4, ListedAt
    <2>6. node' = Tail(node)
      BY <2>1, <2>5
    <2>7. Len(node') + i' <= Len(list)
      BY <2>1, <2>3, <2>4, <2>6 DEF PassType, ThisType
    <2> QED
      BY <2>3, <2>6, <2>7
  <1>7. Descriptors'
    BY ClientsAssumption DEF ServeNext, Placed, Control, Apart, Sessions, Descriptors,
           Cursors, Downing, Listed, ThisType, CtlType, HandType, NodeType, FdType
  <1> QED
    BY <1>1, <1>2, <1>3, <1>4, <1>5, <1>6, <1>7

LEMMA ServePassEndStep ==
  ASSUME TypeOK, TypeOK', Inductive, Placed', ~trapped, ServePassEnd
  PROVE  Inductive'
  <1> USE DEF Inductive, TypeOK
  <1>1. Control'
    BY DEF ServePassEnd, Placed, Control, Downing, ThisType, CtlType, HandType,
           DownLabels
  <1>2. Counted'
    BY DEF ServePassEnd, Control, Counted, Downing, ThisType, CtlType
  <1>3. Apart'
    BY ClientsAssumption DEF ServePassEnd, Placed, Control, Apart, Listed, Downing,
           ThisType, CtlType, HandType, NetType
  <1>4. Sessions'
    BY ClientsAssumption DEF ServePassEnd, Placed, Control, Apart, Sessions,
           Descriptors, Downing, Listed, ThisType, CtlType, HandType, PassType,
           NodeType, FdType
  <1>5. Cursors'
    BY DEF ServePassEnd, Control, Cursors, Sessions, IsRest, Downing, ThisType,
           CtlType, PassType, NodeType
  <1>6. Covered'
    BY DEF ServePassEnd, Placed, Control, Covered, Cursors, Downing, ThisType,
           CtlType, PassType
  <1>7. Descriptors'
    BY ClientsAssumption DEF ServePassEnd, Placed, Control, Apart, Sessions,
           Descriptors, Cursors, Downing, Listed, ThisType, CtlType, HandType,
           NodeType, FdType
  <1> QED
    BY <1>1, <1>2, <1>3, <1>4, <1>5, <1>6, <1>7

LEMMA DownBeginStep ==
  ASSUME TypeOK, TypeOK', Inductive, Placed', ~trapped, NEW t \in Threads, DownBegin(t)
  PROVE  Inductive'
  <1> USE DEF Inductive, TypeOK
  <1>1. Control'
    BY DEF DownBegin, Placed, Control, Downing, ThisType, CtlType, HandType,
           DownLabels
  <1>2. Counted'
    BY DEF DownBegin, Control, Counted, Downing, ThisType, CtlType, DownLabels
  <1>3. Apart'
    BY ClientsAssumption DEF DownBegin, Placed, Control, Apart, Listed, Downing,
           ThisType, CtlType, HandType, NetType, DownLabels
  <1>4. Sessions'
    BY ClientsAssumption DEF DownBegin, Placed, Control, Apart, Sessions, Descriptors,
           Downing, Listed, ThisType, CtlType, HandType, PassType, NodeType, FdType,
           DownLabels
  <1>5. Cursors'
    BY DEF DownBegin, Control, Cursors, Sessions, IsRest, Downing, ThisType, CtlType,
           PassType, NodeType, DownLabels
  <1>6. Covered'
    BY DEF DownBegin, Placed, Control, Covered, Cursors, Downing, ThisType, CtlType,
           PassType, DownLabels
  <1>7. Descriptors'
    BY DescriptorsFrame DEF DownBegin, Control, CtlType, Downing
  <1> QED
    BY <1>1, <1>2, <1>3, <1>4, <1>5, <1>6, <1>7

\* The indices past the first n - m and other than the next one lie beyond it.
LEMMA Beyond ==
  ASSUME NEW n \in Nat, NEW m \in Nat, NEW j \in 1..n,
         j \notin 1..(n - m), j # n - m + 1
  PROVE  n - m + 1 < j
  OBVIOUS

LEMMA DownCloseStep ==
  ASSUME TypeOK, TypeOK', Inductive, Placed', ~trapped, NEW t \in Threads, DownClose(t)
  PROVE  Inductive'
  <1> USE DEF Inductive, TypeOK
  <1>1. Control'
    BY DEF DownClose, Release, Placed, Control, Downing, ThisType, CtlType, HandType,
           DownLabels
  <1>2. Counted'
    BY DEF DownClose, Release, Control, Counted, Downing, ThisType, CtlType,
           DownLabels
  <1>3. Apart'
    BY ClientsAssumption DEF DownClose, Release, Placed, Control, Apart, Listed,
           Downing, ThisType, CtlType, HandType, NetType, DownLabels
  <1>4. Sessions'
    <2> DEFINE d == Head(iter["main"])
    <2>1. /\ pc["main"] = "close" /\ pc' = pc /\ Downing' /\ Downing
          /\ iter["main"] # <<>> /\ UNCHANGED <<list, freed, hand, node,
                              cfd>> /\ Release(d)
      BY DEF DownClose, Control, CtlType, DownLabels, Downing, Release
    <2>2. d \in Listed /\ d \in Clients
      BY <2>1, RestHead DEF Cursors, CtlType, ThisType
    <2>3. /\ conn' = [conn EXCEPT ![d] = FALSE]
          /\ \A c \in Clients : c # d => closes'[c] = closes[c]
          /\ fdtab' = Closing(cfd[d])
      BY <2>1, <2>2 DEF Release, NodeType
    <2>4. \A f : fdtab[f] \notin Clients => fdtab'[f] \notin Clients
      BY <2>3, ClientsAssumption DEF Closing, FdType, Fds
    <2>5. conn[d] => cfd[d] \in Fds /\ fdtab'[cfd[d]] = "free"
      BY <2>2, <2>3 DEF Descriptors, Closing, FdType
    <2>6. Listed' = Listed /\ Current' = Current
      BY <2>1 DEF Listed
    <2>7. pc["serve"] \in {"read", "handle"} => Current \in Clients
      BY DEF Placed, PassType
    <2>8. pc["serve"] \in {"read", "handle"} /\ ~conn'[Current]
             => fdtab'[cfd[Current]] \notin Clients
      BY <2>2, <2>3, <2>4, <2>5, <2>7, ClientsAssumption DEF Sessions, NodeType
    <2> HIDE DEF d, Downing, Current
    <2> QED
      BY <2>1, <2>2, <2>3, <2>6, <2>8 DEF Sessions, NodeType
  <1>5. Cursors'
    <2> DEFINE d == Head(iter["main"])
    <2>1. /\ pc["main"] = "close" /\ t = "main" /\ UNCHANGED <<list, node, pc>>
          /\ iter["main"] # <<>> /\ iter'["main"] = Tail(iter["main"])
          /\ conn' = [conn EXCEPT ![d] = FALSE]
      BY DEF DownClose, Control, CtlType, DownLabels, Release
    <2>2. /\ d = list[Len(list) - Len(iter["main"]) + 1] /\ d \in Clients
          /\ IsRest(Tail(iter["main"]))
      BY <2>1, RestHead, RestTail DEF Cursors, CtlType, ThisType
    <2>3. IsRest(iter["main"])' /\ IsRest(node)'
      BY <2>1, <2>2 DEF IsRest, Cursors
    <2>4. /\ Len(list) \in Nat /\ Len(iter["main"]) \in Nat
          /\ Len(iter'["main"]) = Len(iter["main"]) - 1
      BY <2>1 DEF CtlType, ThisType
    <2>5. \A j \in 1..(Len(list) - Len(iter'["main"])) : ~conn'[list[j]]
      <3> SUFFICES ASSUME NEW j \in 1..(Len(list) - Len(iter'["main"]))
                   PROVE  ~conn'[list[j]]
        OBVIOUS
      <3>1. j \in 1..(Len(list) - Len(iter["main"])) \/ j = Len(list) - Len(iter["main"]) + 1
        BY <2>4
      <3>2. CASE j \in 1..(Len(list) - Len(iter["main"]))
        <4>1. list[j] \in Clients /\ ~conn[list[j]]
          BY <2>1, <2>4, <3>2, ListedAt DEF Cursors, ThisType, IsRest
        <4> QED
          BY <2>1, <2>2, <4>1 DEF NodeType
      <3>3. CASE j = Len(list) - Len(iter["main"]) + 1
        <4>1. list[j] = d
          BY <2>2, <3>3
        <4>2. ~conn'[d]
          BY <2>1, <2>2 DEF NodeType
        <4> QED
          BY <4>1, <4>2
      <3> QED
        BY <3>1, <3>2, <3>3
    <2> QED
      BY <2>1, <2>3, <2>5 DEF Cursors
  <1>6. Covered'
    BY DEF DownClose, Release, Placed, Control, Covered, Cursors, Downing, ThisType,
           CtlType, PassType, DownLabels
  <1>7. Descriptors'
    <2> DEFINE d == Head(iter["main"])
    <2> DEFINE k == Len(list) - Len(iter["main"]) + 1
    <2>1. /\ pc["main"] = "close" /\ pc' = pc /\ Downing' /\ Downing
          /\ iter["main"] # <<>> /\ UNCHANGED <<list, hand, handFd, cfd>> /\ Release(d)
      BY DEF DownClose, Control, CtlType, DownLabels, Downing, Release
    <2>2. d \in Listed /\ d \in Clients /\ k \in 1..Len(list) /\ d = list[k]
      BY <2>1, RestHead DEF Cursors, CtlType, ThisType
    <2>3. /\ \A c \in Clients : conn'[c] <=> conn[c] /\ c # d
          /\ \A c \in Clients : c # d => closes'[c] = closes[c]
          /\ fdtab' = Closing(cfd[d])
      BY <2>1, <2>2 DEF Release, NodeType
    <2>4. \A f \in Fds : fdtab'[f] \in Clients => fdtab'[f] = fdtab[f] /\ f # cfd[d]
      BY <2>3, ClientsAssumption DEF Closing, FdType
    <2>5. Listed' = Listed
      BY <2>1 DEF Listed
    <2>6. ASSUME NEW c \in Clients, conn'[c]
          PROVE  cfd[c] \in Fds /\ fdtab'[cfd[c]] = c
      <3>1. c \in Listed /\ conn[c] /\ c # d
        BY <2>1, <2>3, <2>6 DEF Sessions
      <3>2. PICK j \in 1..Len(list) : list[j] = c
        BY <3>1, ListedAt DEF Listed, ThisType
      <3>3. k < j
        <4>1. j \notin 1..(Len(list) - Len(iter["main"]))
          BY <2>1, <3>1, <3>2 DEF Cursors
        <4>2. j # k
          BY <2>2, <3>1, <3>2
        <4>3. Len(list) \in Nat /\ Len(iter["main"]) \in Nat
          BY DEF ThisType, CtlType
        <4> HIDE DEF Inductive, TypeOK
        <4> QED
          BY <4>1, <4>2, <4>3, Beyond
      <3>4. cfd[c] # cfd[d]
        <4>1. conn[list[j]] => cfd[list[j]] # cfd[list[k]]
          BY <2>2, <3>2, <3>3 DEF Descriptors
        <4> QED
          BY <2>2, <3>1, <3>2, <4>1
      <3> QED
        BY <2>3, <3>1, <3>4 DEF Descriptors, Closing, FdType
    <2>7. ASSUME NEW f \in Fds, fdtab'[f] \in Clients
          PROVE  fdtab[f] # d /\ fdtab'[f] = fdtab[f]
      BY <2>1, <2>2, <2>4, <2>7 DEF Descriptors, Apart
    <2>8. \A j \in 1..Len(list) : list[j] \in Clients
      BY ListedAt DEF ThisType
    <2>9. fdtab[0] \notin Clients => fdtab'[0] \notin Clients
      BY <2>4, FdZero
    <2> HIDE DEF d, k, Downing
    <2> QED
      BY <2>1, <2>3, <2>5, <2>6, <2>7, <2>8, <2>9 DEF Descriptors
  <1> QED
    BY <1>1, <1>2, <1>3, <1>4, <1>5, <1>6, <1>7

LEMMA DownClosedStep ==
  ASSUME TypeOK, TypeOK', Inductive, Placed', ~trapped, NEW t \in Threads, DownClosed(t)
  PROVE  Inductive'
  <1> USE DEF Inductive, TypeOK
  <1>1. Control'
    BY DEF DownClosed, Placed, Control, Downing, ThisType, CtlType, HandType,
           DownLabels
  <1>2. Counted'
    BY DEF DownClosed, Control, Counted, Downing, ThisType, CtlType, DownLabels
  <1>3. Apart'
    BY ClientsAssumption DEF DownClosed, Placed, Control, Apart, Listed, Downing,
           ThisType, CtlType, HandType, NetType, DownLabels
  <1>4. Sessions'
    <2>1. UNCHANGED <<list, conn, closes, freed, hand, node, cfd, fdtab>>
      BY DEF DownClosed
    <2>2. /\ pc["main"] = "close" /\ pc'["main"] = "free" /\ Downing /\ Downing'
          /\ pc'["serve"] = pc["serve"] /\ iter["main"] = <<>>
      BY DEF DownClosed, Control, CtlType, DownLabels, Downing
    <2>3. \A j \in 1..Len(list) : ~conn[list[j]]
      BY <2>2 DEF Cursors, ThisType
    <2>4. \A c \in Listed : ~conn[c]
      BY <2>3, ListedAt DEF Listed, ThisType
    <2>5. Listed' = Listed
      BY <2>1 DEF Listed
    <2> HIDE DEF Downing
    <2> QED
      BY <2>1, <2>2, <2>4, <2>5 DEF Sessions
  <1>5. Cursors'
    BY DEF DownClosed, Control, Cursors, Sessions, IsRest, Downing, ThisType, CtlType,
           PassType, NodeType, DownLabels
  <1>6. Covered'
    BY DEF DownClosed, Placed, Control, Covered, Cursors, Downing, ThisType, CtlType,
           PassType, DownLabels
  <1>7. Descriptors'
    BY DescriptorsFrame DEF DownClosed, Control, CtlType, Downing
  <1> QED
    BY <1>1, <1>2, <1>3, <1>4, <1>5, <1>6, <1>7

LEMMA DownFreeStep ==
  ASSUME TypeOK, TypeOK', Inductive, Placed', ~trapped, NEW t \in Threads, DownFree(t)
  PROVE  Inductive'
  <1> USE DEF Inductive, TypeOK
  <1>1. Control'
    BY DEF DownFree, Placed, Control, Downing, ThisType, CtlType, HandType, DownLabels
  <1>2. Counted'
    BY DEF DownFree, Control, Counted, Downing, ThisType, CtlType, DownLabels
  <1>3. Apart'
    BY ClientsAssumption DEF DownFree, Placed, Control, Apart, Listed, Downing,
           ThisType, CtlType, HandType, NetType, DownLabels
  <1>4. Sessions'
    BY ClientsAssumption DEF DownFree, Placed, Control, Apart, Sessions, Descriptors,
           Downing, Listed, ThisType, CtlType, HandType, PassType, NodeType, FdType,
           DownLabels
  <1>5. Cursors'
    BY DEF DownFree, Control, Cursors, Sessions, IsRest, Downing, ThisType, CtlType,
           PassType, NodeType, DownLabels
  <1>6. Covered'
    BY DEF DownFree, Placed, Control, Covered, Cursors, Downing, ThisType, CtlType,
           PassType, DownLabels
  <1>7. Descriptors'
    BY ClientsAssumption DEF DownFree, Placed, Control, Apart, Sessions, Descriptors,
           Cursors, Downing, Listed, ThisType, CtlType, HandType, NodeType, FdType,
           DownLabels
  <1> QED
    BY <1>1, <1>2, <1>3, <1>4, <1>5, <1>6, <1>7

LEMMA DownUnlistenStep ==
  ASSUME TypeOK, TypeOK', Inductive, Placed', ~trapped, NEW t \in Threads, DownUnlisten(t)
  PROVE  Inductive'
  <1> USE DEF Inductive, TypeOK
  <1>1. Control'
    BY DEF DownUnlisten, Closing, Placed, Control, Downing, ThisType, CtlType,
           HandType, DownLabels
  <1>2. Counted'
    BY DEF DownUnlisten, Closing, Control, Counted, Downing, ThisType, CtlType,
           DownLabels
  <1>3. Apart'
    <2>1. Listed' = Listed /\ UNCHANGED hand
      BY DEF DownUnlisten, Listed
    <2>2. pc["main"] \notin {"count", "setrun"} /\ pc'["main"] \notin {"count", "setrun"}
      BY DEF DownUnlisten, Control, CtlType, DownLabels
    <2>3. CASE UNCHANGED <<backlog, net>>
      BY <2>1, <2>2, <2>3 DEF Apart
    <2>4. CASE /\ backlog' = <<>>
               /\ net' = [c \in Clients |-> IF c \in ToSet(backlog) THEN "gone" ELSE net[c]]
      <3>1. ToSet(backlog') = {} /\ IsInjective(backlog')
        BY <2>4 DEF ToSet, IsInjective
      <3>2. \A c \in Clients : net'[c] = "away" => net[c] = "away"
        BY <2>4
      <3> QED
        BY <2>1, <2>2, <3>1, <3>2 DEF Apart
    <2> QED
      BY <2>3, <2>4 DEF DownUnlisten
  <1>4. Sessions'
    <2>1. UNCHANGED <<list, conn, closes, freed, hand, node, cfd>>
      BY DEF DownUnlisten
    <2>2. /\ pc["main"] = "unlisten" /\ pc'["main"] = "join" /\ Downing'
          /\ pc'["serve"] = pc["serve"]
      BY DEF DownUnlisten, Control, CtlType, DownLabels, Downing
    <2>3. \A f : fdtab[f] \notin Clients => fdtab'[f] \notin Clients
      BY ClientsAssumption DEF DownUnlisten, Closing, FdType, Fds
    <2>4. Listed' = Listed
      BY <2>1 DEF Listed
    <2> HIDE DEF Downing
    <2> QED
      BY <2>1, <2>2, <2>3, <2>4 DEF Sessions
  <1>5. Cursors'
    BY DEF DownUnlisten, Closing, Control, Cursors, Sessions, IsRest, Downing,
           ThisType, CtlType, PassType, NodeType, DownLabels
  <1>6. Covered'
    BY DEF DownUnlisten, Closing, Placed, Control, Covered, Cursors, Downing,
           ThisType, CtlType, PassType, DownLabels
  <1>7. Descriptors'
    <2>1. UNCHANGED <<list, conn, closes, hand, handFd, cfd>> /\ fdtab' = Closing(lfd)
      BY DEF DownUnlisten
    <2>2. pc["main"] = "unlisten" /\ pc'["main"] = "join" /\ Downing'
          /\ pc'["serve"] = pc["serve"]
      BY DEF DownUnlisten, Control, CtlType, DownLabels, Downing
    <2>3. \A c \in Clients : ~conn[c]
      BY <2>2 DEF Sessions
    <2>4. \A f \in Fds : fdtab'[f] \in Clients => fdtab'[f] = fdtab[f]
      BY <2>1, ClientsAssumption DEF Closing, FdType
    <2>5. \A f \in Fds : fdtab[f] \notin Clients => fdtab'[f] \notin Clients
      BY <2>4
    <2>6. Listed' = Listed
      BY <2>1 DEF Listed
    <2>7. \A j \in 1..Len(list) : list[j] \in Clients
      BY ListedAt DEF ThisType
    <2> HIDE DEF Downing
    <2> QED
      BY <2>1, <2>2, <2>3, <2>4, <2>5, <2>6, <2>7, FdZero DEF Descriptors
  <1> QED
    BY <1>1, <1>2, <1>3, <1>4, <1>5, <1>6, <1>7

LEMMA DownJoinStep ==
  ASSUME TypeOK, TypeOK', Inductive, Placed', ~trapped, NEW t \in Threads, DownJoin(t)
  PROVE  Inductive'
  <1> USE DEF Inductive, TypeOK
  <1>1. Control'
    BY DEF DownJoin, Placed, Control, Downing, ThisType, CtlType, HandType, DownLabels
  <1>2. Counted'
    BY DEF DownJoin, Control, Counted, Downing, ThisType, CtlType, DownLabels
  <1>3. Apart'
    BY ClientsAssumption DEF DownJoin, Placed, Control, Apart, Listed, Downing,
           ThisType, CtlType, HandType, NetType, DownLabels
  <1>4. Sessions'
    BY ClientsAssumption DEF DownJoin, Placed, Control, Apart, Sessions, Descriptors,
           Downing, Listed, ThisType, CtlType, HandType, PassType, NodeType, FdType,
           DownLabels
  <1>5. Cursors'
    BY DEF DownJoin, Control, Cursors, Sessions, IsRest, Downing, ThisType, CtlType,
           PassType, NodeType, DownLabels
  <1>6. Covered'
    BY DEF DownJoin, Placed, Control, Covered, Cursors, Downing, ThisType, CtlType,
           PassType, DownLabels
  <1>7. Descriptors'
    BY ClientsAssumption DEF DownJoin, Placed, Control, Apart, Sessions, Descriptors,
           Cursors, Downing, Listed, ThisType, CtlType, HandType, NodeType, FdType,
           DownLabels
  <1> QED
    BY <1>1, <1>2, <1>3, <1>4, <1>5, <1>6, <1>7

LEMMA DownJoinedStep ==
  ASSUME TypeOK, TypeOK', Inductive, Placed', ~trapped, NEW t \in Threads, DownJoined(t)
  PROVE  Inductive'
  <1> USE DEF Inductive, TypeOK
  <1>1. Control'
    BY DEF DownJoined, Placed, Control, Downing, ThisType, CtlType, HandType,
           DownLabels
  <1>2. Counted'
    BY DEF DownJoined, Control, Counted, Downing, ThisType, CtlType, DownLabels
  <1>3. Apart'
    BY ClientsAssumption DEF DownJoined, Placed, Control, Apart, Listed, Downing,
           ThisType, CtlType, HandType, NetType, DownLabels
  <1>4. Sessions'
    BY ClientsAssumption DEF DownJoined, Placed, Control, Apart, Sessions,
           Descriptors, Downing, Listed, ThisType, CtlType, HandType, PassType,
           NodeType, FdType, DownLabels
  <1>5. Cursors'
    BY DEF DownJoined, Control, Cursors, Sessions, IsRest, Downing, ThisType, CtlType,
           PassType, NodeType, DownLabels
  <1>6. Covered'
    BY DEF DownJoined, Placed, Control, Covered, Cursors, Downing, ThisType, CtlType,
           PassType, DownLabels
  <1>7. Descriptors'
    BY ClientsAssumption DEF DownJoined, Placed, Control, Apart, Sessions,
           Descriptors, Cursors, Downing, Listed, ThisType, CtlType, HandType,
           NodeType, FdType, DownLabels
  <1> QED
    BY <1>1, <1>2, <1>3, <1>4, <1>5, <1>6, <1>7

LEMMA ConnectStep ==
  ASSUME TypeOK, TypeOK', Inductive, Placed', ~trapped, NEW c \in Clients, Connect(c)
  PROVE  Inductive'
  <1> USE DEF Inductive, TypeOK
  <1>1. Control'
    BY DEF Connect, Placed, Control, Downing, ThisType, CtlType, HandType, DownLabels
  <1>2. Counted'
    BY DEF Connect, Control, Counted, Downing, ThisType, CtlType
  <1>3. Apart'
    <2>1. /\ backlog' = Append(backlog, c) /\ net' = [net EXCEPT ![c] = "pending"]
          /\ net[c] = "away" /\ UNCHANGED <<list, hand, pc>>
      BY DEF Connect
    <2>2. ToSet(backlog') = ToSet(backlog) \cup {c} /\ IsInjective(backlog')
      BY <2>1, AppendSet DEF Apart, NetType
    <2>3. Listed' = Listed
      BY <2>1 DEF Listed
    <2> QED
      BY <2>1, <2>2, <2>3 DEF Apart, NetType
  <1>4. Sessions'
    BY ClientsAssumption DEF Connect, Placed, Control, Apart, Sessions, Descriptors,
           Downing, Listed, ThisType, CtlType, HandType, PassType, NodeType, FdType
  <1>5. Cursors'
    BY DEF Connect, Control, Cursors, Sessions, IsRest, Downing, ThisType, CtlType,
           PassType, NodeType
  <1>6. Covered'
    BY DEF Connect, Placed, Control, Covered, Cursors, Downing, ThisType, CtlType,
           PassType
  <1>7. Descriptors'
    BY ClientsAssumption DEF Connect, Placed, Control, Apart, Sessions, Descriptors,
           Cursors, Downing, Listed, ThisType, CtlType, HandType, NodeType, FdType
  <1> QED
    BY <1>1, <1>2, <1>3, <1>4, <1>5, <1>6, <1>7

LEMMA SendStep ==
  ASSUME TypeOK, TypeOK', Inductive, Placed', ~trapped, NEW c \in Clients, Send(c)
  PROVE  Inductive'
  <1> USE DEF Inductive, TypeOK
  <1>1. Control'
    BY DEF Send, Placed, Control, Downing, ThisType, CtlType, HandType, DownLabels
  <1>2. Counted'
    BY DEF Send, Control, Counted, Downing, ThisType, CtlType
  <1>3. Apart'
    BY ClientsAssumption DEF Send, Placed, Control, Apart, Listed, Downing, ThisType,
           CtlType, HandType, NetType
  <1>4. Sessions'
    BY ClientsAssumption DEF Send, Placed, Control, Apart, Sessions, Descriptors,
           Downing, Listed, ThisType, CtlType, HandType, PassType, NodeType, FdType
  <1>5. Cursors'
    BY DEF Send, Control, Cursors, Sessions, IsRest, Downing, ThisType, CtlType,
           PassType, NodeType
  <1>6. Covered'
    BY DEF Send, Placed, Control, Covered, Cursors, Downing, ThisType, CtlType,
           PassType
  <1>7. Descriptors'
    BY ClientsAssumption DEF Send, Placed, Control, Apart, Sessions, Descriptors,
           Cursors, Downing, Listed, ThisType, CtlType, HandType, NodeType, FdType
  <1> QED
    BY <1>1, <1>2, <1>3, <1>4, <1>5, <1>6, <1>7

LEMMA HangupStep ==
  ASSUME TypeOK, TypeOK', Inductive, Placed', ~trapped, NEW c \in Clients, Hangup(c)
  PROVE  Inductive'
  <1> USE DEF Inductive, TypeOK
  <1>1. Control'
    BY DEF Hangup, Placed, Control, Downing, ThisType, CtlType, HandType, DownLabels
  <1>2. Counted'
    BY DEF Hangup, Control, Counted, Downing, ThisType, CtlType
  <1>3. Apart'
    BY ClientsAssumption DEF Hangup, Placed, Control, Apart, Listed, Downing,
           ThisType, CtlType, HandType, NetType
  <1>4. Sessions'
    BY ClientsAssumption DEF Hangup, Placed, Control, Apart, Sessions, Descriptors,
           Downing, Listed, ThisType, CtlType, HandType, PassType, NodeType, FdType
  <1>5. Cursors'
    BY DEF Hangup, Control, Cursors, Sessions, IsRest, Downing, ThisType, CtlType,
           PassType, NodeType
  <1>6. Covered'
    BY DEF Hangup, Placed, Control, Covered, Cursors, Downing, ThisType, CtlType,
           PassType
  <1>7. Descriptors'
    BY ClientsAssumption DEF Hangup, Placed, Control, Apart, Sessions, Descriptors,
           Cursors, Downing, Listed, ThisType, CtlType, HandType, NodeType, FdType
  <1> QED
    BY <1>1, <1>2, <1>3, <1>4, <1>5, <1>6, <1>7

\* The one way a fault step leaves trapped unset: the allocator ends the process.
LEMMA UndefinedStep ==
  ASSUME Inductive, ~trapped', NEW t \in Threads, Undefined(t)
  PROVE  Inductive'
  <1>1. UNCHANGED <<trapped, ctlVars, thisVars, handVars, passVars, nodeVars, fdtab,
                    netVars>>
    BY DEF Undefined, Trap
  <1>2. Placed' <=> Placed
    BY <1>1 DEF Placed
  <1>3. (Control' <=> Control) /\ (Counted' <=> Counted) /\ (Covered' <=> Covered)
    BY <1>1 DEF Control, Counted, Covered, Downing
  <1>4. (Apart' <=> Apart) /\ (Sessions' <=> Sessions)
    BY <1>1 DEF Apart, Sessions, Downing, Listed
  <1>5. (Cursors' <=> Cursors) /\ (Descriptors' <=> Descriptors)
    BY <1>1 DEF Cursors, Descriptors, IsRest, Downing, Listed
  <1> QED
    BY <1>1, <1>2, <1>3, <1>4, <1>5 DEF Inductive

-----------------------------------------------------------------------------
(* The invariant *)

\* A process that faulted once stays marked.
LEMMA TrappedStays ==
  ASSUME trapped, [Next]_vars
  PROVE  trapped'
  <1>1. ASSUME NEW t \in Threads, Down(t) PROVE trapped'
    BY <1>1, Zenon
       DEF Down, DownBegin, DownClose, DownClosed, DownFree, DownUnlisten, DownJoin,
           DownJoined, DownJoinFaults, HandlerReset, HandlerResume, Undefined, Trap,
           Release
  <1>2. CASE Main
    BY <1>1, <1>2, Zenon
       DEF Main, MainBoot, MainListen, MainBindFails, MainRun, MainLoop, MainAccept,
           MainAcceptFails, MainCheck, MainPrompt, MainPromptFaults, MainLine,
           MainLeft, MainAdmit, MainReject, MainCredFaults, Parsed, MainKick, MainInsert,
           MainCount, MainSetRun, Trap
  <1>3. CASE Serve
    BY <1>1, <1>3, Zenon
       DEF Serve, ServeWake, ServePass, ServeTest, ServePoll, ServeRead, ServeTimeout,
           ServeEof, ServePlain, ServeHog, ServeBye, ServePeers, ServeShutdown, Handled,
           ServeShutdownFaults, ServeCmdFaults, ServeNext, ServePassEnd, Trap
  <1>4. CASE Environment \/ UNCHANGED vars
    BY <1>4 DEF Environment, Connect, Send, Hangup, vars
  <1> QED
    BY <1>2, <1>3, <1>4 DEF Next

LEMMA InductiveInit == Init => Inductive
  <1> SUFFICES ASSUME Init PROVE Inductive
    OBVIOUS
  <1>1. Placed /\ Control /\ Counted /\ Covered /\ ~Downing
    BY BoundsAssumption DEF Init, Placed, Control, Counted, Covered, Downing, DownLabels
  <1>2. ToSet(<<>>) = {} /\ IsInjective(<<>>)
    BY DEF ToSet, IsInjective
  <1>3. Apart /\ Sessions
    BY <1>1, <1>2, ClientsAssumption DEF Init, Apart, Sessions, Listed
  <1>4. Cursors
    BY DEF Init, Cursors, IsRest
  <1>5. Descriptors
    BY <1>1, ClientsAssumption, FdZero DEF Init, Descriptors, Fds
  <1> QED
    BY <1>1, <1>3, <1>4, <1>5 DEF Inductive

LEMMA InductiveStep ==
  ASSUME TypeOK, Inductive, [Next]_vars
  PROVE  Inductive'
  <1>1. TypeOK' /\ Placed'
    BY TypeStep, PlacedStep DEF Inductive
  <1>2. CASE trapped'
    BY <1>1, <1>2 DEF Inductive
  <1>3. CASE ~trapped'
    <2>1. ~trapped
      BY <1>3, TrappedStays
    <2>2. pc["main"] \notin {"reset", "resume"} /\ pc["serve"] \notin DownLabels
      BY <2>1 DEF Inductive, Control
    <2>3. ASSUME NEW t \in Threads, Down(t) PROVE Inductive'
      <3>1. ~DownJoinFaults(t) /\ ~HandlerReset(t) /\ ~HandlerResume(t)
        BY <1>3, <2>2 DEF DownJoinFaults, HandlerReset, HandlerResume, Trap, DownLabels
      <3> QED
        BY <1>1, <1>3, <2>1, <2>3, <3>1, DownBeginStep, DownCloseStep, DownClosedStep,
           DownFreeStep, DownUnlistenStep, DownJoinStep, DownJoinedStep, UndefinedStep DEF Down
    <2>4. CASE Main
      <3>1. ~MainPromptFaults /\ ~MainCredFaults
        BY <1>3 DEF MainPromptFaults, MainCredFaults, Trap
      <3> QED
        BY <1>1, <2>1, <2>3, <2>4, <3>1, MainBootStep, MainListenStep,
           MainBindFailsStep, MainRunStep, MainLoopStep, MainAcceptStep,
           MainAcceptFailsStep, MainCheckStep, MainPromptStep, MainLineStep,
           MainLeftStep, MainAdmitStep,
           MainRejectStep, MainKickStep, MainInsertStep, MainCountStep, MainSetRunStep DEF Main
    <2>5. CASE Serve
      <3>1. ~ServeShutdownFaults /\ ~ServeCmdFaults
        BY <1>3 DEF ServeShutdownFaults, ServeCmdFaults, Trap
      <3> QED
        BY <1>1, <2>1, <2>3, <2>5, <3>1, ServeWakeStep, ServePassStep, ServeTestStep,
           ServePollStep, ServeReadStep, ServeTimeoutStep, ServeEofStep, ServePlainStep,
           ServeHogStep, ServeByeStep, ServePeersStep, ServeShutdownStep, ServeNextStep,
           ServePassEndStep DEF Serve
    <2>6. CASE Environment
      BY <1>1, <2>1, <2>6, ConnectStep, SendStep, HangupStep DEF Environment
    <2>7. CASE UNCHANGED vars
      <3>1. Control' /\ Counted' /\ Covered' /\ trapped' = trapped
        BY <2>1, <2>7 DEF Inductive, Control, Counted, Covered, Downing, vars
      <3>2. Apart' /\ Sessions'
        BY <2>1, <2>7 DEF Inductive, Apart, Sessions, Downing, Listed, vars
      <3>3. Cursors' /\ Descriptors'
        BY <2>1, <2>7 DEF Inductive, Cursors, Descriptors, IsRest, Downing, Listed, vars
      <3> QED
        BY <1>1, <3>1, <3>2, <3>3 DEF Inductive
    <2> QED
      BY <2>4, <2>5, <2>6, <2>7 DEF Next
  <1> QED
    BY <1>2, <1>3

\* The invariant holds for every set of clients, every limit on the list, every
\* number of descriptors and every mixture of lines.
THEOREM InductiveHolds == Spec => []Inductive
  <1>1. Init => Inductive
    BY InductiveInit
  <1>2. TypeOK /\ Inductive /\ [Next]_vars => Inductive'
    BY InductiveStep
  <1> QED
    BY <1>1, <1>2, TypeCorrect, PTL DEF Spec

-----------------------------------------------------------------------------
(* What follows from it *)

\* The counter that ends the accept loop never drifts from the list and never
\* passes max_count.
THEOREM CountHolds == Spec => []CountTracksList
  <1>1. Inductive => CountTracksList
    BY DEF Inductive, Counted, CountTracksList
  <1> QED
    BY <1>1, InductiveHolds, PTL

\* A connected session that is listed owns the descriptor it reads and writes.
THEOREM LiveFdHolds == Spec => []LiveFdOwned
  <1>1. TypeOK /\ Inductive => LiveFdOwned
    BY ToSetType DEF TypeOK, ThisType, Inductive, Descriptors, LiveFdOwned, Listed
  <1> QED
    BY <1>1, TypeCorrect, InductiveHolds, PTL

\* No descriptor of a client is lost track of.
THEOREM DescriptorsHold == Spec => []DescriptorsAccounted
  <1>1. Inductive => DescriptorsAccounted
    BY DEF Inductive, Descriptors, DescriptorsAccounted
  <1> QED
    BY <1>1, InductiveHolds, PTL

LEMMA OneLeft ==
  ASSUME NEW m \in Nat, NEW k \in Nat, NEW l \in Nat, l >= k, m > 0, m + l <= k + 1
  PROVE  m = 1
  OBVIOUS

\* A pass of the serving thread leaves nobody out but the oldest client, and that
\* one only while a login is half way in.
THEOREM PassCoversHolds == Spec => []PassCoversList
  <1>1. ASSUME TypeOK, Inductive, ~trapped, pc["serve"] = "test", i >= count
        PROVE  todo \subseteq (IF pc["main"] = "count" THEN {Last(list)} ELSE {})
    <2>1. CASE todo = {}
      BY <2>1
    <2>2. CASE todo # {}
      <3>1. todo \subseteq ToSet(node) /\ Len(node) + i <= Len(list) /\ IsRest(node)
        BY <1>1, <2>2 DEF Inductive, Covered, Cursors
      <3>2. /\ Len(list) = count + (IF pc["main"] = "count" THEN 1 ELSE 0)
            /\ count \in Nat /\ i \in Nat
            /\ node \in Seq(Clients) /\ list \in Seq(Clients)
        BY <1>1 DEF TypeOK, ThisType, PassType, Inductive, Counted
      <3>3. node # <<>> /\ Len(node) > 0
        BY <2>2, <3>1, <3>2, ListedAt
      <3>4. pc["main"] = "count" /\ Len(node) = 1 /\ Len(list) > 0
        <4>1. pc["main"] # "count" => Len(list) = count
          BY <3>2
        <4>2. pc["main"] = "count" => Len(list) = count + 1
          BY <3>2
        <4>3. /\ Len(node) \in Nat /\ Len(list) \in Nat /\ count \in Nat /\ i \in Nat
              /\ i >= count /\ Len(node) > 0 /\ Len(node) + i <= Len(list)
          BY <1>1, <3>1, <3>2, <3>3
        <4>4. Len(list) > count
          BY <4>3
        <4>5. pc["main"] = "count"
          BY <3>2, <4>1, <4>3, <4>4
        <4>6. Len(list) = count + 1
          BY <4>2, <4>5
        <4>7. Len(node) = 1 /\ Len(list) > 0
          <5>1. Len(node) + i <= count + 1
            BY <4>3, <4>6
          <5>2. Len(node) = 1
            BY <4>3, <5>1, OneLeft
          <5>3. Len(list) > 0
            BY <4>3
          <5> QED
            BY <5>2, <5>3
        <4> QED
          BY <4>5, <4>7
      <3>5. node[1] = list[Len(list)]
        BY <3>1, <3>2, <3>4 DEF IsRest
      <3>6. ToSet(node) = {Last(list)}
        BY <3>2, <3>4, <3>5 DEF ToSet, Last
      <3> QED
        BY <3>1, <3>4, <3>6
    <2> QED
      BY <2>1, <2>2
  <1>2. TypeOK /\ Inductive => PassCoversList
    BY <1>1 DEF PassCoversList
  <1> QED
    BY <1>2, TypeCorrect, InductiveHolds, PTL

LEMMA ReleasedUntouched ==
  ASSUME TypeOK, Inductive, ~trapped, state # "CLOSE", NEW t \in Threads
  PROVE  ~TouchesReleased(t)
  <1>1. /\ ~Downing /\ pc["serve"] \notin DownLabels
        /\ pc["main"] \in MainLabels /\ pc["serve"] \in ServeLabels
    BY DEF TypeOK, CtlType, Inductive, Control
  <1>2. freed = {}
    BY <1>1 DEF Inductive, Sessions, Downing
  <1>3. pc["serve"] \in {"read", "handle"} => Current \in Clients /\ closes[Current] = 0
    BY <1>1 DEF TypeOK, PassType, Inductive, Placed, Sessions
  <1>4. pc[t] \notin {"close", "free"}
    BY <1>1 DEF Downing, DownLabels
  <1>5. pc[t] \in {"read", "handle"} => t = "serve"
    BY <1>1 DEF MainLabels, DownLabels
  <1> QED
    BY <1>2, <1>3, <1>4, <1>5 DEF TouchesReleased, Released

\* In service no thread reads or frees what another has released.
THEOREM NoUseAfterReleaseHolds == Spec => []NoUseAfterRelease
  <1>1. TypeOK /\ Inductive => NoUseAfterRelease
    BY ReleasedUntouched DEF NoUseAfterRelease
  <1> QED
    BY <1>1, TypeCorrect, InductiveHolds, PTL

\* The steps that raise SIGSEGV.
LEMMA WhoFaults ==
  ASSUME ~trapped, trapped', [Next]_vars
  PROVE  \/ MainPromptFaults \/ MainCredFaults \/ ServeShutdownFaults \/ ServeCmdFaults
         \/ \E t \in Threads : DownJoinFaults(t) \/ Undefined(t)
  <1>1. ASSUME NEW t \in Threads, Down(t) PROVE DownJoinFaults(t) \/ Undefined(t)
    BY <1>1, Zenon
       DEF Down, DownBegin, DownClose, DownClosed, DownFree, DownUnlisten, DownJoin,
           DownJoined, HandlerReset, HandlerResume, Release
  <1>2. CASE Main
    BY <1>1, <1>2, Zenon
       DEF Main, MainBoot, MainListen, MainBindFails, MainRun, MainLoop, MainAccept,
           MainAcceptFails, MainCheck, MainPrompt, MainLine, MainLeft, MainAdmit,
           MainReject, Parsed, MainKick, MainInsert, MainCount, MainSetRun
  <1>3. CASE Serve
    BY <1>1, <1>3, Zenon
       DEF Serve, ServeWake, ServePass, ServeTest, ServePoll, ServeRead, ServeTimeout,
           ServeEof, ServePlain, ServeHog, ServeBye, ServePeers, ServeShutdown,
           Handled, ServeNext, ServePassEnd
  <1>4. CASE Environment \/ UNCHANGED vars
    BY <1>4 DEF Environment, Connect, Send, Hangup, vars
  <1> QED
    BY <1>2, <1>3, <1>4 DEF Next

\* No order of complete lines crashes a server in service by itself: the first fault
\* belongs to a tear down, to a line that lacks fields, or to a line whose fields
\* strtok lost to the other thread.
THEOREM FaultsHold == Spec => FaultsOnlyInDown
  <1> DEFINE Excused ==
        \/ state = "CLOSE" \/ pc["serve"] = "selfjoin"
        \/ pc["main"] = "parse" /\ (tok # "main" \/ line = "short")
        \/ pc["serve"] = "handle" /\ (tok # "serve" \/ cmd = "short")
  <1>1. ASSUME TypeOK, Inductive, [Next]_vars, ~trapped, trapped'
        PROVE  Excused
    <2>1. Control
      BY <1>1 DEF Inductive
    <2>2. ~MainPromptFaults
      BY <2>1 DEF MainPromptFaults, Control
    <2>3. ASSUME NEW t \in Threads, DownJoinFaults(t) PROVE state = "CLOSE"
      BY <2>1, <2>3 DEF DownJoinFaults, Control, Downing, DownLabels
    <2>4. ASSUME NEW t \in Threads, Undefined(t) PROVE state = "CLOSE"
      BY <1>1, <2>4, ReleasedUntouched DEF Undefined
    <2>5. MainCredFaults \/ ServeShutdownFaults \/ ServeCmdFaults => Excused
      BY DEF MainCredFaults, ServeShutdownFaults, ServeCmdFaults, Says, Runs
    <2> QED
      BY <1>1, <2>2, <2>3, <2>4, <2>5, WhoFaults
  <1>2. TypeOK /\ Inductive /\ [Next]_vars => [~trapped /\ trapped' => Excused]_vars
    BY <1>1
  <1> QED
    BY <1>2, TypeCorrect, InductiveHolds, PTL DEF Spec, FaultsOnlyInDown

===============================================================================
