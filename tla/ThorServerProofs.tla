--------------------------- MODULE ThorServerProofs ---------------------------
(***************************************************************************)
(* Theorems about the session core, for every set of connections, every    *)
(* limit on them, every number of descriptors and every mixture of lines.  *)
(***************************************************************************)
EXTENDS ThorServer, TLAPS

USE DEF At, Goto, Die, Threads, runVars, procVars, thisVars, ctlVars, handVars, passVars,
        nodeVars, netVars, viewVars

-----------------------------------------------------------------------------
(* Lemmas about the helpers *)

\* The clients of a list of cells are clients.
LEMMA ToSetType ==
  ASSUME NEW S, NEW s \in Seq(S)
  PROVE  ToSet(s) \subseteq S
  BY DEF ToSet

\* The tail of a non-empty queue is a queue of the same lines.
LEMMA TailType ==
  ASSUME NEW S, NEW s \in Seq(S), s # <<>>
  PROVE  Tail(s) \in Seq(S) /\ Head(s) \in S /\ Len(Tail(s)) = Len(s) - 1
  OBVIOUS

\* Raising SIGSEGV leads to a typed handler state, or to the end of the process.
LEMMA TrapType ==
  ASSUME ProcType, CtlType, NEW t \in Threads, Trap(t), tok' \in {tok, "none"}
  PROVE  ProcType' /\ CtlType'
  <1>1. CASE masked \/ inHandler[t]
    BY <1>1 DEF Trap, ProcType, CtlType
  <1>2. CASE ~(masked \/ inHandler[t])
    <2>1. ProcType'
      BY <1>2 DEF Trap, ProcType
    <2>2. CtlType'
      BY <1>2 DEF Trap, CtlType, MainLabels, ServeLabels, DownLabels
    <2> QED
      BY <2>1, <2>2
  <1> QED
    BY <1>1, <1>2

\* Releasing a session changes typed fields to typed values.
LEMMA ReleaseType ==
  ASSUME NodeType, FdType, NEW c \in Clients, Release(c)
  PROVE  NodeType' /\ FdType'
  <1>1. NodeType'
    <2>1. closes' \in [Clients -> 0..2]
      BY DEF Release, NodeType
    <2> QED
      BY <2>1 DEF Release, NodeType
  <1>2. FdType'
    BY DEF Release, Closing, FdType, Owners
  <1> QED
    BY <1>1, <1>2

\* Taking the first line of an inbox leaves a typed inbox.
LEMMA InboxType ==
  ASSUME inbox \in [Clients -> Seq(Lines)], NEW c,
         c \in Clients => inbox[c] # <<>>,
         inbox' = [inbox EXCEPT ![c] = Tail(@)]
  PROVE  inbox' \in [Clients -> Seq(Lines)]
  <1>1. CASE c \in Clients
    <2>1. Tail(inbox[c]) \in Seq(Lines)
      BY <1>1
    <2> QED
      BY <1>1, <2>1
  <1>2. CASE c \notin Clients
    BY <1>2
  <1> QED
    BY <1>1, <1>2

\* Descriptor 0 always exists.
LEMMA FdZero == 0 \in Fds
  BY BoundsAssumption DEF Fds

-----------------------------------------------------------------------------
(* Type correctness *)

LEMMA InitType == Init => TypeOK
  <1> SUFFICES ASSUME Init PROVE TypeOK
    OBVIOUS
  <1>1. ProcType /\ HandType /\ ViewType
    BY DEF Init, ProcType, HandType, ViewType, Fds
  <1>2. ThisType /\ PassType
    <2>1. lfd \in Fds
      BY FdZero DEF Init
    <2>2. ready \in BOOLEAN
      BY DEF Init
    <2>4. list \in Seq(Clients) /\ count \in Nat
      BY DEF Init
    <2>3. PassType
      BY DEF Init, PassType
    <2> QED
      BY <2>1, <2>2, <2>3, <2>4 DEF Init, ThisType
  <1>3. CtlType
    BY DEF Init, CtlType, MainLabels, ServeLabels
  <1>4. NodeType /\ FdType
    BY DEF Init, NodeType, FdType, Owners
  <1>5. NetType
    BY DEF Init, NetType
  <1> QED
    BY <1>1, <1>2, <1>3, <1>4, <1>5 DEF TypeOK

LEMMA MainBootType ==
  ASSUME TypeOK, MainBoot
  PROVE  TypeOK'
  <1> USE DEF TypeOK
  <1>1. CtlType'
    BY DEF MainBoot, CtlType, MainLabels, ServeLabels, DownLabels
  <1>2. ThisType'
    BY DEF MainBoot, ThisType
  <1>3. ProcType' /\ HandType' /\ PassType' /\ NodeType' /\ FdType' /\ NetType' /\ ViewType'
    BY DEF MainBoot, ProcType, HandType, PassType, NodeType, FdType, NetType, ViewType
  <1> QED
    BY <1>1, <1>2, <1>3

LEMMA MainListenType ==
  ASSUME TypeOK, MainListen
  PROVE  TypeOK'
  <1> USE DEF TypeOK
  <1>1. CtlType'
    BY DEF MainListen, CtlType, MainLabels, ServeLabels, DownLabels
  <1>2. ThisType' /\ FdType' /\ NetType'
    BY DEF MainListen, Lowest, ThisType, FdType, NetType, Owners
  <1>3. ProcType' /\ HandType' /\ PassType' /\ NodeType' /\ ViewType'
    BY DEF MainListen, ProcType, HandType, PassType, NodeType, ViewType
  <1> QED
    BY <1>1, <1>2, <1>3

LEMMA MainBindFailsType ==
  ASSUME TypeOK, MainBindFails
  PROVE  TypeOK'
  <1> USE DEF TypeOK
  <1>1. ProcType'
    BY DEF MainBindFails, ProcType
  <1>2. ThisType' /\ CtlType' /\ HandType'
    BY DEF MainBindFails, ThisType, CtlType, HandType
  <1>3. PassType' /\ NodeType' /\ FdType' /\ NetType' /\ ViewType'
    BY DEF MainBindFails, PassType, NodeType, FdType, NetType, ViewType
  <1> QED
    BY <1>1, <1>2, <1>3

LEMMA MainRunType ==
  ASSUME TypeOK, MainRun
  PROVE  TypeOK'
  <1> USE DEF TypeOK
  <1>1. CtlType'
    BY DEF MainRun, CtlType, MainLabels, ServeLabels, DownLabels
  <1>2. ThisType'
    BY DEF MainRun, ThisType
  <1>3. ProcType' /\ HandType' /\ PassType' /\ NodeType' /\ FdType' /\ NetType' /\ ViewType'
    BY DEF MainRun, ProcType, HandType, PassType, NodeType, FdType, NetType, ViewType
  <1> QED
    BY <1>1, <1>2, <1>3

LEMMA MainLoopType ==
  ASSUME TypeOK, MainLoop
  PROVE  TypeOK'
  <1> USE DEF TypeOK
  <1>1. CtlType'
    BY DEF MainLoop, CtlType, MainLabels, ServeLabels, DownLabels
  <1>2. ProcType' /\ ThisType' /\ HandType' /\ PassType' /\ NodeType' /\ FdType' /\ NetType' /\ ViewType'
    BY DEF MainLoop, ProcType, ThisType, HandType, PassType, NodeType, FdType, NetType, ViewType
  <1> QED
    BY <1>1, <1>2

LEMMA MainAcceptType ==
  ASSUME TypeOK, MainAccept
  PROVE  TypeOK'
  <1> USE DEF TypeOK
  <1>1. CtlType'
    BY DEF MainAccept, CtlType, MainLabels, ServeLabels, DownLabels
  <1>2. FdType' /\ HandType'
    BY DEF MainAccept, Lowest, FdType, HandType, NetType, Owners
  <1>3. NetType'
    BY DEF MainAccept, NetType
  <1>4. ProcType' /\ ThisType' /\ PassType' /\ NodeType' /\ ViewType'
    BY DEF MainAccept, ProcType, ThisType, PassType, NodeType, ViewType
  <1> QED
    BY <1>1, <1>2, <1>3, <1>4

LEMMA MainAcceptFailsType ==
  ASSUME TypeOK, MainAcceptFails
  PROVE  TypeOK'
  <1> USE DEF TypeOK
  <1>1. CtlType'
    BY DEF MainAcceptFails, CtlType, MainLabels, ServeLabels, DownLabels
  <1>2. HandType'
    BY DEF MainAcceptFails, HandType
  <1>3. ProcType' /\ ThisType' /\ PassType' /\ NodeType' /\ FdType' /\ NetType' /\ ViewType'
    BY DEF MainAcceptFails, ProcType, ThisType, PassType, NodeType, FdType, NetType, ViewType
  <1> QED
    BY <1>1, <1>2, <1>3

LEMMA MainCheckType ==
  ASSUME TypeOK, MainCheck
  PROVE  TypeOK'
  <1> USE DEF TypeOK
  <1>1. CtlType'
    BY DEF MainCheck, CtlType, MainLabels, ServeLabels, DownLabels
  <1>2. ProcType' /\ ThisType' /\ HandType' /\ PassType' /\ NodeType' /\ FdType' /\ NetType' /\ ViewType'
    BY DEF MainCheck, ProcType, ThisType, HandType, PassType, NodeType, FdType, NetType, ViewType
  <1> QED
    BY <1>1, <1>2

LEMMA MainPromptType ==
  ASSUME TypeOK, MainPrompt
  PROVE  TypeOK'
  <1> USE DEF TypeOK
  <1>1. CtlType'
    BY DEF MainPrompt, CtlType, MainLabels, ServeLabels, DownLabels
  <1>2. ViewType'
    BY DEF MainPrompt, Tell, ViewType
  <1>3. ProcType' /\ ThisType' /\ HandType' /\ PassType' /\ NodeType' /\ FdType' /\ NetType'
    BY DEF MainPrompt, ProcType, ThisType, HandType, PassType, NodeType, FdType, NetType
  <1> QED
    BY <1>1, <1>2, <1>3

LEMMA MainPromptFaultsType ==
  ASSUME TypeOK, MainPromptFaults
  PROVE  TypeOK'
  <1> USE DEF TypeOK
  <1>1. ProcType' /\ CtlType'
    BY TrapType DEF MainPromptFaults
  <1>2. ThisType' /\ HandType' /\ PassType' /\ NodeType' /\ FdType' /\ NetType' /\ ViewType'
    BY DEF MainPromptFaults, ThisType, HandType, PassType, NodeType, FdType, NetType, ViewType
  <1> QED
    BY <1>1, <1>2

LEMMA MainLineType ==
  ASSUME TypeOK, MainLine, hand # NoClient
  PROVE  TypeOK'
  <1> USE DEF TypeOK
  <1>1. hand \in Clients /\ inbox[hand] \in Seq(Lines) /\ inbox[hand] # <<>>
    BY DEF HandType, NetType, MainLine
  <1>2. CtlType'
    BY DEF MainLine, CtlType, MainLabels, ServeLabels, DownLabels
  <1>3. HandType'
    <2>1. line' \in Lines
      BY <1>1, TailType DEF MainLine
    <2> QED
      BY <2>1 DEF MainLine, HandType
  <1>4. NetType'
    <2>1. inbox' \in [Clients -> Seq(Lines)]
      BY <1>1, InboxType DEF MainLine, NetType
    <2> QED
      BY <2>1 DEF MainLine, NetType
  <1>5. ProcType'
    BY DEF MainLine, ProcType
  <1>6. ThisType' /\ PassType' /\ NodeType' /\ FdType' /\ ViewType'
    BY DEF MainLine, ThisType, PassType, NodeType, FdType, ViewType
  <1> QED
    BY <1>2, <1>3, <1>4, <1>5, <1>6

LEMMA MainLeftType ==
  ASSUME TypeOK, MainLeft
  PROVE  TypeOK'
  <1> USE DEF TypeOK
  <1>1. CtlType'
    BY DEF MainLeft, CtlType, MainLabels, ServeLabels, DownLabels
  <1>2. ProcType' /\ ThisType' /\ HandType' /\ PassType' /\ NodeType' /\ FdType' /\ NetType' /\ ViewType'
    BY DEF MainLeft, ProcType, ThisType, HandType, PassType, NodeType, FdType, NetType, ViewType
  <1> QED
    BY <1>1, <1>2

\* Once the line is taken apart strtok and the line are forgotten.
LEMMA ParsedType ==
  ASSUME Parsed, UNCHANGED <<hand, handFd>>, HandType
  PROVE  HandType' /\ tok' = "none"
  BY DEF Parsed, HandType

LEMMA MainAdmitType ==
  ASSUME TypeOK, MainAdmit
  PROVE  TypeOK'
  <1> USE DEF TypeOK
  <1>1. CtlType'
    BY DEF MainAdmit, CtlType, MainLabels, ServeLabels, DownLabels
  <1>2. NodeType'
    BY DEF MainAdmit, NodeType, HandType
  <1>3. HandType' /\ ProcType'
    BY ParsedType DEF MainAdmit, ProcType
  <1>4. ViewType'
    BY DEF MainAdmit, Tell, ViewType
  <1>5. ThisType' /\ PassType' /\ FdType' /\ NetType'
    BY DEF MainAdmit, ThisType, PassType, FdType, NetType
  <1> QED
    BY <1>1, <1>2, <1>3, <1>4, <1>5

LEMMA MainRejectType ==
  ASSUME TypeOK, MainReject
  PROVE  TypeOK'
  <1> USE DEF TypeOK
  <1>1. CtlType'
    BY DEF MainReject, CtlType, MainLabels, ServeLabels, DownLabels
  <1>2. HandType' /\ ProcType'
    BY ParsedType DEF MainReject, ProcType
  <1>3. ThisType' /\ PassType' /\ NodeType' /\ FdType' /\ NetType' /\ ViewType'
    BY DEF MainReject, ThisType, PassType, NodeType, FdType, NetType, ViewType
  <1> QED
    BY <1>1, <1>2, <1>3

LEMMA MainCredFaultsType ==
  ASSUME TypeOK, MainCredFaults
  PROVE  TypeOK'
  <1> USE DEF TypeOK
  <1>1. HandType' /\ tok' = "none"
    BY ParsedType DEF MainCredFaults
  <1>2. ProcType' /\ CtlType'
    BY <1>1, TrapType DEF MainCredFaults
  <1>3. ThisType' /\ PassType' /\ NodeType' /\ FdType' /\ NetType' /\ ViewType'
    BY DEF MainCredFaults, ThisType, PassType, NodeType, FdType, NetType, ViewType
  <1> QED
    BY <1>1, <1>2, <1>3

LEMMA MainKickType ==
  ASSUME TypeOK, MainKick
  PROVE  TypeOK'
  <1> USE DEF TypeOK
  <1>1. CtlType'
    BY DEF MainKick, CtlType, MainLabels, ServeLabels, DownLabels
  <1>2. FdType' /\ HandType'
    BY DEF MainKick, Closing, FdType, HandType, Owners
  <1>3. ViewType'
    BY DEF MainKick, Tell, ViewType
  <1>4. ProcType' /\ ThisType' /\ PassType' /\ NodeType' /\ NetType'
    BY DEF MainKick, ProcType, ThisType, PassType, NodeType, NetType
  <1> QED
    BY <1>1, <1>2, <1>3, <1>4

LEMMA MainInsertType ==
  ASSUME TypeOK, MainInsert, hand # NoClient
  PROVE  TypeOK'
  <1> USE DEF TypeOK
  <1>1. CtlType'
    BY DEF MainInsert, CtlType, MainLabels, ServeLabels, DownLabels
  <1>2. ThisType'
    BY DEF MainInsert, ThisType, HandType
  <1>3. ProcType' /\ HandType' /\ PassType' /\ NodeType' /\ FdType' /\ NetType' /\ ViewType'
    BY DEF MainInsert, ProcType, HandType, PassType, NodeType, FdType, NetType, ViewType
  <1> QED
    BY <1>1, <1>2, <1>3

LEMMA MainCountType ==
  ASSUME TypeOK, MainCount
  PROVE  TypeOK'
  <1> USE DEF TypeOK
  <1>1. CtlType'
    BY DEF MainCount, CtlType, MainLabels, ServeLabels, DownLabels
  <1>2. ThisType'
    BY DEF MainCount, ThisType
  <1>3. ProcType' /\ HandType' /\ PassType' /\ NodeType' /\ FdType' /\ NetType' /\ ViewType'
    BY DEF MainCount, ProcType, HandType, PassType, NodeType, FdType, NetType, ViewType
  <1> QED
    BY <1>1, <1>2, <1>3

LEMMA MainSetRunType ==
  ASSUME TypeOK, MainSetRun
  PROVE  TypeOK'
  <1> USE DEF TypeOK
  <1>1. CtlType'
    BY DEF MainSetRun, CtlType, MainLabels, ServeLabels, DownLabels
  <1>2. ThisType' /\ HandType'
    BY DEF MainSetRun, ThisType, HandType
  <1>3. ProcType' /\ PassType' /\ NodeType' /\ FdType' /\ NetType' /\ ViewType'
    BY DEF MainSetRun, ProcType, PassType, NodeType, FdType, NetType, ViewType
  <1> QED
    BY <1>1, <1>2, <1>3

LEMMA DownBeginType ==
  ASSUME TypeOK, NEW t \in Threads, DownBegin(t)
  PROVE  TypeOK'
  <1> USE DEF TypeOK
  <1>1. CtlType'
    BY DEF DownBegin, CtlType, ThisType, MainLabels, ServeLabels, DownLabels
  <1>2. ThisType'
    BY DEF DownBegin, ThisType
  <1>3. ProcType' /\ HandType' /\ PassType' /\ NodeType' /\ FdType' /\ NetType' /\ ViewType'
    BY DEF DownBegin, ProcType, HandType, PassType, NodeType, FdType, NetType, ViewType
  <1> QED
    BY <1>1, <1>2, <1>3

LEMMA DownCloseType ==
  ASSUME TypeOK, NEW t \in Threads, DownClose(t)
  PROVE  TypeOK'
  <1> USE DEF TypeOK
  <1>1. CtlType'
    BY DEF DownClose, CtlType
  <1>2. NodeType' /\ FdType'
    <2>1. Head(iter[t]) \in Clients
      BY DEF DownClose, CtlType
    <2> QED
      BY <2>1, ReleaseType DEF DownClose
  <1>3. ProcType' /\ ThisType' /\ HandType' /\ PassType' /\ NetType' /\ ViewType'
    BY DEF DownClose, ProcType, ThisType, HandType, PassType, NetType, ViewType
  <1> QED
    BY <1>1, <1>2, <1>3

LEMMA DownClosedType ==
  ASSUME TypeOK, NEW t \in Threads, DownClosed(t)
  PROVE  TypeOK'
  <1> USE DEF TypeOK
  <1>1. CtlType'
    BY DEF DownClosed, CtlType, ThisType, MainLabels, ServeLabels, DownLabels
  <1>2. ProcType' /\ ThisType' /\ HandType' /\ PassType' /\ NodeType' /\ FdType' /\ NetType' /\ ViewType'
    BY DEF DownClosed, ProcType, ThisType, HandType, PassType, NodeType, FdType, NetType, ViewType
  <1> QED
    BY <1>1, <1>2

LEMMA DownFreeType ==
  ASSUME TypeOK, NEW t \in Threads, DownFree(t)
  PROVE  TypeOK'
  <1> USE DEF TypeOK
  <1>1. CtlType'
    BY DEF DownFree, CtlType, MainLabels, ServeLabels, DownLabels
  <1>2. NodeType'
    <2>1. ToSet(iter[t]) \subseteq Clients
      BY ToSetType DEF CtlType
    <2> QED
      BY <2>1 DEF DownFree, NodeType
  <1>3. ProcType' /\ ThisType' /\ HandType' /\ PassType' /\ FdType' /\ NetType' /\ ViewType'
    BY DEF DownFree, ProcType, ThisType, HandType, PassType, FdType, NetType, ViewType
  <1> QED
    BY <1>1, <1>2, <1>3

LEMMA DownUnlistenType ==
  ASSUME TypeOK, NEW t \in Threads, DownUnlisten(t)
  PROVE  TypeOK'
  <1> USE DEF TypeOK
  <1>1. CtlType'
    BY DEF DownUnlisten, CtlType, MainLabels, ServeLabels, DownLabels
  <1>2. FdType'
    BY DEF DownUnlisten, Closing, FdType, ThisType, Owners
  <1>3. NetType'
    <2>1. CASE UNCHANGED <<backlog, net>>
      BY <2>1 DEF DownUnlisten, NetType
    <2>2. CASE /\ listening' = "no" /\ backlog' = <<>>
               /\ net' = [c \in Clients |-> IF c \in ToSet(backlog) THEN "gone" ELSE net[c]]
      BY <2>2 DEF DownUnlisten, NetType
    <2> QED
      BY <2>1, <2>2 DEF DownUnlisten
  <1>4. ProcType' /\ ThisType' /\ HandType' /\ PassType' /\ NodeType' /\ ViewType'
    BY DEF DownUnlisten, ProcType, ThisType, HandType, PassType, NodeType, ViewType
  <1> QED
    BY <1>1, <1>2, <1>3, <1>4

LEMMA DownJoinType ==
  ASSUME TypeOK, NEW t \in Threads, DownJoin(t)
  PROVE  TypeOK'
  <1> USE DEF TypeOK
  <1>1. CtlType'
    BY DEF DownJoin, CtlType, MainLabels, ServeLabels, DownLabels
  <1>2. ProcType' /\ ThisType' /\ HandType' /\ PassType' /\ NodeType' /\ FdType' /\ NetType' /\ ViewType'
    BY DEF DownJoin, ProcType, ThisType, HandType, PassType, NodeType, FdType, NetType, ViewType
  <1> QED
    BY <1>1, <1>2

LEMMA DownJoinedType ==
  ASSUME TypeOK, NEW t \in Threads, DownJoined(t)
  PROVE  TypeOK'
  <1> USE DEF TypeOK
  <1>1. CtlType'
    BY DEF DownJoined, CtlType, MainLabels, ServeLabels, DownLabels
  <1>2. ProcType' /\ ThisType' /\ HandType' /\ PassType' /\ NodeType' /\ FdType' /\ NetType' /\ ViewType'
    BY DEF DownJoined, ProcType, ThisType, HandType, PassType, NodeType, FdType, NetType, ViewType
  <1> QED
    BY <1>1, <1>2

LEMMA DownJoinFaultsType ==
  ASSUME TypeOK, NEW t \in Threads, DownJoinFaults(t)
  PROVE  TypeOK'
  <1> USE DEF TypeOK
  <1>1. ProcType' /\ CtlType'
    BY TrapType DEF DownJoinFaults
  <1>2. ThisType' /\ HandType' /\ PassType' /\ NodeType' /\ FdType' /\ NetType' /\ ViewType'
    BY DEF DownJoinFaults, ThisType, HandType, PassType, NodeType, FdType, NetType, ViewType
  <1> QED
    BY <1>1, <1>2

LEMMA HandlerResetType ==
  ASSUME TypeOK, NEW t \in Threads, HandlerReset(t)
  PROVE  TypeOK'
  <1> USE DEF TypeOK
  <1>1. CtlType'
    BY DEF HandlerReset, CtlType, MainLabels, ServeLabels, DownLabels
  <1>2. ThisType'
    <2>1. lfd' \in Fds
      BY FdZero DEF HandlerReset
    <2>2. ready' \in BOOLEAN
      BY DEF HandlerReset
    <2>3. list' \in Seq(Clients) /\ count' \in Nat
      BY DEF HandlerReset
    <2> QED
      BY <2>1, <2>2, <2>3 DEF HandlerReset, ThisType
  <1>3. ProcType' /\ HandType' /\ PassType' /\ NodeType' /\ FdType' /\ NetType' /\ ViewType'
    BY DEF HandlerReset, ProcType, HandType, PassType, NodeType, FdType, NetType, ViewType
  <1> QED
    BY <1>1, <1>2, <1>3

LEMMA HandlerResumeType ==
  ASSUME TypeOK, NEW t \in Threads, HandlerResume(t)
  PROVE  TypeOK'
  <1> USE DEF TypeOK
  <1>1. CtlType'
    BY DEF HandlerResume, CtlType, MainLabels, ServeLabels, DownLabels
  <1>2. ProcType'
    BY DEF HandlerResume, ProcType
  <1>3. ThisType' /\ HandType' /\ PassType' /\ NodeType' /\ FdType' /\ NetType' /\ ViewType'
    BY DEF HandlerResume, ThisType, HandType, PassType, NodeType, FdType, NetType, ViewType
  <1> QED
    BY <1>1, <1>2, <1>3

LEMMA UndefinedType ==
  ASSUME TypeOK, NEW t \in Threads, Undefined(t)
  PROVE  TypeOK'
  <1> USE DEF TypeOK
  <1>1. ProcType' /\ CtlType'
    <2>1. CASE Trap(t)
      BY <2>1, TrapType DEF Undefined
    <2>2. CASE Die /\ UNCHANGED <<trapped, masked, inHandler, ctlVars>>
      BY <2>2 DEF Undefined, ProcType, CtlType
    <2> QED
      BY <2>1, <2>2 DEF Undefined
  <1>2. ThisType' /\ HandType' /\ PassType' /\ NodeType' /\ FdType' /\ NetType' /\ ViewType'
    BY DEF Undefined, ThisType, HandType, PassType, NodeType, FdType, NetType, ViewType
  <1> QED
    BY <1>1, <1>2

LEMMA ServeWakeType ==
  ASSUME TypeOK, ServeWake
  PROVE  TypeOK'
  <1> USE DEF TypeOK
  <1>1. CtlType'
    BY DEF ServeWake, CtlType, MainLabels, ServeLabels, DownLabels
  <1>2. ProcType' /\ ThisType' /\ HandType' /\ PassType' /\ NodeType' /\ FdType' /\ NetType' /\ ViewType'
    BY DEF ServeWake, ProcType, ThisType, HandType, PassType, NodeType, FdType, NetType, ViewType
  <1> QED
    BY <1>1, <1>2

LEMMA ServePassType ==
  ASSUME TypeOK, ServePass
  PROVE  TypeOK'
  <1> USE DEF TypeOK
  <1>1. CtlType'
    BY DEF ServePass, CtlType, MainLabels, ServeLabels, DownLabels
  <1>2. PassType'
    <2>1. ToSet(list) \subseteq Clients
      BY ToSetType DEF ThisType
    <2> QED
      BY <2>1 DEF ServePass, PassType, ThisType
  <1>3. ProcType' /\ ThisType' /\ HandType' /\ NodeType' /\ FdType' /\ NetType' /\ ViewType'
    BY DEF ServePass, ProcType, ThisType, HandType, NodeType, FdType, NetType, ViewType
  <1> QED
    BY <1>1, <1>2, <1>3

LEMMA ServeTestType ==
  ASSUME TypeOK, ServeTest
  PROVE  TypeOK'
  <1> USE DEF TypeOK
  <1>1. CtlType'
    BY DEF ServeTest, CtlType, MainLabels, ServeLabels, DownLabels
  <1>2. ProcType' /\ ThisType' /\ HandType' /\ PassType' /\ NodeType' /\ FdType' /\ NetType' /\ ViewType'
    BY DEF ServeTest, ProcType, ThisType, HandType, PassType, NodeType, FdType, NetType, ViewType
  <1> QED
    BY <1>1, <1>2

LEMMA ServePollType ==
  ASSUME TypeOK, ServePoll
  PROVE  TypeOK'
  <1> USE DEF TypeOK
  <1>1. CtlType'
    BY DEF ServePoll, CtlType, MainLabels, ServeLabels, DownLabels
  <1>2. PassType'
    BY DEF ServePoll, PassType
  <1>3. ProcType' /\ ThisType' /\ HandType' /\ NodeType' /\ FdType' /\ NetType' /\ ViewType'
    BY DEF ServePoll, ProcType, ThisType, HandType, NodeType, FdType, NetType, ViewType
  <1> QED
    BY <1>1, <1>2, <1>3

LEMMA ServeReadType ==
  ASSUME TypeOK, ServeRead, node # <<>>
  PROVE  TypeOK'
  <1> USE DEF TypeOK
  <1>1. CtlType'
    BY DEF ServeRead, CtlType, MainLabels, ServeLabels, DownLabels
  <1>2. PassType'
    <2>1. Current \in Clients
      BY DEF Current, PassType
    <2>2. Head(inbox[Current]) \in Lines
      BY <2>1, TailType DEF ServeRead, NetType
    <2> QED
      BY <2>2 DEF ServeRead, PassType
  <1>3. NetType'
    <2>1. inbox' \in [Clients -> Seq(Lines)]
      BY InboxType DEF ServeRead, NetType
    <2> QED
      BY <2>1 DEF ServeRead, NetType
  <1>4. ProcType' /\ ThisType' /\ HandType' /\ NodeType' /\ FdType' /\ ViewType'
    BY DEF ServeRead, ProcType, ThisType, HandType, NodeType, FdType, ViewType
  <1> QED
    BY <1>1, <1>2, <1>3, <1>4

LEMMA ServeTimeoutType ==
  ASSUME TypeOK, ServeTimeout
  PROVE  TypeOK'
  <1> USE DEF TypeOK
  <1>1. CtlType'
    BY DEF ServeTimeout, CtlType, MainLabels, ServeLabels, DownLabels
  <1>2. ProcType' /\ ThisType' /\ HandType'
    BY DEF ServeTimeout, ProcType, ThisType, HandType
  <1>3. PassType' /\ NodeType' /\ FdType' /\ NetType' /\ ViewType'
    BY DEF ServeTimeout, PassType, NodeType, FdType, NetType, ViewType
  <1> QED
    BY <1>1, <1>2, <1>3

LEMMA ServeEofType ==
  ASSUME TypeOK, ServeEof
  PROVE  TypeOK'
  <1> USE DEF TypeOK
  <1>1. CtlType'
    BY DEF ServeEof, CtlType, MainLabels, ServeLabels, DownLabels
  <1>2. NodeType'
    BY DEF ServeEof, NodeType
  <1>3. ProcType' /\ ThisType' /\ HandType' /\ PassType' /\ FdType' /\ NetType' /\ ViewType'
    BY DEF ServeEof, ProcType, ThisType, HandType, PassType, FdType, NetType, ViewType
  <1> QED
    BY <1>1, <1>2, <1>3

LEMMA ServePlainType ==
  ASSUME TypeOK, ServePlain
  PROVE  TypeOK'
  <1> USE DEF TypeOK
  <1>1. CtlType'
    BY DEF ServePlain, Handled, CtlType, MainLabels, ServeLabels, DownLabels
  <1>2. PassType'
    BY DEF ServePlain, Handled, PassType
  <1>3. ProcType' /\ ThisType' /\ HandType' /\ NodeType' /\ FdType' /\ NetType' /\ ViewType'
    BY DEF ServePlain, Handled, ProcType, ThisType, HandType, NodeType, FdType, NetType, ViewType
  <1> QED
    BY <1>1, <1>2, <1>3

LEMMA ServeHogType ==
  ASSUME TypeOK, ServeHog
  PROVE  TypeOK'
  <1> USE DEF TypeOK
  <1>1. CtlType'
    BY DEF ServeHog, Handled, CtlType, MainLabels, ServeLabels, DownLabels
  <1>2. PassType'
    BY DEF ServeHog, Handled, PassType
  <1>3. ProcType' /\ ThisType' /\ HandType' /\ NodeType' /\ FdType' /\ NetType' /\ ViewType'
    BY DEF ServeHog, Handled, ProcType, ThisType, HandType, NodeType, FdType, NetType, ViewType
  <1> QED
    BY <1>1, <1>2, <1>3

LEMMA ServeByeType ==
  ASSUME TypeOK, ServeBye, node # <<>>
  PROVE  TypeOK'
  <1> USE DEF TypeOK
  <1>1. CtlType'
    BY DEF ServeBye, CtlType, MainLabels, ServeLabels, DownLabels
  <1>2. PassType'
    BY DEF ServeBye, PassType
  <1>3. NodeType' /\ FdType'
    <2>1. Current \in Clients
      BY DEF Current, PassType
    <2> QED
      BY <2>1, ReleaseType DEF ServeBye
  <1>4. ProcType' /\ ThisType' /\ HandType' /\ NetType' /\ ViewType'
    BY DEF ServeBye, ProcType, ThisType, HandType, NetType, ViewType
  <1> QED
    BY <1>1, <1>2, <1>3, <1>4

LEMMA ServePeersType ==
  ASSUME TypeOK, ServePeers
  PROVE  TypeOK'
  <1> USE DEF TypeOK
  <1>1. CtlType'
    BY DEF ServePeers, Handled, CtlType, MainLabels, ServeLabels, DownLabels
  <1>2. PassType'
    BY DEF ServePeers, Handled, PassType
  <1>3. ViewType'
    <2>1. ToSet(list) \subseteq Clients
      BY ToSetType DEF ThisType
    <2> QED
      BY <2>1 DEF ServePeers, Handled, ViewType
  <1>4. ProcType' /\ ThisType' /\ HandType' /\ NodeType' /\ FdType' /\ NetType'
    BY DEF ServePeers, Handled, ProcType, ThisType, HandType, NodeType, FdType, NetType
  <1> QED
    BY <1>1, <1>2, <1>3, <1>4

LEMMA ServeShutdownType ==
  ASSUME TypeOK, ServeShutdown
  PROVE  TypeOK'
  <1> USE DEF TypeOK
  <1>1. CtlType'
    BY DEF ServeShutdown, Handled, CtlType, MainLabels, ServeLabels, DownLabels
  <1>2. ThisType' /\ PassType' /\ FdType'
    BY DEF ServeShutdown, Handled, Closing, ThisType, PassType, FdType, Owners
  <1>3. ProcType' /\ HandType' /\ NodeType' /\ NetType' /\ ViewType'
    BY DEF ServeShutdown, Handled, ProcType, HandType, NodeType, NetType, ViewType
  <1> QED
    BY <1>1, <1>2, <1>3

LEMMA ServeShutdownFaultsType ==
  ASSUME TypeOK, ServeShutdownFaults
  PROVE  TypeOK'
  <1> USE DEF TypeOK
  <1>1. ProcType' /\ CtlType'
    BY TrapType DEF ServeShutdownFaults
  <1>2. ThisType' /\ HandType' /\ PassType' /\ NodeType' /\ FdType' /\ NetType' /\ ViewType'
    BY DEF ServeShutdownFaults, ThisType, HandType, PassType, NodeType, FdType, NetType, ViewType
  <1> QED
    BY <1>1, <1>2

LEMMA ServeCmdFaultsType ==
  ASSUME TypeOK, ServeCmdFaults
  PROVE  TypeOK'
  <1> USE DEF TypeOK
  <1>1. ProcType' /\ CtlType'
    BY TrapType DEF ServeCmdFaults
  <1>2. ThisType' /\ HandType' /\ PassType' /\ NodeType' /\ FdType' /\ NetType' /\ ViewType'
    BY DEF ServeCmdFaults, ThisType, HandType, PassType, NodeType, FdType, NetType, ViewType
  <1> QED
    BY <1>1, <1>2

LEMMA ServeNextType ==
  ASSUME TypeOK, ServeNext, node # <<>>
  PROVE  TypeOK'
  <1> USE DEF TypeOK
  <1>1. CtlType'
    BY DEF ServeNext, CtlType, MainLabels, ServeLabels, DownLabels
  <1>2. PassType'
    BY DEF ServeNext, PassType
  <1>3. ProcType' /\ ThisType' /\ HandType' /\ NodeType' /\ FdType' /\ NetType' /\ ViewType'
    BY DEF ServeNext, ProcType, ThisType, HandType, NodeType, FdType, NetType, ViewType
  <1> QED
    BY <1>1, <1>2, <1>3

LEMMA ServePassEndType ==
  ASSUME TypeOK, ServePassEnd
  PROVE  TypeOK'
  <1> USE DEF TypeOK
  <1>1. CtlType'
    BY DEF ServePassEnd, CtlType, MainLabels, ServeLabels, DownLabels
  <1>2. ProcType' /\ ThisType' /\ HandType' /\ PassType' /\ NodeType' /\ FdType' /\ NetType' /\ ViewType'
    BY DEF ServePassEnd, ProcType, ThisType, HandType, PassType, NodeType, FdType, NetType, ViewType
  <1> QED
    BY <1>1, <1>2

LEMMA ConnectType ==
  ASSUME TypeOK, NEW c \in Clients, Connect(c)
  PROVE  TypeOK'
  <1> USE DEF TypeOK
  <1>1. NetType'
    BY DEF Connect, NetType
  <1>2. ProcType' /\ ThisType' /\ CtlType' /\ HandType' /\ PassType' /\ NodeType' /\ FdType' /\ ViewType'
    BY DEF Connect, ProcType, ThisType, CtlType, HandType, PassType, NodeType, FdType, ViewType
  <1> QED
    BY <1>1, <1>2

LEMMA SendType ==
  ASSUME TypeOK, NEW c \in Clients, Send(c)
  PROVE  TypeOK'
  <1> USE DEF TypeOK
  <1>1. NetType'
    <2>1. PICK l \in Creds \cup Cmds : inbox' = [inbox EXCEPT ![c] = Append(@, l)]
      BY DEF Send
    <2>2. Append(inbox[c], l) \in Seq(Lines)
      BY DEF NetType, Lines
    <2> QED
      BY <2>1, <2>2 DEF Send, NetType
  <1>2. ProcType' /\ ThisType' /\ CtlType' /\ HandType' /\ PassType' /\ NodeType' /\ FdType' /\ ViewType'
    BY DEF Send, ProcType, ThisType, CtlType, HandType, PassType, NodeType, FdType, ViewType
  <1> QED
    BY <1>1, <1>2

LEMMA HangupType ==
  ASSUME TypeOK, NEW c \in Clients, Hangup(c)
  PROVE  TypeOK'
  <1> USE DEF TypeOK
  <1>1. NetType'
    BY DEF Hangup, NetType
  <1>2. ProcType' /\ ThisType' /\ CtlType' /\ HandType' /\ PassType' /\ NodeType' /\ FdType' /\ ViewType'
    BY DEF Hangup, ProcType, ThisType, CtlType, HandType, PassType, NodeType, FdType, ViewType
  <1> QED
    BY <1>1, <1>2

-----------------------------------------------------------------------------
(* The theorem about types *)

\* Steps that leave the variables of TypeOK alone keep it.
LEMMA StutterType ==
  ASSUME TypeOK, UNCHANGED vars
  PROVE  TypeOK'
  <1> USE DEF TypeOK, vars
  <1>1. ProcType' /\ ThisType' /\ CtlType' /\ HandType' /\ PassType'
    BY DEF ProcType, ThisType, CtlType, HandType, PassType
  <1>2. NodeType' /\ FdType' /\ NetType' /\ ViewType'
    BY DEF NodeType, FdType, NetType, ViewType
  <1> QED
    BY <1>1, <1>2

LEMMA TypeStep ==
  ASSUME TypeOK, Placed, [Next]_vars
  PROVE  TypeOK'
  <1>1. ASSUME NEW t \in Threads, Down(t) PROVE TypeOK'
    BY <1>1, DownBeginType, DownCloseType, DownClosedType, DownFreeType,
       DownUnlistenType, DownJoinType, DownJoinedType, DownJoinFaultsType,
       HandlerResetType, HandlerResumeType, UndefinedType
       DEF Down
  <1>2. CASE Main
    <2>1. CASE MainInsert
      BY <2>1, MainInsertType DEF MainInsert, Placed
    <2>2. CASE MainLine
      BY <2>2, MainLineType DEF MainLine, Placed
    <2>3. CASE ~MainInsert /\ ~MainLine
      BY <1>1, <1>2, <2>3, MainBootType, MainListenType, MainBindFailsType, MainRunType,
         MainLoopType, MainAcceptType, MainAcceptFailsType, MainCheckType,
         MainPromptType, MainPromptFaultsType, MainLeftType, MainAdmitType, MainRejectType,
         MainCredFaultsType, MainKickType, MainCountType, MainSetRunType
         DEF Main
    <2> QED
      BY <2>1, <2>2, <2>3
  <1>3. CASE Serve
    <2>1. node # <<>> \/ ~(ServeRead \/ ServeBye \/ ServeNext)
      BY DEF Placed, ServeRead, ServeBye, ServeNext
    <2> QED
      BY <1>1, <1>3, <2>1, ServeWakeType, ServePassType, ServeTestType, ServePollType,
         ServeReadType, ServeTimeoutType, ServeEofType, ServePlainType, ServeHogType, ServeByeType,
         ServePeersType, ServeShutdownType, ServeShutdownFaultsType, ServeCmdFaultsType,
         ServeNextType, ServePassEndType
         DEF Serve
  <1>4. CASE Environment
    BY <1>4, ConnectType, SendType, HangupType DEF Environment
  <1> QED
    BY <1>2, <1>3, <1>4, StutterType DEF Next

\* Raising SIGSEGV moves one thread into the handler, or ends the process.
LEMMA TrapPlaced ==
  ASSUME CtlType, Placed, NEW t \in Threads, Trap(t),
         UNCHANGED <<hand, handFd, node>>
  PROVE  Placed'
  BY DEF Trap, Placed, CtlType

LEMMA PlacedStep ==
  ASSUME TypeOK, Placed, [Next]_vars
  PROVE  Placed'
  <1> USE DEF TypeOK
  <1>1. ASSUME NEW t \in Threads, Down(t) PROVE Placed'
    <2>1. CASE DownBegin(t)
      BY <2>1 DEF DownBegin, Placed, CtlType
    <2>2. CASE DownClose(t)
      BY <2>2 DEF DownClose, Placed, CtlType, Release
    <2>3. CASE DownClosed(t)
      BY <2>3 DEF DownClosed, Placed, CtlType
    <2>4. CASE DownFree(t)
      BY <2>4 DEF DownFree, Placed, CtlType
    <2>5. CASE DownUnlisten(t)
      BY <2>5 DEF DownUnlisten, Placed, CtlType
    <2>6. CASE DownJoin(t)
      BY <2>6 DEF DownJoin, Placed, CtlType
    <2>7. CASE DownJoined(t)
      BY <2>7 DEF DownJoined, Placed, CtlType
    <2>8. CASE DownJoinFaults(t)
      BY <2>8, TrapPlaced DEF DownJoinFaults
    <2>9. CASE HandlerReset(t)
      BY <2>9 DEF HandlerReset, Placed, CtlType
    <2>10. CASE HandlerResume(t)
      BY <2>10 DEF HandlerResume, Placed, CtlType
    <2>11. CASE Undefined(t)
      BY <2>11, TrapPlaced DEF Undefined, Placed
    <2> QED
      BY <1>1, <2>1, <2>2, <2>3, <2>4, <2>5, <2>6, <2>7, <2>8, <2>9, <2>10, <2>11 DEF Down
  <1>2. CASE Main
    <2>1. CASE MainBoot
      BY <2>1 DEF MainBoot, Placed, CtlType
    <2>2. CASE MainListen
      BY <2>2 DEF MainListen, Placed, CtlType
    <2>3. CASE MainBindFails
      BY <2>3 DEF MainBindFails, Placed, CtlType
    <2>4. CASE MainRun
      BY <2>4 DEF MainRun, Placed, CtlType
    <2>5. CASE MainLoop
      BY <2>5 DEF MainLoop, Placed, CtlType
    <2>6. CASE MainAccept
      <3>1. hand' \in Clients /\ pc'["main"] = "check" /\ pc'["serve"] = pc["serve"] /\ UNCHANGED node
        BY <2>6, TailType DEF MainAccept, NetType, CtlType
      <3> QED
        BY <3>1, ClientsAssumption DEF Placed
    <2>7. CASE MainAcceptFails
      BY <2>7 DEF MainAcceptFails, Placed, CtlType, HandType
    <2>8. CASE MainCheck
      BY <2>8 DEF MainCheck, Placed, CtlType
    <2>9. CASE MainPrompt
      BY <2>9 DEF MainPrompt, Placed, CtlType
    <2>10. CASE MainPromptFaults
      BY <2>10, TrapPlaced DEF MainPromptFaults
    <2>11. CASE MainAdmit
      BY <2>11 DEF MainAdmit, Placed, CtlType
    <2>12. CASE MainReject
      BY <2>12 DEF MainReject, Placed, CtlType
    <2>13. CASE MainCredFaults
      BY <2>13, TrapPlaced DEF MainCredFaults
    <2>14. CASE MainKick
      BY <2>14 DEF MainKick, Placed, CtlType, HandType
    <2>15. CASE MainInsert
      BY <2>15 DEF MainInsert, Placed, CtlType
    <2>16. CASE MainCount
      BY <2>16 DEF MainCount, Placed, CtlType
    <2>17. CASE MainSetRun
      BY <2>17 DEF MainSetRun, Placed, CtlType, HandType
    <2>18. CASE MainLine
      BY <2>18 DEF MainLine, Placed, CtlType
    <2>19. CASE MainLeft
      BY <2>19 DEF MainLeft, Placed, CtlType
    <2> QED
      BY <1>1, <1>2, <2>1, <2>2, <2>3, <2>4, <2>5, <2>6, <2>7, <2>8, <2>9, <2>10, <2>11,
         <2>12, <2>13, <2>14, <2>15, <2>16, <2>17, <2>18, <2>19 DEF Main
  <1>3. CASE Serve
    <2>1. CASE ServeWake
      BY <2>1 DEF ServeWake, Placed, CtlType
    <2>2. CASE ServePass
      BY <2>2 DEF ServePass, Placed, CtlType
    <2>3. CASE ServeTest
      BY <2>3 DEF ServeTest, Placed, CtlType, GoesOn
    <2>4. CASE ServePoll
      BY <2>4 DEF ServePoll, Placed, CtlType
    <2>5. CASE ServeRead
      BY <2>5 DEF ServeRead, Placed, CtlType
    <2>6. CASE ServeTimeout
      BY <2>6 DEF ServeTimeout, Placed, CtlType
    <2>7. CASE ServeEof
      BY <2>7 DEF ServeEof, Placed, CtlType
    <2>8. CASE ServePlain
      BY <2>8 DEF ServePlain, Placed, CtlType
    <2>9. CASE ServeBye
      BY <2>9 DEF ServeBye, Placed, CtlType, Release
    <2>10. CASE ServePeers
      BY <2>10 DEF ServePeers, Placed, CtlType
    <2>11. CASE ServeShutdown
      BY <2>11 DEF ServeShutdown, Placed, CtlType
    <2>12. CASE ServeShutdownFaults
      BY <2>12, TrapPlaced DEF ServeShutdownFaults
    <2>13. CASE ServeCmdFaults
      BY <2>13, TrapPlaced DEF ServeCmdFaults
    <2>14. CASE ServeNext
      BY <2>14 DEF ServeNext, Placed, CtlType, PassType
    <2>15. CASE ServePassEnd
      BY <2>15 DEF ServePassEnd, Placed, CtlType
    <2>16. CASE ServeHog
      BY <2>16 DEF ServeHog, Placed, CtlType
    <2> QED
      BY <1>1, <1>3, <2>1, <2>2, <2>3, <2>4, <2>5, <2>6, <2>7, <2>8, <2>9, <2>10, <2>11,
         <2>12, <2>13, <2>14, <2>15, <2>16 DEF Serve
  <1>4. CASE Environment
    BY <1>4 DEF Environment, Connect, Send, Hangup, Placed
  <1>5. CASE UNCHANGED vars
    BY <1>5 DEF vars, Placed
  <1> QED
    BY <1>2, <1>3, <1>4, <1>5 DEF Next

LEMMA TypeAndPlace == Spec => [](TypeOK /\ Placed)
  <1>1. Init => TypeOK /\ Placed
    BY InitType DEF Init, Placed
  <1>2. TypeOK /\ Placed /\ [Next]_vars => (TypeOK /\ Placed)'
    BY TypeStep, PlacedStep
  <1> QED
    BY <1>1, <1>2, PTL DEF Spec

\* The variables keep their types whatever the clients send, whichever thread
\* faults and wherever the handler resumes.
THEOREM TypeCorrect == Spec => []TypeOK
  BY TypeAndPlace, PTL

===============================================================================
