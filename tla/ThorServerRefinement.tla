------------------------- MODULE ThorServerRefinement -------------------------
(***************************************************************************)
(* Theorems about the session core as a whole: it takes the client list    *)
(* for the sequence ThorList, and it never runs two serving threads.       *)
(***************************************************************************)
EXTENDS ThorServerInvariance

USE DEF At, Goto, Die, Threads, runVars, procVars, thisVars, ctlVars, handVars, passVars,
        nodeVars, netVars, viewVars, Current

-----------------------------------------------------------------------------
(* The list *)

\* Most steps leave the list and the walks over it alone.
LEMMA Still ==
  ASSUME UNCHANGED <<list, node, iter, freed>>
  PROVE  UNCHANGED L!vars
  BY DEF L!vars, Cursor

LEMMA TrapStill ==
  ASSUME NEW t \in Threads, Trap(t)
  PROVE  UNCHANGED iter
  BY DEF Trap

\* The walks are typed, so a walk that met a freed cell is one of them.
LEMMA CursorType ==
  ASSUME TypeOK
  PROVE  Cursor \in [Threads \cup {"pass"} -> Seq(Clients)]
  BY DEF TypeOK, CtlType, PassType, Cursor

LEMMA CursorNextType ==
  ASSUME TypeOK'
  PROVE  Cursor' \in [Threads \cup {"pass"} -> Seq(Clients)]
  BY DEF TypeOK, CtlType, PassType, Cursor

LEMMA DownList ==
  ASSUME TypeOK, TypeOK', NEW t \in Threads, Down(t)
  PROVE  [L!Next]_(L!vars)
  <1>0. /\ iter \in [Threads -> Seq(Clients)] /\ t # "pass" /\ t \in Threads
    BY DEF TypeOK, CtlType
  <1>1. CASE DownBegin(t) \/ DownClosed(t)
    <2>1. UNCHANGED <<list, node, freed>> /\ iter' = [iter EXCEPT ![t] = list]
      BY <1>1 DEF DownBegin, DownClosed
    <2>2. Cursor' = [Cursor EXCEPT ![t] = list]
      BY <1>0, <2>1 DEF Cursor
    <2>3. L!Start(t)
      BY <2>1, <2>2 DEF L!Start
    <2> QED
      BY <2>3 DEF L!Next
  <1>2. CASE DownClose(t)
    <2>1. /\ UNCHANGED <<list, node, freed>> /\ iter[t] # <<>>
          /\ iter' = [iter EXCEPT ![t] = Tail(@)]
      BY <1>2 DEF DownClose, Release
    <2>2. Cursor[t] # <<>> /\ Cursor' = [Cursor EXCEPT ![t] = Tail(@)]
      BY <1>0, <2>1 DEF Cursor
    <2>3. L!Advance(t)
      BY <2>1, <2>2 DEF L!Advance
    <2> QED
      BY <2>3 DEF L!Next
  <1>3. CASE DownFree(t)
    <2>1. /\ UNCHANGED <<list, node>> /\ freed' = freed \cup ToSet(iter[t])
          /\ iter' = [iter EXCEPT ![t] = <<>>]
      BY <1>3 DEF DownFree
    <2>2. CASE iter[t] = <<>>
      <3>1. ToSet(iter[t]) = {}
        BY <2>2 DEF ToSet
      <3>2. UNCHANGED <<list, node, iter, freed>>
        BY <1>0, <2>1, <2>2, <3>1
      <3> QED
        BY <3>2, Still
    <2>3. CASE iter[t] # <<>>
      <3>1. iter[t] \in Seq(Clients) /\ 1 \in DOMAIN iter[t]
        BY <1>0, <2>3
      <3>2. freed' # {}
        BY <2>1, <3>1 DEF ToSet
      <3>3. L!Release
        BY <2>1, <3>2, CursorNextType DEF L!Release
      <3> QED
        BY <3>3 DEF L!Next
    <2> QED
      BY <2>2, <2>3
  <1>4. CASE HandlerReset(t)
    <2>1. list' = <<>> /\ UNCHANGED <<node, iter, freed>>
      BY <1>4 DEF HandlerReset
    <2>2. L!Forget
      BY <2>1 DEF L!Forget, Cursor
    <2> QED
      BY <2>2 DEF L!Next
  <1>5. CASE DownUnlisten(t) \/ DownJoin(t) \/ DownJoined(t) \/ HandlerResume(t)
    BY <1>5, Still DEF DownUnlisten, DownJoin, DownJoined, HandlerResume
  <1>6. CASE DownJoinFaults(t) \/ Undefined(t)
    BY <1>6, Still, TrapStill DEF DownJoinFaults, Undefined
  <1> QED
    BY <1>1, <1>2, <1>3, <1>4, <1>5, <1>6 DEF Down

LEMMA MainList ==
  ASSUME TypeOK, TypeOK', Placed, Main
  PROVE  [L!Next]_(L!vars)
  <1>1. CASE Down("main")
    BY <1>1, DownList
  <1>2. CASE MainInsert
    <2>1. hand \in Clients
      BY <1>2 DEF MainInsert, Placed, TypeOK, HandType
    <2>2. L!Insert(hand)
      BY <1>2 DEF MainInsert, L!Insert, Cursor
    <2> QED
      BY <2>1, <2>2 DEF L!Next
  <1>3. CASE MainBoot \/ MainListen \/ MainBindFails \/ MainRun \/ MainLoop
    BY <1>3, Still DEF MainBoot, MainListen, MainBindFails, MainRun, MainLoop
  <1>4. CASE MainAccept \/ MainAcceptFails \/ MainCheck \/ MainPrompt \/ MainLine \/ MainLeft
    BY <1>4, Still DEF MainAccept, MainAcceptFails, MainCheck, MainPrompt, MainLine, MainLeft
  <1>5. CASE MainAdmit \/ MainReject \/ MainKick \/ MainCount \/ MainSetRun
    BY <1>5, Still DEF MainAdmit, MainReject, MainKick, MainCount, MainSetRun
  <1>6. CASE MainPromptFaults \/ MainCredFaults
    BY <1>6, Still, TrapStill DEF MainPromptFaults, MainCredFaults
  <1> QED
    BY <1>1, <1>2, <1>3, <1>4, <1>5, <1>6 DEF Main

LEMMA ServeList ==
  ASSUME TypeOK, TypeOK', Placed, Serve
  PROVE  [L!Next]_(L!vars)
  <1>1. CASE Down("serve")
    BY <1>1, DownList
  <1>2. CASE ServePass
    <2>1. UNCHANGED <<list, iter, freed>> /\ node' = list
      BY <1>2 DEF ServePass
    <2>2. Cursor' = [Cursor EXCEPT !["pass"] = list]
      BY <2>1 DEF Cursor
    <2>3. L!Start("pass")
      BY <2>1, <2>2 DEF L!Start
    <2> QED
      BY <2>3 DEF L!Next
  <1>3. CASE ServeNext
    <2>1. UNCHANGED <<list, iter, freed>>
          /\ node' = IF Tail(node) = <<>> THEN node ELSE Tail(node)
      BY <1>3 DEF ServeNext
    <2>2. CASE Tail(node) = <<>>
      BY <2>1, <2>2, Still
    <2>3. CASE Tail(node) # <<>>
      <3>1. node # <<>>
        BY <1>3 DEF ServeNext, Placed
      <3>2. Cursor["pass"] # <<>> /\ Cursor' = [Cursor EXCEPT !["pass"] = Tail(@)]
        BY <2>1, <2>3, <3>1 DEF Cursor
      <3>3. L!Advance("pass")
        BY <2>1, <3>2 DEF L!Advance
      <3> QED
        BY <3>3 DEF L!Next
    <2> QED
      BY <2>2, <2>3
  <1>4. CASE ServeWake \/ ServeTest \/ ServePoll \/ ServeRead \/ ServeTimeout \/ ServeEof
    BY <1>4, Still DEF ServeWake, ServeTest, ServePoll, ServeRead, ServeTimeout, ServeEof
  <1>5. CASE ServePlain \/ ServeHog \/ ServeBye \/ ServePeers \/ ServeShutdown
             \/ ServePassEnd
    BY <1>5, Still
       DEF ServePlain, ServeHog, ServeBye, ServePeers, ServeShutdown, ServePassEnd,
           Release
  <1>6. CASE ServeShutdownFaults \/ ServeCmdFaults
    BY <1>6, Still, TrapStill DEF ServeShutdownFaults, ServeCmdFaults
  <1> QED
    BY <1>1, <1>2, <1>3, <1>4, <1>5, <1>6 DEF Serve

\* The session core takes the list of headers/list.h for what ThorCells shows it to
\* be: it inserts at the head, and walks.
THEOREM UsesListHolds == Spec => UsesList
  <1>1. Init => L!Init
    BY DEF Init, L!Init, Cursor
  <1>2. ASSUME TypeOK, TypeOK', Placed, [Next]_vars
        PROVE  [L!Next]_(L!vars)
    <2>1. CASE Environment
      BY <2>1, Still DEF Environment, Connect, Send, Hangup
    <2>2. CASE UNCHANGED vars
      BY <2>2, Still DEF vars
    <2> QED
      BY <1>2, <2>1, <2>2, MainList, ServeList DEF Next
  <1>3. TypeOK /\ TypeOK' /\ Placed /\ [Next]_vars => [L!Next]_(L!vars)
    BY <1>2
  <1> QED
    BY <1>1, <1>3, TypeAndPlace, PTL DEF Spec, L!Spec, UsesList

-----------------------------------------------------------------------------
(* One serving thread *)

\* The handler has joined the serving thread by the time main is reset.
Joined == pc["main"] \in {"reset", "resume"} => pc["serve"] = "done"

\* A thread that was not started, or has ended, takes no step.
LEMMA ServeAlone ==
  ASSUME TypeOK, Serve
  PROVE  pc'["main"] = pc["main"] /\ pc["serve"] \notin {"none", "done"}
  <1> USE DEF TypeOK, CtlType
  <1>1. CASE Undefined("serve")
    BY <1>1 DEF Undefined, TouchesReleased, Trap
  <1>2. CASE DownBegin("serve") \/ DownClose("serve") \/ DownClosed("serve")
             \/ DownFree("serve") \/ DownUnlisten("serve") \/ DownJoin("serve")
    BY <1>2 DEF DownBegin, DownClose, DownClosed, DownFree, DownUnlisten, DownJoin
  <1>3. CASE DownJoined("serve") \/ DownJoinFaults("serve") \/ HandlerReset("serve")
             \/ HandlerResume("serve")
    BY <1>3 DEF DownJoined, DownJoinFaults, HandlerReset, HandlerResume, Trap
  <1>4. CASE ServeWake \/ ServePass \/ ServeTest \/ ServePoll \/ ServeRead \/ ServeTimeout
             \/ ServeEof \/ ServePlain \/ ServeHog
    BY <1>4 DEF ServeWake, ServePass, ServeTest, ServePoll, ServeRead, ServeTimeout,
                ServeEof, ServePlain, ServeHog
  <1>5. CASE ServeBye \/ ServePeers \/ ServeShutdown \/ ServeNext \/ ServePassEnd
    BY <1>5 DEF ServeBye, ServePeers, ServeShutdown, ServeNext, ServePassEnd, Release
  <1>6. CASE ServeShutdownFaults \/ ServeCmdFaults
    BY <1>6 DEF ServeShutdownFaults, ServeCmdFaults, Trap
  <1> QED
    BY <1>1, <1>2, <1>3, <1>4, <1>5, <1>6 DEF Serve, Down

\* main comes to a reset by a join only, and to its checkpoint by a reset only.
LEMMA MainAlone ==
  ASSUME TypeOK, Main, Joined
  PROVE  /\ pc'["main"] \in {"boot", "reset", "resume"} => pc'["serve"] = "done"
  <1> USE DEF TypeOK, CtlType, Joined
  <1>1. CASE Undefined("main")
    BY <1>1 DEF Undefined, TouchesReleased, Trap
  <1>2. CASE DownBegin("main") \/ DownClose("main") \/ DownClosed("main")
             \/ DownFree("main") \/ DownUnlisten("main") \/ DownJoin("main")
    BY <1>2 DEF DownBegin, DownClose, DownClosed, DownFree, DownUnlisten, DownJoin
  <1>3. CASE DownJoined("main") \/ DownJoinFaults("main") \/ HandlerReset("main")
             \/ HandlerResume("main")
    BY <1>3 DEF DownJoined, DownJoinFaults, HandlerReset, HandlerResume, Trap
  <1>4. CASE MainBoot \/ MainListen \/ MainBindFails \/ MainRun \/ MainLoop \/ MainAccept
             \/ MainAcceptFails
    BY <1>4 DEF MainBoot, MainListen, MainBindFails, MainRun, MainLoop, MainAccept,
                MainAcceptFails
  <1>5. CASE MainCheck \/ MainPrompt \/ MainPromptFaults \/ MainLine \/ MainLeft
    BY <1>5 DEF MainCheck, MainPrompt, MainPromptFaults, MainLine, MainLeft, Trap
  <1>6. CASE MainAdmit \/ MainReject \/ MainCredFaults \/ MainKick
    BY <1>6 DEF MainAdmit, MainReject, MainCredFaults, MainKick, Trap
  <1>7. CASE MainInsert \/ MainCount \/ MainSetRun
    BY <1>7 DEF MainInsert, MainCount, MainSetRun
  <1> QED
    BY <1>1, <1>2, <1>3, <1>4, <1>5, <1>6, <1>7 DEF Main, Down

\* However often and on whichever thread the handler runs, main never starts a serving
\* thread while another one runs.
THEOREM OneServingThreadHolds == Spec => []OneServingThread
  <1>1. Init => OneServingThread /\ Joined
    BY DEF Init, OneServingThread, Joined
  <1>2. ASSUME TypeOK, OneServingThread, Joined, [Next]_vars
        PROVE  (OneServingThread /\ Joined)'
    <2>1. CASE Main
      BY <1>2, <2>1, MainAlone DEF OneServingThread, Joined
    <2>2. CASE Serve
      BY <1>2, <2>2, ServeAlone DEF OneServingThread, Joined
    <2>3. CASE Environment \/ UNCHANGED vars
      BY <1>2, <2>3
         DEF Environment, Connect, Send, Hangup, vars, OneServingThread, Joined
    <2> QED
      BY <1>2, <2>1, <2>2, <2>3 DEF Next
  <1>3. TypeOK /\ OneServingThread /\ Joined /\ [Next]_vars => (OneServingThread /\ Joined)'
    BY <1>2
  <1> QED
    BY <1>1, <1>3, TypeCorrect, PTL DEF Spec

-----------------------------------------------------------------------------
(* The service *)

\* No accept() is blocked on a listening socket that was closed, before a fault.
Listening == ~trapped => listening # "last"

LEMMA ListeningHolds == Spec => []Listening
  <1>1. Init => Listening
    BY DEF Init, Listening
  <1>2. ASSUME TypeOK, Inductive, Listening, [Next]_vars
        PROVE  Listening'
    <2> SUFFICES ASSUME ~trapped' PROVE listening' # "last"
      BY DEF Listening
    <2>1. ~trapped
      BY TrappedStays, <1>2
    <2>2. listening # "last" /\ pc["serve"] # "unlisten"
      BY <1>2, <2>1 DEF Listening, Inductive, Control, DownLabels
    <2>3. ASSUME NEW t \in Threads, DownUnlisten(t) PROVE listening' # "last"
      BY <2>2, <2>3 DEF DownUnlisten
    <2>4. ASSUME NEW t \in Threads, Down(t) PROVE listening' # "last"
      BY <2>2, <2>3, <2>4
         DEF Down, DownBegin, DownClose, DownClosed, DownFree, DownJoin, DownJoined,
             DownJoinFaults, HandlerReset, HandlerResume, Undefined
    <2>5. CASE Main
      BY <2>2, <2>4, <2>5
         DEF Main, MainBoot, MainListen, MainBindFails, MainRun, MainLoop, MainAccept,
             MainAcceptFails, MainCheck, MainPrompt, MainPromptFaults, MainLine, MainLeft,
             MainAdmit, MainReject, MainCredFaults, MainKick, MainInsert, MainCount,
             MainSetRun
    <2>6. CASE Serve
      BY <2>2, <2>4, <2>6
         DEF Serve, ServeWake, ServePass, ServeTest, ServePoll, ServeRead, ServeTimeout,
             ServeEof, ServePlain, ServeHog, ServeBye, ServePeers, ServeShutdown,
             ServeShutdownFaults, ServeCmdFaults, ServeNext, ServePassEnd
    <2>7. CASE Environment \/ UNCHANGED vars
      BY <2>2, <2>7 DEF Environment, Connect, Send, Hangup, vars
    <2> QED
      BY <1>2, <2>5, <2>6, <2>7 DEF Next
  <1>3. TypeOK /\ Inductive /\ Listening /\ [Next]_vars => Listening'
    BY <1>2
  <1> QED
    BY <1>1, <1>3, TypeCorrect, InductiveHolds, PTL DEF Spec

\* A server that left service does not come back into it, but as a new process life.
LEMMA LeavingStays ==
  ASSUME TypeOK, Inductive, [Next]_vars, Leaving
  PROVE  Leaving'
  <1> SUFFICES ASSUME ~trapped', alive' PROVE state' = "CLOSE" \/ pc'["serve"] = "selfjoin"
    BY DEF Leaving
  <1>1. ~trapped /\ Control /\ Placed
    BY TrappedStays DEF Inductive
  <1> USE DEF TypeOK, CtlType
  <1>2. ASSUME NEW t \in Threads, Down(t) PROVE Leaving' /\ alive
    <2>1. Undefined(t) => trapped' \/ ~alive'
      BY DEF Undefined, Trap
    <2>2. ~DownJoinFaults(t) /\ ~Undefined(t)
      BY <2>1 DEF DownJoinFaults, Trap
    <2>3. t = "main" /\ ~HandlerReset(t) /\ ~HandlerResume(t)
      BY <1>1, <1>2, <2>2
         DEF Control, DownLabels, Down, DownBegin, DownClose, DownClosed, DownFree,
             DownUnlisten, DownJoin, DownJoined, HandlerReset, HandlerResume
    <2>4. CASE DownBegin(t)
      BY <2>4 DEF DownBegin, Leaving
    <2>5. CASE DownClose(t) \/ DownClosed(t) \/ DownFree(t) \/ DownUnlisten(t) \/ DownJoin(t)
               \/ DownJoined(t)
      <3>1. state = "CLOSE"
        BY <1>1, <2>3, <2>5
           DEF Control, Downing, DownClose, DownClosed, DownFree, DownUnlisten, DownJoin,
               DownJoined
      <3>2. state' = state /\ alive
        BY <2>5 DEF DownClose, DownClosed, DownFree, DownUnlisten, DownJoin, DownJoined
      <3> QED
        BY <3>1, <3>2 DEF Leaving
    <2> QED
      BY <1>2, <2>2, <2>3, <2>4, <2>5 DEF Down
  <1>3. CASE Main
    <2>1. CASE MainBoot
      BY <1>1, <2>1 DEF MainBoot, Control, Downing, Leaving
    <2>2. CASE MainRun \/ MainSetRun
      BY <1>1, <2>2 DEF MainRun, MainSetRun, Control, Downing, Leaving
    <2>3. CASE MainListen \/ MainBindFails \/ MainLoop \/ MainAccept \/ MainAcceptFails
               \/ MainCheck \/ MainPrompt \/ MainLine \/ MainLeft
      BY <1>1, <2>3
         DEF MainListen, MainBindFails, MainLoop, MainAccept, MainAcceptFails, MainCheck,
             MainPrompt, MainLine, MainLeft, Leaving
    <2>4. CASE MainAdmit \/ MainReject \/ MainKick \/ MainInsert \/ MainCount
      BY <1>1, <2>4 DEF MainAdmit, MainReject, MainKick, MainInsert, MainCount, Leaving
    <2>5. CASE MainPromptFaults \/ MainCredFaults
      BY <2>5 DEF MainPromptFaults, MainCredFaults, Trap
    <2> QED
      BY <1>2, <1>3, <2>1, <2>2, <2>3, <2>4, <2>5 DEF Main, Leaving
  <1>4. CASE Serve
    <2>1. CASE ServeWake \/ ServePass \/ ServeTest \/ ServePoll \/ ServeRead
               \/ ServeTimeout \/ ServeEof \/ ServePlain \/ ServeHog
      BY <1>1, <2>1
         DEF ServeWake, ServePass, ServeTest, ServePoll, ServeRead, ServeTimeout, ServeEof,
             ServePlain, ServeHog, Leaving
    <2>2. CASE ServeBye \/ ServePeers \/ ServeShutdown \/ ServeNext \/ ServePassEnd
      BY <1>1, <2>2
         DEF ServeBye, ServePeers, ServeShutdown, ServeNext, ServePassEnd, Release, Leaving
    <2>3. CASE ServeShutdownFaults \/ ServeCmdFaults
      BY <2>3 DEF ServeShutdownFaults, ServeCmdFaults, Trap
    <2> QED
      BY <1>2, <1>4, <2>1, <2>2, <2>3 DEF Serve, Leaving
  <1>5. CASE Environment \/ UNCHANGED vars
    BY <1>1, <1>5 DEF Environment, Connect, Send, Hangup, vars, Leaving
  <1> QED
    BY <1>3, <1>4, <1>5 DEF Next, Leaving

StageOf == [c \in Clients |-> Stage(c)]

\* The stage of a client is a function of these.
LEMMA StageFrame ==
  ASSUME NEW c \in Clients, UNCHANGED hand, conn'[c] = conn[c],
         c \in ToSet(backlog') <=> c \in ToSet(backlog), net'[c] = "away" <=> net[c] = "away",
         hand = c => pc'["main"] = pc["main"]
  PROVE  Stage(c)' = Stage(c)
  BY DEF Stage

LEMMA StageType == StageOf \in [Clients -> Service!Stages]
  BY DEF StageOf, Stage, Service!Stages

\* A connection in hand is judged before it is listed.
LEMMA InHand ==
  ASSUME TypeOK, Inductive, ~Leaving
  PROVE  /\ hand # NoClient => hand \in Clients
         /\ \A c \in Clients : Stage(c) \in {"login", "judged", "refused"} <=>
               c = hand /\ pc["main"] \in {"parse", "kick", "check", "prompt", "cred"}
         /\ \A c \in Listed : c \in Clients /\ Stage(c) = IF conn[c] THEN "session" ELSE "over"
  <1>1. ~trapped
    BY DEF Leaving
  <1>2. Apart /\ Sessions
    BY <1>1 DEF Inductive
  <1>3. hand # NoClient => hand \in Clients
    BY DEF TypeOK, HandType
  <1>4. \A c \in Clients : Stage(c) \in {"login", "judged", "refused"} <=>
               c = hand /\ pc["main"] \in {"parse", "kick", "check", "prompt", "cred"}
    BY DEF Stage
  <1>5. ASSUME NEW c \in Listed
        PROVE  c \in Clients /\ Stage(c) = IF conn[c] THEN "session" ELSE "over"
    <2>1. c \in Clients
      BY ToSetType DEF Listed, TypeOK, ThisType
    <2>2. net[c] # "away" /\ c \notin ToSet(backlog)
      BY <1>2, <2>1 DEF Apart
    <2>3. c = hand => pc["main"] \in {"count", "setrun"}
      BY <1>2 DEF Apart
    <2> QED
      BY <2>1, <2>2, <2>3 DEF Stage
  <1> QED
    BY <1>3, <1>4, <1>5

LEMMA Unnoticed ==
  ASSUME UNCHANGED <<inbox, told>>, Leaving' = Leaving,
         \A c \in Clients : Stage(c)' = Stage(c)
  PROVE  UNCHANGED Service!vars
  <1>1. StageOf' = StageOf
    BY DEF StageOf
  <1> QED
    BY <1>1 DEF Service!vars, StageOf

\* One client goes from one stage to another.
LEMMA OneMoves ==
  ASSUME NEW d \in Clients, NEW s, Stage(d)' = s,
         \A c \in Clients \ {d} : Stage(c)' = Stage(c)
  PROVE  StageOf' = [StageOf EXCEPT ![d] = s]
  BY DEF StageOf

LEMMA TellAnswers ==
  ASSUME TypeOK, NEW c, NEW msg, Tell(c, msg)
  PROVE  told' \in {told, [told EXCEPT ![c] = msg]} /\ (c \notin Clients => told' = told)
  BY DEF Tell

LEMMA MainService ==
  ASSUME TypeOK, TypeOK', Inductive, Listening, ~Leaving, ~Leaving', Main
  PROVE  [Service!Next]_(Service!vars)
  <1>1. /\ ~trapped /\ ~trapped' /\ alive' /\ state # "CLOSE" /\ state' # "CLOSE"
        /\ pc["serve"] # "selfjoin" /\ Leaving' = Leaving
    BY DEF Leaving
  <1>2. Control /\ Apart /\ Sessions /\ Placed /\ listening # "last"
    BY <1>1 DEF Inductive, Listening
  <1>3. pc \in [Threads -> MainLabels \cup ServeLabels]
    BY DEF TypeOK, CtlType
  <1>4. hand # NoClient => hand \in Clients
    BY InHand
  <1>5. NoClient \notin Clients
    BY ClientsAssumption
  <1>6. CASE Down("main")
    <2>1. ~DownBegin("main")
      BY <1>1 DEF DownBegin
    <2>2. ~Undefined("main")
      BY <1>1, ReleasedUntouched DEF Undefined
    <2>3. ~DownJoinFaults("main")
      BY <1>1 DEF DownJoinFaults, Trap
    <2>4. Downing \/ pc["main"] \in {"reset", "resume"}
      BY <1>6, <2>1, <2>2, <2>3
         DEF Down, Downing, DownClose, DownClosed, DownFree, DownUnlisten, DownJoin,
             DownJoined, HandlerReset, HandlerResume
    <2> QED
      BY <1>1, <1>2, <2>4 DEF Control
  <1>7. CASE MainBoot \/ MainListen \/ MainRun \/ MainLoop \/ MainAcceptFails
    <2>1. hand = NoClient /\ hand' = NoClient /\ UNCHANGED <<conn, net, backlog, inbox, told>>
      BY <1>2, <1>7 DEF Control, MainBoot, MainListen, MainRun, MainLoop, MainAcceptFails
    <2>2. \A c \in Clients : Stage(c)' = Stage(c)
      BY <1>5, <2>1, StageFrame
    <2> QED
      BY <1>1, <2>1, <2>2, Unnoticed
  <1>8. CASE MainBindFails \/ MainPromptFaults \/ MainCredFaults
    BY <1>1, <1>8 DEF MainBindFails, MainPromptFaults, MainCredFaults, Trap
  <1>9. CASE MainAccept
    <2>0. PICK d \in Clients : d = Head(backlog)
      BY <1>9, TailType DEF TypeOK, NetType, MainAccept
    <2>1. d \in ToSet(backlog) /\ hand = NoClient
      <3>1. d = backlog[1] /\ 1 \in DOMAIN backlog
        BY <1>9, <2>0 DEF TypeOK, NetType, MainAccept
      <3> QED
        BY <1>2, <1>9, <3>1 DEF Control, MainAccept, ToSet
    <2>2. /\ hand' = d /\ pc'["main"] = "check" /\ UNCHANGED <<conn, inbox, told>>
          /\ backlog' = Tail(backlog)
          /\ \A c \in Clients \ {d} : net'[c] = net[c]
      BY <1>2, <1>3, <1>9, <2>0 DEF MainAccept
    <2>3. \A c \in Clients \ {d} : c \in ToSet(backlog') <=> c \in ToSet(backlog)
      <3>1. ToSet(backlog) = {Head(backlog)} \cup ToSet(Tail(backlog))
        BY <1>9, TailSet DEF TypeOK, NetType, MainAccept
      <3> QED
        BY <2>0, <2>2, <3>1
    <2>4. Stage(d) = "waiting" /\ Stage(d)' = "login"
      BY <1>5, <2>1, <2>2 DEF Stage
    <2>5. \A c \in Clients \ {d} : Stage(c)' = Stage(c)
      BY <1>5, <2>1, <2>2, <2>3 DEF Stage
    <2>6. Service!Accept(d)
      <3>1. StageOf' = [StageOf EXCEPT ![d] = "login"]
        BY <2>1, <2>4, <2>5, OneMoves
      <3>2. \A c \in Clients : Stage(c) \notin {"login", "judged", "refused"}
        BY <1>5, <2>1, InHand
      <3> QED
        BY <1>1, <2>1, <2>2, <2>4, <3>1, <3>2
           DEF Service!Accept, Service!Enter, StageOf
    <2> QED
      BY <2>1, <2>6 DEF Service!Next
  <1>10. CASE MainCheck
    <2>1. /\ UNCHANGED <<hand, conn, net, backlog, inbox, told>>
          /\ pc["main"] = "check" /\ pc'["main"] = "prompt"
      BY <1>1, <1>3, <1>10 DEF MainCheck
    <2>2. \A c \in Clients : Stage(c)' = Stage(c)
      BY <2>1 DEF Stage
    <2> QED
      BY <1>1, <2>1, <2>2, Unnoticed
  <1>11. CASE MainPrompt
    <2>1. /\ UNCHANGED <<hand, conn, net, backlog, inbox>> /\ pc["main"] = "prompt"
          /\ pc'["main"] = IF hand = NoClient THEN "kick" ELSE "cred"
      BY <1>3, <1>11 DEF MainPrompt
    <2>2. \A c \in Clients : Stage(c)' = Stage(c)
      BY <1>5, <2>1 DEF Stage
    <2>3. told' \in {told, [told EXCEPT ![hand] = "who"]} /\ (hand \notin Clients => told' = told)
      BY <1>11, TellAnswers DEF MainPrompt
    <2>4. CASE hand = NoClient
      BY <1>1, <1>5, <2>1, <2>2, <2>3, <2>4, Unnoticed
    <2>5. CASE hand # NoClient
      <3>1. Stage(hand) = "login" /\ StageOf' = StageOf /\ hand \in Clients
        BY <1>4, <2>1, <2>2, <2>5 DEF Stage, StageOf
      <3>2. Service!Prompt(hand)
        BY <1>1, <2>1, <2>3, <3>1 DEF Service!Prompt, Service!Answer, StageOf
      <3> QED
        BY <3>1, <3>2 DEF Service!Next
    <2> QED
      BY <2>4, <2>5
  <1>12. CASE MainLine
    <2>1. /\ UNCHANGED <<hand, conn, net, backlog, told>> /\ pc["main"] = "cred"
          /\ pc'["main"] = "parse" /\ inbox[hand] # <<>>
          /\ inbox' = [inbox EXCEPT ![hand] = Tail(@)] /\ hand \in Clients
      BY <1>2, <1>3, <1>4, <1>12 DEF MainLine, Placed
    <2>2. Stage(hand) = "login" /\ Stage(hand)' = "judged"
          /\ \A c \in Clients \ {hand} : Stage(c)' = Stage(c)
      BY <2>1 DEF Stage
    <2>3. StageOf' = [StageOf EXCEPT ![hand] = "judged"]
      BY <2>1, <2>2, OneMoves
    <2>4. Service!ReadLogin(hand)
      BY <1>1, <2>1, <2>2, <2>3
         DEF Service!ReadLogin, Service!Reads, Service!Enter, StageOf
    <2> QED
      BY <2>1, <2>4 DEF Service!Next
  <1>13. CASE MainLeft \/ MainReject
    <2>1. /\ UNCHANGED <<hand, conn, net, backlog, inbox, told>>
          /\ pc["main"] \in {"cred", "parse"} /\ pc'["main"] = "kick" /\ hand \in Clients
      BY <1>2, <1>3, <1>4, <1>13 DEF MainLeft, MainReject, Placed
    <2>2. Stage(hand) \in {"login", "judged"} /\ Stage(hand)' = "refused"
          /\ \A c \in Clients \ {hand} : Stage(c)' = Stage(c)
      BY <2>1 DEF Stage
    <2>3. StageOf' = [StageOf EXCEPT ![hand] = "refused"]
      BY <2>1, <2>2, OneMoves
    <2>4. Service!Refuse(hand)
      BY <1>1, <2>1, <2>2, <2>3 DEF Service!Refuse, Service!Enter, StageOf
    <2> QED
      BY <2>1, <2>4 DEF Service!Next
  <1>14. CASE MainAdmit
    <2>1. /\ UNCHANGED <<hand, net, backlog, inbox>> /\ pc["main"] = "parse"
          /\ pc'["main"] = "insert" /\ hand \in Clients
          /\ conn' = [conn EXCEPT ![hand] = TRUE] /\ conn \in [Clients -> BOOLEAN]
      BY <1>2, <1>3, <1>4, <1>14 DEF MainAdmit, Placed, TypeOK, NodeType
    <2>2. Stage(hand) = "judged" /\ Stage(hand)' = "session"
          /\ \A c \in Clients \ {hand} : Stage(c)' = Stage(c)
      BY <2>1 DEF Stage
    <2>3. StageOf' = [StageOf EXCEPT ![hand] = "session"]
      BY <2>1, <2>2, OneMoves
    <2>4. told' \in {told, [told EXCEPT ![hand] = "ok"]}
      BY <1>14, TellAnswers DEF MainAdmit
    <2>5. Service!Admit(hand)
      BY <1>1, <2>1, <2>2, <2>3, <2>4
         DEF Service!Admit, Service!Enter, Service!Answer, StageOf
    <2> QED
      BY <2>1, <2>5 DEF Service!Next
  <1>15. CASE MainKick
    <2>1. /\ UNCHANGED <<conn, net, backlog, inbox>> /\ pc["main"] = "kick"
          /\ hand' = NoClient
      BY <1>15 DEF MainKick
    <2>2. told' \in {told, [told EXCEPT ![hand] = "fail"]} /\ (hand \notin Clients => told' = told)
      BY <1>15, TellAnswers DEF MainKick
    <2>3. \A c \in Clients : c # hand => Stage(c)' = Stage(c)
      BY <1>5, <2>1 DEF Stage
    <2>4. CASE hand = NoClient
      BY <1>1, <1>5, <2>1, <2>2, <2>3, <2>4, Unnoticed
    <2>5. CASE hand # NoClient
      <3>0. PICK d \in Clients : d = hand
        BY <1>4, <2>5
      <3>1. net[d] # "away" /\ d \notin ToSet(backlog) /\ ~conn[d]
        BY <1>2, <2>1, <3>0 DEF Apart, Sessions
      <3>2. Stage(d) = "refused" /\ Stage(d)' = "over"
        BY <1>5, <2>1, <3>0, <3>1 DEF Stage
      <3>3. StageOf' = [StageOf EXCEPT ![d] = "over"]
        BY <2>3, <3>0, <3>2, OneMoves
      <3>4. Service!Dismiss(d)
        BY <1>1, <2>1, <2>2, <3>0, <3>2, <3>3
           DEF Service!Dismiss, Service!Enter, Service!Answer, StageOf
      <3> QED
        BY <3>4 DEF Service!Next
    <2> QED
      BY <2>4, <2>5
  <1>16. CASE MainInsert \/ MainCount \/ MainSetRun
    <2>1. /\ UNCHANGED <<conn, net, backlog, inbox, told>> /\ hand \in Clients
          /\ pc["main"] \in {"insert", "count", "setrun"}
          /\ \/ hand' = hand /\ pc'["main"] \in {"count", "setrun"}
             \/ hand' = NoClient
      BY <1>2, <1>3, <1>4, <1>16 DEF MainInsert, MainCount, MainSetRun, Placed
    <2>2. net[hand] # "away" /\ hand \notin ToSet(backlog)
      BY <1>2, <2>1 DEF Apart
    <2>3. \A c \in Clients : Stage(c)' = Stage(c)
      BY <1>5, <2>1, <2>2 DEF Stage
    <2> QED
      BY <1>1, <2>1, <2>3, Unnoticed
  <1> QED
    BY <1>6, <1>7, <1>8, <1>9, <1>10, <1>11, <1>12, <1>13, <1>14, <1>15, <1>16 DEF Main

LEMMA ServeService ==
  ASSUME TypeOK, TypeOK', Inductive, ~Leaving, ~Leaving', Serve
  PROVE  [Service!Next]_(Service!vars)
  <1>1. /\ ~trapped /\ ~trapped' /\ alive' /\ state # "CLOSE" /\ state' # "CLOSE"
        /\ pc["serve"] # "selfjoin" /\ Leaving' = Leaving
    BY DEF Leaving
  <1>2. Control /\ Apart /\ Sessions /\ Placed /\ Cursors
    BY <1>1 DEF Inductive
  <1>3. pc \in [Threads -> MainLabels \cup ServeLabels]
    BY DEF TypeOK, CtlType
  <1>4. CASE Down("serve")
    <2>1. ~Undefined("serve")
      BY <1>1, ReleasedUntouched DEF Undefined
    <2> QED
      BY <1>2, <1>4, <2>1
         DEF Control, DownLabels, Down, DownBegin, DownClose, DownClosed, DownFree,
             DownUnlisten, DownJoin, DownJoined, DownJoinFaults, HandlerReset, HandlerResume
  <1>5. CASE ServeWake \/ ServePass \/ ServeTest \/ ServePoll \/ ServeTimeout \/ ServePlain
             \/ ServeHog \/ ServePeers \/ ServeNext \/ ServePassEnd
    <2>1. UNCHANGED <<hand, conn, net, backlog, inbox, told>> /\ pc'["main"] = pc["main"]
      BY <1>3, <1>5
         DEF ServeWake, ServePass, ServeTest, ServePoll, ServeTimeout, ServePlain, ServeHog,
             ServePeers, ServeNext, ServePassEnd
    <2>2. \A c \in Clients : Stage(c)' = Stage(c)
      BY <2>1, StageFrame
    <2> QED
      BY <1>1, <2>1, <2>2, Unnoticed
  <1>6. CASE ServeShutdown \/ ServeShutdownFaults \/ ServeCmdFaults
    BY <1>1, <1>6 DEF ServeShutdown, ServeShutdownFaults, ServeCmdFaults, Trap
  <1>7. pc["serve"] \in {"read", "handle"} =>
          Current \in Clients /\ Stage(Current) = "session" /\ conn[Current]
    <2> SUFFICES ASSUME pc["serve"] \in {"read", "handle"}
                 PROVE  Current \in Clients /\ Stage(Current) = "session" /\ conn[Current]
      OBVIOUS
    <2>1. ~Downing
      BY <1>1, <1>2 DEF Control
    <2>2. node # <<>> /\ IsRest(node) /\ node \in Seq(Clients) /\ list \in Seq(Clients)
      BY <1>2 DEF Placed, Cursors, TypeOK, PassType, ThisType
    <2>3. Current \in Listed
      BY <2>2, RestHead DEF Listed
    <2>4. conn[Current]
      BY <1>2, <2>1 DEF Sessions
    <2> QED
      BY <2>3, <2>4, InHand
  <1>8. CASE ServeRead
    <2>1. /\ UNCHANGED <<hand, conn, net, backlog, told>> /\ pc'["main"] = pc["main"]
          /\ pc["serve"] = "read" /\ inbox[Current] # <<>>
          /\ inbox' = [inbox EXCEPT ![Current] = Tail(@)]
      BY <1>3, <1>8 DEF ServeRead
    <2>2. StageOf' = StageOf
      BY <2>1, StageFrame DEF StageOf
    <2>3. Service!ReadCommand(Current)
      BY <1>1, <1>7, <2>1, <2>2 DEF Service!ReadCommand, Service!Reads, StageOf
    <2> QED
      BY <1>7, <2>1, <2>3 DEF Service!Next
  <1>9. CASE ServeEof \/ ServeBye
    <2>1. /\ UNCHANGED <<hand, net, backlog, told, inbox, list>> /\ pc'["main"] = pc["main"]
          /\ pc["serve"] \in {"read", "handle"}
          /\ conn' = [conn EXCEPT ![Current] = FALSE] /\ conn \in [Clients -> BOOLEAN]
      BY <1>3, <1>9 DEF ServeEof, ServeBye, Release, TypeOK, NodeType
    <2>0. PICK d \in Clients : d = Current
      BY <1>7, <2>1
    <2>2. Stage(d) = "session" /\ conn[d]
      BY <1>7, <2>0, <2>1
    <2>3. conn' = [conn EXCEPT ![d] = FALSE]
      BY <2>0, <2>1
    <2>4. \A c \in Clients \ {d} : Stage(c)' = Stage(c)
      BY <2>1, <2>3, StageFrame
    <2>5. Stage(d)' = "over"
      BY <2>1, <2>2, <2>3 DEF Stage
    <2>6. StageOf' = [StageOf EXCEPT ![d] = "over"]
      BY <2>2, <2>4, <2>5, OneMoves
    <2>7. Service!End(d)
      BY <1>1, <2>1, <2>2, <2>6 DEF Service!End, Service!Enter, StageOf
    <2> QED
      BY <2>2, <2>7 DEF Service!Next
  <1> QED
    BY <1>4, <1>5, <1>6, <1>8, <1>9 DEF Serve

LEMMA EnvironmentService ==
  ASSUME TypeOK, Inductive, ~Leaving, ~Leaving', NEW c \in Clients,
         Connect(c) \/ Send(c) \/ Hangup(c)
  PROVE  [Service!Next]_(Service!vars)
  <1>1. ~trapped /\ Leaving' = Leaving
    BY DEF Leaving
  <1>2. Apart
    BY <1>1 DEF Inductive
  <1>3. net \in [Clients -> {"away", "pending", "up", "gone"}] /\ backlog \in Seq(Clients)
    BY DEF TypeOK, NetType
  <1>4. CASE Connect(c)
    <2>1. /\ net[c] = "away" /\ net' = [net EXCEPT ![c] = "pending"]
          /\ backlog' = Append(backlog, c) /\ UNCHANGED <<hand, conn, inbox, told, pc>>
      BY <1>4 DEF Connect
    <2>2. ToSet(backlog') = ToSet(backlog) \cup {c}
      BY <1>3, <2>1, AppendSet
    <2>3. c # hand
      BY <1>2, <2>1 DEF Apart
    <2>4. \A d \in Clients : Stage(d)' = Stage(d)
      BY <1>3, <2>1, <2>2, <2>3 DEF Stage
    <2> QED
      BY <1>1, <2>1, <2>4, Unnoticed
  <1>5. CASE Send(c)
    <2>1. /\ \E l \in Lines : inbox' = [inbox EXCEPT ![c] = Append(@, l)]
          /\ UNCHANGED <<hand, conn, net, backlog, told, pc>>
      BY <1>5 DEF Send, Lines
    <2>2. StageOf' = StageOf
      BY <2>1, StageFrame DEF StageOf
    <2>3. \E l \in Lines : Service!Submit(c, l)
      BY <1>1, <2>1, <2>2 DEF Service!Submit, StageOf
    <2> QED
      BY <2>3 DEF Service!Next
  <1>6. CASE Hangup(c)
    <2>1. /\ net[c] # "away" /\ net' = [net EXCEPT ![c] = "gone"]
          /\ UNCHANGED <<hand, conn, backlog, inbox, told, pc>>
      BY <1>6 DEF Hangup
    <2>2. \A d \in Clients : Stage(d)' = Stage(d)
      BY <1>3, <2>1, StageFrame
    <2> QED
      BY <1>1, <2>1, <2>2, Unnoticed
  <1> QED
    BY <1>4, <1>5, <1>6

\* Until it leaves service the server is, to its clients, one that logs them in one
\* at a time and serves each of them alone: what two threads do to the list, to
\* is_connected and to the descriptors shows to nobody.
THEOREM ImplementsServiceHolds == Spec => ImplementsService
  <1>1. Init => Service!Init
    <2> SUFFICES ASSUME Init PROVE Service!Init
      OBVIOUS
    <2>1. \A c \in Clients : Stage(c) = "waiting"
      BY ClientsAssumption DEF Init, Stage
    <2>2. ~Leaving
      BY DEF Init, Leaving
    <2> QED
      BY <2>1, <2>2 DEF Init, Service!Init
  <1>2. ASSUME TypeOK, TypeOK', Inductive, Listening, [Next]_vars
        PROVE  [Service!Next]_(Service!vars)
    <2>1. CASE Leaving'
      <3>1. inbox' \in [Clients -> Seq(Lines)] /\ told' \in [Clients -> Service!Answers]
        BY <1>2 DEF TypeOK, NetType, ViewType, Service!Answers
      <3>2. StageOf' \in [Clients -> Service!Stages]
        BY DEF StageOf, Stage, Service!Stages
      <3>3. Service!Leave
        BY <2>1, <3>1, <3>2 DEF Service!Leave, StageOf
      <3> QED
        BY <3>3 DEF Service!Next
    <2>2. CASE ~Leaving'
      <3>1. ~Leaving
        BY <1>2, <2>2, LeavingStays
      <3>2. CASE UNCHANGED vars
        <4>1. UNCHANGED <<hand, conn, net, backlog, inbox, told, pc>>
          BY <3>2 DEF vars
        <4>2. \A c \in Clients : Stage(c)' = Stage(c)
          BY <4>1, StageFrame
        <4>3. Leaving' = Leaving
          BY <3>2 DEF vars, Leaving
        <4> QED
          BY <4>1, <4>2, <4>3, Unnoticed
      <3> QED
        BY <1>2, <2>2, <3>1, <3>2, MainService, ServeService, EnvironmentService
           DEF Next, Environment
    <2> QED
      BY <2>1, <2>2
  <1>3. TypeOK /\ TypeOK' /\ Inductive /\ Listening /\ [Next]_vars
          => [Service!Next]_(Service!vars)
    BY <1>2
  <1> QED
    BY <1>1, <1>3, TypeCorrect, InductiveHolds, ListeningHolds, PTL
       DEF Spec, Service!Spec, ImplementsService

===============================================================================
