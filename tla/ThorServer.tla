------------------------------ MODULE ThorServer ------------------------------
(***************************************************************************)
(* The session core of Thor: the thread that accepts and authenticates     *)
(* connections (comm/server.c, security/authorize.c), the thread that      *)
(* serves the logged-in ones (core/sched.c, rpc/interface.c), the tear     *)
(* down both can enter, and the SIGSEGV handler that tries to restart the  *)
(* program (main.c).  The two threads share the client list, its counter   *)
(* and the process state without a lock, so every access to one of them    *)
(* that another thread can observe is a step of its own.                   *)
(*                                                                         *)
(* Undefined behaviour.  A step that touches a list cell or a session      *)
(* that was already released either goes on with the old contents, raises  *)
(* SIGSEGV, or is caught by the allocator, which aborts the process: the   *)
(* normal action stays enabled, and Undefined(t) adds the two others.      *)
(*                                                                         *)
(* strtok.  Both threads take their line apart with strtok, which remembers *)
(* where it is in one static pointer of the C library: a call by one       *)
(* thread sends the next strtok(NULL, ...) of the other into its buffer.   *)
(***************************************************************************)
EXTENDS Integers, FiniteSets, SequencesExt

CONSTANTS
    Clients,    \* the connections clients may open, one attempt each
    NoClient,   \* "no connection in hand"
    MaxCount,   \* client.max_count, 32 in the code
    MaxFd,      \* the highest descriptor number the process can obtain
    MaxSends,   \* bound: the lines a client sends over one connection
    Creds,      \* the kinds of login line clients send
    Cmds        \* the kinds of command clients send

ASSUME ClientsAssumption ==
    /\ IsFiniteSet(Clients)
    /\ NoClient \notin Clients
    /\ Clients \cap {"free", "std", "listen"} = {}

ASSUME BoundsAssumption ==
    /\ MaxCount \in Nat \ {0}
    /\ MaxFd \in Nat
    /\ MaxSends \in Nat

\* A "short" line lacks fields the code then dereferences.  A "hog" occupies the
\* thread until its client hangs up: a stream of fragments without a footer, or a
\* command whose reply the client does not read.
ASSUME InputAssumption ==
    /\ Creds \subseteq {"root", "user", "bad", "short"}
    /\ Cmds \subseteq {"plain", "bye", "peers", "shutdown", "short", "hog"}

VARIABLES
    alive,      \* the process has not been killed
    trapped,    \* SIGSEGV was raised at least once
    masked,     \* SIGSEGV is blocked: main.c blocks an uninitialised sigset_t
    inHandler,  \* [Threads -> BOOLEAN]: the thread runs the SIGSEGV handler
    tok,        \* the thread in whose line strtok goes on, "none" past its end
    state,      \* process_state
    ready,      \* THIS has its database open and its TLS context made
    tid,        \* thread.tid of THIS: "none" is 0
    list,       \* ctrl.list_head: the clients of its cells, newest first
    count,      \* ctrl.actv_client_count
    lfd,        \* server.sock.fd
    pc,         \* [Threads -> label]: where the thread is
    ret,        \* [Threads -> label]: where __down returns to
    iter,       \* [Threads -> Seq(Clients)]: the cells __down has yet to visit
    hand,       \* the connection __accept has in hand
    handFd,     \* cfd of __accept
    line,       \* the login line __auth is taking apart
    node,       \* serve_clients: the cells from the current one on
    i,          \* serve_clients: the loop counter
    cmd,        \* serve_clients: the command just read
    todo,       \* ghost: cells listed when the pass began and not yet polled
    conn,       \* [Clients -> BOOLEAN]: client.is_connected
    role,       \* [Clients -> role given by mknod]
    cfd,        \* [Clients -> descriptor]: client.fd
    closes,     \* ghost: how often the session was released (2: twice or more)
    freed,      \* ghost: the clients whose list cell was freed
    fdtab,      \* the kernel's descriptor table
    listening,  \* "last": closed, but an accept() blocked on it still holds it
    net,        \* [Clients -> state of the connection]
    backlog,    \* connections the kernel completed and nobody accepted
    inbox,      \* [Clients -> Seq(lines)]: sent and not yet read
    sent,       \* [Clients -> Nat]: how many lines the client sent
    told,       \* [Clients -> last authentication message the client got]
    peers       \* the clients named by the last list-peers reply

runVars  == <<alive, trapped, masked, inHandler>>
procVars == <<runVars, tok>>
thisVars == <<state, ready, tid, list, count, lfd>>
ctlVars  == <<pc, ret, iter>>
handVars == <<hand, handFd, line>>
passVars == <<node, i, cmd, todo>>
nodeVars == <<conn, role, cfd, closes, freed>>
netVars  == <<listening, net, backlog, inbox, sent>>
viewVars == <<told, peers>>
vars     == <<procVars, thisVars, ctlVars, handVars, passVars, nodeVars,
              fdtab, netVars, viewVars>>

Threads == {"main", "serve"}
Fds     == 0..MaxFd
Owners  == Clients \cup {"free", "std", "listen"}
Lines   == Creds \cup Cmds

DownLabels  == {"down", "close", "free", "unlisten", "join", "joining",
                "reset", "resume"}
MainLabels  == {"boot", "listen", "run", "loop", "accept", "check", "prompt",
                "cred", "parse", "insert", "count", "setrun", "kick", "done"}
                 \cup DownLabels
ServeLabels == {"none", "asleep", "pass", "test", "poll", "read", "handle",
                "next", "passend", "selfjoin", "done"} \cup DownLabels

\* One invariant for the types of all variables, in the groups of vars.
ProcType ==
    /\ alive \in BOOLEAN /\ trapped \in BOOLEAN /\ masked \in BOOLEAN
    /\ inHandler \in [Threads -> BOOLEAN]
    /\ tok \in Threads \cup {"none"}
ThisType ==
    /\ state \in {"INVALID", "HELD", "RUN", "CLOSE"}
    /\ ready \in BOOLEAN
    /\ tid \in {"none", "serve"}
    /\ list \in Seq(Clients)
    /\ count \in Nat
    /\ lfd \in Fds
CtlType ==
    /\ pc \in [Threads -> MainLabels \cup ServeLabels]
    /\ pc["main"] \in MainLabels /\ pc["serve"] \in ServeLabels
    /\ ret \in [Threads -> {"done", "prompt", "reset"}]
    /\ ret["serve"] \in {"done", "reset"}
    /\ iter \in [Threads -> Seq(Clients)]
HandType ==
    /\ hand \in Clients \cup {NoClient}
    /\ handFd \in Fds \cup {-1}
    /\ line \in Lines \cup {"none"}
PassType ==
    /\ node \in Seq(Clients)
    /\ i \in Nat
    /\ cmd \in Lines \cup {"none"}
    /\ todo \subseteq Clients
NodeType ==
    /\ conn \in [Clients -> BOOLEAN]
    /\ role \in [Clients -> {"none", "root", "user"}]
    /\ cfd \in [Clients -> Fds \cup {-1}]
    /\ closes \in [Clients -> 0..2]
    /\ freed \subseteq Clients
FdType == fdtab \in [Fds -> Owners]
NetType ==
    /\ listening \in {"no", "yes", "last"}
    /\ net \in [Clients -> {"away", "pending", "up", "gone"}]
    /\ backlog \in Seq(Clients)
    /\ inbox \in [Clients -> Seq(Lines)]
    /\ sent \in [Clients -> Nat]
ViewType ==
    /\ told \in [Clients -> {"-", "who", "ok", "fail"}]
    /\ peers \subseteq Clients

TypeOK ==
    /\ ProcType /\ ThisType /\ CtlType /\ HandType /\ PassType
    /\ NodeType /\ FdType /\ NetType /\ ViewType

Init ==
    /\ alive = TRUE
    /\ trapped = FALSE
    /\ masked \in BOOLEAN
    /\ inHandler = [t \in Threads |-> FALSE]
    /\ tok = "none"
    /\ state = "INVALID" /\ ready = FALSE /\ tid = "none"
    /\ list = <<>> /\ count = 0 /\ lfd = 0
    /\ pc = [t \in Threads |-> IF t = "main" THEN "boot" ELSE "none"]
    /\ ret = [t \in Threads |-> "done"]
    /\ iter = [t \in Threads |-> <<>>]
    /\ hand = NoClient /\ handFd = -1 /\ line = "none"
    /\ node = <<>> /\ i = 0 /\ cmd = "none" /\ todo = {}
    /\ conn = [c \in Clients |-> FALSE]
    /\ role = [c \in Clients |-> "none"]
    /\ cfd = [c \in Clients |-> -1]
    /\ closes = [c \in Clients |-> 0]
    /\ freed = {}
    /\ fdtab = [f \in Fds |-> IF f = 0 THEN "std" ELSE "free"]
    /\ listening = "no" /\ backlog = <<>>
    /\ net = [c \in Clients |-> "away"]
    /\ inbox = [c \in Clients |-> <<>>]
    /\ sent = [c \in Clients |-> 0]
    /\ told = [c \in Clients |-> "-"]
    /\ peers = {}

-----------------------------------------------------------------------------
(* Helpers *)

At(t, label)  == alive /\ pc[t] = label
Goto(t, label) == pc' = [pc EXCEPT ![t] = label]

\* The kernel hands out the lowest free descriptor.
Lowest(f) ==
    /\ f \in Fds /\ fdtab[f] = "free"
    /\ \A g \in Fds : fdtab[g] = "free" => f <= g

\* What the table looks like after close(f), f possibly stale or invalid.
Closing(f) == IF f \in Fds THEN [fdtab EXCEPT ![f] = "free"] ELSE fdtab

\* A line reaches a client that has not hung up.
Tell(c, msg) ==
    told' = IF c \in Clients /\ net[c] = "up" THEN [told EXCEPT ![c] = msg] ELSE told

\* close_all_clients and __close_client: mark, free the TLS objects, close.
Release(c) ==
    /\ conn' = [conn EXCEPT ![c] = FALSE]
    /\ closes' = [closes EXCEPT ![c] = IF @ = 2 THEN 2 ELSE @ + 1]
    /\ fdtab' = Closing(cfd[c])
    /\ UNCHANGED <<role, cfd, freed>>

Die == alive' = FALSE

\* SIGSEGV on thread t: the handler, unless the signal is blocked.
Trap(t) ==
    /\ trapped' = TRUE
    /\ \/ /\ masked \/ inHandler[t]
          /\ Die
          /\ UNCHANGED <<inHandler, pc, ret>>
       \/ /\ ~masked /\ ~inHandler[t]
          /\ inHandler' = [inHandler EXCEPT ![t] = TRUE]
          /\ Goto(t, "down")
          /\ ret' = [ret EXCEPT ![t] = "reset"]
          /\ UNCHANGED alive
    /\ UNCHANGED <<masked, iter>>

-----------------------------------------------------------------------------
(* The main thread: main, __up, __accept, __kick *)

\* load_config, init_db, register_users, and the first half of __up.
MainBoot ==
    /\ At("main", "boot")
    /\ state' = "HELD"
    /\ tid' = "serve"
    /\ pc' = [t \in Threads |-> IF t = "main" THEN "listen" ELSE "asleep"]
    /\ UNCHANGED <<procVars, ready, list, count, lfd, ret, iter, handVars, passVars,
                   nodeVars, fdtab, netVars, viewVars>>

\* SO_REUSEADDR is not set: bind fails while an old connection holds the port.
PortHeld == \E f \in Fds : fdtab[f] \in Clients

MainListen ==
    /\ At("main", "listen")
    /\ ~PortHeld
    /\ \E f \in Fds :
          /\ Lowest(f)
          /\ fdtab' = [fdtab EXCEPT ![f] = "listen"]
          /\ lfd' = f
    /\ ready' = TRUE
    /\ listening' = "yes"
    /\ Goto("main", "run")
    /\ UNCHANGED <<procVars, state, tid, list, count, ret, iter, handVars, passVars,
                   nodeVars, net, backlog, inbox, sent, viewVars>>

\* assert(bind(...) == 0): connections the server closed linger in TIME_WAIT.
MainBindFails ==
    /\ At("main", "listen")
    /\ \E c \in Clients : net[c] \in {"up", "gone"}
    /\ Die
    /\ UNCHANGED <<trapped, masked, inHandler, tok, thisVars, ctlVars, handVars,
                   passVars, nodeVars, fdtab, netVars, viewVars>>

MainRun ==
    /\ At("main", "run")
    /\ state' = "RUN"
    /\ Goto("main", "loop")
    /\ UNCHANGED <<procVars, ready, tid, list, count, lfd, ret, iter, handVars,
                   passVars, nodeVars, fdtab, netVars, viewVars>>

\* Fault: the loop of __accept admits one client more than the list may hold.
MainLoopOneMore ==
    /\ At("main", "loop")
    /\ \/ /\ count <= MaxCount
          /\ Goto("main", "accept")
          /\ UNCHANGED ret
       \/ /\ count > MaxCount
          /\ Goto("main", "down")
          /\ ret' = [ret EXCEPT !["main"] = "done"]
    /\ UNCHANGED <<procVars, thisVars, iter, handVars, passVars, nodeVars, fdtab,
                   netVars, viewVars>>

\* The loop test of __accept; when it fails main prints the list and shuts down.
MainLoop ==
    /\ At("main", "loop")
    /\ \/ /\ count < MaxCount
          /\ Goto("main", "accept")
          /\ UNCHANGED ret
       \/ /\ count >= MaxCount
          /\ Goto("main", "down")
          /\ ret' = [ret EXCEPT !["main"] = "done"]
    /\ UNCHANGED <<procVars, thisVars, iter, handVars, passVars, nodeVars, fdtab,
                   netVars, viewVars>>

\* accept() blocks until a connection is complete.
MainAccept ==
    /\ At("main", "accept")
    /\ listening # "no" /\ backlog # <<>>
    /\ \E f \in Fds :
          /\ Lowest(f)
          /\ fdtab' = [fdtab EXCEPT ![f] = Head(backlog)]
          /\ handFd' = f
    /\ hand' = Head(backlog)
    /\ backlog' = IF listening = "last" THEN <<>> ELSE Tail(backlog)
    /\ net' = [c \in Clients |->
                 IF c = Head(backlog) /\ net[c] = "pending" THEN "up"
                 ELSE IF listening = "last" /\ c \in ToSet(backlog) THEN "gone"
                 ELSE net[c]]
    /\ listening' = IF listening = "last" THEN "no" ELSE listening
    /\ Goto("main", "check")
    /\ UNCHANGED <<procVars, thisVars, ret, iter, line, passVars, nodeVars, inbox, sent,
                   viewVars>>

\* accept() on a closed listening socket returns -1, which nothing tests.
MainAcceptFails ==
    /\ At("main", "accept")
    /\ listening = "no"
    /\ hand' = NoClient /\ handFd' = -1
    /\ Goto("main", "check")
    /\ UNCHANGED <<procVars, thisVars, ret, iter, line, passVars, nodeVars, fdtab,
                   netVars, viewVars>>

\* With the state at CLOSE the server is shut down, and then goes on regardless.
MainCheck ==
    /\ At("main", "check")
    /\ \/ /\ state = "CLOSE"
          /\ Goto("main", "down")
          /\ ret' = [ret EXCEPT !["main"] = "prompt"]
       \/ /\ state # "CLOSE"
          /\ Goto("main", "prompt")
          /\ UNCHANGED ret
    /\ UNCHANGED <<procVars, thisVars, iter, handVars, passVars, nodeVars, fdtab,
                   netVars, viewVars>>

\* The first half of __auth.  SSL_new(NULL) is NULL, and SSL_set_bio follows it.
MainPrompt ==
    /\ At("main", "prompt")
    /\ ready
    /\ Tell(hand, "who")
    /\ Goto("main", IF hand = NoClient THEN "kick" ELSE "cred")
    /\ UNCHANGED <<procVars, thisVars, ret, iter, handVars, passVars, nodeVars, fdtab,
                   netVars, peers>>

MainPromptFaults ==
    /\ At("main", "prompt")
    /\ ~ready
    /\ Trap("main")
    /\ UNCHANGED <<tok, thisVars, handVars, passVars, nodeVars, fdtab, netVars,
                   viewVars>>

\* SSL_read and the first strtok of __auth.
MainLine ==
    /\ At("main", "cred")
    /\ inbox[hand] # <<>>
    /\ line' = Head(inbox[hand])
    /\ inbox' = [inbox EXCEPT ![hand] = Tail(@)]
    /\ tok' = "main"
    /\ Goto("main", "parse")
    /\ UNCHANGED <<runVars, thisVars, ret, iter, hand, handFd, passVars, nodeVars,
                   fdtab, listening, net, backlog, sent, viewVars>>

\* Fault: what SSL_read returned is not tested.
MainLeftParses ==
    /\ At("main", "cred")
    /\ inbox[hand] = <<>> /\ net[hand] = "gone"
    /\ line' = "none"
    /\ tok' = "main"
    /\ Goto("main", "parse")
    /\ UNCHANGED <<runVars, thisVars, ret, iter, hand, handFd, passVars, nodeVars,
                   fdtab, netVars, viewVars>>

\* The client left before it sent a line.
MainLeft ==
    /\ At("main", "cred")
    /\ inbox[hand] = <<>> /\ net[hand] = "gone"
    /\ Goto("main", "kick")
    /\ UNCHANGED <<procVars, thisVars, ret, iter, handVars, passVars, nodeVars, fdtab,
                   netVars, viewVars>>

\* What __auth takes for the name and the password is a line of kind k: its own
\* line, or whatever strtok finds if the other thread moved it.
Says(k) == tok = "main" => line = k

Parsed ==
    /\ line' = "none"
    /\ tok' = "none"

\* A valid login line: mknod, the fields of the new client, the "auth,ok" reply.
MainAdmit ==
    /\ At("main", "parse")
    /\ ready
    /\ \E r \in {"root", "user"} :
          /\ Says(r)
          /\ role' = [role EXCEPT ![hand] = r]
    /\ Parsed
    /\ cfd' = [cfd EXCEPT ![hand] = handFd]
    /\ conn' = [conn EXCEPT ![hand] = TRUE]
    /\ Tell(hand, "ok")
    /\ Goto("main", "insert")
    /\ UNCHANGED <<runVars, thisVars, ret, iter, hand, handFd, passVars, closes, freed,
                   fdtab, netVars, peers>>

\* Fault: a rejected client is dropped without __kick.
MainRejectSilently ==
    /\ At("main", "parse")
    /\ Says("bad")
    /\ Parsed
    /\ hand' = NoClient /\ handFd' = -1
    /\ Goto("main", "loop")
    /\ UNCHANGED <<runVars, thisVars, ret, iter, passVars, nodeVars, fdtab, netVars,
                   viewVars>>

\* An invalid login line.  With the database closed no line is valid: the built-in
\* table compares the length of the name with sizeof of the literal, which counts
\* the terminator.
MainReject ==
    /\ At("main", "parse")
    /\ Says("bad") \/ (~ready /\ ~Says("short"))
    /\ Parsed
    /\ Goto("main", "kick")
    /\ UNCHANGED <<runVars, thisVars, ret, iter, hand, handFd, passVars, nodeVars,
                   fdtab, netVars, viewVars>>

\* remove_escape(NULL) on a login line without a name or without a password.
MainCredFaults ==
    /\ At("main", "parse")
    /\ Says("short")
    /\ Parsed
    /\ Trap("main")
    /\ UNCHANGED <<thisVars, hand, handFd, passVars, nodeVars, fdtab, netVars,
                   viewVars>>

\* Fault: the descriptor of a rejected connection stays open.
MainKickLeaks ==
    /\ At("main", "kick")
    /\ Tell(hand, "fail")
    /\ hand' = NoClient /\ handFd' = -1
    /\ Goto("main", "loop")
    /\ UNCHANGED <<procVars, thisVars, ret, iter, line, passVars, nodeVars, fdtab,
                   netVars, peers>>

\* __kick
MainKick ==
    /\ At("main", "kick")
    /\ Tell(hand, "fail")
    /\ fdtab' = Closing(handFd)
    /\ hand' = NoClient /\ handFd' = -1
    /\ Goto("main", "loop")
    /\ UNCHANGED <<procVars, thisVars, ret, iter, line, passVars, nodeVars, netVars,
                   peers>>

\* Fault: the new cell becomes the tail of the list.
MainInsertLast ==
    /\ At("main", "insert")
    /\ list' = Append(list, hand)
    /\ Goto("main", "count")
    /\ UNCHANGED <<procVars, state, ready, tid, count, lfd, ret, iter, handVars,
                   passVars, nodeVars, fdtab, netVars, viewVars>>

\* insert_node: the new cell becomes the head of the list.
MainInsert ==
    /\ At("main", "insert")
    /\ list' = <<hand>> \o list
    /\ Goto("main", "count")
    /\ UNCHANGED <<procVars, state, ready, tid, count, lfd, ret, iter, handVars,
                   passVars, nodeVars, fdtab, netVars, viewVars>>

MainCount ==
    /\ At("main", "count")
    /\ count' = count + 1
    /\ Goto("main", "setrun")
    /\ UNCHANGED <<procVars, state, ready, tid, list, lfd, ret, iter, handVars,
                   passVars, nodeVars, fdtab, netVars, viewVars>>

MainSetRun ==
    /\ At("main", "setrun")
    /\ state' = "RUN"
    /\ hand' = NoClient /\ handFd' = -1
    /\ Goto("main", "loop")
    /\ UNCHANGED <<procVars, ready, tid, list, count, lfd, ret, iter, line, passVars,
                   nodeVars, fdtab, netVars, viewVars>>

-----------------------------------------------------------------------------
(* __down, entered by main on its own and by either thread in the handler *)

DownBegin(t) ==
    /\ At(t, "down")
    /\ state' = "CLOSE"
    /\ iter' = [iter EXCEPT ![t] = list]
    /\ Goto(t, "close")
    /\ UNCHANGED <<procVars, ready, tid, list, count, lfd, ret, handVars, passVars,
                   nodeVars, fdtab, netVars, viewVars>>

\* Fault: the tear down takes the clients off the counter, whoever counted them.
DownCloseCounts(t) ==
    /\ At(t, "close")
    /\ iter[t] # <<>>
    /\ Release(Head(iter[t]))
    /\ iter' = [iter EXCEPT ![t] = Tail(@)]
    /\ count' = count - 1
    /\ UNCHANGED <<procVars, state, ready, tid, list, lfd, pc, ret, handVars, passVars,
                   netVars, viewVars>>

\* foreach_node_callback(close_all_clients), one cell.
DownClose(t) ==
    /\ At(t, "close")
    /\ iter[t] # <<>>
    /\ Release(Head(iter[t]))
    /\ iter' = [iter EXCEPT ![t] = Tail(@)]
    /\ UNCHANGED <<procVars, thisVars, pc, ret, handVars, passVars, netVars, viewVars>>

DownClosed(t) ==
    /\ At(t, "close")
    /\ iter[t] = <<>>
    /\ iter' = [iter EXCEPT ![t] = list]
    /\ Goto(t, "free")
    /\ UNCHANGED <<procVars, thisVars, ret, handVars, passVars, nodeVars, fdtab,
                   netVars, viewVars>>

\* foreach_node_free; the head of the list keeps pointing at the freed cells.
DownFree(t) ==
    /\ At(t, "free")
    /\ freed' = freed \cup ToSet(iter[t])
    /\ iter' = [iter EXCEPT ![t] = <<>>]
    /\ Goto(t, "unlisten")
    /\ UNCHANGED <<procVars, thisVars, ret, handVars, passVars, conn, role, cfd, closes,
                   fdtab, netVars, viewVars>>

\* close(server.sock.fd).  An accept() blocked in the other thread keeps the
\* socket open until it has taken one more connection.
DownUnlisten(t) ==
    /\ At(t, "unlisten")
    /\ fdtab' = Closing(lfd)
    /\ IF fdtab[lfd] # "listen" THEN UNCHANGED <<listening, backlog, net>>
       ELSE IF pc["main"] = "accept"
       THEN listening' = "last" /\ UNCHANGED <<backlog, net>>
       ELSE /\ listening' = "no"
            /\ backlog' = <<>>
            /\ net' = [c \in Clients |-> IF c \in ToSet(backlog) THEN "gone" ELSE net[c]]
    /\ Goto(t, "join")
    /\ UNCHANGED <<procVars, thisVars, ret, iter, handVars, passVars, nodeVars, inbox,
                   sent, viewVars>>

\* Fault: the tear down detaches the serving thread and goes on.
DownJoinDetaches(t) ==
    /\ At(t, "join")
    /\ tid = "serve"
    /\ Goto(t, ret[t])
    /\ UNCHANGED <<procVars, thisVars, ret, iter, handVars, passVars, nodeVars, fdtab,
                   netVars, viewVars>>

\* pthread_join(thread.tid): joining oneself fails at once with EDEADLK.
DownJoin(t) ==
    /\ At(t, "join")
    /\ tid = "serve"
    /\ Goto(t, IF t = "serve" THEN ret[t] ELSE "joining")
    /\ UNCHANGED <<procVars, thisVars, ret, iter, handVars, passVars, nodeVars, fdtab,
                   netVars, viewVars>>

DownJoined(t) ==
    /\ At(t, "joining")
    /\ pc["serve"] = "done"
    /\ Goto(t, ret[t])
    /\ UNCHANGED <<procVars, thisVars, ret, iter, handVars, passVars, nodeVars, fdtab,
                   netVars, viewVars>>

\* pthread_join(0) reads through a null pointer.
DownJoinFaults(t) ==
    /\ At(t, "join")
    /\ tid = "none"
    /\ Trap(t)
    /\ UNCHANGED <<tok, thisVars, handVars, passVars, nodeVars, fdtab, netVars,
                   viewVars>>

-----------------------------------------------------------------------------
(* The rest of the SIGSEGV handler *)

\* pthread_cancel, tid = 0, and reset(), which restores the static initialiser.
HandlerReset(t) ==
    /\ At(t, "reset")
    /\ tid' = "none" /\ list' = <<>> /\ count' = 0 /\ lfd' = 0 /\ ready' = FALSE
    /\ Goto(t, "resume")
    /\ UNCHANGED <<procVars, state, ret, iter, handVars, passVars, nodeVars, fdtab,
                   netVars, viewVars>>

\* Execution resumes at the checkpoint in main(), on the stack frame of the
\* function that faulted: the process may crash there.  The serving thread has
\* cancelled itself and ends at the first cancellation point, fopen().
HandlerResume(t) ==
    /\ At(t, "resume")
    /\ inHandler' = [inHandler EXCEPT ![t] = FALSE]
    /\ Goto(t, IF t = "main" THEN "boot" ELSE "done")
    /\ alive' \in BOOLEAN
    /\ UNCHANGED <<trapped, masked, tok, thisVars, ret, iter, handVars, passVars,
                   nodeVars, fdtab, netVars, viewVars>>

-----------------------------------------------------------------------------
(* The serving thread: serve_clients, __process_cmd *)

Current == Head(node)

\* sleep(10)
ServeWake ==
    /\ At("serve", "asleep")
    /\ Goto("serve", "pass")
    /\ UNCHANGED <<procVars, thisVars, ret, iter, handVars, passVars, nodeVars, fdtab,
                   netVars, viewVars>>

\* Fault: the pass counts its clients from one.
ServePassFromOne ==
    /\ At("serve", "pass")
    /\ node' = list
    /\ i' = 1
    /\ todo' = ToSet(list)
    /\ Goto("serve", "test")
    /\ UNCHANGED <<procVars, thisVars, ret, iter, handVars, cmd, nodeVars, fdtab,
                   netVars, viewVars>>

\* node = ctrl.list_head; i = 0
ServePass ==
    /\ At("serve", "pass")
    /\ node' = list
    /\ i' = 0
    /\ todo' = ToSet(list)
    /\ Goto("serve", "test")
    /\ UNCHANGED <<procVars, thisVars, ret, iter, handVars, cmd, nodeVars, fdtab,
                   netVars, viewVars>>

\* Fault: the pass ends one client early.
GoesOnShort == i + 1 < count /\ state = "RUN" /\ node # <<>>

\* The loop condition, on the count and the state of this moment.
GoesOn == i < count /\ state = "RUN" /\ node # <<>>

ServeTest ==
    /\ At("serve", "test")
    /\ Goto("serve", IF GoesOn THEN "poll" ELSE "passend")
    /\ UNCHANGED <<procVars, thisVars, ret, iter, handVars, passVars, nodeVars, fdtab,
                   netVars, viewVars>>

\* Fault: is_connected is not tested.
ServePollAnyone ==
    /\ At("serve", "poll")
    /\ todo' = todo \ {Current}
    /\ Goto("serve", "read")
    /\ UNCHANGED <<procVars, thisVars, ret, iter, handVars, node, i, cmd, nodeVars,
                   fdtab, netVars, viewVars>>

\* client.is_connected of the current cell
ServePoll ==
    /\ At("serve", "poll")
    /\ todo' = todo \ {Current}
    /\ Goto("serve", IF conn[Current] THEN "read" ELSE "next")
    /\ UNCHANGED <<procVars, thisVars, ret, iter, handVars, node, i, cmd, nodeVars,
                   fdtab, netVars, viewVars>>

\* A whole command arrived.  bye is looked for in the whole line; any other
\* command goes to the first strtok of __process_cmd.
ServeRead ==
    /\ At("serve", "read")
    /\ inbox[Current] # <<>>
    /\ cmd' = Head(inbox[Current])
    /\ tok' = IF cmd' = "bye" THEN tok ELSE "serve"
    /\ inbox' = [inbox EXCEPT ![Current] = Tail(@)]
    /\ Goto("serve", "handle")
    /\ UNCHANGED <<runVars, thisVars, ret, iter, handVars, node, i, todo, nodeVars,
                   fdtab, listening, net, backlog, sent, viewVars>>

\* Nothing within the receive timeout of 300 ms: -1.
ServeTimeout ==
    /\ At("serve", "read")
    /\ inbox[Current] = <<>> /\ net[Current] = "up"
    /\ Goto("serve", "next")
    /\ UNCHANGED <<procVars, thisVars, ret, iter, handVars, passVars, nodeVars, fdtab,
                   netVars, viewVars>>

\* The client hung up: 0.  Only the flag changes, the descriptor stays open.
ServeEof ==
    /\ At("serve", "read")
    /\ inbox[Current] = <<>> /\ net[Current] = "gone"
    /\ conn' = [conn EXCEPT ![Current] = FALSE]
    /\ Goto("serve", "next")
    /\ UNCHANGED <<procVars, thisVars, ret, iter, handVars, passVars, role, cfd, closes,
                   freed, fdtab, netVars, viewVars>>

\* The command runs as one of kind k: its own line, or whatever strtok finds if
\* the other thread moved it.
Runs(k) == IF tok = "serve" THEN cmd = k ELSE cmd \notin {"bye", "hog"}

Handled ==
    /\ cmd' = "none"
    /\ tok' = "none"

\* A command that touches neither the session nor the server, or one the
\* client's role does not permit.
ServePlain ==
    /\ At("serve", "handle")
    /\ \/ Runs("plain")
       \/ (Runs("peers") \/ Runs("shutdown")) /\ role[Current] # "root"
    /\ Handled
    /\ Goto("serve", "next")
    /\ UNCHANGED <<runVars, thisVars, ret, iter, handVars, node, i, todo, nodeVars,
                   fdtab, netVars, viewVars>>

\* The thread is stuck in SSL_read or SSL_write until the client hangs up.
Held == At("serve", "handle") /\ cmd = "hog" /\ net[Current] # "gone"

ServeHog ==
    /\ At("serve", "handle")
    /\ cmd = "hog" /\ net[Current] = "gone"
    /\ Handled
    /\ Goto("serve", "next")
    /\ UNCHANGED <<runVars, thisVars, ret, iter, handVars, node, i, todo, nodeVars,
                   fdtab, netVars, viewVars>>

\* Fault: bye closes the session and leaves it marked as connected.
ServeByeUnmarked ==
    /\ At("serve", "handle")
    /\ cmd = "bye"
    /\ closes' = [closes EXCEPT ![Current] = 1]
    /\ fdtab' = Closing(cfd[Current])
    /\ cmd' = "none"
    /\ Goto("serve", "next")
    /\ UNCHANGED <<procVars, thisVars, ret, iter, handVars, node, i, todo, conn, role,
                   cfd, freed, netVars, viewVars>>

\* Fault: bye frees the cell and leaves it on the list.
ServeByeFrees ==
    /\ At("serve", "handle")
    /\ cmd = "bye"
    /\ conn' = [conn EXCEPT ![Current] = FALSE]
    /\ closes' = [closes EXCEPT ![Current] = 1]
    /\ freed' = freed \cup {Current}
    /\ fdtab' = Closing(cfd[Current])
    /\ cmd' = "none"
    /\ Goto("serve", "next")
    /\ UNCHANGED <<procVars, thisVars, ret, iter, handVars, node, i, todo, role, cfd,
                   netVars, viewVars>>

\* bye: the session is released and its cell stays on the list.
ServeBye ==
    /\ At("serve", "handle")
    /\ cmd = "bye"
    /\ Release(Current)
    /\ cmd' = "none"
    /\ Goto("serve", "next")
    /\ UNCHANGED <<procVars, thisVars, ret, iter, handVars, node, i, todo, netVars,
                   viewVars>>

\* control,list-peers: __list prints every cell of the list.  The address of a
\* client that said bye was freed with the session: its entry prints garbage.
ServePeers ==
    /\ At("serve", "handle")
    /\ Runs("peers") /\ role[Current] = "root"
    /\ peers' = ToSet(list)
    /\ Handled
    /\ Goto("serve", "next")
    /\ UNCHANGED <<runVars, thisVars, ret, iter, handVars, node, i, todo, nodeVars,
                   fdtab, netVars, told>>

\* control,shutdown: __down on the client's own, zeroed structure: no list, a
\* listening descriptor 0, a thread id 0.
ServeShutdown ==
    /\ At("serve", "handle")
    /\ Runs("shutdown") /\ role[Current] = "root"
    /\ state' = "CLOSE"
    /\ fdtab' = Closing(0)
    /\ Handled
    /\ Goto("serve", "selfjoin")
    /\ UNCHANGED <<runVars, ready, tid, list, count, lfd, ret, iter, handVars, node, i,
                   todo, nodeVars, netVars, viewVars>>

ServeShutdownFaults ==
    /\ At("serve", "selfjoin")
    /\ Trap("serve")
    /\ UNCHANGED <<tok, thisVars, handVars, passVars, nodeVars, fdtab, netVars,
                   viewVars>>

\* atoi(NULL), strchr(NULL) and the like on a command that lacks arguments.
ServeCmdFaults ==
    /\ At("serve", "handle")
    /\ Runs("short")
    /\ tok' = "none"
    /\ Trap("serve")
    /\ UNCHANGED <<thisVars, handVars, passVars, nodeVars, fdtab, netVars, viewVars>>

\* get_next_node stays on the last cell.
ServeNext ==
    /\ At("serve", "next")
    /\ node' = IF Tail(node) = <<>> THEN node ELSE Tail(node)
    /\ i' = i + 1
    /\ Goto("serve", "test")
    /\ UNCHANGED <<procVars, thisVars, ret, iter, handVars, cmd, todo, nodeVars, fdtab,
                   netVars, viewVars>>

\* Fault: the serving thread does not look at the state between passes.
ServePassEndForever ==
    /\ At("serve", "passend")
    /\ Goto("serve", "pass")
    /\ UNCHANGED <<procVars, thisVars, ret, iter, handVars, passVars, nodeVars, fdtab,
                   netVars, viewVars>>

ServePassEnd ==
    /\ At("serve", "passend")
    /\ Goto("serve", IF state = "CLOSE" THEN "done" ELSE "pass")
    /\ UNCHANGED <<procVars, thisVars, ret, iter, handVars, passVars, nodeVars, fdtab,
                   netVars, viewVars>>

-----------------------------------------------------------------------------
(* Undefined behaviour *)

Released(c) == c \in freed \/ closes[c] > 0

\* The step thread t is about to take reads or frees something released.
TouchesReleased(t) ==
    \/ pc[t] = "close" /\ iter[t] # <<>> /\ Released(Head(iter[t]))
    \/ pc[t] = "free" /\ ToSet(iter[t]) \cap freed # {}
    \/ pc[t] = "insert" /\ list # <<>> /\ Head(list) \in freed
    \/ pc[t] = "loop" /\ count >= MaxCount /\ ToSet(list) \cap freed # {}
    \/ pc[t] \in {"poll", "next"} /\ Current \in freed
    \/ pc[t] \in {"read", "handle"} /\ Released(Current)

Undefined(t) ==
    /\ alive
    /\ TouchesReleased(t)
    /\ \/ Trap(t)
       \/ Die /\ UNCHANGED <<trapped, masked, inHandler, ctlVars>>
    /\ UNCHANGED <<tok, thisVars, handVars, passVars, nodeVars, fdtab, netVars,
                   viewVars>>

-----------------------------------------------------------------------------
(* The clients *)

Connect(c) ==
    /\ alive
    /\ net[c] = "away" /\ listening # "no"
    /\ net' = [net EXCEPT ![c] = "pending"]
    /\ backlog' = Append(backlog, c)
    /\ UNCHANGED <<procVars, thisVars, ctlVars, handVars, passVars, nodeVars, fdtab,
                   listening, inbox, sent, viewVars>>

\* The first line of a connection is its login line.
Send(c) ==
    /\ alive
    /\ net[c] = "up" /\ sent[c] < MaxSends
    /\ sent' = [sent EXCEPT ![c] = @ + 1]
    /\ \E l \in IF sent[c] = 0 THEN Creds ELSE Cmds :
          inbox' = [inbox EXCEPT ![c] = Append(@, l)]
    /\ UNCHANGED <<procVars, thisVars, ctlVars, handVars, passVars, nodeVars, fdtab,
                   listening, net, backlog, viewVars>>

Hangup(c) ==
    /\ alive
    /\ net[c] \in {"pending", "up"}
    /\ net' = [net EXCEPT ![c] = "gone"]
    /\ UNCHANGED <<procVars, thisVars, ctlVars, handVars, passVars, nodeVars, fdtab,
                   listening, backlog, inbox, sent, viewVars>>

-----------------------------------------------------------------------------

Down(t) ==
    \/ DownBegin(t) \/ DownClose(t) \/ DownClosed(t) \/ DownFree(t)
    \/ DownUnlisten(t) \/ DownJoin(t) \/ DownJoined(t) \/ DownJoinFaults(t)
    \/ HandlerReset(t) \/ HandlerResume(t) \/ Undefined(t)

Main ==
    \/ MainBoot \/ MainListen \/ MainBindFails \/ MainRun \/ MainLoop
    \/ MainAccept \/ MainAcceptFails \/ MainCheck
    \/ MainPrompt \/ MainPromptFaults
    \/ MainLine \/ MainLeft \/ MainAdmit \/ MainReject \/ MainCredFaults \/ MainKick
    \/ MainInsert \/ MainCount \/ MainSetRun
    \/ Down("main")

Serve ==
    \/ ServeWake \/ ServePass \/ ServeTest \/ ServePoll
    \/ ServeRead \/ ServeTimeout \/ ServeEof
    \/ ServePlain \/ ServeHog \/ ServeBye \/ ServePeers
    \/ ServeShutdown \/ ServeShutdownFaults \/ ServeCmdFaults
    \/ ServeNext \/ ServePassEnd
    \/ Down("serve")

Environment == \E c \in Clients : Connect(c) \/ Send(c) \/ Hangup(c)

Next == Main \/ Serve \/ Environment

Spec == Init /\ [][Next]_vars

\* The operating system runs every thread that can run; clients may stay silent.
FairSpec == Spec /\ WF_vars(Main) /\ WF_vars(Serve)

-----------------------------------------------------------------------------
(* Safety *)

Listed == ToSet(list)

\* The counter that ends the accept loop follows the list: it is one behind
\* between insert_node and ++actv_client_count, exact otherwise, and never passes
\* the limit (server.c:206, 251-252).
CountTracksList ==
    ~trapped =>
        /\ Len(list) = count + (IF pc["main"] = "count" THEN 1 ELSE 0)
        /\ Len(list) <= MaxCount

\* A listed client that counts as connected owns the descriptor its session reads
\* and writes, whatever numbers were closed, reused and closed again meanwhile
\* (server.c:226, 295-307, 312-322).
LiveFdOwned ==
    ~trapped => \A c \in Listed : conn[c] => fdtab[cfd[c]] = c

\* Every descriptor of a client is accounted for: it belongs to the connection in
\* hand or to a listed session that was not released.  (A session ended by EOF
\* keeps its descriptor; kick, bye and down give theirs back.)
DescriptorsAccounted ==
    ~trapped =>
        \A f \in Fds : fdtab[f] \in Clients =>
            \/ fdtab[f] = hand /\ f = handFd
            \/ fdtab[f] \in Listed /\ cfd[fdtab[f]] = f /\ closes[fdtab[f]] = 0

\* A pass that ends because it reached the count has polled every client listed
\* when it began, except possibly the oldest, and that one only while a login
\* stands between insert_node and ++actv_client_count (sched.c:22-23).
PassCoversList ==
    ~trapped /\ pc["serve"] = "test" /\ i >= count =>
        todo \subseteq (IF pc["main"] = "count" THEN {Last(list)} ELSE {})

\* While the server is in service no thread touches a released session or cell:
\* is_connected and the order of the list protect them.  (server.c:299-331,
\* sched.c:26-49)
NoUseAfterRelease ==
    \A t \in Threads : ~trapped /\ TouchesReleased(t) => state = "CLOSE"

\* The first fault, if any, comes from the tear down (the shutdown command's own
\* included), from a line that lacks fields, or from a line whose fields strtok
\* lost to the other thread: no other interleaving of well-formed traffic crashes
\* a server in service.  (main.c:27-44, server.c:325-331, authorize.c:102-104)
FaultsOnlyInDown ==
    [][~trapped /\ trapped' =>
         \/ state = "CLOSE" \/ pc["serve"] = "selfjoin"
         \/ pc["main"] = "parse" /\ (tok # "main" \/ line = "short")
         \/ pc["serve"] = "handle" /\ (tok # "serve" \/ cmd = "short")]_vars

\* main begins again only when no serving thread of its former life is left: the
\* handler joins that thread before it resets what both use, and where the serving
\* thread ran the handler itself, a later fault of main finds no thread to join and
\* ends the process instead of starting a second one (main.c:27-44, server.c:330).
OneServingThread == pc["main"] = "boot" => pc["serve"] \in {"none", "done"}

-----------------------------------------------------------------------------
(* The client list as the rest of the server takes it: ThorList, which the    *)
(* cells of headers/list.h implement (ThorCells).                             *)

Cursor == [w \in Threads \cup {"pass"} |-> IF w = "pass" THEN node ELSE iter[w]]

L == INSTANCE ThorList WITH Walkers <- Threads \cup {"pass"},
                            cursor <- Cursor, released <- freed # {}

\* Whatever the interleaving of logins, passes, tear downs and a restart, the
\* server grows its list at the head only and each walk stays on the list as it
\* was when the walk began, until the tear down frees it (server.c:250,
\* 325-331, sched.c:21-49).
UsesList == L!Spec

-----------------------------------------------------------------------------
(* The server as its clients take it: ThorService.                           *)

Leaving == state = "CLOSE" \/ pc["serve"] = "selfjoin" \/ trapped \/ ~alive

Stage(c) ==
    CASE c = hand /\ pc["main"] = "parse" -> "judged"
      [] c = hand /\ pc["main"] = "kick" -> "refused"
      [] c = hand /\ pc["main"] \in {"check", "prompt", "cred"} -> "login"
      [] c # hand /\ (net[c] = "away" \/ c \in ToSet(backlog)) -> "waiting"
      [] OTHER -> IF conn[c] THEN "session" ELSE "over"

Service == INSTANCE ThorService WITH stage <- [c \in Clients |-> Stage(c)],
                                     queue <- inbox, heard <- told, out <- Leaving

\* Every client gets one verdict, on the first line it sent and on no other; the
\* serving thread reads only of clients the accept loop admitted, in the order they
\* sent, and of none whose session ended, although is_connected and the list are
\* all the two threads tell each other (server.c:206-261, sched.c:21-49).
ImplementsService == Service!Spec

-----------------------------------------------------------------------------
(* The inductive invariant behind the safety properties, by named parts.  All *)
(* but Placed speak of a process in which no fault occurred yet.              *)

\* Labels at which main runs a tear down that has set the state.
Downing == pc["main"] \in {"close", "free", "unlisten", "join", "joining", "done"}

\* s is what remains of the list after some of its newest cells.
IsRest(s) ==
    /\ Len(s) <= Len(list)
    /\ \A j \in 1..Len(s) : s[j] = list[Len(list) - Len(s) + j]

Placed ==
    /\ pc["main"] \in {"cred", "parse", "insert", "count", "setrun"} => hand # NoClient
    /\ hand = NoClient => handFd = -1
    /\ pc["serve"] \in {"poll", "read", "handle", "next"} => node # <<>>

\* The serving thread never tears down; CLOSE comes from main's tear down or
\* from a shutdown command about to fault.
Control ==
    /\ pc["serve"] \notin DownLabels
    /\ pc["main"] \notin {"reset", "resume"} /\ ret["main"] # "reset"
    /\ Downing => state = "CLOSE"
    /\ state = "CLOSE" => Downing \/ pc["serve"] = "selfjoin"
    /\ pc["main"] = "down" \/ Downing =>
          \/ ret["main"] = "done" /\ hand = NoClient
          \/ ret["main"] = "prompt" /\ pc["serve"] = "selfjoin"
    /\ pc["main"] \in {"boot", "listen", "run", "loop", "accept"} => hand = NoClient
    /\ pc["main"] = "boot" => pc["serve"] = "none"
    /\ pc["main"] \notin {"boot", "listen"} => ready

Counted ==
    /\ Len(list) = count + (IF pc["main"] = "count" THEN 1 ELSE 0)
    /\ Len(list) <= MaxCount
    /\ pc["main"] \in {"accept", "check", "prompt", "cred", "parse", "insert", "count"}
          => count < MaxCount

\* A connection is in one place: still away, waiting, in hand, or listed.
Apart ==
    /\ \A c \in Clients :
          net[c] = "away" => c \notin Listed \cup ToSet(backlog) \cup {hand}
    /\ IsInjective(backlog)
    /\ Listed \cap ToSet(backlog) = {}
    /\ hand \notin ToSet(backlog)
    /\ IF pc["main"] \in {"count", "setrun"} THEN hand \in Listed ELSE hand \notin Listed

Sessions ==
    /\ \A c \in Clients :
          /\ conn[c] => closes[c] = 0 /\ c \in Listed \cup {hand}
          /\ conn[c] /\ c \notin Listed => pc["main"] = "insert"
          /\ closes[c] > 0 => c \in Listed
    /\ freed # {} => pc["main"] \in {"unlisten", "join", "joining", "done"}
    /\ pc["serve"] \in {"read", "handle"} /\ ~conn[Current] =>
          Downing /\ fdtab[cfd[Current]] \notin Clients
    /\ pc["main"] \in {"free", "unlisten", "join", "joining", "done"} =>
          \A c \in Listed : ~conn[c]

\* The cursors of the two threads stay inside the list; main has closed what
\* its cursor has passed.
Cursors ==
    /\ IsRest(node)
    /\ pc["main"] = "close" =>
          /\ IsRest(iter["main"])
          /\ \A j \in 1..(Len(list) - Len(iter["main"])) : ~conn[list[j]]

Covered ==
    /\ pc["serve"] \in {"test", "poll"} /\ todo # {} =>
          todo \subseteq ToSet(node) /\ Len(node) + i <= Len(list)
    /\ pc["serve"] \in {"read", "handle", "next"} /\ todo # {} =>
          todo \subseteq ToSet(Tail(node)) /\ Len(node) + i <= Len(list)

Descriptors ==
    /\ \A c \in Clients : conn[c] => cfd[c] \in Fds /\ fdtab[cfd[c]] = c
    /\ \A f \in Fds : fdtab[f] \in Clients =>
          /\ closes[fdtab[f]] = 0
          /\ \/ fdtab[f] = hand /\ f = handFd
             \/ fdtab[f] \in Listed /\ cfd[fdtab[f]] = f
    /\ \A j, k \in 1..Len(list) :
          j < k /\ conn[list[k]] => cfd[list[k]] # cfd[list[j]]
    /\ pc["main"] \in {"check", "prompt", "cred", "parse", "insert", "kick"}
         /\ hand # NoClient =>
          handFd \in Fds /\ fdtab[handFd] = hand
    /\ pc["main"] \in {"insert", "count", "setrun"} => cfd[hand] = handFd
    /\ pc["serve"] # "selfjoin" =>
          fdtab[0] \notin Clients /\ (Downing \/ fdtab[0] = "std")

Inductive ==
    /\ Placed
    /\ ~trapped =>
          /\ Control /\ Counted /\ Apart /\ Sessions
          /\ Cursors /\ Covered /\ Descriptors

-----------------------------------------------------------------------------
(* Liveness *)

OutOfService == state = "CLOSE" \/ trapped \/ ~alive

\* Unless a client holds the serving thread for ever, whatever a connected client
\* has sent is read in the end, or its session ends, or the server leaves service:
\* polling starves nobody (sched.c:21-56).
CommandsServed ==
    []<>~Held => \A c \in Clients :
        conn[c] /\ c \in Listed /\ inbox[c] # <<>>
            ~> inbox[c] = <<>> \/ ~conn[c] \/ OutOfService

\* Unless a client holds the serving thread for ever, once the tear down has begun
\* that thread stops and main joins it, or the tear down faults (server.c:325-331,
\* sched.c:52).
DownCompletes ==
    []<>~Held => state = "CLOSE" ~> pc["main"] = "done" \/ trapped \/ ~alive

\* The accept loop waits for a client that neither answers the prompt nor hangs up.
Unanswered == \E c \in Clients : net[c] = "up" /\ sent[c] = 0

\* Unless a client leaves the prompt unanswered for ever, the clients that connect
\* are told whether they are logged in, unless they hang up or the server leaves
\* service, and none is left over: the accept loop authenticates one connection at a
\* time (server.c:206-261).
LoginAnswered ==
    []<>~Unanswered =>
        ((\E c \in Clients : net[c] = "pending")
            ~> \/ \A c \in Clients : net[c] \in {"pending", "up"} => told[c] \in {"ok", "fail"}
               \/ OutOfService)

-----------------------------------------------------------------------------
(* What the documentation says and the code does not do *)

\* readme.md:32: a login fails only if its credentials are invalid.
FailureMeansInvalid ==
    [][~trapped /\ At("main", "parse") /\ pc'["main"] = "kick"
         => line = "bad"]_vars

\* readme.md:36: a client that was told "auth,ok" can run commands.
LoggedInIsServed ==
    \A c \in Clients :
        told[c] = "ok" /\ inbox[c] # <<>>
            ~> inbox[c] = <<>> \/ net[c] = "gone" \/ trapped \/ ~alive

===============================================================================
