------------------------------ MODULE ThorService ------------------------------
(***************************************************************************)
(* What the clients of Thor may expect of it while it is in service.       *)
(*                                                                         *)
(* Clients are logged in one at a time.  One is prompted and sends a line, *)
(* and that line alone decides whether it is admitted.  Of a client that   *)
(* is admitted the lines that follow are read in the order they were sent, *)
(* as commands, until its session ends; of a client that is refused or     *)
(* whose session ended nothing is read any more.                           *)
(***************************************************************************)
EXTENDS Sequences

CONSTANTS
    Clients,    \* the connections clients may open
    Lines       \* what they send

VARIABLES
    stage,      \* [Clients -> how far the service of the client is]
    queue,      \* [Clients -> Seq(Lines)]: sent and not yet read
    heard,      \* [Clients -> the last answer about the login]
    out         \* the server left service: nothing is promised any more

vars == <<stage, queue, heard, out>>

Stages  == {"waiting", "login", "judged", "refused", "session", "over"}
Answers == {"-", "who", "ok", "fail"}

TypeOK ==
    /\ stage \in [Clients -> Stages]
    /\ queue \in [Clients -> Seq(Lines)]
    /\ heard \in [Clients -> Answers]
    /\ out \in BOOLEAN

Init ==
    /\ stage = [c \in Clients |-> "waiting"]
    /\ queue = [c \in Clients |-> <<>>]
    /\ heard = [c \in Clients |-> "-"]
    /\ out = FALSE

Enter(c, s) == stage' = [stage EXCEPT ![c] = s]

\* A client that hung up does not hear the answer.
Answer(c, a) == heard' \in {heard, [heard EXCEPT ![c] = a]}

Reads(c) ==
    /\ queue[c] # <<>>
    /\ queue' = [queue EXCEPT ![c] = Tail(@)]

Submit(c, l) ==
    /\ queue' = [queue EXCEPT ![c] = Append(@, l)]
    /\ UNCHANGED <<stage, heard, out>>

Accept(c) ==
    /\ stage[c] = "waiting"
    /\ \A d \in Clients : stage[d] \notin {"login", "judged", "refused"}
    /\ Enter(c, "login")
    /\ UNCHANGED <<queue, heard, out>>

Prompt(c) ==
    /\ stage[c] = "login"
    /\ Answer(c, "who")
    /\ UNCHANGED <<stage, queue, out>>

ReadLogin(c) ==
    /\ stage[c] = "login"
    /\ Reads(c)
    /\ Enter(c, "judged")
    /\ UNCHANGED <<heard, out>>

Admit(c) ==
    /\ stage[c] = "judged"
    /\ Enter(c, "session")
    /\ Answer(c, "ok")
    /\ UNCHANGED <<queue, out>>

\* The line is no login, or the client hung up before it sent one.
Refuse(c) ==
    /\ stage[c] \in {"login", "judged"}
    /\ Enter(c, "refused")
    /\ UNCHANGED <<queue, heard, out>>

Dismiss(c) ==
    /\ stage[c] = "refused"
    /\ Enter(c, "over")
    /\ Answer(c, "fail")
    /\ UNCHANGED <<queue, out>>

ReadCommand(c) ==
    /\ stage[c] = "session"
    /\ Reads(c)
    /\ UNCHANGED <<stage, heard, out>>

End(c) ==
    /\ stage[c] = "session"
    /\ Enter(c, "over")
    /\ UNCHANGED <<queue, heard, out>>

\* The server shuts down or faults, or does anything after it did.
Leave ==
    /\ out'
    /\ stage' \in [Clients -> Stages]
    /\ queue' \in [Clients -> Seq(Lines)]
    /\ heard' \in [Clients -> Answers]

Next ==
    \/ Leave
    \/ \E c \in Clients :
          \/ Accept(c) \/ Prompt(c) \/ ReadLogin(c) \/ Admit(c) \/ Refuse(c)
          \/ Dismiss(c) \/ ReadCommand(c) \/ End(c)
          \/ \E l \in Lines : Submit(c, l)

Spec == Init /\ [][Next]_vars

===============================================================================
