----------------------------- MODULE ThorFraming ------------------------------
(***************************************************************************)
(* How serve_clients (core/sched.c) puts commands together from what       *)
(* SSL_read returns, for one session.  The client writes a stream of       *)
(* commands and its TLS library cuts the stream into records as it likes.  *)
(* SSL_read returns at most one record, and at most what fits into the     *)
(* read buffer; it gives up after 300 ms without data.                     *)
(*                                                                         *)
(* Text is a sequence of symbols.  The footer is two symbols, so that a    *)
(* record can end inside it; "nl" is a line break; the others are any text.*)
(***************************************************************************)
EXTENDS Integers, SequencesExt

CONSTANTS
  Letters,    \* What texts consist of; "nl" among them is a line break
  Bodies,     \* The texts, without footer, of the commands the client sends
  ReadMax,    \* The size of the read buffer, 7999 in the code
  MaxCommands \* Bound: the commands the client sends

ASSUME FramingAssumption ==
  /\ "foot" \notin Letters /\ "er" \notin Letters
  /\ Bodies \subseteq Seq(Letters)
  /\ ReadMax \in Nat \ {0}
  /\ MaxCommands \in Nat

Footer == <<"foot", "er">>

VARIABLES
  stream,  \* All that the client wrote; what follows are positions in it
  ends,    \* Where each command of it ends, with its footer (history)
  flushed, \* How much of it the client's TLS library has sent
  cuts,    \* Where the records end that were not read to their end
  at,      \* How much of it SSL_read has returned
  pc,      \* "poll": about to read a new command, "read": in the loop of reads
  frag,    \* _buf: what it holds up to its first null byte
  text,    \* buf: the command put together so far
  got,     \* What the dispatcher took for commands, in order (history)
  blemish  \* The kinds of accident met so far (history)

client == <<stream, ends, flushed>>
vars == <<client, cuts, at, pc, frag, text, got, blemish>>

Blemishes == {"shrunk", "merged", "newline", "timeout"}
Symbols == Letters \cup {"foot", "er"}

TypeOK ==
  /\ stream \in Seq(Symbols)
  /\ ends \in Seq(1 .. Len(stream))
  /\ flushed \in 0 .. Len(stream)
  /\ at \in 0 .. flushed
  /\ cuts \subseteq at + 1 .. flushed
  /\ flushed \in cuts \cup {at}
  /\ pc \in {"poll", "read"}
  /\ frag \in Seq(Symbols) /\ Len(frag) <= ReadMax
  /\ text \in Seq(Symbols)
  /\ got \in Seq(Seq(Symbols))
  /\ blemish \subseteq Blemishes

Init ==
  /\ stream = <<>> /\ ends = <<>>
  /\ flushed = 0 /\ cuts = {} /\ at = 0
  /\ pc = "poll" /\ frag = <<>> /\ text = <<>>
  /\ got = <<>> /\ blemish = {}

-------------------------------------------------------------------------------
(* The client.                                                             *)

Write(body) ==
  /\ Len(ends) < MaxCommands
  /\ stream' = stream \o body \o Footer
  /\ ends' = Append(ends, Len(stream'))
  /\ UNCHANGED <<flushed, cuts, at, pc, frag, text, got, blemish>>

\* Any part of what is pending becomes a record.
Flush ==
  /\ \E n \in flushed + 1 .. Len(stream) :
       /\ flushed' = n
       /\ cuts' = cuts \cup {n}
  /\ UNCHANGED <<stream, ends, at, pc, frag, text, got, blemish>>

-------------------------------------------------------------------------------
(* The text functions of the server.                                       *)

\* strstr: where the first footer begins, 0 if there is none.
FooterAt(s) ==
  LET footers == {i \in 1 .. Len(s) - 1 : <<s[i], s[i + 1]>> = Footer}
  IN IF footers = {} THEN 0 ELSE Min(footers)

\* Plausible mistake, for the sensitivity of the checks: reading behind the
\* fragment before.
OverBehind(new, old) == old \o new

\* SSL_read writes over the start of _buf, which was cleared before the first
\* read of a command only.
Over(new, old) == new \o SubSeq(old, Len(new) + 1, Len(old))

\* trim puts a null byte in place of every line break.
Trimmed(s) ==
  LET breaks == {i \in 1 .. Len(s) : s[i] = "nl"}
  IN IF breaks = {} THEN s ELSE SubSeq(s, 1, Min(breaks) - 1)

\* strtok takes the arguments of the first command; what follows it is dropped.
FirstCommand(s) == SubSeq(s, 1, FooterAt(s) + 1)

-------------------------------------------------------------------------------
(* The server.                                                             *)

\* Plausible mistake, for the sensitivity of the checks: the command put together
\* for the poll before is not cleared.
PollKeepsText ==
  /\ pc = "poll"
  /\ pc' = "read"
  /\ frag' = <<>> /\ text' = text
  /\ UNCHANGED <<client, cuts, at, got, blemish>>

\* The buffers of a command are cleared before its first read.
Poll ==
  /\ pc = "poll"
  /\ pc' = "read"
  /\ frag' = <<>> /\ text' = <<>>
  /\ UNCHANGED <<client, cuts, at, got, blemish>>

\* What the accident is if text t was put together from fragments up to f, and
\* the last read returned new.
Accident(new, t) ==
  (IF text # <<>> /\ Len(new) < Len(frag) THEN {"shrunk"} ELSE {})
    \cup (IF FooterAt(t) \notin {0, Len(t) - 1} THEN {"merged"} ELSE {})
    \cup (IF Trimmed(t) # t THEN {"newline"} ELSE {})

\* SSL_read returns the rest of the record in hand, as much as fits; the
\* fragment is appended, with what is left behind it in the buffer.  The footer
\* is looked for in the fragment, not in the text.  A complete text goes to the
\* dispatcher, which takes the first command if it finds a footer in it.
Read ==
  /\ pc = "read" /\ cuts # {}
  /\ at' = IF Min(cuts) <= at + ReadMax THEN Min(cuts) ELSE at + ReadMax
  /\ cuts' = cuts \ {at'}
  /\ LET new == SubSeq(stream, at + 1, at')
         f   == Over(new, frag)
         t   == text \o f
         cmd == Trimmed(t)
     IN /\ frag' = f /\ text' = t
        /\ blemish' = blemish \cup Accident(new, t)
        /\ IF FooterAt(f) # 0
           THEN /\ pc' = "poll"
                /\ got' = IF FooterAt(cmd) # 0 THEN Append(got, FirstCommand(cmd)) ELSE got
           ELSE UNCHANGED <<pc, got>>
  /\ UNCHANGED client

\* SSL_read returns -1 after 300 ms without data: what was read is dropped.
Timeout ==
  /\ pc = "read" /\ cuts = {}
  /\ pc' = "poll"
  /\ frag' = <<>> /\ text' = <<>>
  /\ blemish' = IF text # <<>> THEN blemish \cup {"timeout"} ELSE blemish
  /\ UNCHANGED <<client, cuts, at, got>>

Next ==
  \/ \E b \in Bodies : Write(b)
  \/ Flush
  \/ Poll \/ Read \/ Timeout

Spec == Init /\ [][Next]_vars

-------------------------------------------------------------------------------
(* Properties.                                                             *)

\* Where command k begins, less one, and what it is.
Before(k) == IF k = 1 THEN 0 ELSE ends[k - 1]
Sent == [k \in DOMAIN ends |-> SubSeq(stream, Before(k) + 1, ends[k])]

\* How much of the stream the commands taken make up, if they are those sent.
Taken == Before(Len(got) + 1)

\* Without accident the stream is conserved: what was taken for commands is what
\* the client wrote, cut at the same places, and what was read of the next one
\* begins where they end and lacks nothing up to what is on the way
\* (sched.c:28-40).  Commands in several records are among them, as long as no
\* record is shorter than the one before, no line break is inside, and no pause is
\* longer than the timeout.
Intact ==
  blemish = {} =>
    /\ IsPrefix(got, Sent)
    /\ IF pc = "read" THEN text = SubSeq(stream, Taken + 1, at) ELSE at = Taken

\* A command whose records arrive in time, each by itself, is understood as it
\* was sent.  "db,add,images,(upc),(image)" (readme.md:108) is a command that
\* needs many records.
SplitCommandsWhole == blemish \subseteq {"shrunk"} => IsPrefix(got, Sent)

===============================================================================
