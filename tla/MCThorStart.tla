------------------------------ MODULE MCThorStart ------------------------------
(* Answers that suit, and answers that go wrong in each of the ways there are. *)
EXTENDS ThorStart, TLC

MCSymbols ==
  UNION {Letters(k) : k \in Settings} \cup
  {"nl", "/thor/", "host", "other", "8000", "65536", "70000", "minus-1", "nine",
   "pem", "log", "db", "17"}

MCNumber == "8000" :> 8000 @@ "65536" :> 65536 @@ "70000" :> 70000 @@ "minus-1" :> -1

\* The log of this installation has letters of the database's key, and the other
\* way round.
Good == << <<"host">>, <<"8000">>, <<"/thor/", "pem">>,
           <<"log", "B">>, <<"G", "db">>, <<"17">> >>

MCAnswers ==
  {Good,
   \* Cut, but to something usable; the port is the default, for want of a numeral.
   << <<"I", "P", "eq", "host">>, <<"nine">>, <<"/thor/", "pem", "C">>,
      <<"log", "O", "log">>, <<"db", "D", "db">>, <<"T", "A", "X">> >>,
   \* Ports that are none; no database.
   [Good EXCEPT ![PORT] = <<"70000">>, ![DB] = <<"D", "db">>],
   [Good EXCEPT ![PORT] = <<"65536">>],
   [Good EXCEPT ![PORT] = <<"minus-1">>],
   \* Each of these stops it: no log, no certificate, not an address.
   [Good EXCEPT ![LOG] = <<"L", "log">>],
   [Good EXCEPT ![CERT] = <<"/thor/", "C", "pem">>],
   [Good EXCEPT ![IP] = <<>>, ![PORT] = <<>>]}

MCAddresses == {<<"host">>}
MCCertificates == {<<"/thor/", "pem">>}
MCDirectories == {<<>>, <<"/thor/">>}
MCEphemeral == {40000, 40001}

===============================================================================
