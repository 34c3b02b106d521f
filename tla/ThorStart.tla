------------------------------- MODULE ThorStart -------------------------------
(***************************************************************************)
(* From the answers given to the installer (INSTALL.sh) to a server that   *)
(* listens: the configuration file it writes line by line, the server's    *)
(* reading of it (core/thor.c, __load_cfg), and what is opened with what   *)
(* was read: the log file, the database, the certificate and the socket.   *)
(*                                                                         *)
(* The server always reads the file of the directory Dir; an installation  *)
(* to another directory does not concern it and is not modelled.  A text   *)
(* is a sequence of symbols: a letter of a key, "nl", or what needs no     *)
(* telling apart, as one symbol.  A line is shorter than the buffer it is  *)
(* read into, and the file than the buffer of its stream: a load is one    *)
(* read (a second one, at the end of a file too short, is a later load).   *)
(***************************************************************************)
EXTENDS Integers, Sequences

CONSTANTS
  Symbols,      \* What texts consist of
  Dir,          \* The symbol that stands for the server's directory and a "/"
  Answers,      \* What can be answered to the installer, one text per setting
  Number,       \* Number[x]: the integer that atoi makes of the numeral x
  Addresses,    \* The texts that are addresses of this host
  Certificates, \* The paths of files with a certificate and its key
  Directories,  \* The paths that cannot be opened as a file
  Ephemeral     \* The ports that the kernel chooses from

IP == 1
PORT == 2
CERT == 3
LOG == 4
DB == 5
TAX == 6
Settings == 1 .. 6

\* The keys of the six lines that are read, with the sign that follows them.
Key == << <<"I", "P", "eq">>, <<"P", "O", "R", "T", "eq">>, <<"C", "E", "R", "T", "eq">>,
          <<"L", "O", "G", "eq">>, <<"D", "B", "eq">>, <<"T", "A", "X", "eq">> >>

\* What strtok takes for delimiters: every character of the key.
Letters(k) == {Key[k][n] : n \in DOMAIN Key[k]}

ASSUME SymbolsAssumption ==
  /\ \A k \in Settings : Letters(k) \subseteq Symbols
  /\ "nl" \in Symbols
  /\ Dir \in Symbols \ {"nl"}

ASSUME AnswersAssumption == Answers \subseteq [Settings -> Seq(Symbols \ {"nl"})]

\* How many values the field of a port has, and those of them that are ports.
PortLimit == 65536
Ports == 1 .. PortLimit - 1

ASSUME PortsAssumption ==
  /\ \A x \in DOMAIN Number : Number[x] \in Int
  /\ Ephemeral \subseteq Ports

VARIABLES
  asked,   \* The answers of the installation under way, or NoAnswers
  line,    \* How many lines it has written
  file,    \* The lines of the configuration file; NoFile if there is none
  author,  \* History: the answers of the installation that began the file
  main,    \* Where the server is
  cfg,     \* The settings as read, or NoSettings
  source,  \* History: the author of the file they were read from
  logfile, \* The path of the log, or NoPath
  db,      \* The path of the open database, or NoPath
  bound,   \* The address and port the socket is bound to, or NoSocket
  printed, \* The address and port that are printed for the clients
  refused  \* The last bind failed although the address is right

installer == <<asked, line, file, author>>
server == <<main, cfg, source, logfile, db, bound, printed, refused>>
vars == <<asked, line, file, author, main, cfg, source, logfile, db, bound, printed, refused>>

NoAnswers == <<>>
NoFile == << <<"missing">> >>
NoSettings == <<>>
NoPath == <<"none">>
NoSocket == [ip |-> <<>>, port |-> 0]

Texts == Seq(Symbols)
Sockets == [ip : Texts, port : {0} \cup Ports]
Urls == [ip : Texts, port : Int]

InstallerOK ==
  /\ asked \in Answers \cup {NoAnswers}
  /\ line \in 0 .. 7
  /\ file \in {NoFile} \cup Seq(Texts)
  /\ author \in Answers \cup {NoAnswers}

ReadOK ==
  /\ cfg \in {NoSettings} \cup [Settings -> Texts]
  /\ source \in Answers \cup {NoAnswers}

OpenedOK ==
  /\ logfile \in {NoPath} \cup Texts
  /\ db \in {NoPath} \cup Texts
  /\ bound \in Sockets
  /\ printed \in Urls

MainOK ==
  /\ main \in {"off", "load", "db", "tls", "bind", "up", "dead"}
  /\ refused \in BOOLEAN

TypeOK == InstallerOK /\ ReadOK /\ OpenedOK /\ MainOK

-------------------------------------------------------------------------------
(* The installer.                                                          *)

\* The value written for a setting: the log and the database are names in Dir.
Value(a, k) == IF k \in {LOG, DB} THEN <<Dir>> \o a[k] ELSE a[k]

\* The line written for a setting; the seventh line, SEC, is never read.
Line(a, k) == IF k \in Settings THEN Key[k] \o Value(a, k) \o <<"nl">> ELSE <<"nl">>

\* The file is made if it is not there, and left as it is otherwise.
Install(a) ==
  /\ asked = NoAnswers
  /\ asked' = a
  /\ line' = 0
  /\ file' = IF file = NoFile THEN <<>> ELSE file
  /\ author' = author
  /\ UNCHANGED server

\* Plausible mistake, for the sensitivity of the checks: the first line is appended
\* like the others.
WriteLineAppends ==
  /\ asked # NoAnswers
  /\ line < 7
  /\ file' = Append(file, Line(asked, line + 1))
  /\ line' = line + 1
  /\ author' = IF line = 0 THEN asked ELSE author
  /\ asked' = asked
  /\ UNCHANGED server

\* One echo.  The first replaces the file.
WriteLine ==
  /\ asked # NoAnswers
  /\ line < 7
  /\ file' = Append(IF line = 0 THEN <<>> ELSE file, Line(asked, line + 1))
  /\ line' = line + 1
  /\ author' = IF line = 0 THEN asked ELSE author
  /\ asked' = asked
  /\ UNCHANGED server

\* The installer ends, or is interrupted.
Leave ==
  /\ asked # NoAnswers
  /\ asked' = NoAnswers
  /\ UNCHANGED <<line, file, author>>
  /\ UNCHANGED server

-------------------------------------------------------------------------------
(* Reading a line.                                                         *)

\* Where s, from the position i on, comes to a symbol of D, or else ends.
EndOf(s, D, i) ==
  CHOOSE j \in i .. Len(s) + 1 :
    /\ j = Len(s) + 1 \/ s[j] \in D
    /\ \A n \in i .. j - 1 : s[n] \notin D

\* The first symbol of s that is not in D.
StartOf(s, D) ==
  CHOOSE i \in 1 .. Len(s) : s[i] \notin D /\ \A n \in 1 .. i - 1 : s[n] \in D

\* strtok(s, D), for a text that has a symbol that is not in D.
Token(s, D) == SubSeq(s, StartOf(s, D), EndOf(s, D, StartOf(s, D)) - 1)

\* remove_escape
Trim(s) == SubSeq(s, 1, EndOf(s, {"nl"}, 1) - 1)

\* Plausible mistake, for the sensitivity of the checks: the lines of two keys are
\* swapped.
SettingSwapped(s, k) ==
  Trim(Token(s, Letters(CASE k = LOG -> DB [] k = DB -> LOG [] OTHER -> k)))

Setting(s, k) == Trim(Token(s, Letters(k)))

\* atoi: 0 if the text does not begin with a numeral.
Atoi(s) == IF s # <<>> /\ s[1] \in DOMAIN Number THEN Number[s[1]] ELSE 0

-------------------------------------------------------------------------------
(* The server's main thread.                                               *)

\* A process begins, without anything of an earlier one.
Start ==
  /\ main \in {"off", "dead"}
  /\ main' = "load"
  /\ cfg' = NoSettings
  /\ source' = NoAnswers
  /\ logfile' = NoPath
  /\ db' = NoPath
  /\ bound' = NoSocket
  /\ printed' = NoSocket
  /\ refused' = FALSE
  /\ UNCHANGED installer

\* exit, abort, or a fault: the handler's tear down faults again, on the thread that
\* is not there yet, which ends the process.
Die == main' = "dead"

\* Without a file it exits; a line that is missing is a null pointer, of which
\* the length is taken.
LoadNothing ==
  /\ main = "load"
  /\ file = NoFile \/ Len(file) < 6
  /\ Die
  /\ UNCHANGED installer
  /\ UNCHANGED <<cfg, source, logfile, db, bound, printed, refused>>

CanOpen(path) == path \notin Directories

\* The lines are taken in their order, whatever their keys.  The log of before is
\* closed; a log that cannot be opened is a null pointer, which setvbuf is given.
Load ==
  /\ main = "load"
  /\ file # NoFile /\ Len(file) >= 6
  /\ cfg' = [k \in Settings |-> Setting(file[k], k)]
  /\ source' = author
  /\ IF CanOpen(cfg'[LOG])
     THEN logfile' = cfg'[LOG] /\ main' = "db"
     ELSE logfile' = NoPath /\ Die
  /\ UNCHANGED installer
  /\ UNCHANGED <<db, bound, printed, refused>>

\* The server goes on without a database.  (The accounts that are then created are
\* in ThorAccounts.)
OpenDb ==
  /\ main = "db"
  /\ db' = IF CanOpen(cfg[DB]) THEN cfg[DB] ELSE NoPath
  /\ main' = "tls"
  /\ UNCHANGED installer
  /\ UNCHANGED <<cfg, source, logfile, bound, printed, refused>>

InitTls ==
  /\ main = "tls"
  /\ IF cfg[CERT] \in Certificates THEN main' = "bind" ELSE Die
  /\ UNCHANGED installer
  /\ UNCHANGED <<cfg, source, logfile, db, bound, printed, refused>>

\* The port that is asked for.
PortOf(s) == IF Atoi(s) = 0 THEN 50002 ELSE Atoi(s)

\* htons keeps 16 bits, and instead of the port 0 the kernel gives any.
Given(port) == IF port % PortLimit = 0 THEN Ephemeral ELSE {port % PortLimit}

\* Plausible mistake, for the sensitivity of the checks: what is printed is the
\* number that was read.
BindPrintsRead ==
  /\ main = "bind"
  /\ cfg[IP] \in Addresses
  /\ printed' = [ip |-> cfg[IP], port |-> Atoi(cfg[PORT])]
  /\ \E p \in Given(PortOf(cfg[PORT])) : bound' = [ip |-> cfg[IP], port |-> p]
  /\ main' = "up"
  /\ UNCHANGED installer
  /\ UNCHANGED <<cfg, source, logfile, db, refused>>

\* Plausible mistake, for the sensitivity of the checks: the port is not cut to the
\* 16 bits of its field.
BindWide ==
  /\ main = "bind"
  /\ cfg[IP] \in Addresses
  /\ printed' = [ip |-> cfg[IP], port |-> PortOf(cfg[PORT])]
  /\ bound' = [ip |-> cfg[IP], port |-> PortOf(cfg[PORT])]
  /\ main' = "up"
  /\ UNCHANGED installer
  /\ UNCHANGED <<cfg, source, logfile, db, refused>>

Bind ==
  /\ main = "bind"
  /\ cfg[IP] \in Addresses
  /\ printed' = [ip |-> cfg[IP], port |-> PortOf(cfg[PORT])]
  /\ \E p \in Given(PortOf(cfg[PORT])) : bound' = [ip |-> cfg[IP], port |-> p]
  /\ main' = "up"
  /\ UNCHANGED installer
  /\ UNCHANGED <<cfg, source, logfile, db, refused>>

\* The address is not this host's, or the port is taken or not allowed.
BindFails ==
  /\ main = "bind"
  /\ refused' = (cfg[IP] \in Addresses)
  /\ Die
  /\ UNCHANGED installer
  /\ UNCHANGED <<cfg, source, logfile, db, bound, printed>>

\* The server shuts down (ThorServer).
Stop ==
  /\ main = "up"
  /\ main' = "off"
  /\ UNCHANGED installer
  /\ UNCHANGED <<cfg, source, logfile, db, bound, printed, refused>>

\* A fault while it serves (ThorServer): the handler resets the structure and goes
\* back to the beginning of main.  The log stays open until the next is opened.
Recover ==
  /\ main = "up"
  /\ main' = "load"
  /\ cfg' = NoSettings
  /\ source' = NoAnswers
  /\ db' = NoPath
  /\ bound' = NoSocket
  /\ UNCHANGED installer
  /\ UNCHANGED <<logfile, printed, refused>>

-------------------------------------------------------------------------------
Init ==
  /\ asked = NoAnswers
  /\ line = 0
  /\ file = NoFile
  /\ author = NoAnswers
  /\ main = "off"
  /\ cfg = NoSettings
  /\ source = NoAnswers
  /\ logfile = NoPath
  /\ db = NoPath
  /\ bound = NoSocket
  /\ printed = NoSocket
  /\ refused = FALSE

Next ==
  \/ \E a \in Answers : Install(a)
  \/ WriteLine
  \/ Leave
  \/ Start
  \/ LoadNothing
  \/ Load
  \/ OpenDb
  \/ InitTls
  \/ Bind
  \/ BindFails
  \/ Stop
  \/ Recover

Spec == Init /\ [][Next]_vars

-------------------------------------------------------------------------------
(* Properties.                                                             *)

\* The value has no letter of its own key.
Plain(a, k) == \A n \in DOMAIN Value(a, k) : Value(a, k)[n] \notin Letters(k)

\* A piece of a value, without letters of the key.
PieceOf(s, a, k) ==
  /\ \E i, j \in 0 .. Len(Value(a, k)) : s = SubSeq(Value(a, k), i + 1, j)
  /\ \A n \in DOMAIN s : s[n] \notin Letters(k)

\* However installations were cut short and repeated, and whenever the file is read,
\* at a start or after a fault: the settings are those of one installation, the
\* last that wrote.  Each is the value answered if that has no letter of its own
\* key, and otherwise a piece of it (INSTALL.sh:83-88, thor.c:401-431).
SettingsOfOneInstallation ==
  cfg # NoSettings =>
    /\ source \in Answers
    /\ \A k \in Settings :
         /\ PieceOf(cfg[k], source, k)
         /\ Plain(source, k) => cfg[k] = Value(source, k)

\* Every answer is usable, and survives its being read.
Suited(a) ==
  /\ \A k \in Settings : Plain(a, k)
  /\ a[IP] \in Addresses
  /\ Value(a, CERT) \in Certificates
  /\ CanOpen(Value(a, LOG)) /\ CanOpen(Value(a, DB))

\* A server that has read a whole file whose answers are all suited does not die of
\* them, only of a port it does not get; and when it is up, it has the address, the
\* log and the database that were answered (thor.c:433-460, server.c:181-203,
\* thor_db.c:98-103).
SuitedServes ==
  cfg # NoSettings /\ Suited(source) =>
    /\ main = "dead" => refused
    /\ main = "up" => /\ bound.ip = source[IP]
                      /\ logfile = Value(source, LOG)
                      /\ db = Value(source, DB)

\* What is read as the port has 16 bits.
Fits(s) == Atoi(s) \in {0} \cup Ports

\* The printed address is the one the server listens at if what was read as its port
\* fits the field for it, and is no address otherwise; 0, and what is no number, stand
\* for the default port, which is printed and bound (server.c:189-200, 78).
PrintedIsBound ==
  main = "up" =>
    /\ printed.ip = bound.ip
    /\ bound.port \in Ports
    /\ Fits(cfg[PORT]) => printed.port = bound.port
    /\ ~Fits(cfg[PORT]) => printed.port \notin Ports

===============================================================================
