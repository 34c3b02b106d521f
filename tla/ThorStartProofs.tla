---------------------------- MODULE ThorStartProofs ----------------------------
(***************************************************************************)
(* What the lines of the configuration file are read as, for any answers,  *)
(* and that a server starts with what one installation was answered.       *)
(***************************************************************************)
EXTENDS ThorStart, SequenceTheorems, WellFoundedInduction, TLAPS

-------------------------------------------------------------------------------
(* Taking a text apart.                                                    *)

\* A set of numbers that is not empty has a least one.
LEMMA Least ==
  ASSUME NEW T, T \subseteq Nat, T # {}
  PROVE  \E x \in T : \A y \in T : x <= y
<1>1. PICK x \in T : \A y \in T : ~(<<y, x>> \in OpToRel(<, Nat))
  BY NatLessThanWellFounded, WFMin
<1>2. \A y \in T : ~(y < x)
  BY <1>1 DEF OpToRel
<1> QED  BY <1>2

\* EndOf is where it says: at the first symbol of D, or behind the last one.
LEMMA EndOfIs ==
  ASSUME NEW S, NEW s \in Seq(S), NEW D, NEW i \in 1 .. Len(s) + 1
  PROVE  /\ EndOf(s, D, i) \in i .. Len(s) + 1
         /\ EndOf(s, D, i) = Len(s) + 1 \/ s[EndOf(s, D, i)] \in D
         /\ \A n \in i .. EndOf(s, D, i) - 1 : s[n] \notin D
<1> DEFINE T == {j \in i .. Len(s) + 1 : j = Len(s) + 1 \/ s[j] \in D}
<1>1. T \subseteq Nat /\ Len(s) + 1 \in T
  OBVIOUS
<1>2. PICK x \in T : \A y \in T : x <= y
  BY <1>1, Least
<1>3. \A n \in i .. x - 1 : s[n] \notin D
  <2>1. TAKE n \in i .. x - 1
  <2>2. n \in i .. Len(s) + 1 /\ ~(x <= n)
    OBVIOUS
  <2> QED  BY <1>2, <2>2
<1>4. \E j \in i .. Len(s) + 1 :
        /\ j = Len(s) + 1 \/ s[j] \in D
        /\ \A n \in i .. j - 1 : s[n] \notin D
  BY <1>3
<1> QED  BY <1>4 DEF EndOf

\* StartOf is the first symbol that is not in D, if there is one.
LEMMA StartOfIs ==
  ASSUME NEW S, NEW s \in Seq(S), NEW D, NEW l \in 1 .. Len(s), s[l] \notin D
  PROVE  /\ StartOf(s, D) \in 1 .. Len(s)
         /\ s[StartOf(s, D)] \notin D
         /\ \A n \in 1 .. StartOf(s, D) - 1 : s[n] \in D
<1> DEFINE T == {i \in 1 .. Len(s) : s[i] \notin D}
<1>1. T \subseteq Nat /\ l \in T
  OBVIOUS
<1>2. PICK x \in T : \A y \in T : x <= y
  BY <1>1, Least
<1>3. \A n \in 1 .. x - 1 : s[n] \in D
  <2>1. TAKE n \in 1 .. x - 1
  <2>2. n \in 1 .. Len(s) /\ ~(x <= n)
    OBVIOUS
  <2> QED  BY <1>2, <2>2
<1>4. \E i \in 1 .. Len(s) : s[i] \notin D /\ \A n \in 1 .. i - 1 : s[n] \in D
  BY <1>3
<1> QED  BY <1>4 DEF StartOf

\* s is a line that consists of m delimiters, the value v and the line break.
LineOf(s, v, D, m) ==
  /\ "nl" \notin D /\ Len(s) = m + Len(v) + 1 /\ s[Len(s)] = "nl"
  /\ \A n \in 1 .. m : s[n] \in D
  /\ \A n \in 1 .. Len(v) : s[m + n] = v[n] /\ v[n] # "nl"

\* r is a piece of v without delimiters, and all of v if there are none in it.
Cut(r, v, D) ==
  \E b \in 0 .. Len(v), e \in 0 .. Len(v) :
    /\ b <= e
    /\ r = SubSeq(v, b + 1, e)
    /\ \A n \in b + 1 .. e : v[n] \notin D
    /\ (\A n \in 1 .. Len(v) : v[n] \notin D) => b = 0 /\ e = Len(v)

\* What is left of a line: the piece of v from its first symbol that is no delimiter
\* to the next delimiter.
LEMMA TokenOfLine ==
  ASSUME NEW S, NEW s \in Seq(S), NEW v \in Seq(S), NEW D, NEW m \in Nat,
         LineOf(s, v, D, m)
  PROVE  Cut(Trim(Token(s, D)), v, D)
<1>l. Len(s) = m + Len(v) + 1 /\ Len(v) \in Nat
  BY DEF LineOf
<1>k. /\ "nl" \notin D /\ s[Len(s)] = "nl"
      /\ \A n \in 1 .. m : s[n] \in D
  BY DEF LineOf
<1>v. \A n \in 1 .. Len(v) : s[m + n] = v[n] /\ v[n] # "nl"
  BY DEF LineOf
<1> DEFINE b == StartOf(s, D)
           e == EndOf(s, D, b)
           t == SubSeq(s, b, e - 1)
           f == EndOf(t, {"nl"}, 1)
<1>1. /\ b \in 1 .. Len(s)
      /\ s[b] \notin D
      /\ \A n \in 1 .. b - 1 : s[n] \in D
  <2>1. Len(s) \in 1 .. Len(s) /\ s[Len(s)] \notin D
    BY <1>l, <1>k
  <2> QED  BY <2>1, StartOfIs
<1>2. /\ e \in b .. Len(s) + 1
      /\ e = Len(s) + 1 \/ s[e] \in D
      /\ \A n \in b .. e - 1 : s[n] \notin D
  <2>1. b \in 1 .. Len(s) + 1
    BY <1>1
  <2> QED  BY <2>1, EndOfIs
<1>3. b > m /\ e > b
  BY <1>1, <1>2, <1>k, <1>l
<1> HIDE DEF b, e
<1>4. t \in Seq(S) /\ Len(t) = e - b /\ \A n \in 1 .. Len(t) : t[n] = s[b + n - 1]
  BY <1>1, <1>2, <1>3
<1>5. /\ f \in 1 .. Len(t) + 1
      /\ f = Len(t) + 1 \/ t[f] = "nl"
      /\ \A n \in 1 .. f - 1 : t[n] # "nl"
  <2>1. 1 \in 1 .. Len(t) + 1
    BY <1>4
  <2>2. f \in 1 .. Len(t) + 1 /\ (f = Len(t) + 1 \/ t[f] \in {"nl"})
        /\ \A n \in 1 .. f - 1 : t[n] \notin {"nl"}
    BY <1>4, <2>1, EndOfIs
  <2> QED  BY <2>2
<1> HIDE DEF t, f
<1>n. /\ Len(s) \in Nat /\ Len(v) \in Nat /\ Len(t) \in Nat
      /\ b \in Int /\ e \in Int /\ f \in Int
  BY <1>1, <1>2, <1>4, <1>5
<1>6. \A n \in 1 .. Len(t) : t[n] = "nl" <=> b + n - 1 = Len(s)
  <2>1. TAKE n \in 1 .. Len(t)
  <2>2. b + n - 1 \in m + 1 .. Len(s)
    BY <1>1, <1>2, <1>3, <1>4, <1>n
  <2>3. CASE b + n - 1 = Len(s)
    BY <2>3, <1>4, <1>k
  <2>4. CASE b + n - 1 # Len(s)
    <3>1. b + n - 1 - m \in 1 .. Len(v) /\ m + (b + n - 1 - m) = b + n - 1
      BY <2>2, <2>4, <1>n, <1>l
    <3> QED  BY <3>1, <2>4, <1>4, <1>v
  <2> QED  BY <2>3, <2>4
<1>7. b + f - 1 = IF e = Len(s) + 1 THEN Len(s) ELSE e
  <2>1. CASE e = Len(s) + 1
    <3>1. Len(t) \in 1 .. Len(t) /\ b + Len(t) - 1 = Len(s)
      BY <1>1, <1>3, <1>4, <2>1
    <3>2. t[Len(t)] = "nl"
      BY <3>1, <1>6
    <3>3. f <= Len(t)
      BY <3>1, <3>2, <1>5
    <3>4. f \in 1 .. Len(t) /\ t[f] = "nl"
      BY <3>3, <1>4, <1>5
    <3>5. b + f - 1 = Len(s)
      BY <3>4, <1>6
    <3> QED  BY <3>5, <2>1
  <2>2. CASE e # Len(s) + 1
    <3>1. e <= Len(s)
      BY <2>2, <1>1, <1>2
    <3>2. f \notin 1 .. Len(t)
      <4>1. SUFFICES ASSUME f \in 1 .. Len(t) PROVE FALSE
        OBVIOUS
      <4>2. t[f] = "nl"
        BY <4>1, <1>4, <1>5
      <4>3. b + f - 1 = Len(s)
        BY <4>1, <4>2, <1>6
      <4> QED  BY <4>1, <4>3, <3>1, <1>1, <1>2, <1>4
    <3>3. f = Len(t) + 1
      BY <3>2, <1>n, <1>5
    <3> QED  BY <3>3, <2>2, <1>1, <1>2, <1>4
  <2> QED  BY <2>1, <2>2
<1> DEFINE i == b - m - 1
           j == b + f - 2 - m
<1>8. i \in 0 .. Len(v) /\ j \in 0 .. Len(v) /\ i <= j
  <2>1. b > m /\ f >= 1 /\ b + f - 1 <= Len(s)
    <3>1. e <= Len(s) + 1
      BY <1>1, <1>2
    <3>2. f \in 1 .. Len(t) + 1
      BY <1>5
    <3>3. f >= 1
      BY <3>2, <1>n
    <3>4. b + f - 1 <= Len(s)
      <4>1. CASE e = Len(s) + 1
        BY <4>1, <1>7, <1>n
      <4>2. CASE e # Len(s) + 1
        <5>1. b + f - 1 = e
          BY <4>2, <1>7
        <5>2. e <= Len(s)
          BY <4>2, <3>1, <1>n
        <5> QED  BY <5>1, <5>2
      <4> QED  BY <4>1, <4>2
    <3> QED  BY <3>3, <3>4, <1>3
  <2> QED  BY <2>1, <1>n, <1>l
<1>9. Trim(Token(s, D)) = SubSeq(v, i + 1, j)
  <2>1. Trim(Token(s, D)) = SubSeq(t, 1, f - 1)
    BY DEF Trim, Token, b, e, t, f
  <2>2. /\ SubSeq(t, 1, f - 1) \in Seq(S)
        /\ Len(SubSeq(t, 1, f - 1)) = f - 1
        /\ \A n \in 1 .. f - 1 : SubSeq(t, 1, f - 1)[n] = t[n]
    BY <1>4, <1>5
  <2>3. /\ SubSeq(v, i + 1, j) \in Seq(S)
        /\ Len(SubSeq(v, i + 1, j)) = f - 1
        /\ \A n \in 1 .. f - 1 : SubSeq(v, i + 1, j)[n] = v[i + n]
    BY <1>1, <1>4, <1>5, <1>8
  <2>4. ASSUME NEW n \in 1 .. f - 1
        PROVE  t[n] = v[i + n]
    <3>1. n \in 1 .. Len(t) /\ i + n \in 1 .. Len(v) /\ m + (i + n) = b + n - 1
      BY <1>1, <1>3, <1>4, <1>5, <1>8, <1>l
    <3> QED  BY <3>1, <1>4, <1>v
  <2>5. SubSeq(t, 1, f - 1) = SubSeq(v, i + 1, j)
    <3> DEFINE x == SubSeq(t, 1, f - 1)
               y == SubSeq(v, i + 1, j)
    <3>1. x \in Seq(S) /\ y \in Seq(S) /\ Len(x) = Len(y)
      BY <2>2, <2>3
    <3>2. \A n \in 1 .. Len(x) : x[n] = y[n]
      BY <2>2, <2>3, <2>4
    <3> HIDE DEF x, y
    <3>3. x = y
      BY <3>1, <3>2, SeqEqual
    <3> QED  BY <3>3 DEF x, y
  <2> QED  BY <2>1, <2>5
<1>10. ASSUME NEW n \in i + 1 .. j
       PROVE  v[n] \notin D
  <2>1. n \in 1 .. Len(v) /\ m + n \in b .. e - 1
    BY <1>1, <1>2, <1>3, <1>7, <1>8, <1>n
  <2> QED  BY <2>1, <1>2, <1>v
<1>11. ASSUME \A n \in 1 .. Len(v) : v[n] \notin D
       PROVE  i = 0 /\ j = Len(v)
  <2>1. \A n \in m + 1 .. Len(s) : s[n] \notin D
    <3>1. TAKE n \in m + 1 .. Len(s)
    <3>2. n = Len(s) \/ (n - m \in 1 .. Len(v) /\ m + (n - m) = n)
      BY <1>l
    <3> QED  BY <3>2, <1>11, <1>k, <1>v
  <2>2. b = m + 1
    BY <2>1, <1>1, <1>3
  <2>3. e = Len(s) + 1
    BY <2>1, <1>1, <1>2, <1>3, <1>n
  <2> QED  BY <2>2, <2>3, <1>7, <1>n, <1>l
<1> HIDE DEF i, j
<1> QED  BY <1>8, <1>9, <1>10, <1>11 DEF Cut

-------------------------------------------------------------------------------
(* The lines the installer writes.                                         *)

\* No key has a line break in it.
LEMMA KeyType ==
  ASSUME NEW k \in Settings
  PROVE  /\ Key[k] \in Seq(Symbols) /\ Len(Key[k]) >= 3
         /\ \A n \in 1 .. Len(Key[k]) : Key[k][n] \in Letters(k)
         /\ "nl" \notin Letters(k)
<1> DEFINE Chars == {"I", "P", "O", "R", "T", "C", "E", "L", "G", "D", "B", "A", "X", "eq"}
<1>1. /\ Key[k] \in Seq(Chars) /\ Len(Key[k]) >= 3
      /\ \A n \in 1 .. Len(Key[k]) : Key[k][n] # "nl"
  <2>1. CASE k = 1
    <3>1. Key[k] = <<"I", "P", "eq">>
      BY <2>1 DEF Key
    <3>2. Key[k] \in Seq(Chars) /\ Len(Key[k]) = 3
      BY <3>1
    <3>3. \A n \in 1 .. 3 : Key[k][n] # "nl"
      BY <3>1
    <3> QED  BY <3>2, <3>3
  <2>2. CASE k = 2
    <3>1. Key[k] = <<"P", "O", "R", "T", "eq">>
      BY <2>2 DEF Key
    <3>2. Key[k] \in Seq(Chars) /\ Len(Key[k]) = 5
      BY <3>1
    <3>3. \A n \in 1 .. 5 : Key[k][n] # "nl"
      BY <3>1
    <3> QED  BY <3>2, <3>3
  <2>3. CASE k = 3
    <3>1. Key[k] = <<"C", "E", "R", "T", "eq">>
      BY <2>3 DEF Key
    <3>2. Key[k] \in Seq(Chars) /\ Len(Key[k]) = 5
      BY <3>1
    <3>3. \A n \in 1 .. 5 : Key[k][n] # "nl"
      BY <3>1
    <3> QED  BY <3>2, <3>3
  <2>4. CASE k = 4
    <3>1. Key[k] = <<"L", "O", "G", "eq">>
      BY <2>4 DEF Key
    <3>2. Key[k] \in Seq(Chars) /\ Len(Key[k]) = 4
      BY <3>1
    <3>3. \A n \in 1 .. 4 : Key[k][n] # "nl"
      BY <3>1
    <3> QED  BY <3>2, <3>3
  <2>5. CASE k = 5
    <3>1. Key[k] = <<"D", "B", "eq">>
      BY <2>5 DEF Key
    <3>2. Key[k] \in Seq(Chars) /\ Len(Key[k]) = 3
      BY <3>1
    <3>3. \A n \in 1 .. 3 : Key[k][n] # "nl"
      BY <3>1
    <3> QED  BY <3>2, <3>3
  <2>6. CASE k = 6
    <3>1. Key[k] = <<"T", "A", "X", "eq">>
      BY <2>6 DEF Key
    <3>2. Key[k] \in Seq(Chars) /\ Len(Key[k]) = 4
      BY <3>1
    <3>3. \A n \in 1 .. 4 : Key[k][n] # "nl"
      BY <3>1
    <3> QED  BY <3>2, <3>3
  <2> QED  BY <2>1, <2>2, <2>3, <2>4, <2>5, <2>6 DEF Settings
<1> HIDE DEF Chars
<1>2. \A n \in 1 .. Len(Key[k]) : Key[k][n] \in Letters(k)
  BY <1>1 DEF Letters
<1>3. "nl" \notin Letters(k)
  BY <1>1 DEF Letters
<1>4. \A n \in 1 .. Len(Key[k]) : Key[k][n] \in Symbols
  <2>1. Letters(k) \subseteq Symbols
    BY SymbolsAssumption
  <2> QED  BY <1>2, <2>1
<1> QED  BY <1>1, <1>2, <1>3, <1>4

LEMMA ValueType ==
  ASSUME NEW a \in Answers, NEW k \in Settings
  PROVE  /\ Value(a, k) \in Seq(Symbols)
         /\ \A n \in 1 .. Len(Value(a, k)) : Value(a, k)[n] # "nl"
<1>1. a[k] \in Seq(Symbols \ {"nl"})
  BY AnswersAssumption
<1>2. Dir \in Symbols \ {"nl"}
  BY SymbolsAssumption
<1> DEFINE S == Symbols \ {"nl"}
<1> HIDE DEF S
<1>3. a[k] \in Seq(S) /\ <<Dir>> \in Seq(S)
  BY <1>1, <1>2 DEF S
<1>4. <<Dir>> \o a[k] \in Seq(S)
  BY <1>3
<1>5. Value(a, k) \in Seq(S)
  BY <1>3, <1>4 DEF Value
<1> QED  BY <1>5 DEF S

\* What a line is read as.
LEMMA SettingOfLine ==
  ASSUME NEW a \in Answers, NEW k \in Settings
  PROVE  /\ Setting(Line(a, k), k) \in Texts
         /\ PieceOf(Setting(Line(a, k), k), a, k)
         /\ Plain(a, k) => Setting(Line(a, k), k) = Value(a, k)
<1> DEFINE s == Line(a, k)
           v == Value(a, k)
           m == Len(Key[k])
<1>1. v \in Seq(Symbols) /\ \A n \in 1 .. Len(v) : v[n] # "nl"
  BY ValueType
<1>2. s = Key[k] \o v \o <<"nl">>
  BY DEF Line
<1>3. /\ s \in Seq(Symbols) /\ m \in Nat
      /\ Len(s) = m + Len(v) + 1 /\ s[Len(s)] = "nl"
      /\ \A n \in 1 .. m : s[n] = Key[k][n]
      /\ \A n \in 1 .. Len(v) : s[m + n] = v[n]
  <2> HIDE DEF s, v
  <2>1. Key[k] \in Seq(Symbols) /\ <<"nl">> \in Seq(Symbols)
    <3>1. Key[k] \in Seq(Symbols)
      BY KeyType
    <3>2. "nl" \in Symbols
      BY SymbolsAssumption
    <3> QED  BY <3>1, <3>2
  <2> DEFINE p == Key[k] \o v
  <2>2. /\ p \in Seq(Symbols) /\ Len(p) = m + Len(v)
        /\ \A n \in 1 .. m : p[n] = Key[k][n]
        /\ \A n \in 1 .. Len(v) : p[m + n] = v[n]
    BY <1>1, <2>1
  <2>3. s = p \o <<"nl">>
    BY <1>2
  <2>n. m \in Nat /\ Len(v) \in Nat
    BY <1>1, <2>1
  <2> HIDE DEF p, m
  <2>4. /\ s \in Seq(Symbols) /\ Len(s) = Len(p) + 1 /\ s[Len(p) + 1] = "nl"
        /\ \A n \in 1 .. Len(p) : s[n] = p[n]
    BY <2>1, <2>2, <2>3
  <2> QED  BY <2>2, <2>4, <2>n
<1> HIDE DEF s, v, m
<1>4. "nl" \notin Letters(k) /\ \A n \in 1 .. m : s[n] \in Letters(k)
  BY <1>3, KeyType DEF m
<1>5. PICK b \in 0 .. Len(v), e \in 0 .. Len(v) :
        /\ b <= e
        /\ Trim(Token(s, Letters(k))) = SubSeq(v, b + 1, e)
        /\ \A n \in b + 1 .. e : v[n] \notin Letters(k)
        /\ (\A n \in 1 .. Len(v) : v[n] \notin Letters(k)) => b = 0 /\ e = Len(v)
  <2>1. LineOf(s, v, Letters(k), m)
    BY <1>1, <1>3, <1>4 DEF LineOf
  <2>2. Cut(Trim(Token(s, Letters(k))), v, Letters(k))
    BY <1>1, <1>3, <2>1, TokenOfLine
  <2> QED  BY <2>2 DEF Cut
<1> DEFINE w == SubSeq(v, b + 1, e)
<1>6. Setting(s, k) = w
  BY <1>5 DEF Setting
<1>7. w \in Seq(Symbols) /\ Len(w) = e - b /\ \A n \in 1 .. Len(w) : w[n] = v[b + n]
  BY <1>1, <1>5
<1>8. PieceOf(w, a, k)
  <2>1. \E i, j \in 0 .. Len(v) : w = SubSeq(v, i + 1, j)
    OBVIOUS
  <2>2. \A n \in DOMAIN w : w[n] \notin Letters(k)
    <3>1. TAKE n \in DOMAIN w
    <3>2. n \in 1 .. Len(w) /\ b + n \in b + 1 .. e
      BY <1>7
    <3> QED  BY <3>2, <1>5, <1>7
  <2> QED  BY <2>1, <2>2 DEF PieceOf, v
<1>9. ASSUME Plain(a, k)
      PROVE  w = v
  <2>1. \A n \in 1 .. Len(v) : v[n] \notin Letters(k)
    BY <1>9, <1>1 DEF Plain, v
  <2>2. b = 0 /\ e = Len(v)
    BY <2>1, <1>5
  <2> QED  BY <2>2, <1>1
<1> QED  BY <1>6, <1>7, <1>8, <1>9 DEF Texts, s, v

-------------------------------------------------------------------------------
(* The inductive invariant.                                                *)

\* A file that was written to has the lines of one installation only, and is as long
\* as that installation came.
Written ==
  /\ file = NoFile \/ file = <<>> \/
       /\ author \in Answers
       /\ \A n \in 1 .. Len(file) : file[n] = Line(author, n)
  /\ asked # NoAnswers /\ line > 0 =>
       /\ author = asked
       /\ Len(file) = line
       /\ \A n \in 1 .. Len(file) : file[n] = Line(author, n)

\* Which steps of the start have been taken, and what they found.
Started ==
  /\ main = "load" => cfg = NoSettings
  /\ main \in {"db", "tls", "bind", "up"} => /\ cfg # NoSettings
                                             /\ logfile = cfg[LOG]
  /\ main \in {"tls", "bind", "up"} => db = IF CanOpen(cfg[DB]) THEN cfg[DB] ELSE NoPath
  /\ main = "up" => bound.ip = cfg[IP]
  /\ main = "dead" /\ cfg # NoSettings =>
       \/ refused
       \/ ~CanOpen(cfg[LOG])
       \/ cfg[CERT] \notin Certificates
       \/ cfg[IP] \notin Addresses

Inv ==
  /\ TypeOK
  /\ Written
  /\ SettingsOfOneInstallation
  /\ Started
  /\ PrintedIsBound

LEMMA LineType ==
  ASSUME NEW a \in Answers, NEW n \in 1 .. 7
  PROVE  Line(a, n) \in Texts
<1>1. <<"nl">> \in Seq(Symbols)
  BY SymbolsAssumption
<1>2. CASE n \in Settings
  <2>1. Key[n] \in Seq(Symbols) /\ Value(a, n) \in Seq(Symbols)
    BY <1>2, KeyType, ValueType
  <2>2. Key[n] \o Value(a, n) \o <<"nl">> \in Seq(Symbols)
    BY <1>1, <2>1
  <2> QED  BY <1>2, <2>2 DEF Line, Texts
<1>3. CASE n \notin Settings
  BY <1>1, <1>3 DEF Line, Texts
<1> QED  BY <1>2, <1>3

LEMMA NoSocketType ==
  NoSocket \in Sockets /\ NoSocket \in Urls
BY DEF NoSocket, Sockets, Urls, Texts

LEMMA InitInv == Init => Inv
<1> SUFFICES ASSUME Init PROVE Inv
  OBVIOUS
<1> USE DEF Init
<1>1. TypeOK
  <2>1. InstallerOK
    BY DEF InstallerOK
  <2>2. ReadOK
    BY DEF ReadOK
  <2>3. OpenedOK
    BY NoSocketType DEF OpenedOK
  <2>4. MainOK
    BY DEF MainOK
  <2> QED  BY <2>1, <2>2, <2>3, <2>4 DEF TypeOK
<1>2. Written
  BY DEF Written
<1>3. SettingsOfOneInstallation /\ Started /\ PrintedIsBound
  BY DEF SettingsOfOneInstallation, Started, PrintedIsBound
<1> QED  BY <1>1, <1>2, <1>3 DEF Inv

\* What the installer does leaves what the server has read alone.
LEMMA InstallerInv ==
  ASSUME Inv, (\E a \in Answers : Install(a)) \/ WriteLine \/ Leave
  PROVE  Inv'
<1>1. UNCHANGED server
  BY DEF Install, WriteLine, Leave
<1>2. (SettingsOfOneInstallation /\ Started /\ PrintedIsBound)'
  BY <1>1 DEF Inv, server, SettingsOfOneInstallation, Started, PrintedIsBound, Fits
<1>t. (ReadOK /\ OpenedOK /\ MainOK)'
  BY <1>1 DEF Inv, TypeOK, server, ReadOK, OpenedOK, MainOK
<1>i. InstallerOK
  BY DEF Inv, TypeOK
<1>3. ASSUME NEW a \in Answers, Install(a)
      PROVE  TypeOK' /\ Written'
  <2>1. TypeOK'
    BY <1>t, <1>i, <1>3 DEF Install, InstallerOK, TypeOK
  <2>2. Written'
    BY <1>3, <1>i DEF Install, Inv, InstallerOK, Written
  <2> QED  BY <2>1, <2>2
<1>4. ASSUME WriteLine
      PROVE  TypeOK' /\ Written'
  <2>1. asked \in Answers /\ line \in 0 .. 6 /\ asked' = asked /\ line' = line + 1
    BY <1>4, <1>i DEF WriteLine, InstallerOK
  <2>2. Line(asked, line + 1) \in Texts
    BY <2>1, LineType
  <2> DEFINE old == IF line = 0 THEN <<>> ELSE file
             new == Line(asked, line + 1)
  <2>3. /\ old \in Seq(Texts) /\ Len(old) = line
        /\ \A n \in 1 .. Len(old) : old[n] = Line(asked, n)
    <3>1. CASE line = 0
      BY <3>1
    <3>2. CASE line # 0
      <4>1. line > 0 /\ asked # NoAnswers
        BY <2>1, <3>2, <1>4 DEF WriteLine
      <4>2. /\ Len(file) = line
            /\ \A n \in 1 .. Len(file) : file[n] = Line(asked, n)
        BY <4>1 DEF Inv, Written
      <4>3. file \in Seq(Texts)
        <5>1. NoFile \in Seq(Seq({"missing"}))
          BY DEF NoFile
        <5>2. CASE file = NoFile
          <6>1. Len(file) = 1 /\ file[1] = <<"missing">>
            BY <5>2 DEF NoFile
          <6>2. file[1] = Line(asked, 1)
            BY <4>2, <6>1
          <6>3. Line(asked, 1) \in Texts
            BY <2>1, LineType
          <6>4. file = <<Line(asked, 1)>>
            BY <5>2, <6>1, <6>2 DEF NoFile
          <6> QED  BY <6>3, <6>4
        <5>3. CASE file # NoFile
          BY <5>3, <1>i DEF InstallerOK
        <5> QED  BY <5>2, <5>3
      <4> QED  BY <3>2, <4>2, <4>3
    <3> QED  BY <3>1, <3>2
  <2>4. file' = Append(old, new)
    BY <1>4 DEF WriteLine
  <2> HIDE DEF old, new
  <2>5. /\ file' \in Seq(Texts) /\ Len(file') = line + 1
        /\ file'[line + 1] = new
        /\ \A n \in 1 .. line : file'[n] = old[n]
    BY <2>1, <2>2, <2>3, <2>4 DEF new
  <2>6. author' = asked
    <3>1. CASE line = 0
      BY <1>4, <3>1 DEF WriteLine
    <3>2. CASE line # 0
      <4>1. line > 0 /\ asked # NoAnswers
        BY <2>1, <3>2, <1>4 DEF WriteLine
      <4> QED  BY <4>1, <3>2, <1>4 DEF WriteLine, Inv, Written
    <3> QED  BY <3>1, <3>2
  <2>7. \A n \in 1 .. Len(file') : file'[n] = Line(author', n)
    <3>1. TAKE n \in 1 .. Len(file')
    <3>2. n \in 1 .. line \/ n = line + 1
      BY <2>1, <2>5
    <3> QED  BY <3>2, <2>3, <2>5, <2>6 DEF new
  <2>8. TypeOK'
    BY <1>t, <2>1, <2>5, <2>6 DEF TypeOK, InstallerOK
  <2>9. Written'
    BY <2>1, <2>5, <2>6, <2>7 DEF Written
  <2> QED  BY <2>8, <2>9
<1>5. ASSUME Leave
      PROVE  TypeOK' /\ Written'
  <2>1. TypeOK'
    BY <1>t, <1>i, <1>5 DEF Leave, TypeOK, InstallerOK
  <2>2. Written'
    BY <1>5 DEF Leave, Inv, Written
  <2> QED  BY <2>1, <2>2
<1> QED  BY <1>2, <1>3, <1>4, <1>5 DEF Inv

\* The file of a whole installation is read as what it was answered.
LEMMA LoadInv ==
  ASSUME Inv, Load
  PROVE  Inv'
<1>1. author \in Answers /\ \A k \in Settings : file[k] = Line(author, k)
  <2>1. Len(file) >= 6 /\ file # NoFile /\ file \in Seq(Texts)
    BY DEF Load, Inv, TypeOK, InstallerOK
  <2>2. Len(file) \in Nat /\ file # <<>>
    BY <2>1
  <2>3. author \in Answers /\ \A n \in 1 .. Len(file) : file[n] = Line(author, n)
    BY <2>1, <2>2 DEF Inv, Written
  <2>4. \A k \in Settings : k \in 1 .. Len(file)
    BY <2>1, <2>2 DEF Settings
  <2> QED  BY <2>3, <2>4
<1>2. cfg' = [k \in Settings |-> Setting(file[k], k)] /\ source' = author
  BY DEF Load
<1>3. \A k \in Settings : cfg'[k] = Setting(Line(author, k), k)
  BY <1>1, <1>2
<1>4. cfg' \in [Settings -> Texts]
  <2>1. \A k \in Settings : Setting(file[k], k) \in Texts
    BY <1>1, SettingOfLine
  <2> QED  BY <1>2, <2>1
<1>5. cfg' # NoSettings
  <2>1. DOMAIN cfg' = Settings /\ IP \in Settings
    BY <1>4 DEF IP, Settings
  <2>2. DOMAIN NoSettings = {}
    BY DEF NoSettings
  <2> QED  BY <2>1, <2>2
<1>6. SettingsOfOneInstallation'
  BY <1>1, <1>2, <1>3, SettingOfLine DEF SettingsOfOneInstallation
<1>7. LOG \in Settings /\ cfg'[LOG] \in Texts
  BY <1>4 DEF LOG, Settings
<1>8. \/ main' = "db" /\ CanOpen(cfg'[LOG]) /\ logfile' = cfg'[LOG]
      \/ main' = "dead" /\ ~CanOpen(cfg'[LOG]) /\ logfile' = NoPath
  BY DEF Load, Die
<1>9. TypeOK'
  <2>1. InstallerOK'
    BY DEF Load, Inv, TypeOK, InstallerOK, installer
  <2>2. ReadOK'
    BY <1>1, <1>2, <1>4 DEF ReadOK
  <2>3. UNCHANGED <<db, bound, printed, refused>>
    BY DEF Load
  <2>4. OpenedOK'
    BY <1>7, <1>8, <2>3 DEF Inv, TypeOK, OpenedOK
  <2>5. MainOK'
    BY <1>8, <2>3 DEF Inv, TypeOK, MainOK
  <2> QED  BY <2>1, <2>2, <2>4, <2>5 DEF TypeOK
<1>10. Started' /\ PrintedIsBound'
  BY <1>5, <1>8 DEF Started, PrintedIsBound, CanOpen, Fits
<1>11. Written'
  BY DEF Load, Inv, Written, installer
<1> QED  BY <1>6, <1>9, <1>10, <1>11 DEF Inv

\* The remainder that % leaves is a 16-bit number.
LEMMA GivenIsPort ==
  ASSUME NEW port \in Int, NEW p \in Given(port)
  PROVE  p \in Ports /\ (port = p <=> port \in Ports)
<1>1. PortLimit \in Nat /\ port % PortLimit >= 0 /\ port % PortLimit < PortLimit
      /\ port % PortLimit \in Int
  BY DEF PortLimit
<1>2. port \in Ports => port # 0 /\ port % PortLimit = port
  <2>1. port >= 0 /\ port < PortLimit => port % PortLimit = port
    BY DEF PortLimit
  <2>2. port \in Ports => port >= 1 /\ port < PortLimit
    BY <1>1 DEF Ports
  <2> QED  BY <2>1, <2>2
<1>3. p \in Ports
  <2>1. CASE port % PortLimit = 0
    BY <2>1, PortsAssumption DEF Given
  <2>2. CASE port % PortLimit # 0
    <3>1. p = port % PortLimit
      BY <2>2 DEF Given
    <3>2. p \in Int /\ p >= 1 /\ p < PortLimit
      BY <3>1, <1>1, <2>2
    <3> QED  BY <3>2, <1>1 DEF Ports
  <2> QED  BY <2>1, <2>2
<1>4. ASSUME port \in Ports
      PROVE  p = port
  BY <1>2, <1>4 DEF Given
<1> QED  BY <1>3, <1>4

LEMMA BindInv ==
  ASSUME Inv, Bind
  PROVE  Inv'
<1>1. PICK p \in Given(PortOf(cfg[PORT])) : bound' = [ip |-> cfg[IP], port |-> p]
  BY DEF Bind
<1>2. PortOf(cfg[PORT]) \in Int
  <2>1. Atoi(cfg[PORT]) \in Int
    BY PortsAssumption DEF Atoi
  <2> QED  BY <2>1 DEF PortOf
<1>3. p \in Ports /\ (PortOf(cfg[PORT]) = p <=> PortOf(cfg[PORT]) \in Ports)
  BY <1>2, GivenIsPort
<1>4. main = "bind" /\ main' = "up" /\ printed' = [ip |-> cfg[IP], port |-> PortOf(cfg[PORT])]
      /\ UNCHANGED <<asked, line, file, author, cfg, source, logfile, db, refused>>
  BY DEF Bind, installer
<1>5. cfg \in [Settings -> Texts] /\ cfg # NoSettings /\ cfg[IP] \in Texts
  BY <1>4 DEF Inv, TypeOK, ReadOK, Started, IP, Settings
<1>6. TypeOK'
  <2>1. (InstallerOK /\ ReadOK)'
    BY <1>4 DEF Inv, TypeOK, InstallerOK, ReadOK
  <2>2. bound' \in Sockets
    BY <1>1, <1>3, <1>5 DEF Sockets
  <2>3. printed' \in Urls
    BY <1>2, <1>4, <1>5 DEF Urls
  <2>4. OpenedOK'
    BY <1>4, <2>2, <2>3 DEF Inv, TypeOK, OpenedOK
  <2>5. MainOK'
    BY <1>4 DEF Inv, TypeOK, MainOK
  <2> QED  BY <2>1, <2>4, <2>5 DEF TypeOK
<1>7. PrintedIsBound'
  <2>1. 50002 \in Ports
    BY DEF Ports, PortLimit
  <2>2. Fits(cfg[PORT]) <=> PortOf(cfg[PORT]) \in Ports
    <3>1. CASE Atoi(cfg[PORT]) = 0
      BY <2>1, <3>1 DEF Fits, PortOf
    <3>2. CASE Atoi(cfg[PORT]) # 0
      BY <3>2 DEF Fits, PortOf
    <3> QED  BY <3>1, <3>2
  <2> QED  BY <1>1, <1>3, <1>4, <2>2 DEF PrintedIsBound, Fits
<1>8. Started'
  BY <1>1, <1>4, <1>5 DEF Inv, Started, CanOpen
<1>9. Written' /\ SettingsOfOneInstallation'
  BY <1>4 DEF Inv, Written, SettingsOfOneInstallation
<1> QED  BY <1>6, <1>7, <1>8, <1>9 DEF Inv

\* The other steps of the server.
LEMMA ServerInv ==
  ASSUME Inv, Start \/ LoadNothing \/ OpenDb \/ InitTls \/ BindFails \/ Stop \/ Recover
  PROVE  Inv'
<1>1. UNCHANGED installer
  BY DEF Start, LoadNothing, OpenDb, InitTls, BindFails, Stop, Recover
<1>2. Written'
  BY <1>1 DEF Inv, Written, installer
<1>i. InstallerOK'
  BY <1>1 DEF Inv, TypeOK, InstallerOK, installer
<1> USE DEF Die
<1>3. CASE Start \/ Recover
  <2>1. main' = "load" /\ cfg' = NoSettings /\ main # "load"
    BY <1>3 DEF Start, Recover
  <2>2. TypeOK'
    <3>1. ReadOK' /\ MainOK'
      BY <1>3 DEF Start, Recover, Inv, TypeOK, ReadOK, MainOK
    <3>2. OpenedOK'
      BY <1>3, NoSocketType DEF Start, Recover, Inv, TypeOK, OpenedOK
    <3> QED  BY <1>i, <3>1, <3>2 DEF TypeOK
  <2>3. SettingsOfOneInstallation' /\ Started' /\ PrintedIsBound'
    BY <2>1 DEF SettingsOfOneInstallation, Started, PrintedIsBound
  <2> QED  BY <1>2, <2>2, <2>3 DEF Inv
<1>4. CASE LoadNothing \/ InitTls \/ BindFails \/ Stop
  <2>1. UNCHANGED <<cfg, source, logfile, db, bound, printed>>
    BY <1>4 DEF LoadNothing, InitTls, BindFails, Stop
  <2>2. TypeOK'
    <3>1. ReadOK' /\ OpenedOK'
      BY <2>1 DEF Inv, TypeOK, ReadOK, OpenedOK
    <3>2. MainOK'
      <4>1. CASE BindFails
        BY <4>1 DEF BindFails, MainOK
      <4>2. CASE LoadNothing \/ InitTls \/ Stop
        BY <4>2 DEF LoadNothing, InitTls, Stop, Inv, TypeOK, MainOK
      <4> QED  BY <1>4, <4>1, <4>2
    <3> QED  BY <1>i, <3>1, <3>2 DEF TypeOK
  <2>3. SettingsOfOneInstallation'
    BY <2>1 DEF Inv, SettingsOfOneInstallation
  <2>4. Started' /\ PrintedIsBound'
    BY <1>4, <2>1 DEF LoadNothing, InitTls, BindFails, Stop, Inv, Started, PrintedIsBound, CanOpen, Fits
  <2> QED  BY <1>2, <2>2, <2>3, <2>4 DEF Inv
<1>5. CASE OpenDb
  <2>1. main = "db" /\ main' = "tls" /\ UNCHANGED <<cfg, source, logfile, bound, printed, refused>>
        /\ db' = IF CanOpen(cfg[DB]) THEN cfg[DB] ELSE NoPath
    BY <1>5 DEF OpenDb
  <2>2. cfg \in [Settings -> Texts] /\ cfg[DB] \in Texts
    BY <2>1 DEF Inv, TypeOK, ReadOK, Started, DB, Settings
  <2>3. TypeOK'
    <3>1. ReadOK' /\ MainOK'
      BY <2>1 DEF Inv, TypeOK, ReadOK, MainOK
    <3>2. OpenedOK'
      BY <2>1, <2>2 DEF Inv, TypeOK, OpenedOK
    <3> QED  BY <1>i, <3>1, <3>2 DEF TypeOK
  <2>4. SettingsOfOneInstallation'
    BY <2>1 DEF Inv, SettingsOfOneInstallation
  <2>5. Started' /\ PrintedIsBound'
    BY <2>1 DEF Inv, Started, PrintedIsBound, CanOpen
  <2> QED  BY <1>2, <2>3, <2>4, <2>5 DEF Inv
<1> QED  BY <1>3, <1>4, <1>5

LEMMA Stutter ==
  ASSUME Inv, UNCHANGED vars
  PROVE  Inv'
<1>1. TypeOK'
  BY DEF vars, Inv, TypeOK, InstallerOK, ReadOK, OpenedOK, MainOK
<1>2. Written' /\ SettingsOfOneInstallation'
  BY DEF vars, Inv, Written, SettingsOfOneInstallation
<1>3. Started' /\ PrintedIsBound'
  BY DEF vars, Inv, Started, PrintedIsBound, CanOpen, Fits
<1> QED  BY <1>1, <1>2, <1>3 DEF Inv

LEMMA Invariance == Spec => []Inv
<1>1. Inv /\ [Next]_vars => Inv'
  BY InstallerInv, LoadInv, BindInv, ServerInv, Stutter DEF Next
<1> QED  BY InitInv, <1>1, PTL DEF Spec

-------------------------------------------------------------------------------
(* The theorems.                                                           *)

\* The variables have their types.
THEOREM TypeCorrect == Spec => []TypeOK
<1>1. Inv => TypeOK
  BY DEF Inv
<1> QED  BY <1>1, Invariance, PTL

\* The settings are those of the last installation that wrote, cut at most at
\* letters of their own keys, for all answers.
THEOREM OneInstallation == Spec => []SettingsOfOneInstallation
<1>1. Inv => SettingsOfOneInstallation
  BY DEF Inv
<1> QED  BY <1>1, Invariance, PTL

\* Answers that suit make a server that serves them, or one that gets no port.
THEOREM Suits == Spec => []SuitedServes
<1>1. Inv => SuitedServes
  <2> SUFFICES ASSUME Inv, cfg # NoSettings, Suited(source)
               PROVE  /\ main = "dead" => refused
                      /\ main = "up" => /\ bound.ip = source[IP]
                                        /\ logfile = Value(source, LOG)
                                        /\ db = Value(source, DB)
    BY DEF SuitedServes
  <2>1. \A k \in Settings : cfg[k] = Value(source, k)
    BY DEF Inv, SettingsOfOneInstallation, Suited
  <2>2. /\ cfg[LOG] = Value(source, LOG) /\ cfg[DB] = Value(source, DB)
        /\ cfg[CERT] = Value(source, CERT) /\ cfg[IP] = Value(source, IP)
    BY <2>1 DEF Settings, LOG, DB, CERT, IP
  <2>3. Value(source, IP) = source[IP]
    BY DEF Value, IP, LOG, DB
  <2> QED  BY <2>2, <2>3 DEF Inv, Started, Suited
<1> QED  BY <1>1, Invariance, PTL

\* The address that is printed is the one that is listened at, exactly for the ports
\* that fit their field.
THEOREM Printed == Spec => []PrintedIsBound
<1>1. Inv => PrintedIsBound
  BY DEF Inv
<1> QED  BY <1>1, Invariance, PTL

===============================================================================
