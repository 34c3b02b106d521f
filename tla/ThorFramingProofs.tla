-------------------------- MODULE ThorFramingProofs ---------------------------
(***************************************************************************)
(* That no command is corrupted without one of the four accidents, however *)
(* the stream is cut into records and whatever the size of the buffer.     *)
(***************************************************************************)
EXTENDS ThorFraming, SequenceTheorems, WellFoundedInduction, TLAPS

-------------------------------------------------------------------------------
(* The text functions.                                                     *)

\* A set of numbers that is not empty has a least one.
LEMMA MinIs ==
  ASSUME NEW T, T \subseteq Nat, T # {}
  PROVE  Min(T) \in T /\ \A y \in T : Min(T) <= y
<1>1. PICK x \in T : \A y \in T : ~(<<y, x>> \in OpToRel(<, Nat))
  BY NatLessThanWellFounded, WFMin
<1>2. \A y \in T : ~(y < x)
  BY <1>1 DEF OpToRel
<1>3. \A y \in T : x =< y
  BY <1>2
<1> QED  BY <1>3 DEF Min

\* FooterAt is the first place where a footer is.
LEMMA FooterAtIs ==
  ASSUME NEW S, NEW s \in Seq(S)
  PROVE  /\ FooterAt(s) \in Nat
         /\ FooterAt(s) # 0 =>
              /\ FooterAt(s) \in 1 .. Len(s) - 1
              /\ s[FooterAt(s)] = "foot" /\ s[FooterAt(s) + 1] = "er"
         /\ \A i \in 1 .. Len(s) - 1 :
              s[i] = "foot" /\ s[i + 1] = "er" => FooterAt(s) # 0 /\ FooterAt(s) <= i
<1> DEFINE T == {i \in 1 .. Len(s) - 1 : <<s[i], s[i + 1]>> = Footer}
<1>1. T \subseteq Nat
  OBVIOUS
<1>2. FooterAt(s) = IF T = {} THEN 0 ELSE Min(T)
  BY DEF FooterAt
<1>3. \A i \in 1 .. Len(s) - 1 : i \in T <=> s[i] = "foot" /\ s[i + 1] = "er"
  BY DEF Footer
<1> HIDE DEF T
<1>4. CASE T = {}
  BY <1>2, <1>3, <1>4
<1>5. CASE T # {}
  <2>1. Min(T) \in T /\ \A y \in T : Min(T) <= y
    BY <1>1, <1>5, MinIs
  <2>2. T \subseteq 1 .. Len(s) - 1
    BY DEF T
  <2>3. FooterAt(s) \in T /\ \A y \in T : FooterAt(s) <= y
    BY <1>2, <1>5, <2>1
  <2>4. FooterAt(s) \in 1 .. Len(s) - 1 /\ FooterAt(s) \in Nat /\ FooterAt(s) # 0
    <3>1. FooterAt(s) \in 1 .. Len(s) - 1
      BY <2>2, <2>3
    <3> QED  BY <3>1
  <2>5. s[FooterAt(s)] = "foot" /\ s[FooterAt(s) + 1] = "er"
    BY <1>3, <2>3, <2>4
  <2> QED  BY <1>3, <2>3, <2>4, <2>5
<1> QED  BY <1>4, <1>5

\* What trim leaves of a text is a text, and all of it if there is no line break.
LEMMA TrimmedIs ==
  ASSUME NEW S, NEW s \in Seq(S)
  PROVE  Trimmed(s) \in Seq(S)
<1> DEFINE T == {i \in 1 .. Len(s) : s[i] = "nl"}
<1>1. CASE T = {}
  BY <1>1 DEF Trimmed
<1>2. CASE T # {}
  <2>1. Min(T) \in T
    <3>1. T \subseteq Nat
      OBVIOUS
    <3> QED  BY <1>2, <3>1, MinIs
  <2>2. Trimmed(s) = SubSeq(s, 1, Min(T) - 1)
    BY <1>2 DEF Trimmed
  <2>3. Min(T) - 1 \in Int /\ \A i \in 1 .. Min(T) - 1 : s[i] \in S
    <3>1. Min(T) \in 1 .. Len(s) /\ Len(s) \in Nat
      BY <2>1, LenProperties
    <3> HIDE DEF T
    <3> QED  BY <3>1
  <2> HIDE DEF T
  <2> QED  BY <2>2, <2>3, SubSeqProperties
<1> QED  BY <1>1, <1>2

\* The first command of a text that has a footer ends with that footer.
LEMMA FirstCommandIs ==
  ASSUME NEW S, NEW s \in Seq(S), FooterAt(s) # 0
  PROVE  /\ FirstCommand(s) \in Seq(S)
         /\ FooterAt(s) = Len(s) - 1 => FirstCommand(s) = s
<1>1. FooterAt(s) \in 1 .. Len(s) - 1
  BY FooterAtIs
<1>2. FooterAt(s) + 1 \in Int /\ \A i \in 1 .. FooterAt(s) + 1 : s[i] \in S
  BY <1>1
<1>3. FirstCommand(s) \in Seq(S)
  BY <1>2, SubSeqProperties DEF FirstCommand
<1>4. FooterAt(s) = Len(s) - 1 => FirstCommand(s) = s
  BY <1>1, SubSeqFull DEF FirstCommand
<1> QED  BY <1>3, <1>4

\* What lies between two positions of a text.
LEMMA PieceIs ==
  ASSUME NEW S, NEW s \in Seq(S), NEW a \in 0 .. Len(s), NEW b \in a .. Len(s)
  PROVE  /\ SubSeq(s, a + 1, b) \in Seq(S)
         /\ Len(SubSeq(s, a + 1, b)) = b - a
         /\ \A i \in 1 .. b - a : SubSeq(s, a + 1, b)[i] = s[a + i]
<1>1. a \in Nat /\ b \in Nat /\ a <= b /\ b <= Len(s) /\ Len(s) \in Nat
  BY LenProperties
<1>2. \A i \in a + 1 .. b : s[i] \in S
  BY <1>1, ElementOfSeq
<1>3. /\ SubSeq(s, a + 1, b) \in Seq(S)
      /\ Len(SubSeq(s, a + 1, b)) = IF a + 1 <= b THEN b - (a + 1) + 1 ELSE 0
      /\ \A i \in 1 .. b - (a + 1) + 1 : SubSeq(s, a + 1, b)[i] = s[a + 1 + i - 1]
  BY <1>1, <1>2, SubSeqProperties
<1>4. b - (a + 1) + 1 = b - a /\ \A i \in Int : a + 1 + i - 1 = a + i
  BY <1>1
<1>5. \A i \in 1 .. b - a : SubSeq(s, a + 1, b)[i] = s[a + i]
  BY <1>3, <1>4
<1>6. Len(SubSeq(s, a + 1, b)) = b - a
  BY <1>1, <1>3
<1> QED  BY <1>3, <1>5, <1>6

\* What a read leaves in the buffer is as long as the longer of the two, and what was
\* read if that is the longer.
LEMMA OverIs ==
  ASSUME NEW S, NEW new \in Seq(S), NEW old \in Seq(S)
  PROVE  /\ Over(new, old) \in Seq(S)
         /\ Len(Over(new, old)) = IF Len(new) < Len(old) THEN Len(old) ELSE Len(new)
         /\ Len(new) >= Len(old) => Over(new, old) = new
<1> DEFINE rest == SubSeq(old, Len(new) + 1, Len(old))
<1>1. Len(new) \in Nat /\ Len(old) \in Nat
  BY LenProperties
<1>2. /\ rest \in Seq(S)
      /\ Len(rest) = IF Len(new) + 1 <= Len(old) THEN Len(old) - (Len(new) + 1) + 1 ELSE 0
  <2>1. \A i \in Len(new) + 1 .. Len(old) : old[i] \in S
    BY <1>1
  <2> QED  BY <1>1, <2>1, SubSeqProperties
<1>3. Len(new) >= Len(old) => rest = <<>>
  BY <1>1, <1>2, EmptySeq
<1> HIDE DEF rest
<1>4. new \o rest \in Seq(S) /\ Len(new \o rest) = Len(new) + Len(rest)
  BY <1>2, ConcatProperties
<1>5. new \o <<>> = new
  BY ConcatEmptySeq
<1>6. Over(new, old) = new \o rest
  BY DEF Over, rest
<1> QED  BY <1>1, <1>2, <1>3, <1>4, <1>5, <1>6

-------------------------------------------------------------------------------
(* Types.                                                                  *)

LEMMA BodyType ==
  ASSUME NEW b \in Bodies
  PROVE  b \in Seq(Symbols) /\ b \in Seq(Letters) /\ Len(b) \in Nat
<1>1. b \in Seq(Letters)
  BY FramingAssumption
<1>2. b \in Seq(Symbols)
  BY <1>1, SeqMonotonic DEF Symbols
<1> QED  BY <1>1, <1>2, LenProperties

\* A text with a footer behind it.
LEMMA FooterBehind ==
  ASSUME NEW w \in Seq(Symbols)
  PROVE  /\ w \o Footer \in Seq(Symbols)
         /\ Len(w \o Footer) = Len(w) + 2
         /\ \A i \in 1 .. Len(w) : (w \o Footer)[i] = w[i]
         /\ (w \o Footer)[Len(w) + 1] = "foot"
         /\ (w \o Footer)[Len(w) + 2] = "er"
<1>1. Footer \in Seq(Symbols) /\ Len(Footer) = 2 /\ Footer[1] = "foot" /\ Footer[2] = "er"
  BY DEF Footer, Symbols
<1>2. Len(w) \in Nat
  BY LenProperties
<1>3. w \o Footer \in Seq(Symbols) /\ Len(w \o Footer) = Len(w) + 2
  <2>1. w \o Footer \in Seq(Symbols) /\ Len(w \o Footer) = Len(w) + Len(Footer)
    <3> HIDE DEF Footer
    <3> QED  BY <1>1, ConcatProperties, ZenonT(30)
  <2> QED  BY <1>1, <2>1
<1>4. \A i \in 1 .. Len(w) : (w \o Footer)[i] = w[i]
  BY <1>1, <1>2, ConcatProperties
<1>5. (w \o Footer)[Len(w) + 1] = Footer[1] /\ (w \o Footer)[Len(w) + 2] = Footer[2]
  BY <1>1, <1>2, ConcatProperties
<1> QED  BY <1>1, <1>3, <1>4, <1>5

\* How much longer a command makes the stream, and what is added.
LEMMA Written ==
  ASSUME NEW s \in Seq(Symbols), NEW b \in Bodies, NEW r, r = s \o b \o Footer
  PROVE  /\ r \in Seq(Symbols)
         /\ Len(r) = Len(s) + Len(b) + 2
         /\ \A i \in 1 .. Len(s) : r[i] = s[i]
         /\ \A i \in Len(s) + 1 .. Len(s) + Len(b) : r[i] \in Letters
         /\ r[Len(s) + Len(b) + 1] = "foot"
         /\ r[Len(s) + Len(b) + 2] = "er"
<1>1. b \in Seq(Symbols) /\ b \in Seq(Letters) /\ Len(b) \in Nat /\ Len(s) \in Nat
  BY BodyType, LenProperties
<1>2. s \o b \in Seq(Symbols) /\ Len(s \o b) = Len(s) + Len(b)
  BY <1>1, ConcatProperties
<1>3. \A i \in 1 .. Len(s) : (s \o b)[i] = s[i]
  BY <1>1, ConcatProperties
<1>4. \A i \in Len(s) + 1 .. Len(s) + Len(b) : (s \o b)[i] \in Letters
  <2>1. TAKE i \in Len(s) + 1 .. Len(s) + Len(b)
  <2>2. i \in 1 .. Len(s) + Len(b) /\ ~(i <= Len(s)) /\ i - Len(s) \in 1 .. Len(b)
    BY <1>1
  <2>3. (s \o b)[i] = b[i - Len(s)]
    BY <1>1, <2>2, ConcatProperties
  <2>4. b[i - Len(s)] \in Letters
    BY <1>1, <2>2, ElementOfSeq
  <2> QED  BY <2>3, <2>4
<1> DEFINE w == s \o b
<1>5. r = w \o Footer
  OBVIOUS
<1>6. w \in Seq(Symbols) /\ Len(w) = Len(s) + Len(b)
  BY <1>2
<1>7. /\ \A i \in 1 .. Len(s) : w[i] = s[i]
      /\ \A i \in Len(s) + 1 .. Len(s) + Len(b) : w[i] \in Letters
  BY <1>3, <1>4
<1> HIDE DEF w
<1>8. /\ r \in Seq(Symbols) /\ Len(r) = Len(w) + 2
      /\ \A i \in 1 .. Len(w) : r[i] = w[i]
      /\ r[Len(w) + 1] = "foot" /\ r[Len(w) + 2] = "er"
  BY <1>5, <1>6, FooterBehind
<1> QED  BY <1>1, <1>6, <1>7, <1>8

LEMMA WriteType ==
  ASSUME TypeOK, NEW b \in Bodies, Write(b)
  PROVE  TypeOK'
<1>1. stream' \in Seq(Symbols) /\ Len(stream') = Len(stream) + Len(b) + 2
  <2>1. stream \in Seq(Symbols) /\ stream' = stream \o b \o Footer
    BY DEF TypeOK, Write
  <2> QED  BY <2>1, Written
<1>2. Len(stream) \in Nat /\ Len(b) \in Nat
  BY BodyType, LenProperties DEF TypeOK
<1>3. ends' \in Seq(1 .. Len(stream'))
  <2>1. 1 .. Len(stream) \subseteq 1 .. Len(stream') /\ Len(stream') \in 1 .. Len(stream')
    BY <1>1, <1>2
  <2>2. ends \in Seq(1 .. Len(stream'))
    BY <2>1, SeqMonotonic DEF TypeOK
  <2> QED  BY <2>1, <2>2, AppendProperties DEF Write
<1> QED  BY <1>1, <1>2, <1>3 DEF TypeOK, Write

LEMMA FlushType ==
  ASSUME TypeOK, Flush
  PROVE  TypeOK'
<1>1. PICK n \in flushed + 1 .. Len(stream) : flushed' = n /\ cuts' = cuts \cup {n}
  BY DEF Flush
<1>2. Len(stream) \in Nat /\ flushed \in 0 .. Len(stream) /\ at \in 0 .. flushed
  BY LenProperties DEF TypeOK
<1>3. flushed' \in 0 .. Len(stream) /\ at \in 0 .. flushed' /\ flushed' \in cuts'
  BY <1>1, <1>2
<1>4. cuts' \subseteq at + 1 .. flushed'
  BY <1>1, <1>2 DEF TypeOK
<1> QED  BY <1>3, <1>4 DEF TypeOK, Flush

\* The records on the way, the last of which ends at l, are ahead of position a.
Ahead(C, a, l) == C \subseteq a + 1 .. l /\ l \in C \cup {a}

\* A read into m bytes gets from a to n: to the end of the first record or of the
\* buffer, whichever is nearer.
Reaches(C, a, m, n) == C # {} /\ n = IF Min(C) <= a + m THEN Min(C) ELSE a + m

LEMMA ReachesIs ==
  ASSUME NEW C, NEW a \in Nat, NEW l \in Nat, NEW m \in Nat \ {0}, NEW n,
         Ahead(C, a, l), Reaches(C, a, m, n)
  PROVE  n \in a + 1 .. l /\ n <= a + m /\ Ahead(C \ {n}, n, l)
<1> USE DEF Ahead, Reaches
<1>1. Min(C) \in C /\ \A y \in C : Min(C) <= y
  <2>1. C \subseteq Nat
    OBVIOUS
  <2> QED  BY <2>1, MinIs
<1>2. PICK c \in a + 1 .. l : c = Min(C)
  BY <1>1
<1>3. n = IF c <= a + m THEN c ELSE a + m
  BY <1>2
<1>4. n \in a + 1 .. l /\ n <= a + m /\ n <= c
  BY <1>2, <1>3
<1>5. ASSUME NEW y \in C \ {n}
      PROVE  y \in n + 1 .. l
  <2>1. y \in a + 1 .. l /\ c <= y /\ y # n
    BY <1>1, <1>2
  <2> QED  BY <1>4, <2>1
<1>6. l \in C
  <2>1. c \in a + 1 .. l /\ l # a
    BY <1>2
  <2> QED  BY <2>1
<1> QED  BY <1>4, <1>5, <1>6

\* What a read returns: more than nothing, at most what fits, at most a record.
LEMMA Returned ==
  ASSUME TypeOK, Read
  PROVE  /\ at \in 0 .. Len(stream) /\ at' \in at .. Len(stream)
         /\ at' \in at + 1 .. flushed /\ at' <= at + ReadMax
         /\ cuts' \subseteq at' + 1 .. flushed /\ flushed \in cuts' \cup {at'}
         /\ SubSeq(stream, at + 1, at') \in Seq(Symbols)
         /\ Len(SubSeq(stream, at + 1, at')) \in 1 .. ReadMax
<1>1. /\ Len(stream) \in Nat /\ flushed \in 0 .. Len(stream) /\ at \in 0 .. flushed
      /\ cuts \subseteq at + 1 .. flushed /\ flushed \in cuts \cup {at}
      /\ ReadMax \in Nat \ {0} /\ stream \in Seq(Symbols)
  BY LenProperties, FramingAssumption DEF TypeOK
<1>2. Ahead(cuts, at, flushed) /\ Reaches(cuts, at, ReadMax, at') /\ cuts' = cuts \ {at'}
  BY <1>1 DEF Read, Ahead, Reaches
<1>3. at \in Nat /\ flushed \in Nat /\ ReadMax \in Nat \ {0}
  BY <1>1
<1>4. /\ at' \in at + 1 .. flushed /\ at' <= at + ReadMax
      /\ cuts' \subseteq at' + 1 .. flushed /\ flushed \in cuts' \cup {at'}
  <2>1. at' \in at + 1 .. flushed /\ at' <= at + ReadMax /\ Ahead(cuts \ {at'}, at', flushed)
    BY <1>2, <1>3, ReachesIs
  <2> QED  BY <1>2, <2>1 DEF Ahead
<1>5. PICK n \in at + 1 .. flushed : n = at'
  BY <1>4
<1>6. /\ at \in 0 .. Len(stream) /\ n \in at .. Len(stream)
      /\ n <= at + ReadMax /\ at + 1 <= n
  BY <1>1, <1>4, <1>5
<1>7. /\ SubSeq(stream, at + 1, n) \in Seq(Symbols)
      /\ Len(SubSeq(stream, at + 1, n)) = n - at
  BY <1>1, <1>6, PieceIs
<1>8. n - at \in 1 .. ReadMax
  BY <1>1, <1>6
<1> QED  BY <1>2, <1>4, <1>5, <1>6, <1>7, <1>8

LEMMA ReadType ==
  ASSUME TypeOK, Read
  PROVE  TypeOK'
<1> DEFINE new == SubSeq(stream, at + 1, at')
           f   == Over(new, frag)
           t   == text \o f
           cmd == Trimmed(t)
<1>1. /\ at' \in at + 1 .. flushed
      /\ cuts' \subseteq at' + 1 .. flushed /\ flushed \in cuts' \cup {at'}
      /\ new \in Seq(Symbols) /\ Len(new) \in 1 .. ReadMax
  BY Returned
<1>2. /\ at \in Nat /\ at \in 0 .. flushed /\ flushed \in 0 .. Len(stream)
      /\ Len(stream) \in Nat /\ ReadMax \in Nat
      /\ frag \in Seq(Symbols) /\ Len(frag) <= ReadMax /\ text \in Seq(Symbols)
      /\ Len(frag) \in Nat
  BY LenProperties, FramingAssumption DEF TypeOK
<1>3. /\ frag' = f /\ text' = t
      /\ blemish' = blemish \cup Accident(new, t)
      /\ IF FooterAt(f) # 0
         THEN /\ pc' = "poll"
              /\ got' = IF FooterAt(cmd) # 0 THEN Append(got, FirstCommand(cmd)) ELSE got
         ELSE UNCHANGED <<pc, got>>
      /\ UNCHANGED <<stream, ends, flushed>>
  BY DEF Read, client
<1> HIDE DEF new
<1>4. f \in Seq(Symbols) /\ Len(f) <= ReadMax
  <2>1. Len(new) \in Nat /\ Len(new) <= ReadMax
    BY <1>1
  <2>2. /\ Over(new, frag) \in Seq(Symbols)
        /\ Len(Over(new, frag)) = IF Len(new) < Len(frag) THEN Len(frag) ELSE Len(new)
    BY <1>1, <1>2, OverIs
  <2> QED  BY <1>2, <2>1, <2>2
<1> HIDE DEF f
<1>5. t \in Seq(Symbols)
  BY <1>2, <1>4, ConcatProperties
<1> HIDE DEF t
<1>6. cmd \in Seq(Symbols)
  BY <1>5, TrimmedIs
<1> HIDE DEF cmd
<1>7. got' \in Seq(Seq(Symbols))
  <2>1. got \in Seq(Seq(Symbols))
    BY DEF TypeOK
  <2>2. FooterAt(cmd) # 0 => Append(got, FirstCommand(cmd)) \in Seq(Seq(Symbols))
    BY <1>6, <2>1, FirstCommandIs, AppendProperties
  <2> QED  BY <1>3, <2>1, <2>2
<1>8. blemish' \subseteq Blemishes
  BY <1>3 DEF TypeOK, Accident, Blemishes
<1>9. pc' \in {"poll", "read"}
  BY <1>3 DEF TypeOK
<1>10. at' \in 0 .. flushed
  BY <1>1, <1>2
<1> QED  BY <1>1, <1>3, <1>4, <1>5, <1>7, <1>8, <1>9, <1>10 DEF TypeOK

LEMMA TypeStep == TypeOK /\ [Next]_vars => TypeOK'
<1> SUFFICES ASSUME TypeOK, [Next]_vars
             PROVE  TypeOK'
  OBVIOUS
<1>1. ASSUME NEW b \in Bodies, Write(b)
      PROVE  TypeOK'
  BY <1>1, WriteType
<1>2. CASE Flush
  BY <1>2, FlushType
<1>3. CASE Poll
  BY <1>3, EmptySeq, FramingAssumption DEF Poll, TypeOK, client
<1>4. CASE Read
  BY <1>4, ReadType
<1>5. CASE Timeout
  BY <1>5, EmptySeq, FramingAssumption DEF Timeout, TypeOK, client, Blemishes
<1>6. CASE UNCHANGED vars
  BY <1>6 DEF vars, client, TypeOK
<1> QED  BY <1>1, <1>2, <1>3, <1>4, <1>5, <1>6 DEF Next

LEMMA InitType == Init => TypeOK
<1> SUFFICES ASSUME Init
             PROVE  TypeOK
  OBVIOUS
<1>1. <<>> \in Seq(Symbols) /\ <<>> \in Seq(Seq(Symbols)) /\ <<>> \in Seq(1 .. 0) /\ Len(<<>>) = 0
  BY EmptySeq
<1> QED  BY <1>1, FramingAssumption DEF Init, TypeOK

\* What was read and taken are texts, and the positions in the stream are in
\* order: read, sent and written; a record that is not read to its end ends at
\* the last position sent, or nothing is on the way.
THEOREM TypeCorrect == Spec => []TypeOK
<1> QED  BY InitType, TypeStep, PTL DEF Spec

-------------------------------------------------------------------------------
(* The inductive invariant.                                                *)

\* A footer is where a command ends, and nowhere else.
Framed ==
  /\ Len(stream) = IF Len(ends) = 0 THEN 0 ELSE ends[Len(ends)]
  /\ \A k \in DOMAIN ends :
       /\ Before(k) + 2 <= ends[k]
       /\ stream[ends[k] - 1] = "foot" /\ stream[ends[k]] = "er"
  /\ \A j, k \in DOMAIN ends : j < k => ends[j] < ends[k]
  /\ \A i \in 1 .. Len(stream) :
       stream[i] = "foot" => \E k \in DOMAIN ends : ends[k] = i + 1

\* The first read of a command finds the buffer cleared.
Cleared == pc = "read" /\ text = <<>> => frag = <<>>

\* The command that is being read has begun before the next read.
Begun == blemish = {} => Taken <= at

Inductive == TypeOK /\ Framed /\ Cleared /\ Begun /\ Intact

-------------------------------------------------------------------------------
(* Prefixes and pieces.                                                    *)

LEMMA PrefixIs ==
  ASSUME NEW S, NEW s \in Seq(S), NEW t \in Seq(S)
  PROVE  IsPrefix(s, t) <=> Len(s) <= Len(t) /\ \A k \in 1 .. Len(s) : s[k] = t[k]
<1>1. Len(s) \in Nat /\ Len(t) \in Nat
  BY LenProperties
<1>2. CASE Len(s) <= Len(t)
  <2> DEFINE u == SubSeq(t, 0 + 1, Len(s))
             v == SubSeq(s, 0 + 1, Len(s))
  <2>1. /\ u \in Seq(S) /\ Len(u) = Len(s) - 0
        /\ \A k \in 1 .. Len(s) - 0 : u[k] = t[0 + k]
    <3>1. 0 \in 0 .. Len(t) /\ Len(s) \in 0 .. Len(t)
      BY <1>1, <1>2
    <3> QED  BY <3>1, PieceIs
  <2>2. u = SubSeq(t, 1, Len(s))
    OBVIOUS
  <2>3. SubSeq(s, 1, Len(s)) = s
    BY SubSeqFull
  <2>4. Len(u) = Len(s) /\ \A k \in 1 .. Len(s) : u[k] = t[k]
    BY <1>1, <2>1
  <2>5. s = u <=> \A k \in 1 .. Len(s) : s[k] = t[k]
    <3> HIDE DEF u
    <3>1. (\A k \in 1 .. Len(s) : s[k] = u[k]) => s = u
      BY <2>1, <2>4, SeqEqual
    <3> QED  BY <2>4, <3>1
  <2> HIDE DEF u
  <2> QED  BY <1>2, <2>2, <2>3, <2>5 DEF IsPrefix
<1>3. CASE ~(Len(s) <= Len(t))
  BY <1>3 DEF IsPrefix
<1> QED  BY <1>2, <1>3

\* The next one taken is the next one sent.
LEMMA PrefixExtended ==
  ASSUME NEW S, NEW s \in Seq(S), NEW t \in Seq(S), NEW e,
         IsPrefix(s, t), Len(s) + 1 <= Len(t), e = t[Len(s) + 1]
  PROVE  IsPrefix(Append(s, e), t)
<1>1. Len(s) \in Nat /\ Len(t) \in Nat
  BY LenProperties
<1>2. e \in S
  <2>1. Len(s) + 1 \in 1 .. Len(t)
    BY <1>1
  <2> QED  BY <2>1, ElementOfSeq
<1>3. /\ Append(s, e) \in Seq(S) /\ Len(Append(s, e)) = Len(s) + 1
      /\ \A k \in 1 .. Len(s) : Append(s, e)[k] = s[k]
      /\ Append(s, e)[Len(s) + 1] = e
  BY <1>2, AppendProperties
<1>4. \A k \in 1 .. Len(s) : s[k] = t[k]
  BY PrefixIs
<1> DEFINE a == Append(s, e)
<1>5. /\ a \in Seq(S) /\ Len(a) = Len(s) + 1
      /\ \A k \in 1 .. Len(s) : a[k] = s[k]
      /\ a[Len(s) + 1] = e
  BY <1>3
<1> HIDE DEF a
<1>6. \A k \in 1 .. Len(a) : a[k] = t[k]
  BY <1>1, <1>4, <1>5
<1>7. IsPrefix(a, t)
  BY <1>5, <1>6, PrefixIs
<1> QED  BY <1>7 DEF a

\* A piece of a text is the same in a longer one.
LEMMA PieceKept ==
  ASSUME NEW S, NEW s \in Seq(S), NEW r \in Seq(S), Len(s) <= Len(r),
         \A i \in 1 .. Len(s) : r[i] = s[i],
         NEW a \in 0 .. Len(s), NEW b \in a .. Len(s)
  PROVE  SubSeq(r, a + 1, b) = SubSeq(s, a + 1, b)
<1>1. Len(s) \in Nat /\ Len(r) \in Nat
  BY LenProperties
<1>2. a \in 0 .. Len(r) /\ b \in a .. Len(r)
  BY <1>1
<1> DEFINE u == SubSeq(r, a + 1, b)
           v == SubSeq(s, a + 1, b)
<1>3. u \in Seq(S) /\ Len(u) = b - a /\ \A i \in 1 .. b - a : u[i] = r[a + i]
  BY <1>2, PieceIs
<1>4. v \in Seq(S) /\ Len(v) = b - a /\ \A i \in 1 .. b - a : v[i] = s[a + i]
  BY PieceIs
<1> HIDE DEF u, v
<1>5. \A i \in 1 .. b - a : r[a + i] = s[a + i]
  <2>1. TAKE i \in 1 .. b - a
  <2>2. a + i \in 1 .. Len(s)
    BY <1>1
  <2> QED  BY <2>2
<1>6. u = v
  BY <1>3, <1>4, <1>5, SeqEqual
<1> QED  BY <1>6 DEF u, v

\* Two pieces that meet.
LEMMA PiecesJoin ==
  ASSUME NEW S, NEW s \in Seq(S), NEW a \in 0 .. Len(s), NEW b \in a .. Len(s),
         NEW c \in b .. Len(s)
  PROVE  SubSeq(s, a + 1, b) \o SubSeq(s, b + 1, c) = SubSeq(s, a + 1, c)
<1>1. Len(s) \in Nat
  BY LenProperties
<1>2. /\ a + 1 \in 1 .. Len(s) + 1
      /\ b \in (a + 1) - 1 .. Len(s)
      /\ c \in b .. Len(s)
  BY <1>1
<1> QED  BY <1>2, ConcatAdjacentSubSeq

-------------------------------------------------------------------------------
(* What was sent.                                                          *)

\* Commands are pieces of the stream, one behind the other.
Pieces ==
  /\ Sent \in Seq(Seq(Symbols)) /\ Len(Sent) = Len(ends)
  /\ \A k \in 1 .. Len(ends) :
       /\ Sent[k] = SubSeq(stream, Before(k) + 1, ends[k])
       /\ ends[k] \in Before(k) .. Len(stream)
  /\ \A k \in 1 .. Len(ends) + 1 : Before(k) \in 0 .. Len(stream)

LEMMA SentPieces == TypeOK /\ Framed => Pieces
<1> SUFFICES ASSUME TypeOK, Framed
             PROVE  Pieces
  OBVIOUS
<1>1. /\ stream \in Seq(Symbols) /\ Len(stream) \in Nat
      /\ Len(ends) \in Nat /\ DOMAIN ends = 1 .. Len(ends)
      /\ \A k \in 1 .. Len(ends) : ends[k] \in 1 .. Len(stream)
  BY LenProperties, ElementOfSeq DEF TypeOK
<1>2. \A k \in 1 .. Len(ends) + 1 : Before(k) \in 0 .. Len(stream)
  <2>1. TAKE k \in 1 .. Len(ends) + 1
  <2>2. CASE k = 1
    BY <1>1, <2>2 DEF Before
  <2>3. CASE k # 1
    <3>1. k - 1 \in 1 .. Len(ends)
      BY <1>1, <2>3
    <3>2. ends[k - 1] \in 1 .. Len(stream)
      BY <1>1, <3>1
    <3> QED  BY <1>1, <2>3, <3>2 DEF Before
  <2> QED  BY <2>2, <2>3
<1>3. \A k \in 1 .. Len(ends) : ends[k] \in Before(k) .. Len(stream)
  <2>1. TAKE k \in 1 .. Len(ends)
  <2>2. Before(k) + 2 <= ends[k]
    BY <1>1 DEF Framed
  <2>3. Before(k) \in 0 .. Len(stream) /\ ends[k] \in 1 .. Len(stream)
    BY <1>1, <1>2
  <2> QED  BY <1>1, <2>2, <2>3
<1>4. \A k \in 1 .. Len(ends) : SubSeq(stream, Before(k) + 1, ends[k]) \in Seq(Symbols)
  BY <1>1, <1>2, <1>3, PieceIs
<1>5. Sent = [k \in 1 .. Len(ends) |-> SubSeq(stream, Before(k) + 1, ends[k])]
  BY <1>1 DEF Sent
<1>6. Sent \in Seq(Seq(Symbols)) /\ Len(Sent) = Len(ends)
  BY <1>1, <1>4, <1>5
<1> QED  BY <1>2, <1>3, <1>5, <1>6 DEF Pieces

LEMMA SentPiecesNext == TypeOK' /\ Framed' => Pieces'
  BY SentPieces, PTL

-------------------------------------------------------------------------------
(* The client.                                                             *)

LEMMA WriteFramed ==
  ASSUME TypeOK, Framed, NEW b \in Bodies, Write(b)
  PROVE  /\ Framed'
         /\ \A k \in 1 .. Len(ends) + 1 : Before(k)' = Before(k)
         /\ \A k \in 1 .. Len(ends) : ends'[k] = ends[k]
         /\ Len(ends') = Len(ends) + 1
         /\ Len(stream) <= Len(stream')
         /\ \A i \in 1 .. Len(stream) : stream'[i] = stream[i]
<1> DEFINE L == Len(stream)
           m == Len(ends)
           n == Len(b)
<1>1. /\ stream \in Seq(Symbols) /\ L \in Nat /\ m \in Nat /\ n \in Nat
      /\ DOMAIN ends = 1 .. m
      /\ \A k \in 1 .. m : ends[k] \in 1 .. L
  BY LenProperties, ElementOfSeq, BodyType DEF TypeOK
<1>2. PICK r : r = stream'
  OBVIOUS
<1>3. /\ r \in Seq(Symbols)
      /\ Len(r) = L + n + 2
      /\ \A i \in 1 .. L : r[i] = stream[i]
      /\ \A i \in L + 1 .. L + n : r[i] \in Letters
      /\ r[L + n + 1] = "foot"
      /\ r[L + n + 2] = "er"
  <2>1. r = stream \o b \o Footer
    BY <1>2 DEF Write
  <2> QED  BY <1>1, <2>1, Written
<1>4. PICK e : e = ends'
  OBVIOUS
<1>5. /\ Len(e) = m + 1 /\ DOMAIN e = 1 .. m + 1
      /\ \A k \in 1 .. m : e[k] = ends[k]
      /\ e[m + 1] = L + n + 2
  <2>1. e = Append(ends, Len(r))
    BY <1>2, <1>4 DEF Write
  <2> QED  BY <1>1, <1>3, <2>1
<1>6. /\ L = Before(m + 1)
      /\ \A k \in 1 .. m :
           /\ Before(k) + 2 <= ends[k]
           /\ stream[ends[k] - 1] = "foot" /\ stream[ends[k]] = "er"
      /\ \A j, k \in 1 .. m : j < k => ends[j] < ends[k]
      /\ \A i \in 1 .. L :
           stream[i] = "foot" => \E k \in 1 .. m : ends[k] = i + 1
      /\ \A k \in 1 .. m + 1 : Before(k) \in 0 .. L
  <2>1. L = Before(m + 1)
    BY <1>1 DEF Framed, Before
  <2> QED  BY <1>1, <2>1, SentPieces DEF Framed, Pieces
<1>7. \A k \in 1 .. m + 1 : Before(k)' = Before(k)
  <2>1. TAKE k \in 1 .. m + 1
  <2>2. Before(k)' = IF k = 1 THEN 0 ELSE e[k - 1]
    BY <1>4 DEF Before
  <2>3. k # 1 => k - 1 \in 1 .. m
    BY <1>1
  <2>4. k # 1 => e[k - 1] = ends[k - 1]
    BY <1>5, <2>3
  <2> QED  BY <2>2, <2>4 DEF Before
<1> HIDE DEF L, m, n
<1>8. Len(r) = e[Len(e)] /\ Len(e) # 0
  BY <1>1, <1>3, <1>5
<1>9. ASSUME NEW k \in 1 .. m + 1
      PROVE  Before(k)' + 2 <= e[k] /\ r[e[k] - 1] = "foot" /\ r[e[k]] = "er"
  <2>1. CASE k \in 1 .. m
    <3>1. /\ Before(k) \in 0 .. L /\ ends[k] \in 1 .. L /\ Before(k) + 2 <= ends[k]
          /\ e[k] = ends[k] /\ Before(k)' = Before(k)
      BY <1>1, <1>5, <1>6, <1>7, <2>1
    <3>2. ends[k] - 1 \in 1 .. L
      BY <1>1, <3>1
    <3>3. r[ends[k] - 1] = stream[ends[k] - 1] /\ r[ends[k]] = stream[ends[k]]
      BY <1>3, <3>1, <3>2
    <3> QED  BY <1>6, <2>1, <3>1, <3>3
  <2>2. CASE k = m + 1
    <3>1. Before(k)' = L /\ e[k] = L + n + 2
      BY <1>5, <1>6, <1>7, <2>2
    <3>2. (L + n + 2) - 1 = L + n + 1 /\ L + 2 <= L + n + 2
      BY <1>1
    <3>3. e[k] - 1 = L + n + 1 /\ Before(k)' + 2 <= e[k]
      BY <3>1, <3>2, Zenon
    <3> QED  BY <1>3, <3>1, <3>3
  <2> QED  BY <1>1, <2>1, <2>2
<1>10. ASSUME NEW j \in 1 .. m + 1, NEW k \in 1 .. m + 1, j < k
       PROVE  e[j] < e[k]
  <2>1. j \in 1 .. m /\ ends[j] \in 1 .. L /\ e[j] = ends[j]
    BY <1>1, <1>5, <1>10
  <2>2. CASE k \in 1 .. m
    BY <1>5, <1>6, <1>10, <2>1, <2>2
  <2>3. CASE k = m + 1
    BY <1>1, <1>5, <2>1, <2>3
  <2> QED  BY <1>1, <2>2, <2>3
<1>11. ASSUME NEW i \in 1 .. Len(r), r[i] = "foot"
       PROVE  \E k \in 1 .. m + 1 : e[k] = i + 1
  <2>1. CASE i \in 1 .. L
    <3>1. PICK k \in 1 .. m : ends[k] = i + 1
      BY <1>3, <1>6, <1>11, <2>1
    <3>2. k \in 1 .. m + 1 /\ e[k] = i + 1
      BY <1>1, <1>5, <3>1
    <3> QED  BY <3>2
  <2>2. CASE i \in L + 1 .. L + n
    BY <1>3, <1>11, <2>2, FramingAssumption
  <2>3. CASE i = L + n + 1
    <3>1. m + 1 \in 1 .. m + 1 /\ e[m + 1] = i + 1
      BY <1>1, <1>5, <2>3
    <3> QED  BY <3>1
  <2>4. CASE i = L + n + 2
    BY <1>3, <1>11, <2>4
  <2> QED  BY <1>1, <1>3, <2>1, <2>2, <2>3, <2>4
<1>12. Framed'
  BY <1>2, <1>4, <1>5, <1>8, <1>9, <1>10, <1>11 DEF Framed
<1> QED  BY <1>1, <1>2, <1>3, <1>4, <1>5, <1>7, <1>12 DEF L, m

\* What was taken without accident are commands that were sent.
LEMMA TakenSent ==
  ASSUME TypeOK, Framed, IsPrefix(got, Sent)
  PROVE  /\ Len(got) \in 0 .. Len(ends)
         /\ Taken \in 0 .. Len(stream)
         /\ \A k \in 1 .. Len(got) : got[k] = Sent[k]
<1>1. /\ Pieces /\ got \in Seq(Seq(Symbols)) /\ Len(got) \in Nat /\ Len(ends) \in Nat
  BY SentPieces, LenProperties DEF TypeOK
<1>2. Len(got) <= Len(Sent) /\ \A k \in 1 .. Len(got) : got[k] = Sent[k]
  BY <1>1, PrefixIs DEF Pieces
<1>3. Len(got) \in 0 .. Len(ends) /\ Len(got) + 1 \in 1 .. Len(ends) + 1
  BY <1>1, <1>2 DEF Pieces
<1> QED  BY <1>1, <1>2, <1>3 DEF Pieces, Taken

LEMMA WriteInv ==
  ASSUME Inductive, NEW b \in Bodies, Write(b)
  PROVE  Inductive'
<1>1. TypeOK /\ Framed /\ Cleared /\ Begun /\ Intact /\ TypeOK'
  BY WriteType DEF Inductive
<1>2. /\ Framed'
      /\ \A k \in 1 .. Len(ends) + 1 : Before(k)' = Before(k)
      /\ \A k \in 1 .. Len(ends) : ends'[k] = ends[k]
      /\ Len(ends') = Len(ends) + 1
      /\ Len(stream) <= Len(stream')
      /\ \A i \in 1 .. Len(stream) : stream'[i] = stream[i]
  BY <1>1, WriteFramed
<1>3. Pieces /\ Pieces'
  BY <1>1, <1>2, SentPieces, SentPiecesNext
<1>4. UNCHANGED <<at, pc, frag, text, got, blemish>>
  BY DEF Write
<1>5. ASSUME blemish = {}
      PROVE  IsPrefix(got, Sent') /\ Taken' = Taken /\ Taken \in 0 .. Len(stream)
  <2>1. /\ Len(got) \in 0 .. Len(ends) /\ Taken \in 0 .. Len(stream)
        /\ \A k \in 1 .. Len(got) : got[k] = Sent[k]
        /\ Len(ends) \in Nat
    BY <1>1, <1>5, TakenSent, LenProperties DEF Intact, TypeOK
  <2>2. Taken' = Taken
    <3>1. PICK g \in 1 .. Len(ends) + 1 : g = Len(got) + 1
      BY <2>1
    <3>2. Taken' = IF g = 1 THEN 0 ELSE ends'[g - 1]
      BY <1>4, <3>1 DEF Taken, Before
    <3>3. Before(g)' = IF g = 1 THEN 0 ELSE ends'[g - 1]
      BY DEF Before
    <3>4. Taken = Before(g)
      BY <3>1 DEF Taken
    <3> QED  BY <1>2, <3>2, <3>3, <3>4
  <2>3. \A k \in 1 .. Len(ends) : Sent'[k] = Sent[k]
    <3>1. TAKE k \in 1 .. Len(ends)
    <3>2. /\ Sent[k] = SubSeq(stream, Before(k) + 1, ends[k])
          /\ ends[k] \in Before(k) .. Len(stream) /\ Before(k) \in 0 .. Len(stream)
      BY <1>3, <2>1 DEF Pieces
    <3>3. Sent'[k] = SubSeq(stream', Before(k)' + 1, ends'[k])
      <4>1. k \in 1 .. Len(ends')
        BY <1>2, <2>1
      <4> QED  BY <1>3, <4>1 DEF Pieces
    <3>4. Before(k)' = Before(k) /\ ends'[k] = ends[k]
      BY <1>2, <2>1
    <3>5. SubSeq(stream', Before(k) + 1, ends[k]) = SubSeq(stream, Before(k) + 1, ends[k])
      <4>1. stream \in Seq(Symbols) /\ stream' \in Seq(Symbols)
        BY <1>1 DEF TypeOK
      <4> QED  BY <1>2, <3>2, <4>1, PieceKept
    <3> QED  BY <3>2, <3>3, <3>4, <3>5
  <2>4. IsPrefix(got, Sent')
    <3>1. Sent' \in Seq(Seq(Symbols)) /\ Len(Sent') = Len(ends) + 1 /\ got \in Seq(Seq(Symbols))
      BY <1>1, <1>2, <1>3 DEF Pieces, TypeOK
    <3>2. Len(got) <= Len(Sent') /\ \A k \in 1 .. Len(got) : got[k] = Sent'[k]
      BY <2>1, <2>3, <3>1
    <3> QED  BY <3>1, <3>2, PrefixIs
  <2> QED  BY <2>1, <2>2, <2>4
<1>6. Cleared' /\ Begun'
  BY <1>1, <1>4, <1>5 DEF Cleared, Begun
<1>7. Intact'
  <2> SUFFICES ASSUME blemish = {}
               PROVE  /\ IsPrefix(got, Sent')
                      /\ IF pc = "read" THEN text = SubSeq(stream', Taken' + 1, at)
                         ELSE at = Taken'
    BY <1>4 DEF Intact
  <2>1. IsPrefix(got, Sent') /\ Taken' = Taken /\ Taken \in 0 .. Len(stream)
    BY <1>5
  <2>2. IF pc = "read" THEN text = SubSeq(stream, Taken + 1, at) ELSE at = Taken
    BY <1>1 DEF Intact
  <2>3. SubSeq(stream', Taken + 1, at) = SubSeq(stream, Taken + 1, at)
    <3>1. /\ stream \in Seq(Symbols) /\ stream' \in Seq(Symbols)
          /\ Len(stream) \in Nat /\ flushed \in 0 .. Len(stream) /\ at \in 0 .. flushed
      BY <1>1, LenProperties DEF TypeOK
    <3>2. Taken <= at
      BY <1>1 DEF Begun
    <3>3. at \in Taken .. Len(stream)
      BY <2>1, <3>1, <3>2
    <3> QED  BY <1>2, <2>1, <3>1, <3>3, PieceKept
  <2> QED  BY <2>1, <2>2, <2>3
<1> QED  BY <1>1, <1>2, <1>6, <1>7 DEF Inductive

\* An action that leaves the stream and what was taken alone.
LEMMA StreamKept ==
  ASSUME UNCHANGED <<stream, ends>>
  PROVE  (Framed <=> Framed') /\ Sent' = Sent /\ (got' = got => Taken' = Taken)
  BY DEF Framed, Sent, Taken, Before

LEMMA FlushInv ==
  ASSUME Inductive, Flush
  PROVE  Inductive'
<1>1. TypeOK /\ Framed /\ Cleared /\ Begun /\ Intact /\ TypeOK'
  BY FlushType DEF Inductive
<1>2. UNCHANGED <<stream, ends, at, pc, frag, text, got, blemish>>
  BY DEF Flush
<1>3. Framed' /\ Sent' = Sent /\ Taken' = Taken
  BY <1>1, <1>2, StreamKept
<1>4. Cleared' /\ Begun' /\ Intact'
  BY <1>1, <1>2, <1>3 DEF Cleared, Begun, Intact
<1> QED  BY <1>1, <1>3, <1>4 DEF Inductive

-------------------------------------------------------------------------------
(* The server.                                                             *)

LEMMA PollInv ==
  ASSUME Inductive, Poll, TypeOK'
  PROVE  Inductive'
<1>1. TypeOK /\ Framed /\ Cleared /\ Begun /\ Intact
  BY DEF Inductive
<1>2. /\ UNCHANGED <<stream, ends, at, got, blemish>>
      /\ pc = "poll" /\ pc' = "read" /\ frag' = <<>> /\ text' = <<>>
  BY DEF Poll, client
<1>3. Framed' /\ Sent' = Sent /\ Taken' = Taken
  BY <1>1, <1>2, StreamKept
<1>4. Cleared' /\ Begun'
  BY <1>1, <1>2, <1>3 DEF Cleared, Begun
<1>5. Intact'
  <2> SUFFICES ASSUME blemish = {}
               PROVE  IsPrefix(got, Sent) /\ text' = SubSeq(stream, Taken + 1, at)
    BY <1>2, <1>3 DEF Intact
  <2>1. IsPrefix(got, Sent) /\ at = Taken
    BY <1>1, <1>2 DEF Intact
  <2>2. at \in Int /\ at < Taken + 1 /\ Taken + 1 \in Int
    BY <1>1, <2>1 DEF TypeOK
  <2>3. SubSeq(stream, Taken + 1, at) = <<>>
    BY <2>2, SubSeqEmpty
  <2> QED  BY <1>2, <2>1, <2>3
<1> QED  BY <1>3, <1>4, <1>5 DEF Inductive

LEMMA TimeoutInv ==
  ASSUME Inductive, Timeout, TypeOK'
  PROVE  Inductive'
<1>1. TypeOK /\ Framed /\ Cleared /\ Begun /\ Intact
  BY DEF Inductive
<1>2. /\ UNCHANGED <<stream, ends, at, got>>
      /\ pc = "read" /\ pc' = "poll"
      /\ blemish' = IF text # <<>> THEN blemish \cup {"timeout"} ELSE blemish
  BY DEF Timeout, client
<1>3. Framed' /\ Sent' = Sent /\ Taken' = Taken
  BY <1>1, <1>2, StreamKept
<1>4. Cleared' /\ Begun'
  BY <1>1, <1>2, <1>3 DEF Cleared, Begun
<1>5. Intact'
  <2> SUFFICES ASSUME blemish' = {}
               PROVE  IsPrefix(got, Sent) /\ at = Taken
    BY <1>2, <1>3 DEF Intact
  <2>1. blemish = {} /\ text = <<>>
    BY <1>2
  <2>2. IsPrefix(got, Sent) /\ SubSeq(stream, Taken + 1, at) = <<>> /\ Taken <= at
    BY <1>1, <1>2, <2>1 DEF Intact, Begun
  <2>3. /\ Taken \in 0 .. Len(stream) /\ stream \in Seq(Symbols)
        /\ Len(stream) \in Nat /\ flushed \in 0 .. Len(stream) /\ at \in 0 .. flushed
    BY <1>1, <2>2, TakenSent, LenProperties DEF TypeOK
  <2>4. at \in Taken .. Len(stream)
    BY <2>2, <2>3
  <2>5. Len(SubSeq(stream, Taken + 1, at)) = at - Taken
    BY <2>3, <2>4, PieceIs
  <2>6. at - Taken = 0
    BY <2>2, <2>5, EmptySeq
  <2> QED  BY <2>2, <2>3, <2>6
<1> QED  BY <1>3, <1>4, <1>5 DEF Inductive

\* t is the piece of the stream from behind g commands, at b, up to n, and its first
\* footer is at its end.
Single(t, g, b, n) ==
  /\ b = Before(g + 1) /\ b <= n
  /\ t = SubSeq(stream, b + 1, n)
  /\ FooterAt(t) # 0 /\ FooterAt(t) = Len(t) - 1

\* Such a piece is the next command.
LEMMA FirstEnd ==
  ASSUME TypeOK, Framed, NEW g \in 0 .. Len(ends), NEW b \in 0 .. Len(stream),
         NEW n \in 0 .. Len(stream), NEW t, Single(t, g, b, n)
  PROVE  g + 1 \in 1 .. Len(ends) /\ ends[g + 1] = n
<1>1. /\ stream \in Seq(Symbols) /\ Len(stream) \in Nat /\ Len(ends) \in Nat
      /\ DOMAIN ends = 1 .. Len(ends)
      /\ \A k \in 1 .. Len(ends) : ends[k] \in 1 .. Len(stream)
  BY LenProperties, ElementOfSeq DEF TypeOK
<1>2. b \in 0 .. Len(stream) /\ n \in b .. Len(stream)
  BY <1>1 DEF Single
<1>3. PICK l \in Nat : b + l = n /\ n - b = l /\ n \in Nat
  <2>1. b \in Nat /\ n \in Nat /\ b <= n
    BY <1>1, <1>2
  <2>2. n - b \in Nat /\ b + (n - b) = n
    BY <2>1
  <2> QED  BY <2>1, <2>2
<1>4. t \in Seq(Symbols) /\ Len(t) = l /\ \A i \in 1 .. l : t[i] = stream[b + i]
  <2>1. /\ t \in Seq(Symbols) /\ Len(t) = n - b
        /\ \A i \in 1 .. n - b : t[i] = stream[b + i]
    BY <1>1, <1>2, PieceIs DEF Single
  <2> QED  BY <1>3, <2>1
<1>5. PICK h \in 1 .. l :
        /\ h + 1 = l /\ t[h] = "foot"
        /\ \A i \in 1 .. l : i < l /\ t[i] = "foot" /\ t[i + 1] = "er" => h <= i
  <2>1. /\ FooterAt(t) \in 1 .. Len(t) - 1
        /\ t[FooterAt(t)] = "foot"
        /\ \A i \in 1 .. Len(t) - 1 : t[i] = "foot" /\ t[i + 1] = "er" => FooterAt(t) <= i
    BY <1>4, FooterAtIs DEF Single
  <2>2. FooterAt(t) \in 1 .. l /\ FooterAt(t) + 1 = l
    BY <1>4, <2>1 DEF Single
  <2>3. \A i \in 1 .. l : i < l => i \in 1 .. Len(t) - 1
    BY <1>4
  <2>4. \A i \in 1 .. l :
          i < l /\ t[i] = "foot" /\ t[i + 1] = "er" => FooterAt(t) <= i
    BY <2>1, <2>3
  <2> QED  BY <2>1, <2>2, <2>4
<1>a. /\ b \in Nat /\ g \in Nat /\ n \in Nat /\ l \in Nat /\ h \in Nat
      /\ b + l = n /\ h + 1 = l /\ h >= 1 /\ n <= Len(stream) /\ Len(stream) \in Nat
  <2>1. b \in Nat /\ g \in Nat /\ n <= Len(stream)
    BY <1>1, <1>2
  <2>2. h \in Nat /\ h >= 1 /\ h + 1 = l
    BY <1>5
  <2> QED  BY <1>1, <1>3, <2>1, <2>2
<1>6. b < n /\ b + h + 1 = n
  BY <1>a
<1>7. b + h \in 1 .. Len(stream) /\ stream[b + h] = "foot"
  <2>1. b + h \in 1 .. Len(stream)
    BY <1>a
  <2>2. t[h] = stream[b + h]
    BY <1>4, <1>5
  <2> QED  BY <1>5, <2>1, <2>2
<1>8. PICK k \in 1 .. Len(ends) : ends[k] = n
  <2>1. \E k \in 1 .. Len(ends) : ends[k] = b + h + 1
    BY <1>1, <1>7 DEF Framed
  <2> QED  BY <1>6, <2>1
<1>9. \A i, j \in 1 .. Len(ends) : i < j => ends[i] < ends[j]
  BY <1>1 DEF Framed
<1>10. g < k
  <2>1. SUFFICES ASSUME k <= g
                 PROVE  FALSE
    BY <1>a
  <2>2. g \in 1 .. Len(ends) /\ g + 1 # 1 /\ g + 1 - 1 = g
    BY <1>1, <1>a, <2>1
  <2>3. b = ends[g]
    BY <2>2 DEF Single, Before
  <2>4. k = g \/ ends[k] < ends[g]
    BY <1>9, <2>1, <2>2
  <2> QED  BY <1>a, <1>6, <1>8, <2>3, <2>4
<1>11. g + 1 \in 1 .. Len(ends)
  BY <1>1, <1>a, <1>10
<1>12. g + 1 = k
  <2>1. SUFFICES ASSUME g + 1 < k
                 PROVE  FALSE
    BY <1>a, <1>10
  <2>2. PICK e \in 1 .. Len(stream) : e = ends[g + 1]
    BY <1>1, <1>11
  <2>3. b + 2 <= e /\ stream[e - 1] = "foot" /\ stream[e] = "er"
    BY <1>1, <1>11, <2>2 DEF Framed, Single
  <2>4. e < n
    BY <1>8, <1>9, <1>11, <2>1, <2>2
  <2>5. PICK i \in Nat : b + i + 1 = e
    <3>1. e \in Nat /\ b + 2 <= e /\ b \in Nat
      BY <1>a, <2>3
    <3>2. e - (b + 1) \in Nat /\ b + (e - (b + 1)) + 1 = e
      BY <3>1
    <3> QED  BY <3>2
  <2>6. /\ i \in 1 .. l /\ i + 1 \in 1 .. l /\ i < l /\ i < h
        /\ b + i = e - 1 /\ b + (i + 1) = e
    <3>1. e \in Nat /\ b + 2 <= e
      BY <2>3
    <3> QED  BY <1>a, <2>4, <2>5, <3>1
  <2>7. t[i] = "foot" /\ t[i + 1] = "er"
    BY <1>4, <2>3, <2>6
  <2>8. h <= i
    BY <1>5, <2>6, <2>7
  <2> QED  BY <2>6, <2>8
<1> QED  BY <1>8, <1>11, <1>12

\* Without accident, the fragment is what was read, and the text goes on where the
\* commands taken end.
LEMMA ReadText ==
  ASSUME Inductive, Read, blemish' = {},
         NEW n, n = at', NEW t, t = text'
  PROVE  /\ blemish = {}
         /\ Taken \in 0 .. Len(stream) /\ n \in Taken .. Len(stream)
         /\ t = SubSeq(stream, Taken + 1, n)
         /\ FooterAt(t) \in {0, Len(t) - 1} /\ Trimmed(t) = t
         /\ FooterAt(frag') # 0 => FooterAt(t) # 0
<1> DEFINE new == SubSeq(stream, at + 1, n)
<1>1. TypeOK /\ Framed /\ Cleared /\ Begun /\ Intact
  BY DEF Inductive
<1>2. /\ pc = "read" /\ frag' = Over(new, frag) /\ t = text \o frag'
      /\ blemish' = blemish \cup Accident(new, t)
  BY DEF Read
<1>3. /\ at \in 0 .. Len(stream) /\ n \in at .. Len(stream)
      /\ new \in Seq(Symbols)
  BY <1>1, Returned
<1>4. /\ stream \in Seq(Symbols) /\ frag \in Seq(Symbols) /\ text \in Seq(Symbols)
      /\ Len(stream) \in Nat /\ Len(frag) \in Nat
  BY <1>1, LenProperties DEF TypeOK
<1> HIDE DEF new
<1>5. Len(new) \in Nat
  BY <1>3, LenProperties
<1>6. /\ blemish = {}
      /\ text = <<>> \/ ~(Len(new) < Len(frag))
      /\ FooterAt(t) \in {0, Len(t) - 1} /\ Trimmed(t) = t
  BY <1>2 DEF Accident
<1>7. frag' = new
  <2>1. text = <<>> => Len(frag) = 0
    BY <1>1, <1>2, EmptySeq DEF Cleared
  <2>2. Len(new) >= Len(frag)
    BY <1>4, <1>5, <1>6, <2>1
  <2> QED  BY <1>2, <1>3, <1>4, <2>2, OverIs
<1>8. Taken \in 0 .. Len(stream) /\ text = SubSeq(stream, Taken + 1, at) /\ Taken <= at
  BY <1>1, <1>2, <1>6, TakenSent DEF Intact, Begun
<1>9. at \in Taken .. Len(stream) /\ n \in Taken .. Len(stream)
  BY <1>3, <1>4, <1>8
<1>10. t = SubSeq(stream, Taken + 1, n)
  <2>1. SubSeq(stream, Taken + 1, at) \o SubSeq(stream, at + 1, n) = SubSeq(stream, Taken + 1, n)
    BY <1>3, <1>4, <1>8, <1>9, PiecesJoin
  <2> QED  BY <1>2, <1>7, <1>8, <2>1 DEF new
<1>11. FooterAt(new) # 0 => FooterAt(t) # 0
  <2> SUFFICES ASSUME FooterAt(new) # 0
               PROVE  FooterAt(t) # 0
    OBVIOUS
  <2>1. /\ FooterAt(new) \in 1 .. Len(new) - 1
        /\ new[FooterAt(new)] = "foot" /\ new[FooterAt(new) + 1] = "er"
    BY <1>3, FooterAtIs
  <2>2. PICK i \in 1 .. Len(new) - 1 : new[i] = "foot" /\ new[i + 1] = "er"
    BY <2>1
  <2>3. PICK d \in Nat : d = Len(text)
    BY <1>4, LenProperties
  <2>4. /\ t \in Seq(Symbols) /\ Len(t) = d + Len(new)
        /\ \A j \in 1 .. Len(new) : t[d + j] = new[j]
    <3>1. t = text \o new
      BY <1>2, <1>7
    <3>2. /\ t \in Seq(Symbols) /\ Len(t) = d + Len(new)
          /\ \A j \in 1 .. d + Len(new) : t[j] = IF j <= d THEN text[j] ELSE new[j - d]
      BY <1>3, <1>4, <2>3, <3>1, ConcatProperties
    <3>3. ASSUME NEW j \in 1 .. Len(new)
          PROVE  t[d + j] = new[j]
      <4>1. d + j \in 1 .. d + Len(new) /\ ~(d + j <= d) /\ d + j - d = j
        BY <1>5
      <4> QED  BY <3>2, <4>1
    <3> QED  BY <3>2, <3>3
  <2>5. d + i \in 1 .. Len(t) - 1 /\ d + (i + 1) = d + i + 1 /\ i + 1 \in 1 .. Len(new)
    BY <1>5, <2>4
  <2>6. t[d + i] = "foot" /\ t[d + i + 1] = "er"
    BY <1>5, <2>2, <2>4, <2>5
  <2> QED  BY <2>4, <2>5, <2>6, FooterAtIs
<1> QED  BY <1>6, <1>7, <1>8, <1>9, <1>10, <1>11

LEMMA ReadInv ==
  ASSUME Inductive, Read, TypeOK'
  PROVE  Inductive'
<1>1. TypeOK /\ Framed /\ Cleared /\ Begun /\ Intact
  BY DEF Inductive
<1>2. PICK n : n = at'
  OBVIOUS
<1>3. PICK t : t = text'
  OBVIOUS
<1>4. /\ UNCHANGED <<stream, ends>> /\ pc = "read"
      /\ t = text \o frag' /\ frag' = Over(SubSeq(stream, at + 1, n), frag)
      /\ IF FooterAt(frag') # 0
         THEN /\ pc' = "poll"
              /\ got' = IF FooterAt(Trimmed(t)) # 0
                        THEN Append(got, FirstCommand(Trimmed(t))) ELSE got
         ELSE UNCHANGED <<pc, got>>
  BY <1>2, <1>3 DEF Read, client
<1>5. Framed' /\ Sent' = Sent
  BY <1>1, <1>4, StreamKept
<1>6. Cleared'
  <2>1. /\ SubSeq(stream, at + 1, n) \in Seq(Symbols)
        /\ Len(SubSeq(stream, at + 1, n)) \in 1 .. ReadMax
        /\ frag \in Seq(Symbols) /\ Len(frag) \in Nat /\ text \in Seq(Symbols)
        /\ ReadMax \in Nat
    BY <1>1, <1>2, Returned, LenProperties, FramingAssumption DEF TypeOK
  <2>2. frag' \in Seq(Symbols) /\ Len(frag') >= 1 /\ Len(frag') \in Nat
    <3> DEFINE new == SubSeq(stream, at + 1, n)
    <3>1. new \in Seq(Symbols) /\ Len(new) \in 1 .. ReadMax
      BY <2>1
    <3> HIDE DEF new
    <3>2. /\ Over(new, frag) \in Seq(Symbols)
          /\ Len(Over(new, frag)) = IF Len(new) < Len(frag) THEN Len(frag) ELSE Len(new)
      BY <2>1, <3>1, OverIs
    <3>3. frag' = Over(new, frag)
      BY <1>4 DEF new
    <3> QED  BY <2>1, <3>1, <3>2, <3>3
  <2>3. frag' # <<>>
    BY <2>2, EmptySeq
  <2>4. t # <<>>
    BY <1>4, <2>1, <2>2, <2>3, ConcatEqualIffEmpty
  <2> QED  BY <1>3, <2>4 DEF Cleared
<1>7. ASSUME blemish' = {}
      PROVE  Taken' <= n /\ IsPrefix(got', Sent) /\
             IF pc' = "read" THEN t = SubSeq(stream, Taken' + 1, n) ELSE n = Taken'
  <2>1. /\ blemish = {}
        /\ Taken \in 0 .. Len(stream) /\ n \in Taken .. Len(stream)
        /\ t = SubSeq(stream, Taken + 1, n)
        /\ FooterAt(t) \in {0, Len(t) - 1} /\ Trimmed(t) = t
        /\ FooterAt(frag') # 0 => FooterAt(t) # 0
    BY <1>2, <1>3, <1>7, ReadText
  <2>2. IsPrefix(got, Sent)
    BY <1>1, <2>1 DEF Intact
  <2>3. CASE FooterAt(frag') = 0
    <3>1. pc' = "read" /\ got' = got /\ Taken' = Taken
      BY <1>4, <2>3, StreamKept
    <3>2. Taken <= n
      BY <2>1
    <3> QED  BY <2>1, <2>2, <3>1, <3>2
  <2>4. CASE FooterAt(frag') # 0
    <3>1. PICK g \in 0 .. Len(ends) : g = Len(got)
      BY <1>1, <2>2, TakenSent
    <3>2. g + 1 \in 1 .. Len(ends) /\ ends[g + 1] = n
      <4>1. FooterAt(t) # 0 /\ FooterAt(t) = Len(t) - 1
        BY <2>1, <2>4
      <4>2. Taken = Before(g + 1)
        BY <3>1 DEF Taken
      <4>3. Taken \in 0 .. Len(stream) /\ n \in 0 .. Len(stream) /\ Single(t, g, Taken, n)
        BY <2>1, <4>1, <4>2 DEF Single
      <4> QED  BY <1>1, <4>3, FirstEnd
    <3>3. t \in Seq(Symbols)
      BY <1>1, <2>1, PieceIs DEF TypeOK
    <3>4. got' = Append(got, t)
      <4>1. FooterAt(t) # 0 /\ FooterAt(t) = Len(t) - 1
        BY <2>1, <2>4
      <4>2. FirstCommand(t) = t
        BY <3>3, <4>1, FirstCommandIs
      <4> QED  BY <1>4, <2>1, <2>4, <4>1, <4>2
    <3>5. t = Sent[g + 1] /\ Pieces /\ got \in Seq(Seq(Symbols)) /\ g \in Nat
      <4>1. Pieces
        BY <1>1, SentPieces
      <4>2. Sent[g + 1] = SubSeq(stream, Before(g + 1) + 1, ends[g + 1])
        BY <3>2, <4>1 DEF Pieces
      <4>3. Before(g + 1) = Taken
        BY <3>1 DEF Taken
      <4>4. got \in Seq(Seq(Symbols)) /\ g \in Nat
        BY <1>1, <3>1, LenProperties DEF TypeOK
      <4> QED  BY <2>1, <3>2, <4>1, <4>2, <4>3, <4>4
    <3>6. IsPrefix(got', Sent)
      <4>1. Sent \in Seq(Seq(Symbols)) /\ Len(got) + 1 <= Len(Sent)
        BY <3>1, <3>2, <3>5 DEF Pieces
      <4> QED  BY <2>2, <3>1, <3>4, <3>5, <4>1, PrefixExtended
    <3>7. Taken' = n
      <4>1. Len(got') = g + 1
        BY <3>1, <3>3, <3>4, <3>5, AppendProperties
      <4>2. Taken' = IF Len(got') + 1 = 1 THEN 0 ELSE ends[Len(got') + 1 - 1]
        BY <1>4 DEF Taken, Before
      <4>3. g + 1 + 1 # 1 /\ g + 1 + 1 - 1 = g + 1
        BY <3>5
      <4> QED  BY <3>2, <4>1, <4>2, <4>3
    <3>8. pc' = "poll" /\ n <= n
      BY <1>4, <2>1, <2>4
    <3> QED  BY <3>6, <3>7, <3>8
  <2> QED  BY <2>3, <2>4
<1>8. Begun'
  BY <1>2, <1>7 DEF Begun
<1>9. Intact'
  <2>1. stream' = stream
    BY <1>4
  <2> QED  BY <1>2, <1>3, <1>5, <1>7, <2>1 DEF Intact
<1> QED  BY <1>5, <1>6, <1>8, <1>9 DEF Inductive

-------------------------------------------------------------------------------
(* The invariant.                                                          *)

LEMMA InitInv == Init => Inductive
<1> SUFFICES ASSUME Init
             PROVE  Inductive
  OBVIOUS
<1>1. TypeOK
  BY InitType
<1>2. Len(<<>>) = 0 /\ DOMAIN ends = {} /\ Len(stream) = 0 /\ Len(ends) = 0 /\ Len(got) = 0
  BY DEF Init
<1>3. Framed
  BY <1>2 DEF Framed
<1>4. Taken = 0
  BY <1>2 DEF Taken, Before
<1>5. Cleared /\ Begun
  BY <1>4 DEF Init, Cleared, Begun
<1>6. IsPrefix(got, Sent)
  <2>1. got \in Seq(Seq(Symbols)) /\ Sent \in Seq(Seq(Symbols)) /\ Len(Sent) = 0
    <3>1. Pieces
      BY <1>1, <1>3, SentPieces
    <3> QED  BY <1>1, <1>2, <3>1 DEF TypeOK, Pieces
  <2>2. Len(got) <= Len(Sent) /\ \A k \in 1 .. Len(got) : got[k] = Sent[k]
    BY <1>2, <2>1
  <2> QED  BY <2>1, <2>2, PrefixIs
<1>7. Intact
  BY <1>4, <1>6 DEF Init, Intact
<1> QED  BY <1>1, <1>3, <1>5, <1>7 DEF Inductive

LEMMA StepInv == Inductive /\ [Next]_vars => Inductive'
<1> SUFFICES ASSUME Inductive, [Next]_vars
             PROVE  Inductive'
  OBVIOUS
<1>1. TypeOK'
  BY TypeStep DEF Inductive
<1>2. ASSUME NEW b \in Bodies, Write(b)
      PROVE  Inductive'
  BY <1>2, WriteInv
<1>3. CASE Flush
  BY <1>3, FlushInv
<1>4. CASE Poll
  BY <1>1, <1>4, PollInv
<1>5. CASE Read
  BY <1>1, <1>5, ReadInv
<1>6. CASE Timeout
  BY <1>1, <1>6, TimeoutInv
<1>7. CASE UNCHANGED vars
  <2>1. UNCHANGED <<stream, ends, at, pc, frag, text, got, blemish>>
    BY <1>7 DEF vars, client
  <2>2. Framed' /\ Sent' = Sent /\ Taken' = Taken
    BY <2>1, StreamKept DEF Inductive
  <2> QED  BY <1>1, <2>1, <2>2 DEF Inductive, Cleared, Begun, Intact
<1> QED  BY <1>2, <1>3, <1>4, <1>5, <1>6, <1>7 DEF Next

LEMMA Invariance == Spec => []Inductive
<1> QED  BY InitInv, StepInv, PTL DEF Spec

\* As long as none of the four accidents happened, the commands taken are the commands
\* sent, in order, and what was read of the next one lacks nothing; for any commands
\* whose texts do not contain the footer, any cut into records, and any buffer.
THEOREM NothingLost == Spec => []Intact
<1>1. Inductive => Intact
  BY DEF Inductive
<1> QED  BY <1>1, Invariance, PTL

\* What the server owes in the end: between two commands, with nothing left to read, it
\* has taken every command that was sent and nothing else.
AllTaken == blemish = {} /\ pc = "poll" /\ at = Len(stream) => got = Sent

\* A prefix of what was sent that makes up all of the stream is what was sent.
THEOREM NothingMissing == Spec => []AllTaken
<1>1. ASSUME Inductive, blemish = {}, pc = "poll", at = Len(stream)
      PROVE  got = Sent
  <2>1. IsPrefix(got, Sent) /\ at = Taken
    BY <1>1 DEF Inductive, Intact
  <2>2. Sent \in Seq(Seq(Symbols)) /\ Len(Sent) = Len(ends) /\ got \in Seq(Seq(Symbols))
    BY <1>1, SentPieces DEF Inductive, TypeOK, Pieces
  <2>3. PICK g \in Nat, e \in Nat : g = Len(got) /\ e = Len(ends)
    BY <1>1, <2>2 DEF Inductive, TypeOK
  <2>4. g <= e /\ \A k \in 1 .. g : got[k] = Sent[k]
    BY <2>1, <2>2, <2>3, PrefixIs
  <2>5. ASSUME g < e
        PROVE  FALSE
    <3>1. \A k \in 1 .. e : ends[k] \in Nat /\ ends[k] > 0
      BY <1>1, <2>3 DEF Inductive, TypeOK
    <3>2. at = ends[e]
      BY <1>1, <2>3, <2>5 DEF Inductive, Framed
    <3>3. PICK k \in 1 .. e : k = g + 1
      BY <2>5
    <3>4. at = Before(k)
      BY <2>1, <2>3, <3>3 DEF Taken
    <3>5. CASE k = 1
      <4>1. Before(k) = 0
        BY <3>5 DEF Before
      <4>2. e \in 1 .. e
        BY <2>5
      <4>3. ends[e] \in Nat /\ ends[e] > 0
        BY <3>1, <4>2
      <4>4. ends[e] = 0
        BY <3>2, <3>4, <4>1
      <4> QED  BY <4>3, <4>4
    <3>6. CASE k # 1
      <4>1. PICK j \in 1 .. e : j + 1 = k
        BY <3>6
      <4>2. Before(k) = ends[j]
        BY <3>6, <4>1 DEF Before
      <4>3. j < e
        BY <4>1
      <4>4. ends[j] < ends[e]
        <5>1. \A i, l \in DOMAIN ends : i < l => ends[i] < ends[l]
          BY <1>1 DEF Inductive, Framed
        <5>2. DOMAIN ends = 1 .. e
          BY <1>1, <2>3 DEF Inductive, TypeOK
        <5>3. e \in 1 .. e
          BY <2>5
        <5> QED  BY <4>3, <5>1, <5>2, <5>3
      <4> QED  BY <3>1, <3>2, <3>4, <4>2, <4>4
    <3> QED  BY <3>5, <3>6
  <2>6. Len(got) = Len(Sent)
    BY <2>2, <2>3, <2>4, <2>5
  <2> QED  BY <2>2, <2>3, <2>4, <2>6, SeqEqual
<1>2. Inductive => AllTaken
  BY <1>1 DEF AllTaken
<1> QED  BY <1>2, Invariance, PTL

===============================================================================
