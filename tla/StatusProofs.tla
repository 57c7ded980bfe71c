---------------------------- MODULE StatusProofs ----------------------------
(***************************************************************************)
(* What the status file tells: the parser, and what becomes of the         *)
(* sessions it finds.                                                      *)
(*                                                                         *)
(* First, of the parser, for any number of clients and addresses: from a   *)
(* torn file it takes nothing that was not so before or after the rewrite, *)
(* and from a whole one everything.  A file is built by concatenation and  *)
(* torn by subsequences; so the lemmas say, in this order, what the lines  *)
(* of a whole file are (Version1Is, Version2Is), what the lines of a torn  *)
(* one have to do with them (ReadLines), what a line is worth to a parser, *)
(* whole (Version1Lines, Version2Lines) or cut (CutRow, CutOffRow,         *)
(* CutTaggedRow, CutOffTaggedRow), and what it does to the snapshot        *)
(* (TaggedStep, SectionedStep).                                            *)
(*                                                                         *)
(* Then, of the table of sessions, for any number of them and any periods: *)
(* a last_seen is true, and, as long as polls come within whatever is      *)
(* kept, a connected client is never pruned.                               *)
(***************************************************************************)
EXTENDS Sessions, StatusFile, FiniteSetTheorems, SequenceTheorems, TLAPS

Field0 == Words \cup {None} \cup Titles \cup Tags
Line   == Seq(Field0)

-----------------------------------------------------------------------------
(* Lines: every set is finite, ...                                         *)
LEMMA SetAsSequence ==
    ASSUME NEW S, IsFiniteSet(S)
    PROVE  LET q == SetToSeq(S) IN
           /\ q \in Seq(S)
           /\ \A m, n \in DOMAIN q : q[m] = q[n] => m = n
           /\ \A x \in S : \E n \in DOMAIN q : q[n] = x
<1> DEFINE d == Cardinality(S)
           q == SetToSeq(S)
<1>1. d \in Nat /\ Bijection(1 .. d, S) # {}
  BY FS_CardinalityType DEF ExistsBijection
<1>2. PICK f \in Bijection(1 .. d, S) : TRUE
  BY <1>1
<1>3. f \in [1 .. d -> S] /\ IsInjective(f)
  BY <1>2 DEF Bijection, Injection, IsInjective
<1>4. q \in [1 .. d -> S] /\ IsInjective(q)
  BY <1>3 DEF SetToSeq
<1>5. q \in Surjection(1 .. d, S)
  <2>1. q \in Injection(1 .. d, S)
    BY <1>4 DEF Injection, IsInjective
  <2>2. IsFiniteSet(1 .. d) /\ Cardinality(1 .. d) = d
    BY <1>1, FS_Interval
  <2> QED  BY <2>1, <2>2, FS_Injection
<1>6. \A x \in S : \E n \in 1 .. d : q[n] = x
  BY <1>5 DEF Surjection
<1>7. q \in Seq(S) /\ DOMAIN q = 1 .. d
  BY <1>1, <1>4
<1> HIDE DEF q
<1>8. \A m, n \in DOMAIN q : q[m] = q[n] => m = n
  BY <1>4 DEF IsInjective
<1>9. \A x \in S : \E n \in DOMAIN q : q[n] = x
  BY <1>6, <1>7
<1>10. q \in Seq(S) /\ (\A m, n \in DOMAIN q : q[m] = q[n] => m = n)
        /\ \A x \in S : \E n \in DOMAIN q : q[n] = x
  BY <1>7, <1>8, <1>9
<1> QED  BY <1>10 DEF q

(* ... and a file is five pieces, one after the other.                     *)
LEMMA Two ==
    ASSUME NEW S, NEW A \in Seq(S), NEW B \in Seq(S), NEW t, t = A \o B
    PROVE  /\ t \in Seq(S)
           /\ Len(A) \in Nat /\ Len(B) \in Nat
           /\ Len(t) = Len(A) + Len(B)
           /\ \A i \in 1 .. Len(A) : t[i] = A[i]
           /\ \A i \in 1 .. Len(B) : t[Len(A) + i] = B[i]
<1>1. /\ t \in Seq(S) /\ Len(t) = Len(A) + Len(B)
      /\ \A i \in 1 .. Len(A) + Len(B) : t[i] = IF i <= Len(A) THEN A[i] ELSE B[i - Len(A)]
  BY ConcatProperties
<1>2. Len(A) \in Nat /\ Len(B) \in Nat
  BY LenProperties
<1>3. ASSUME NEW i \in 1 .. Len(A) PROVE t[i] = A[i]
  BY <1>1, <1>2
<1>4. ASSUME NEW i \in 1 .. Len(B) PROVE t[Len(A) + i] = B[i]
  <2> DEFINE j == Len(A) + i
  <2>1. j \in 1 .. Len(A) + Len(B) /\ ~(j <= Len(A)) /\ j - Len(A) = i
    BY <1>2
  <2> HIDE DEF j
  <2>2. t[j] = B[i]
    BY <1>1, <2>1
  <2> QED  BY <2>2 DEF j
<1> QED  BY <1>1, <1>2, <1>3, <1>4

IsJoined(t, A, B, C, D, F) ==
    /\ t \in Seq(Line)
    /\ Len(t) = Len(A) + Len(B) + Len(C) + Len(D) + Len(F)
    /\ \A i \in 1 .. Len(A) : t[i] = A[i]
    /\ \A i \in 1 .. Len(B) : t[Len(A) + i] = B[i]
    /\ \A i \in 1 .. Len(C) : t[Len(A) + Len(B) + i] = C[i]
    /\ \A i \in 1 .. Len(D) : t[Len(A) + Len(B) + Len(C) + i] = D[i]
    /\ \A i \in 1 .. Len(F) : t[Len(A) + Len(B) + Len(C) + Len(D) + i] = F[i]

LEMMA Five ==
    ASSUME NEW A \in Seq(Line), NEW B \in Seq(Line), NEW C \in Seq(Line),
           NEW D \in Seq(Line), NEW F \in Seq(Line)
    PROVE  IsJoined(A \o B \o C \o D \o F, A, B, C, D, F)
<1>0. PICK t : t = A \o B \o C \o D \o F
  OBVIOUS
<1>1. PICK ab : ab = A \o B
  OBVIOUS
<1>2. PICK abc : abc = ab \o C
  OBVIOUS
<1>3. PICK abcd : abcd = abc \o D
  OBVIOUS
<1>4. t = abcd \o F
  BY <1>0, <1>1, <1>2, <1>3
<1>5. /\ ab \in Seq(Line)
      /\ Len(A) \in Nat /\ Len(B) \in Nat
      /\ Len(ab) = Len(A) + Len(B)
      /\ \A i \in 1 .. Len(A) : ab[i] = A[i]
      /\ \A i \in 1 .. Len(B) : ab[Len(A) + i] = B[i]
  BY <1>1, Two
<1>6. /\ abc \in Seq(Line)
      /\ Len(ab) \in Nat /\ Len(C) \in Nat
      /\ Len(abc) = Len(ab) + Len(C)
      /\ \A i \in 1 .. Len(ab) : abc[i] = ab[i]
      /\ \A i \in 1 .. Len(C) : abc[Len(ab) + i] = C[i]
  <2>1. ab \in Seq(Line)
    BY <1>5
  <2> QED  BY <1>2, <2>1, Two
<1>7. /\ abcd \in Seq(Line)
      /\ Len(abc) \in Nat /\ Len(D) \in Nat
      /\ Len(abcd) = Len(abc) + Len(D)
      /\ \A i \in 1 .. Len(abc) : abcd[i] = abc[i]
      /\ \A i \in 1 .. Len(D) : abcd[Len(abc) + i] = D[i]
  <2>1. abc \in Seq(Line)
    BY <1>6
  <2> QED  BY <1>3, <2>1, Two
<1>8. /\ t \in Seq(Line)
      /\ Len(abcd) \in Nat /\ Len(F) \in Nat
      /\ Len(t) = Len(abcd) + Len(F)
      /\ \A i \in 1 .. Len(abcd) : t[i] = abcd[i]
      /\ \A i \in 1 .. Len(F) : t[Len(abcd) + i] = F[i]
  <2>1. abcd \in Seq(Line)
    BY <1>7
  <2> QED  BY <1>4, <2>1, Two
<1>9. ASSUME NEW i \in 1 .. Len(A) PROVE t[i] = A[i]
  <2>1. i \in 1 .. Len(ab) /\ i \in 1 .. Len(abc) /\ i \in 1 .. Len(abcd)
    BY <1>5, <1>6, <1>7
  <2> QED  BY <2>1, <1>5, <1>6, <1>7, <1>8
<1>10. ASSUME NEW i \in 1 .. Len(B) PROVE t[Len(A) + i] = B[i]
  <2>1. PICK j : j = Len(A) + i
    OBVIOUS
  <2>2. j \in 1 .. Len(ab) /\ j \in 1 .. Len(abc) /\ j \in 1 .. Len(abcd)
    BY <2>1, <1>5, <1>6, <1>7
  <2> QED  BY <2>1, <2>2, <1>5, <1>6, <1>7, <1>8
<1>11. ASSUME NEW i \in 1 .. Len(C) PROVE t[Len(A) + Len(B) + i] = C[i]
  <2>1. PICK j : j = Len(A) + Len(B) + i
    OBVIOUS
  <2>2. j \in 1 .. Len(abc) /\ j \in 1 .. Len(abcd)
    BY <2>1, <1>5, <1>6, <1>7
  <2>3. j = Len(ab) + i
    BY <2>1, <1>5
  <2> QED  BY <2>1, <2>2, <2>3, <1>6, <1>7, <1>8
<1>12. ASSUME NEW i \in 1 .. Len(D) PROVE t[Len(A) + Len(B) + Len(C) + i] = D[i]
  <2>1. PICK j : j = Len(A) + Len(B) + Len(C) + i
    OBVIOUS
  <2>2. j \in 1 .. Len(abcd) /\ j = Len(abc) + i
    BY <2>1, <1>5, <1>6, <1>7
  <2> QED  BY <2>1, <2>2, <1>7, <1>8
<1>13. ASSUME NEW i \in 1 .. Len(F) PROVE t[Len(A) + Len(B) + Len(C) + Len(D) + i] = F[i]
  <2>1. Len(A) + Len(B) + Len(C) + Len(D) = Len(abcd)
    BY <1>5, <1>6, <1>7
  <2> QED  BY <2>1, <1>8
<1>14. Len(t) = Len(A) + Len(B) + Len(C) + Len(D) + Len(F)
  BY <1>5, <1>6, <1>7, <1>8
<1> QED  BY <1>0, <1>8, <1>9, <1>10, <1>11, <1>12, <1>13, <1>14 DEF IsJoined

-----------------------------------------------------------------------------
LEMMA Replaced ==
    ASSUME NEW S, NEW q \in Seq(S), NEW k \in 1 .. Len(q), NEW w \in S, NEW c, c = [q EXCEPT ![k] = w]
    PROVE  /\ c \in Seq(S)
           /\ Len(c) = Len(q)
           /\ \A j \in 1 .. Len(q) : c[j] = IF j = k THEN w ELSE q[j]
BY ExceptSeq

(* Torn files.  A line without its end has a beginning of the whole one,   *)
(* but for its last field, ...                                             *)
LEMMA CutEnd ==
    ASSUME NEW S, NEW line \in Seq(S), Torn \in S, None \in S, NEW cut \in CutEnds(line)
    PROVE  /\ cut \in Seq(S)
           /\ Len(cut) \in 1 .. Len(line)
           /\ \A i \in 1 .. Len(cut) : i # Len(cut) \/ cut[i] \notin {Torn, None} => cut[i] = line[i]
<1>0. Len(line) \in Nat /\ DOMAIN line = 1 .. Len(line) /\ \A i \in 1 .. Len(line) : line[i] \in S
  BY LenProperties, ElementOfSeq
<1>1. ASSUME NEW k \in 1 .. Len(line)
      PROVE  LET q == SubSeq(line, 1, k) IN
             q \in Seq(S) /\ Len(q) = k /\ \A i \in 1 .. k : q[i] = line[i]
  <2>1. \A i \in 1 .. k : line[i] \in S
    BY <1>0
  <2> QED  BY <1>0, <2>1, SubSeqProperties
<1>2. CASE \E k \in DOMAIN line : cut = SubSeq(line, 1, k)
  BY <1>0, <1>1, <1>2
<1>3. CASE \E k \in DOMAIN line, w \in {Torn, None} : cut = [SubSeq(line, 1, k) EXCEPT ![k] = w]
  <2>1. PICK k \in 1 .. Len(line), w \in {Torn, None} : cut = [SubSeq(line, 1, k) EXCEPT ![k] = w]
    BY <1>0, <1>3
  <2>2. PICK q : q = SubSeq(line, 1, k)
    OBVIOUS
  <2>3. q \in Seq(S) /\ Len(q) = k /\ \A i \in 1 .. k : q[i] = line[i]
    BY <1>1, <2>2
  <2>4. cut \in Seq(S) /\ Len(cut) = k /\ \A j \in 1 .. k : cut[j] = IF j = k THEN w ELSE q[j]
    <3>1. q \in Seq(S) /\ k \in 1 .. Len(q) /\ w \in S /\ cut = [q EXCEPT ![k] = w]
      BY <2>1, <2>2, <2>3
    <3> QED  BY <3>1, <2>3, Replaced
  <2> QED  BY <1>0, <2>1, <2>3, <2>4
<1> QED  BY <1>2, <1>3 DEF CutEnds

(* ... and one without its beginning has an end of it, but for the first.  *)
LEMMA CutStart ==
    ASSUME NEW S, NEW line \in Seq(S), Torn \in S, None \in S, NEW cut \in CutStarts(line)
    PROVE  /\ cut \in Seq(S)
           /\ \E k \in 1 .. Len(line) :
                  /\ Len(cut) = Len(line) - k + 1
                  /\ cut[1] \in {Torn, None} \/ (k >= 2 /\ cut[1] = line[k])
                  /\ \A i \in 2 .. Len(cut) : cut[i] = line[k + i - 1]
<1>0. Len(line) \in Nat /\ DOMAIN line = 1 .. Len(line) /\ \A i \in 1 .. Len(line) : line[i] \in S
  BY LenProperties, ElementOfSeq
<1>1. ASSUME NEW k \in 1 .. Len(line), NEW q, q = SubSeq(line, k, Len(line))
      PROVE  /\ q \in Seq(S) /\ Len(q) = Len(line) - k + 1 /\ 1 \in 1 .. Len(q)
             /\ q[1] = line[k]
             /\ \A i \in 2 .. Len(q) : q[i] = line[k + i - 1]
  <2>1. \A i \in k .. Len(line) : line[i] \in S
    BY <1>0
  <2>2. /\ q \in Seq(S) /\ Len(q) = Len(line) - k + 1
        /\ \A i \in 1 .. Len(line) - k + 1 : q[i] = line[k + i - 1]
    BY <1>0, <1>1, <2>1, SubSeqProperties
  <2>3. 1 \in 1 .. Len(line) - k + 1 /\ k + 1 - 1 = k
    BY <1>0
  <2> QED  BY <2>2, <2>3
<1>2. CASE \E k \in 2 .. Len(line) : cut = SubSeq(line, k, Len(line))
  <2>1. PICK k \in 2 .. Len(line) : cut = SubSeq(line, k, Len(line))
    BY <1>2
  <2>2. k \in 1 .. Len(line)
    BY <1>0
  <2>3. /\ cut \in Seq(S) /\ Len(cut) = Len(line) - k + 1 /\ cut[1] = line[k]
        /\ \A i \in 2 .. Len(cut) : cut[i] = line[k + i - 1]
    BY <1>1, <2>1, <2>2
  <2> QED  BY <2>2, <2>3
<1>3. CASE \E k \in DOMAIN line, w \in {Torn, None} : cut = [SubSeq(line, k, Len(line)) EXCEPT ![1] = w]
  <2>1. PICK k \in 1 .. Len(line), w \in {Torn, None} : cut = [SubSeq(line, k, Len(line)) EXCEPT ![1] = w]
    BY <1>0, <1>3
  <2>2. PICK q : q = SubSeq(line, k, Len(line))
    OBVIOUS
  <2>3. /\ q \in Seq(S) /\ Len(q) = Len(line) - k + 1 /\ 1 \in 1 .. Len(q)
        /\ \A i \in 2 .. Len(q) : q[i] = line[k + i - 1]
    BY <1>1, <2>2
  <2>4. q \in Seq(S) /\ 1 \in 1 .. Len(q) /\ w \in S /\ cut = [q EXCEPT ![1] = w]
    BY <1>0, <2>1, <2>2, <2>3
  <2>5. cut \in Seq(S) /\ Len(cut) = Len(q) /\ \A j \in 1 .. Len(q) : cut[j] = IF j = 1 THEN w ELSE q[j]
    BY <2>4, Replaced
  <2>6. cut[1] = w /\ \A i \in 2 .. Len(q) : cut[i] = q[i]
    BY <2>3, <2>5
  <2> QED  BY <2>1, <2>3, <2>5, <2>6
<1> QED  BY <1>2, <1>3 DEF CutStarts

LEMMA TornIsAField == Torn \in Field0 /\ None \in Field0
BY DEF Field0, Words

LEMMA FirstIs ==
    ASSUME NEW lines \in Seq(Line), NEW n \in 0 .. Len(lines), NEW q, q = First(lines, n)
    PROVE  q \in Seq(Line) /\ Len(q) = n /\ \A i \in 1 .. n : q[i] = lines[i]
<1>1. Len(lines) \in Nat /\ \A i \in 1 .. n : lines[i] \in Line
  BY LenProperties, ElementOfSeq
<1> QED  BY <1>1, SubSeqProperties DEF First

LEMMA RestIs ==
    ASSUME NEW lines \in Seq(Line), NEW k \in 0 .. Len(lines), NEW q, q = Rest(lines, k)
    PROVE  /\ q \in Seq(Line) /\ Len(q) = Len(lines) - k
           /\ \A i \in 1 .. Len(lines) - k : q[i] = lines[k + i]
<1>1. Len(lines) \in Nat /\ \A i \in k + 1 .. Len(lines) : lines[i] \in Line
  BY LenProperties, ElementOfSeq
<1>2. /\ q \in Seq(Line)
      /\ Len(q) = IF k + 1 <= Len(lines) THEN Len(lines) - (k + 1) + 1 ELSE 0
      /\ \A i \in 1 .. Len(lines) - (k + 1) + 1 : q[i] = lines[(k + 1) + i - 1]
  BY <1>1, SubSeqProperties DEF Rest
<1>3. \A i \in 1 .. Len(lines) - k : (k + 1) + i - 1 = k + i /\ i \in 1 .. Len(lines) - (k + 1) + 1
  BY <1>1
<1> QED  BY <1>1, <1>2, <1>3

(* Every line that is read is one of the new file, where it is there, or   *)
(* one of the old, where it is there or past the lines all files begin     *)
(* with, unless it is the one that is torn.                                *)
IsRead(how, read, before, after, fixed) ==
    /\ how \in {"none", "lines", "end", "start", "header"}
    /\ how = "none" => read = after
    /\ read \in Seq(Line)
    /\ \A n \in 1 .. Len(read) :
          \/ n \in DOMAIN after /\ read[n] = after[n]
          \/ /\ how \in {"lines", "start", "header"}
             /\ \E m \in DOMAIN before : read[n] = before[m] /\ (m = n \/ (m > fixed /\ n > fixed))
          \/ how = "end" /\ n = Len(read) /\ n \in DOMAIN after /\ read[n] \in CutEnds(after[n])
          \/ /\ how \in {"start", "header"} /\ n > fixed
             /\ \E k \in DOMAIN before : k > fixed /\ read[n] \in CutStarts(before[k])
             /\ how = "header" <=> read[n][1] \in Tags

LEMMA ReadLines ==
    ASSUME NEW before \in Seq(Line), NEW after \in Seq(Line), NEW fixed \in Nat,
           fixed =< Len(before), fixed =< Len(after),
           NEW reading \in Readings(before, after, fixed)
    PROVE  IsRead(reading[1], reading[2], before, after, fixed)
<1> DEFINE how == reading[1]
           read == reading[2]
           LineOf(n) ==
               \/ n \in DOMAIN after /\ read[n] = after[n]
               \/ /\ how \in {"lines", "start", "header"}
                  /\ \E m \in DOMAIN before : read[n] = before[m] /\ (m = n \/ (m > fixed /\ n > fixed))
               \/ how = "end" /\ n = Len(read) /\ n \in DOMAIN after /\ read[n] \in CutEnds(after[n])
               \/ /\ how \in {"start", "header"} /\ n > fixed
                  /\ \E k \in DOMAIN before : k > fixed /\ read[n] \in CutStarts(before[k])
                  /\ how = "header" <=> read[n][1] \in Tags
           Goal ==
               /\ how \in {"none", "lines", "end", "start", "header"}
               /\ how = "none" => read = after
               /\ read \in Seq(Line)
               /\ \A n \in 1 .. Len(read) : LineOf(n)
<1>0. /\ Len(before) \in Nat /\ DOMAIN before = 1 .. Len(before)
      /\ Len(after) \in Nat /\ DOMAIN after = 1 .. Len(after)
  BY LenProperties
<1>1. ASSUME reading = <<"none", after>> PROVE Goal
  BY <1>0, <1>1
<1>2. ASSUME NEW n \in 0 .. Len(after), NEW k \in 0 .. Len(before),
             reading = <<"lines", First(after, n) \o Rest(before, k)>>,
             n < fixed => k = n, n >= fixed => k >= fixed
      PROVE  Goal
  <2>1. PICK front : front = First(after, n)
    OBVIOUS
  <2>2. PICK back : back = Rest(before, k)
    OBVIOUS
  <2>3. front \in Seq(Line) /\ Len(front) = n /\ \A i \in 1 .. n : front[i] = after[i]
    BY <2>1, FirstIs
  <2>4. /\ back \in Seq(Line) /\ Len(back) = Len(before) - k
        /\ \A i \in 1 .. Len(before) - k : back[i] = before[k + i]
    BY <2>2, RestIs
  <2>5. read = front \o back
    BY <1>2, <2>1, <2>2
  <2>6. /\ read \in Seq(Line) /\ Len(read) = Len(front) + Len(back)
        /\ \A i \in 1 .. Len(front) : read[i] = front[i]
        /\ \A i \in 1 .. Len(back) : read[Len(front) + i] = back[i]
    <3>1. front \in Seq(Line) /\ back \in Seq(Line)
      BY <2>3, <2>4
    <3> QED  BY <3>1, <2>5, Two
  <2> HIDE DEF read
  <2>7. ASSUME NEW m \in 1 .. Len(read) PROVE LineOf(m)
    <3>1. CASE m \in 1 .. n
      BY <1>0, <2>3, <2>6, <3>1
    <3>2. CASE m \notin 1 .. n
      <4>1. PICK i \in Int : i = m - n
        BY <1>0
      <4>2. i \in 1 .. Len(back) /\ m = Len(front) + i
        BY <1>0, <2>3, <2>4, <2>6, <3>2, <4>1
      <4>3. read[m] = before[k + i] /\ k + i \in DOMAIN before
        BY <1>0, <2>4, <2>6, <4>2
      <4>4. k + i = m \/ (k + i > fixed /\ m > fixed)
        BY <1>0, <1>2, <2>3, <2>4, <4>2
      <4> QED  BY <1>2, <4>3, <4>4
    <3> QED  BY <3>1, <3>2
  <2> HIDE DEF LineOf
  <2> QED  BY <1>2, <2>6, <2>7
<1>3. ASSUME NEW n \in 1 .. Len(after), NEW l \in CutEnds(after[n]),
             reading = <<"end", Append(First(after, n - 1), l)>>
      PROVE  Goal
  <2>1. PICK front : front = First(after, n - 1)
    OBVIOUS
  <2>2. front \in Seq(Line) /\ Len(front) = n - 1 /\ \A i \in 1 .. n - 1 : front[i] = after[i]
    <3>1. PICK m : m = n - 1
      OBVIOUS
    <3>2. m \in 0 .. Len(after)
      BY <1>0, <3>1
    <3>3. front = First(after, m)
      BY <2>1, <3>1
    <3>4. front \in Seq(Line) /\ Len(front) = m /\ \A i \in 1 .. m : front[i] = after[i]
      BY <3>2, <3>3, FirstIs
    <3> QED  BY <3>1, <3>4
  <2>3. l \in Line
    <3>1. after[n] \in Line
      BY ElementOfSeq
    <3> QED  BY <1>3, <3>1, CutEnd, TornIsAField DEF Line
  <2>4. read = Append(front, l)
    BY <1>3, <2>1
  <2>5. /\ read \in Seq(Line) /\ Len(read) = Len(front) + 1
        /\ \A i \in 1 .. Len(front) : read[i] = front[i]
        /\ read[Len(front) + 1] = l
    BY <2>2, <2>3, <2>4, AppendProperties
  <2> HIDE DEF read
  <2>6. ASSUME NEW m \in 1 .. Len(read) PROVE LineOf(m)
    <3>1. CASE m \in 1 .. n - 1
      BY <1>0, <2>2, <2>5, <3>1
    <3>2. CASE m = n
      BY <1>0, <1>3, <2>2, <2>5, <3>2
    <3> QED  BY <1>0, <2>2, <2>5, <3>1, <3>2
  <2> HIDE DEF LineOf
  <2> QED  BY <1>3, <2>5, <2>6
<1>4. ASSUME NEW n \in fixed .. Len(after), NEW k \in fixed + 1 .. Len(before), NEW l \in CutStarts(before[k]),
             reading = <<IF l[1] \in Tags THEN "header" ELSE "start", Append(First(after, n), l) \o Rest(before, k)>>
      PROVE  Goal
  <2>1. PICK front : front = First(after, n)
    OBVIOUS
  <2>2. PICK middle : middle = Append(front, l)
    OBVIOUS
  <2>3. PICK back : back = Rest(before, k)
    OBVIOUS
  <2>4. n \in 0 .. Len(after) /\ k \in 1 .. Len(before)
    BY <1>0
  <2>5. front \in Seq(Line) /\ Len(front) = n /\ \A i \in 1 .. n : front[i] = after[i]
    BY <2>1, <2>4, FirstIs
  <2>6. l \in Line
    <3>1. before[k] \in Line
      BY <2>4, ElementOfSeq
    <3> QED  BY <1>4, <3>1, CutStart, TornIsAField DEF Line
  <2>7. /\ middle \in Seq(Line) /\ Len(middle) = n + 1
        /\ \A i \in 1 .. n : middle[i] = after[i]
        /\ middle[n + 1] = l
    BY <2>2, <2>5, <2>6, AppendProperties
  <2>8. /\ back \in Seq(Line) /\ Len(back) = Len(before) - k
        /\ \A i \in 1 .. Len(before) - k : back[i] = before[k + i]
    <3>1. k \in 0 .. Len(before)
      BY <1>0
    <3> QED  BY <2>3, <3>1, RestIs
  <2>9. read = middle \o back
    BY <1>4, <2>1, <2>2, <2>3
  <2>10. /\ read \in Seq(Line) /\ Len(read) = Len(middle) + Len(back)
         /\ \A i \in 1 .. Len(middle) : read[i] = middle[i]
         /\ \A i \in 1 .. Len(back) : read[Len(middle) + i] = back[i]
    <3>1. middle \in Seq(Line) /\ back \in Seq(Line)
      BY <2>7, <2>8
    <3> QED  BY <3>1, <2>9, Two
  <2>11. how = IF l[1] \in Tags THEN "header" ELSE "start"
    BY <1>4
  <2> HIDE DEF read, how
  <2>12. ASSUME NEW m \in 1 .. Len(read) PROVE LineOf(m)
    <3>1. CASE m \in 1 .. n
      BY <1>0, <2>7, <2>10, <3>1
    <3>2. CASE m = n + 1
      <4>1. read[m] = l /\ m > fixed /\ k > fixed /\ k \in DOMAIN before
        BY <1>0, <2>4, <2>7, <2>10, <3>2
      <4> QED  BY <1>4, <2>11, <4>1
    <3>3. CASE m > n + 1
      <4>1. PICK i \in Int : i = m - (n + 1)
        BY <1>0
      <4>2. i \in 1 .. Len(back) /\ m = Len(middle) + i
        BY <1>0, <2>7, <2>8, <2>10, <3>3, <4>1
      <4>3. read[m] = before[k + i] /\ k + i \in DOMAIN before
        BY <1>0, <2>4, <2>8, <2>10, <4>2
      <4>4. k + i > fixed /\ m > fixed
        BY <1>0, <2>4, <2>7, <2>8, <4>2
      <4> QED  BY <2>11, <4>3, <4>4
    <3> QED  BY <1>0, <2>4, <3>1, <3>2, <3>3
  <2> HIDE DEF LineOf
  <2> QED  BY <2>10, <2>11, <2>12
<1>5. ASSUME NEW n \in 0 .. Len(after), NEW k \in IF n < fixed THEN {n} ELSE fixed .. Len(before),
             reading = <<"lines", First(after, n) \o Rest(before, k)>>
      PROVE  Goal
  <2>1. k \in 0 .. Len(before) /\ (n < fixed => k = n) /\ (n >= fixed => k >= fixed)
    BY <1>0, <1>5
  <2> HIDE DEF Goal
  <2> QED  BY <1>2, <1>5, <2>1
<1> SUFFICES Goal
  BY DEF IsRead
<1> HIDE DEF Goal
<1>6. CASE reading = <<"none", after>>
  BY <1>1, <1>6
<1>7. CASE reading \in UNION {Mixed(before, after, fixed, n) : n \in 0 .. Len(after)}
  <2>1. PICK n \in 0 .. Len(after) : reading \in Mixed(before, after, fixed, n)
    BY <1>7
  <2> QED  BY <1>5, <2>1 DEF Mixed
<1>8. CASE reading \in UNION {EndsWithin(after, n) : n \in DOMAIN after}
  <2>1. PICK n \in DOMAIN after : reading \in EndsWithin(after, n)
    BY <1>8
  <2> QED  BY <1>0, <1>3, <2>1 DEF EndsWithin
<1>9. CASE reading \in UNION {GoesOnWithin(before, after, n, k) :
                                 n \in fixed .. Len(after), k \in fixed + 1 .. Len(before)}
  <2>1. PICK n \in fixed .. Len(after), k \in fixed + 1 .. Len(before) :
             reading \in GoesOnWithin(before, after, n, k)
    BY <1>9
  <2> QED  BY <1>4, <2>1 DEF GoesOnWithin
<1> QED  BY <1>6, <1>7, <1>8, <1>9 DEF Readings

-----------------------------------------------------------------------------
(* Whole files: what stands on which line.                                 *)
LEMMA ConnectedIs ==
    ASSUME NEW s \in Servers
    PROVE  /\ Connected(s) \in Seq(Names)
           /\ \A n \in DOMAIN Connected(s) : s[Connected(s)[n]] # Absent
           /\ \A m, n \in DOMAIN Connected(s) : Connected(s)[m] = Connected(s)[n] => m = n
           /\ \A c \in Names : s[c] # Absent => \E n \in DOMAIN Connected(s) : Connected(s)[n] = c
<1> DEFINE S == {c \in Names : s[c] # Absent}
<1>1. IsFiniteSet(S)
  BY WordsAssumption, FS_Subset
<1>2. PICK q : q = SetToSeq(S)
  OBVIOUS
<1>3. /\ q \in Seq(S)
      /\ \A m, n \in DOMAIN q : q[m] = q[n] => m = n
      /\ \A x \in S : \E n \in DOMAIN q : q[n] = x
  BY <1>1, <1>2, SetAsSequence
<1>4. q \in Seq(Names) /\ \A n \in DOMAIN q : q[n] \in S
  BY <1>3, SeqMonotonic, ElementOfSeq, LenProperties
<1>5. Connected(s) = q
  BY <1>2 DEF Connected
<1> QED  BY <1>3, <1>4, <1>5

LEMMA RoutedIs ==
    ASSUME NEW s \in Servers
    PROVE  /\ Routed(s) \in Seq((Ips \cup {Net}) \X Names)
           /\ \A n \in DOMAIN Routed(s) : Routed(s)[n][1] # Net => s[Routed(s)[n][2]] = Routed(s)[n][1]
           /\ \A c \in Names : s[c] \in Ips => \E n \in DOMAIN Routed(s) : Routed(s)[n] = <<s[c], c>>
<1> DEFINE S == {c \in Names : s[c] \in Ips}
           R == (Ips \cup {Net}) \X Names
<1>1. IsFiniteSet(S)
  BY WordsAssumption, FS_Subset
<1>2. PICK q : q = SetToSeq(S)
  OBVIOUS
<1>3. /\ q \in Seq(S)
      /\ \A x \in S : \E n \in DOMAIN q : q[n] = x
  BY <1>1, <1>2, SetAsSequence
<1>4. Len(q) \in Nat /\ DOMAIN q = 1 .. Len(q) /\ \A n \in DOMAIN q : q[n] \in S
  BY <1>3, ElementOfSeq, LenProperties
<1>5. PICK own : own = [n \in DOMAIN q |-> <<s[q[n]], q[n]>>]
  OBVIOUS
<1>6. own \in Seq(R) /\ Len(own) = Len(q)
  BY <1>4, <1>5
<1>7. PICK nets : nets = IF s[Gateway] = Absent THEN <<>> ELSE <<<<Net, Gateway>>>>
  OBVIOUS
<1>8. nets \in Seq(R) /\ \A n \in 1 .. Len(nets) : nets[n][1] = Net
  BY <1>7, WordsAssumption
<1>9. PICK all : all = nets \o own
  OBVIOUS
<1>10. /\ all \in Seq(R)
       /\ Len(nets) \in Nat /\ Len(own) \in Nat
       /\ Len(all) = Len(nets) + Len(own)
       /\ \A i \in 1 .. Len(nets) : all[i] = nets[i]
       /\ \A i \in 1 .. Len(own) : all[Len(nets) + i] = own[i]
  <2>1. nets \in Seq(R) /\ own \in Seq(R)
    BY <1>6, <1>8
  <2> HIDE DEF R
  <2> QED  BY <2>1, <1>9, Two
<1>11. Routed(s) = all
  BY <1>2, <1>5, <1>7, <1>9 DEF Routed, Lines
<1>12. DOMAIN all = 1 .. Len(all)
  BY <1>10, LenProperties
<1>13. ASSUME NEW n \in DOMAIN all, all[n][1] # Net PROVE s[all[n][2]] = all[n][1]
  <2>1. n \notin 1 .. Len(nets)
    BY <1>8, <1>10, <1>13
  <2>2. PICK i \in Int : i = n - Len(nets)
    BY <1>10, <1>12
  <2>3. i \in 1 .. Len(own) /\ n = Len(nets) + i
    BY <1>10, <1>12, <2>1, <2>2
  <2>4. all[n] = <<s[q[i]], q[i]>>
    BY <1>4, <1>5, <1>6, <1>10, <2>3
  <2> QED  BY <2>4
<1>14. ASSUME NEW c \in Names, s[c] \in Ips PROVE \E n \in DOMAIN all : all[n] = <<s[c], c>>
  <2>1. PICK i \in 1 .. Len(own) : q[i] = c
    BY <1>3, <1>4, <1>6, <1>14
  <2>2. all[Len(nets) + i] = <<s[c], c>> /\ Len(nets) + i \in DOMAIN all
    BY <1>4, <1>5, <1>6, <1>10, <1>12, <2>1
  <2> QED  BY <2>2
<1> QED  BY <1>10, <1>11, <1>13, <1>14

LEMMA FieldsAreALine ==
    ASSUME NEW f \in Field0, NEW g \in Field0, NEW h \in Field0, NEW i \in Field0, NEW j \in Field0
    PROVE  /\ <<f>> \in Line
           /\ <<f, g>> \in Line
           /\ <<f, g, h, i>> \in Line
           /\ <<f, g, h, i, j>> \in Line
<1>1. <<f>> \in Line /\ <<f, g>> \in Line
  BY DEF Line
<1>2. <<f, g, h, i>> \in Line
  BY DEF Line
<1>3. <<f, g, h, i, j>> \in Line
  BY DEF Line
<1> QED  BY <1>1, <1>2, <1>3

LEMMA LinesAreAFile ==
    ASSUME NEW l \in Line, NEW m \in Line, NEW n \in Line
    PROVE  /\ <<l>> \in Seq(Line) /\ Len(<<l>>) = 1
           /\ <<l, m>> \in Seq(Line) /\ Len(<<l, m>>) = 2
           /\ <<l, m, n>> \in Seq(Line) /\ Len(<<l, m, n>>) = 3
OBVIOUS

IsVersion1(s, V, a, b) ==
    /\ V \in Seq(Line)
    /\ a \in Nat /\ b \in Nat /\ Len(V) = 8 + a + b
    /\ V[1] = <<"OpenVPN CLIENT LIST">>
    /\ V[2] = <<"Updated", Other>>
    /\ V[3] = <<Other, Other, Other, Other, Other>>
    /\ \A i \in 1 .. a : V[3 + i] = <<Connected(s)[i], Real, Other, Other, Other>>
    /\ V[4 + a] = <<"ROUTING TABLE">>
    /\ V[5 + a] = <<Other, Other, Other, Other>>
    /\ \A i \in 1 .. b : V[5 + a + i] = <<Routed(s)[i][1], Routed(s)[i][2], Real, Other>>
    /\ V[6 + a + b] = <<"GLOBAL STATS">>
    /\ V[7 + a + b] = <<Other, Other>>
    /\ V[8 + a + b] = <<"END">>

LEMMA Version1Is ==
    ASSUME NEW s \in Servers
    PROVE  IsVersion1(s, Version1(s), Len(Connected(s)), Len(Routed(s)))
<1>0. PICK V, a, b : V = Version1(s) /\ a = Len(Connected(s)) /\ b = Len(Routed(s))
  OBVIOUS
<1>1. PICK q : q = Connected(s)
  OBVIOUS
<1>2. PICK r : r = Routed(s)
  OBVIOUS
<1>3. q \in Seq(Names) /\ r \in Seq((Ips \cup {Net}) \X Names)
  BY <1>1, <1>2, ConnectedIs, RoutedIs
<1>4. /\ a = Len(q) /\ a \in Nat /\ DOMAIN q = 1 .. a /\ \A i \in 1 .. a : q[i] \in Names
      /\ b = Len(r) /\ b \in Nat /\ DOMAIN r = 1 .. b /\ \A i \in 1 .. b : r[i] \in (Ips \cup {Net}) \X Names
  BY <1>0, <1>1, <1>2, <1>3, LenProperties, ElementOfSeq
<1>5. PICK A : A = <<<<"OpenVPN CLIENT LIST">>, <<"Updated", Other>>, <<Other, Other, Other, Other, Other>>>>
  OBVIOUS
<1>6. PICK B : B = [n \in 1 .. a |-> <<q[n], Real, Other, Other, Other>>]
  OBVIOUS
<1>7. PICK C : C = <<<<"ROUTING TABLE">>, <<Other, Other, Other, Other>>>>
  OBVIOUS
<1>8. PICK D : D = [n \in 1 .. b |-> <<r[n][1], r[n][2], Real, Other>>]
  OBVIOUS
<1>9. PICK F : F = <<<<"GLOBAL STATS">>, <<Other, Other>>, <<"END">>>>
  OBVIOUS
<1>10. /\ "OpenVPN CLIENT LIST" \in Field0 /\ "Updated" \in Field0 /\ "ROUTING TABLE" \in Field0
       /\ "GLOBAL STATS" \in Field0 /\ "END" \in Field0
       /\ Other \in Field0 /\ Real \in Field0 /\ Names \subseteq Field0 /\ Ips \cup {Net} \subseteq Field0
  BY DEF Field0, Words, Titles
<1>11. A \in Seq(Line) /\ Len(A) = 3
  <2>1. <<"OpenVPN CLIENT LIST">> \in Line /\ <<"Updated", Other>> \in Line
        /\ <<Other, Other, Other, Other, Other>> \in Line
    BY <1>10, FieldsAreALine
  <2> QED  BY <1>5, <2>1, LinesAreAFile
<1>12. B \in Seq(Line) /\ Len(B) = a
  <2>1. \A n \in 1 .. a : <<q[n], Real, Other, Other, Other>> \in Line
    BY <1>4, <1>10, FieldsAreALine
  <2> QED  BY <2>1, <1>4, <1>6
<1>13. C \in Seq(Line) /\ Len(C) = 2
  <2>1. <<"ROUTING TABLE">> \in Line /\ <<Other, Other, Other, Other>> \in Line
    BY <1>10, FieldsAreALine
  <2> QED  BY <1>7, <2>1, LinesAreAFile
<1>14. D \in Seq(Line) /\ Len(D) = b
  <2>1. \A n \in 1 .. b : <<r[n][1], r[n][2], Real, Other>> \in Line
    BY <1>4, <1>10, FieldsAreALine
  <2> QED  BY <2>1, <1>4, <1>8
<1>15. F \in Seq(Line) /\ Len(F) = 3
  <2>1. <<"GLOBAL STATS">> \in Line /\ <<Other, Other>> \in Line /\ <<"END">> \in Line
    BY <1>10, FieldsAreALine
  <2> QED  BY <1>9, <2>1, LinesAreAFile
<1>16. V = A \o B \o C \o D \o F
  BY <1>0, <1>1, <1>2, <1>4, <1>5, <1>6, <1>7, <1>8, <1>9 DEF Version1, Lines
<1>17. /\ V \in Seq(Line)
       /\ Len(V) = 3 + a + 2 + b + 3
       /\ \A i \in 1 .. 3 : V[i] = A[i]
       /\ \A i \in 1 .. a : V[3 + i] = B[i]
       /\ \A i \in 1 .. 2 : V[3 + a + i] = C[i]
       /\ \A i \in 1 .. b : V[3 + a + 2 + i] = D[i]
       /\ \A i \in 1 .. 3 : V[3 + a + 2 + b + i] = F[i]
  <2>1. /\ A \in Seq(Line) /\ B \in Seq(Line) /\ C \in Seq(Line) /\ D \in Seq(Line) /\ F \in Seq(Line)
    BY <1>11, <1>12, <1>13, <1>14, <1>15
  <2>2. IsJoined(V, A, B, C, D, F)
    BY <2>1, <1>16, Five
  <2> QED  BY <2>2, <1>11, <1>12, <1>13, <1>14, <1>15 DEF IsJoined
<1>18. V[1] = A[1] /\ V[2] = A[2] /\ V[3] = A[3]
  BY <1>17
<1>19. V[4 + a] = C[1] /\ V[5 + a] = C[2]
  <2>1. 4 + a = 3 + a + 1 /\ 5 + a = 3 + a + 2
    BY <1>4
  <2> QED  BY <2>1, <1>17
<1>20. V[6 + a + b] = F[1] /\ V[7 + a + b] = F[2] /\ V[8 + a + b] = F[3]
  <2>1. 6 + a + b = 3 + a + 2 + b + 1 /\ 7 + a + b = 3 + a + 2 + b + 2 /\ 8 + a + b = 3 + a + 2 + b + 3
    BY <1>4
  <2> QED  BY <2>1, <1>17
<1>21. \A i \in 1 .. a : V[3 + i] = <<q[i], Real, Other, Other, Other>>
  BY <1>6, <1>17
<1>22. \A i \in 1 .. b : V[5 + a + i] = <<r[i][1], r[i][2], Real, Other>>
  <2>1. \A i \in 1 .. b : 5 + a + i = 3 + a + 2 + i
    BY <1>4
  <2> QED  BY <2>1, <1>8, <1>17
<1>23. Len(V) = 8 + a + b
  BY <1>4, <1>17
<1>24. IsVersion1(s, V, a, b)
  BY <1>1, <1>2, <1>4, <1>5, <1>7, <1>9, <1>17, <1>18, <1>19, <1>20, <1>21, <1>22, <1>23 DEF IsVersion1
<1> QED  BY <1>0, <1>24

IsVersion2(s, V, a, b) ==
    /\ V \in Seq(Line)
    /\ a \in Nat /\ b \in Nat /\ Len(V) = 5 + a + b
    /\ V[1] = <<"TITLE", Other>>
    /\ V[2] = <<"HEADER", "CLIENT_LIST", Other, Other, Other>>
    /\ \A i \in 1 .. a : V[2 + i] = <<"CLIENT_LIST", Connected(s)[i], Real, s[Connected(s)[i]], Other>>
    /\ V[3 + a] = <<"HEADER", "ROUTING_TABLE", Other, Other>>
    /\ \A i \in 1 .. b : V[3 + a + i] = <<"ROUTING_TABLE", Routed(s)[i][1], Routed(s)[i][2], Real>>
    /\ V[4 + a + b] = <<"GLOBAL_STATS", Other>>
    /\ V[5 + a + b] = <<"END">>

LEMMA Version2Is ==
    ASSUME NEW s \in Servers
    PROVE  IsVersion2(s, Version2(s), Len(Connected(s)), Len(Routed(s)))
<1>0. PICK V, a, b : V = Version2(s) /\ a = Len(Connected(s)) /\ b = Len(Routed(s))
  OBVIOUS
<1>1. PICK q : q = Connected(s)
  OBVIOUS
<1>2. PICK r : r = Routed(s)
  OBVIOUS
<1>3. q \in Seq(Names) /\ r \in Seq((Ips \cup {Net}) \X Names)
  BY <1>1, <1>2, ConnectedIs, RoutedIs
<1>4. /\ a = Len(q) /\ a \in Nat /\ DOMAIN q = 1 .. a /\ \A i \in 1 .. a : q[i] \in Names
      /\ b = Len(r) /\ b \in Nat /\ DOMAIN r = 1 .. b /\ \A i \in 1 .. b : r[i] \in (Ips \cup {Net}) \X Names
  BY <1>0, <1>1, <1>2, <1>3, LenProperties, ElementOfSeq
<1>5. PICK A : A = <<<<"TITLE", Other>>, <<"HEADER", "CLIENT_LIST", Other, Other, Other>>>>
  OBVIOUS
<1>6. PICK B : B = [n \in 1 .. a |-> <<"CLIENT_LIST", q[n], Real, s[q[n]], Other>>]
  OBVIOUS
<1>7. PICK C : C = <<<<"HEADER", "ROUTING_TABLE", Other, Other>>>>
  OBVIOUS
<1>8. PICK D : D = [n \in 1 .. b |-> <<"ROUTING_TABLE", r[n][1], r[n][2], Real>>]
  OBVIOUS
<1>9. PICK F : F = <<<<"GLOBAL_STATS", Other>>, <<"END">>>>
  OBVIOUS
<1>10. /\ "TITLE" \in Field0 /\ "HEADER" \in Field0 /\ "CLIENT_LIST" \in Field0
       /\ "ROUTING_TABLE" \in Field0 /\ "GLOBAL_STATS" \in Field0 /\ "END" \in Field0
       /\ Other \in Field0 /\ Real \in Field0 /\ Names \subseteq Field0 /\ Ips \cup {Net, None} \subseteq Field0
  BY DEF Field0, Words, Titles, Tags
<1>11. A \in Seq(Line) /\ Len(A) = 2
  <2>1. <<"TITLE", Other>> \in Line /\ <<"HEADER", "CLIENT_LIST", Other, Other, Other>> \in Line
    BY <1>10, FieldsAreALine
  <2> QED  BY <1>5, <2>1, LinesAreAFile
<1>12. B \in Seq(Line) /\ Len(B) = a
  <2>1. ASSUME NEW n \in 1 .. a PROVE <<"CLIENT_LIST", q[n], Real, s[q[n]], Other>> \in Line
    <3>1. s[q[n]] # Absent
      BY <1>1, <1>4, ConnectedIs
    <3>2. s[q[n]] \in Ips \cup {None}
      BY <1>4, <3>1 DEF Servers
    <3> QED  BY <1>4, <1>10, <3>2, FieldsAreALine
  <2> QED  BY <2>1, <1>4, <1>6
<1>13. C \in Seq(Line) /\ Len(C) = 1
  <2>1. <<"HEADER", "ROUTING_TABLE", Other, Other>> \in Line
    BY <1>10, FieldsAreALine
  <2> QED  BY <1>7, <2>1, LinesAreAFile
<1>14. D \in Seq(Line) /\ Len(D) = b
  <2>1. \A n \in 1 .. b : <<"ROUTING_TABLE", r[n][1], r[n][2], Real>> \in Line
    BY <1>4, <1>10, FieldsAreALine
  <2> QED  BY <2>1, <1>4, <1>8
<1>15. F \in Seq(Line) /\ Len(F) = 2
  <2>1. <<"GLOBAL_STATS", Other>> \in Line /\ <<"END">> \in Line
    BY <1>10, FieldsAreALine
  <2> QED  BY <1>9, <2>1, LinesAreAFile
<1>16. V = A \o B \o C \o D \o F
  BY <1>0, <1>1, <1>2, <1>4, <1>5, <1>6, <1>7, <1>8, <1>9 DEF Version2, Lines
<1>17. /\ V \in Seq(Line)
       /\ Len(V) = 2 + a + 1 + b + 2
       /\ \A i \in 1 .. 2 : V[i] = A[i]
       /\ \A i \in 1 .. a : V[2 + i] = B[i]
       /\ \A i \in 1 .. 1 : V[2 + a + i] = C[i]
       /\ \A i \in 1 .. b : V[2 + a + 1 + i] = D[i]
       /\ \A i \in 1 .. 2 : V[2 + a + 1 + b + i] = F[i]
  <2>1. /\ A \in Seq(Line) /\ B \in Seq(Line) /\ C \in Seq(Line) /\ D \in Seq(Line) /\ F \in Seq(Line)
    BY <1>11, <1>12, <1>13, <1>14, <1>15
  <2>2. IsJoined(V, A, B, C, D, F)
    BY <2>1, <1>16, Five
  <2> QED  BY <2>2, <1>11, <1>12, <1>13, <1>14, <1>15 DEF IsJoined
<1>18. V[1] = A[1] /\ V[2] = A[2]
  BY <1>17
<1>19. V[3 + a] = C[1]
  <2>1. 3 + a = 2 + a + 1
    BY <1>4
  <2> QED  BY <2>1, <1>17
<1>20. V[4 + a + b] = F[1] /\ V[5 + a + b] = F[2]
  <2>1. 4 + a + b = 2 + a + 1 + b + 1 /\ 5 + a + b = 2 + a + 1 + b + 2
    BY <1>4
  <2> QED  BY <2>1, <1>17
<1>21. \A i \in 1 .. a : V[2 + i] = <<"CLIENT_LIST", q[i], Real, s[q[i]], Other>>
  BY <1>6, <1>17
<1>22. \A i \in 1 .. b : V[3 + a + i] = <<"ROUTING_TABLE", r[i][1], r[i][2], Real>>
  <2>1. \A i \in 1 .. b : 3 + a + i = 2 + a + 1 + i
    BY <1>4
  <2> QED  BY <2>1, <1>8, <1>17
<1>23. Len(V) = 5 + a + b
  BY <1>4, <1>17
<1>24. IsVersion2(s, V, a, b)
  BY <1>1, <1>2, <1>4, <1>5, <1>7, <1>9, <1>17, <1>18, <1>19, <1>20, <1>21, <1>22, <1>23 DEF IsVersion2
<1> QED  BY <1>0, <1>24

-----------------------------------------------------------------------------
(* What can be said of a line on its own, given the servers S whose files  *)
(* it may be of.  A network is an address of nobody's; ...                 *)
RouteIn(S, address, name) ==
    address # None /\ name # None =>
        /\ address \in Ips => name \in Names
        /\ name \in Names => address = Net \/ (address \in Ips /\ \E s \in S : s[name] = address)

SessionIn(S, name, address) ==
    /\ name \in Names
    /\ \E s \in S : s[name] # Absent
    /\ address # None => address \in Ips /\ \E s \in S : s[name] = address

(* ... a row of a section, ...                                             *)
SectionWords(line) == Len(line) >= 4 => \A k \in 1 .. Len(line) : line[k] \in Words \cup {None}

SectionRow(S, line) ==
    /\ Len(line) >= 4 => RouteIn(S, line[1], line[2])
    /\ Len(line) >= 5 => SessionIn(S, line[1], None)

Untagged(line) == 1 \in 1 .. Len(line) /\ \A k \in 1 .. Len(line) : line[k] \notin Tags

(* ... and a tagged row.                                                   *)
TaggedWords(line) ==
    line[1] \in {"CLIENT_LIST", "ROUTING_TABLE"} =>
        \A k \in 2 .. Len(line) : line[k] \in Words \cup {None}

TaggedRoute(S, line) ==
    /\ line[1] = "CLIENT_LIST" => RouteIn(S, Field(line, 4), Field(line, 2))
    /\ line[1] = "ROUTING_TABLE" /\ Len(line) >= 3 => RouteIn(S, line[2], line[3])

TaggedSession(S, line) ==
    line[1] = "CLIENT_LIST" => /\ Len(line) >= 4
                               /\ SessionIn(S, line[2], line[4])
                               /\ \E s \in S : s[line[2]] = line[4]

(* Column titles, where there might be a tag.                              *)
TitlesAfterTags(line) ==
    \A k \in 2 .. Len(line) : line[k] \in Tags => k = 2 /\ \A j \in 3 .. Len(line) : line[j] = Other

LEMMA WordsAreApart ==
    /\ \A w \in Words \cup {None} : w \notin Titles /\ w \notin Tags
    /\ Names \subseteq Words /\ Ips \subseteq Words /\ {Net, Real, Other, Torn} \subseteq Words
    /\ \A c \in Names : c \notin Ips \cup {Net, Real, Other, Torn, None}
    /\ \A ip \in Ips : ip \notin {Net, Real, Other, Torn, None, Absent}
    /\ Titles \cap Tags = {}
    /\ "Updated" \in Titles /\ "OpenVPN CLIENT LIST" \in Titles /\ "ROUTING TABLE" \in Titles
    /\ "GLOBAL STATS" \in Titles /\ "END" \in Titles
    /\ Net # None /\ Real # None /\ Other # None
    /\ Net \notin {Real, Other, Torn}
BY WordsAssumption DEF Words, Titles, Tags, Absent

LEMMA FourFields ==
    ASSUME NEW f, NEW g, NEW h, NEW i, NEW line, line = <<f, g, h, i>>
    PROVE  /\ Len(line) = 4 /\ line[1] = f /\ line[2] = g /\ line[3] = h /\ line[4] = i
           /\ \A k \in 1 .. Len(line) : line[k] \in {f, g, h, i}
<1>1. Len(line) = 4 /\ line[1] = f /\ line[2] = g /\ line[3] = h /\ line[4] = i
  OBVIOUS
<1>2. \A k \in 1 .. 4 : k \in {1, 2, 3, 4}
  OBVIOUS
<1>3. \A k \in {1, 2, 3, 4} : line[k] \in {f, g, h, i}
  BY <1>1
<1> QED  BY <1>1, <1>2, <1>3

LEMMA FiveFields ==
    ASSUME NEW f, NEW g, NEW h, NEW i, NEW j, NEW line, line = <<f, g, h, i, j>>
    PROVE  /\ Len(line) = 5 /\ line[1] = f /\ line[2] = g /\ line[3] = h /\ line[4] = i /\ line[5] = j
           /\ \A k \in 1 .. Len(line) : line[k] \in {f, g, h, i, j}
<1>1. Len(line) = 5 /\ line[1] = f /\ line[2] = g /\ line[3] = h /\ line[4] = i /\ line[5] = j
  OBVIOUS
<1>2. \A k \in 1 .. 5 : k \in {1, 2, 3, 4, 5}
  OBVIOUS
<1>3. \A k \in {1, 2, 3, 4, 5} : line[k] \in {f, g, h, i, j}
  BY <1>1
<1> QED  BY <1>1, <1>2, <1>3

LEMMA Version1Lines ==
    ASSUME NEW s \in Servers, NEW V, V = Version1(s), NEW n \in 1 .. Len(V)
    PROVE  /\ V[n] \in Line /\ Len(V[n]) \in Nat
           /\ Untagged(V[n])
           /\ SectionWords(V[n])
           /\ n # 3 => SectionRow({s}, V[n])
<1> DEFINE Fine(line) == /\ line \in Line /\ Len(line) \in Nat
                         /\ Untagged(line) /\ SectionWords(line) /\ SectionRow({s}, line)
<1>1. PICK a, b : a = Len(Connected(s)) /\ b = Len(Routed(s))
  OBVIOUS
<1>2. IsVersion1(s, V, a, b)
  BY <1>1, Version1Is
<1> USE DEF IsVersion1
<1>20. a \in Nat /\ b \in Nat /\ n \in 1 .. 8 + a + b
  BY <1>2
<1>3. V[n] \in Line /\ Len(V[n]) \in Nat
  <2>1. V[n] \in Line
    BY <1>2, ElementOfSeq
  <2> QED  BY <2>1, LenProperties DEF Line
<1>4. CASE n \in {1, 2, 4 + a, 6 + a + b, 7 + a + b, 8 + a + b}
  <2>1. Len(V[n]) \in {1, 2} /\ \A k \in 1 .. Len(V[n]) : V[n][k] \in Titles \cup {Other}
    <3>1. CASE n \in {2, 7 + a + b}
      <4>1. PICK t \in {"Updated", Other} : V[n] = <<t, Other>>
        BY <1>2, <3>1
      <4>2. Len(V[n]) = 2 /\ V[n][1] = t /\ V[n][2] = Other
        BY <4>1
      <4>3. \A k \in 1 .. 2 : k \in {1, 2}
        OBVIOUS
      <4>4. \A k \in {1, 2} : V[n][k] \in Titles \cup {Other}
        BY <4>1, <4>2, WordsAreApart
      <4> QED  BY <4>2, <4>3, <4>4
    <3>2. CASE n \in {1, 4 + a, 6 + a + b, 8 + a + b}
      <4>1. PICK t \in Titles : V[n] = <<t>>
        BY <1>2, <3>2, WordsAreApart
      <4> QED  BY <4>1
    <3> QED  BY <1>4, <3>1, <3>2
  <2>2. Untagged(V[n])
    <3>1. 1 \in 1 .. Len(V[n])
      <4>1. PICK len : len = Len(V[n])
        OBVIOUS
      <4>2. len \in {1, 2, 4, 5}
        BY <2>1, <4>1
      <4>3. 1 \in 1 .. len
        BY <4>2
      <4> QED  BY <4>1, <4>3
    <3> QED  BY <2>1, <3>1, WordsAreApart DEF Untagged
  <2> QED  BY <1>3, <2>1, <2>2 DEF SectionWords, SectionRow
<1>5. CASE n \in {3, 5 + a}
  <2>1. /\ V[n] \in {<<Other, Other, Other, Other>>, <<Other, Other, Other, Other, Other>>}
        /\ n # 3 => V[n] = <<Other, Other, Other, Other>>
    BY <1>2, <1>5
  <2>2. Len(V[n]) \in {4, 5} /\ \A k \in 1 .. Len(V[n]) : V[n][k] = Other
    BY <2>1
  <2>3. Untagged(V[n]) /\ SectionWords(V[n])
    <3>1. 1 \in 1 .. Len(V[n])
      <4>1. PICK len : len = Len(V[n])
        OBVIOUS
      <4>2. len \in {1, 2, 4, 5}
        BY <2>2, <4>1
      <4>3. 1 \in 1 .. len
        BY <4>2
      <4> QED  BY <4>1, <4>3
    <3> QED  BY <2>2, <3>1, WordsAreApart DEF Untagged, SectionWords
  <2>4. n # 3 => SectionRow({s}, V[n])
    <3>1. V[n] = <<Other, Other, Other, Other>> => Len(V[n]) = 4 /\ V[n][1] = Other /\ V[n][2] = Other
      OBVIOUS
    <3>2. Other \notin Ips \cup Names
      BY WordsAreApart
    <3>3. RouteIn({s}, Other, Other)
      BY <3>2 DEF RouteIn
    <3>4. n # 3 => Len(V[n]) = 4 /\ V[n][1] = Other /\ V[n][2] = Other
      BY <2>1, <3>1
    <3> SUFFICES ASSUME n # 3 PROVE SectionRow({s}, V[n])
      OBVIOUS
    <3>5. Len(V[n]) = 4 /\ RouteIn({s}, V[n][1], V[n][2])
      BY <3>3, <3>4
    <3> QED  BY <3>5 DEF SectionRow
  <2> QED  BY <1>3, <2>3, <2>4
<1>6. ASSUME NEW i \in 1 .. a, n = 3 + i PROVE Fine(V[n])
  <2>1. Connected(s)[i] \in Names /\ s[Connected(s)[i]] # Absent
    <3>1. i \in DOMAIN Connected(s) /\ Connected(s) \in Seq(Names)
      BY <1>1, ConnectedIs, LenProperties
    <3> QED  BY <3>1, ConnectedIs, ElementOfSeq, LenProperties
  <2>2. V[n] = <<Connected(s)[i], Real, Other, Other, Other>>
    BY <1>2, <1>6
  <2>3. /\ Len(V[n]) = 5 /\ V[n][1] = Connected(s)[i]  /\ V[n][2] = Real
        /\ \A k \in 1 .. Len(V[n]) : V[n][k] \in {Connected(s)[i], Real, Other}
    BY <2>2, FiveFields
  <2>4. Untagged(V[n]) /\ SectionWords(V[n])
    <3>1. 1 \in 1 .. Len(V[n])
      BY <2>3
    <3> QED  BY <2>1, <2>3, <3>1, WordsAreApart DEF Untagged, SectionWords
  <2>5. SectionRow({s}, V[n])
    BY <2>1, <2>3, WordsAreApart DEF SectionRow, RouteIn, SessionIn
  <2> QED  BY <1>3, <2>4, <2>5
<1>7. ASSUME NEW i \in 1 .. b, n = 5 + a + i PROVE Fine(V[n])
  <2>1. /\ Routed(s)[i] \in (Ips \cup {Net}) \X Names
        /\ Routed(s)[i][1] # Net => s[Routed(s)[i][2]] = Routed(s)[i][1]
    <3>1. i \in DOMAIN Routed(s) /\ Routed(s) \in Seq((Ips \cup {Net}) \X Names)
      BY <1>1, RoutedIs, LenProperties
    <3> QED  BY <3>1, RoutedIs, ElementOfSeq, LenProperties
  <2>2. V[n] = <<Routed(s)[i][1], Routed(s)[i][2], Real, Other>>
    BY <1>2, <1>7
  <2>3. /\ Len(V[n]) = 4 /\ V[n][1] = Routed(s)[i][1] /\ V[n][2] = Routed(s)[i][2]
        /\ \A k \in 1 .. Len(V[n]) : V[n][k] \in {Routed(s)[i][1], Routed(s)[i][2], Real, Other}
    BY <2>2, FourFields
  <2>4. Untagged(V[n]) /\ SectionWords(V[n])
    <3>1. 1 \in 1 .. Len(V[n])
      BY <2>3
    <3> QED  BY <2>1, <2>3, <3>1, WordsAreApart DEF Untagged, SectionWords
  <2>5. SectionRow({s}, V[n])
    <3>1. RouteIn({s}, V[n][1], V[n][2])
      BY <2>1, <2>3, WordsAreApart DEF RouteIn
    <3> QED  BY <2>3, <3>1 DEF SectionRow
  <2> QED  BY <1>3, <2>4, <2>5
<1>8. \/ n \in {1, 2, 4 + a, 6 + a + b, 7 + a + b, 8 + a + b}
      \/ n \in {3, 5 + a}
      \/ \E i \in 1 .. a : n = 3 + i
      \/ \E i \in 1 .. b : n = 5 + a + i
  <2>1. n > 3 /\ n < 4 + a => n - 3 \in 1 .. a /\ n = 3 + (n - 3)
    BY <1>20
  <2>2. n > 5 + a /\ n < 6 + a + b => n - 5 - a \in 1 .. b /\ n = 5 + a + (n - 5 - a)
    BY <1>20
  <2>3. \/ n =< 3 \/ (n > 3 /\ n < 4 + a) \/ n = 4 + a \/ n = 5 + a \/ (n > 5 + a /\ n < 6 + a + b)
        \/ n \in {6 + a + b, 7 + a + b, 8 + a + b}
    BY <1>20
  <2> QED  BY <2>1, <2>2, <2>3
<1> QED  BY <1>4, <1>5, <1>6, <1>7, <1>8

LEMMA TitlesAreNoTags ==
    ASSUME NEW line \in Line, \A j \in 2 .. Len(line) : j = 2 \/ line[j] = Other,
           Len(line) > 2 \/ (Len(line) = 2 => line[2] = Other)
    PROVE  TitlesAfterTags(line)
<1>1. Len(line) \in Nat
  BY LenProperties DEF Line
<1>2. ASSUME NEW k \in 2 .. Len(line), line[k] \in Tags
      PROVE  k = 2 /\ \A j \in 3 .. Len(line) : line[j] = Other
  <2>1. Other \notin Tags
    BY WordsAreApart
  <2>2. k = 2
    BY <1>2, <2>1
  <2>3. \A j \in 3 .. Len(line) : j \in 2 .. Len(line) /\ j # 2
    BY <1>1
  <2> QED  BY <2>2, <2>3
<1> QED  BY <1>2 DEF TitlesAfterTags

LEMMA Version2Lines ==
    ASSUME NEW s \in Servers, NEW V, V = Version2(s), NEW n \in 1 .. Len(V)
    PROVE  /\ V[n] \in Line /\ Len(V[n]) \in Nat
           /\ TitlesAfterTags(V[n])
           /\ TaggedWords(V[n])
           /\ TaggedRoute({s}, V[n])
           /\ TaggedSession({s}, V[n])
<1> DEFINE Fine(line) == /\ line \in Line /\ Len(line) \in Nat
                         /\ TitlesAfterTags(line) /\ TaggedWords(line)
                         /\ TaggedRoute({s}, line) /\ TaggedSession({s}, line)
<1>1. PICK a, b : a = Len(Connected(s)) /\ b = Len(Routed(s))
  OBVIOUS
<1>2. IsVersion2(s, V, a, b)
  BY <1>1, Version2Is
<1> USE DEF IsVersion2
<1>20. a \in Nat /\ b \in Nat /\ n \in 1 .. 5 + a + b
  BY <1>2
<1>3. V[n] \in Line /\ Len(V[n]) \in Nat /\ DOMAIN V[n] = 1 .. Len(V[n])
  <2>1. V[n] \in Line
    BY <1>2, ElementOfSeq
  <2> QED  BY <2>1, LenProperties DEF Line
<1>4. CASE n \in {1, 2, 3 + a, 4 + a + b, 5 + a + b}
  <2>1. V[n][1] \notin {"CLIENT_LIST", "ROUTING_TABLE"}
    <3>1. V[n][1] \in {"TITLE", "HEADER", "GLOBAL_STATS", "END"}
      <4>1. CASE n \in {1, 2, 3 + a}
        BY <1>2, <4>1
      <4>2. CASE n \in {4 + a + b, 5 + a + b}
        BY <1>2, <4>2
      <4> QED  BY <1>4, <4>1, <4>2
    <3> QED  BY <3>1
  <2>2. TaggedWords(V[n]) /\ TaggedRoute({s}, V[n]) /\ TaggedSession({s}, V[n])
    BY <2>1 DEF TaggedWords, TaggedRoute, TaggedSession
  <2>3. TitlesAfterTags(V[n])
    <3>1. CASE n = 2
      <4>1. V[n] = <<"HEADER", "CLIENT_LIST", Other, Other, Other>>
        BY <1>2, <3>1
      <4>2. Len(V[n]) = 5 /\ V[n][3] = Other /\ V[n][4] = Other /\ V[n][5] = Other
        BY <4>1, FiveFields
      <4>3. \A j \in 3 .. 5 : j \in {3, 4, 5}
        OBVIOUS
      <4> QED  BY <1>3, <4>2, <4>3, TitlesAreNoTags
    <3>2. CASE n = 3 + a
      <4>1. V[n] = <<"HEADER", "ROUTING_TABLE", Other, Other>>
        BY <1>2, <3>2
      <4>2. Len(V[n]) = 4 /\ V[n][3] = Other /\ V[n][4] = Other
        BY <4>1, FourFields
      <4>3. \A j \in 3 .. 4 : j \in {3, 4}
        OBVIOUS
      <4> QED  BY <1>3, <4>2, <4>3, TitlesAreNoTags
    <3>3. CASE n \in {1, 4 + a + b, 5 + a + b}
      <4>1. V[n] = <<"TITLE", Other>> \/ V[n] = <<"GLOBAL_STATS", Other>> \/ V[n] = <<"END">>
        BY <1>2, <3>3
      <4>2. \A j \in 2 .. 2 : j = 2
        OBVIOUS
      <4>3. CASE V[n] = <<"END">>
        <5>1. Len(V[n]) = 1
          BY <4>3
        <5> QED  BY <1>3, <5>1, TitlesAreNoTags
      <4>4. CASE \E t : V[n] = <<t, Other>>
        <5>1. Len(V[n]) = 2 /\ V[n][2] = Other
          BY <4>4
        <5> QED  BY <1>3, <4>2, <5>1, TitlesAreNoTags
      <4> QED  BY <4>1, <4>3, <4>4
    <3> QED  BY <1>4, <3>1, <3>2, <3>3
  <2> QED  BY <1>3, <2>2, <2>3
<1>5. ASSUME NEW i \in 1 .. a, n = 2 + i PROVE Fine(V[n])
  <2>1. PICK c : c = Connected(s)[i]
    OBVIOUS
  <2>2. c \in Names /\ s[c] # Absent
    <3>1. i \in DOMAIN Connected(s) /\ Connected(s) \in Seq(Names)
      BY <1>1, ConnectedIs, LenProperties
    <3> QED  BY <2>1, <3>1, ConnectedIs, ElementOfSeq, LenProperties
  <2>3. s[c] \in Ips \cup {None}
    BY <2>2 DEF Servers
  <2>4. V[n] = <<"CLIENT_LIST", c, Real, s[c], Other>>
    BY <1>2, <1>5, <2>1
  <2>5. /\ Len(V[n]) = 5 /\ V[n][1] = "CLIENT_LIST" /\ V[n][2] = c /\ V[n][3] = Real
        /\ V[n][4] = s[c] /\ V[n][5] = Other
    BY <2>4, FiveFields
  <2>6. \A k \in 2 .. 5 : k \in {2, 3, 4, 5}
    OBVIOUS
  <2>7. \A k \in 2 .. Len(V[n]) : V[n][k] \in Words \cup {None}
    <3>1. \A k \in {2, 3, 4, 5} : V[n][k] \in Words \cup {None}
      BY <2>2, <2>3, <2>5, WordsAreApart
    <3> QED  BY <2>5, <2>6, <3>1
  <2>8. TitlesAfterTags(V[n]) /\ TaggedWords(V[n])
    BY <2>7, WordsAreApart DEF TitlesAfterTags, TaggedWords
  <2>9. RouteIn({s}, s[c], c) /\ SessionIn({s}, c, s[c])
    BY <2>2, <2>3, WordsAreApart DEF RouteIn, SessionIn
  <2>10. TaggedRoute({s}, V[n]) /\ TaggedSession({s}, V[n])
    BY <1>3, <2>5, <2>9 DEF TaggedRoute, TaggedSession, Field
  <2> QED  BY <1>3, <2>8, <2>10
<1>6. ASSUME NEW i \in 1 .. b, n = 3 + a + i PROVE Fine(V[n])
  <2>1. PICK ip, c : ip = Routed(s)[i][1] /\ c = Routed(s)[i][2]
    OBVIOUS
  <2>2. ip \in Ips \cup {Net} /\ c \in Names /\ (ip # Net => s[c] = ip)
    <3>1. i \in DOMAIN Routed(s) /\ Routed(s) \in Seq((Ips \cup {Net}) \X Names)
      BY <1>1, RoutedIs, LenProperties
    <3> QED  BY <2>1, <3>1, RoutedIs, ElementOfSeq, LenProperties
  <2>3. V[n] = <<"ROUTING_TABLE", ip, c, Real>>
    BY <1>2, <1>6, <2>1
  <2>4. Len(V[n]) = 4 /\ V[n][1] = "ROUTING_TABLE" /\ V[n][2] = ip /\ V[n][3] = c /\ V[n][4] = Real
    BY <2>3, FourFields
  <2>5. \A k \in 2 .. 4 : k \in {2, 3, 4}
    OBVIOUS
  <2>6. \A k \in 2 .. Len(V[n]) : V[n][k] \in Words \cup {None}
    <3>1. \A k \in {2, 3, 4} : V[n][k] \in Words \cup {None}
      BY <2>2, <2>4, WordsAreApart
    <3> QED  BY <2>4, <2>5, <3>1
  <2>7. TitlesAfterTags(V[n]) /\ TaggedWords(V[n])
    BY <2>6, WordsAreApart DEF TitlesAfterTags, TaggedWords
  <2>8. RouteIn({s}, ip, c)
    BY <2>2, WordsAreApart DEF RouteIn
  <2>9. TaggedRoute({s}, V[n]) /\ TaggedSession({s}, V[n])
    BY <2>4, <2>8 DEF TaggedRoute, TaggedSession
  <2> QED  BY <1>3, <2>7, <2>9
<1>7. \/ n \in {1, 2, 3 + a, 4 + a + b, 5 + a + b}
      \/ \E i \in 1 .. a : n = 2 + i
      \/ \E i \in 1 .. b : n = 3 + a + i
  <2>1. n > 2 /\ n < 3 + a => n - 2 \in 1 .. a /\ n = 2 + (n - 2)
    BY <1>20
  <2>2. n > 3 + a /\ n < 4 + a + b => n - 3 - a \in 1 .. b /\ n = 3 + a + (n - 3 - a)
    BY <1>20
  <2>3. \/ n =< 2 \/ (n > 2 /\ n < 3 + a) \/ n = 3 + a \/ (n > 3 + a /\ n < 4 + a + b)
        \/ n \in {4 + a + b, 5 + a + b}
    BY <1>20
  <2> QED  BY <2>1, <2>2, <2>3
<1> QED  BY <1>4, <1>5, <1>6, <1>7

-----------------------------------------------------------------------------
(* What is said of a line of one server's file holds of more servers, ...  *)
LEMMA OfMoreServers ==
    ASSUME NEW S, NEW s \in S, NEW line
    PROVE  /\ SectionRow({s}, line) => SectionRow(S, line)
           /\ TaggedRoute({s}, line) => TaggedRoute(S, line)
           /\ TaggedSession({s}, line) => TaggedSession(S, line)
<1>1. \A a, c : RouteIn({s}, a, c) => RouteIn(S, a, c)
  BY DEF RouteIn
<1>2. \A a, c : SessionIn({s}, c, a) => SessionIn(S, c, a)
  BY DEF SessionIn
<1>3. SectionRow({s}, line) => SectionRow(S, line)
  BY <1>1, <1>2 DEF SectionRow
<1>4. TaggedRoute({s}, line) => TaggedRoute(S, line)
  BY <1>1 DEF TaggedRoute
<1>5. TaggedSession({s}, line) => TaggedSession(S, line)
  BY <1>2 DEF TaggedSession
<1> QED  BY <1>3, <1>4, <1>5

(* ... and what a cut leaves of it: ...                                    *)
LEMMA CutRow ==
    ASSUME NEW line \in Line, NEW S, Untagged(line), SectionWords(line),
           NEW cut \in CutEnds(line)
    PROVE  /\ Untagged(cut) /\ SectionWords(cut)
           /\ SectionRow(S, line) => SectionRow(S, cut)
<1>1. /\ cut \in Line /\ Len(cut) \in Nat /\ Len(line) \in Nat /\ Len(cut) \in 1 .. Len(line)
      /\ \A i \in 1 .. Len(cut) : i # Len(cut) \/ cut[i] \notin {Torn, None} => cut[i] = line[i]
  BY CutEnd, TornIsAField, LenProperties DEF Line
<1>2. \A i \in 1 .. Len(cut) : i \in 1 .. Len(line) /\ cut[i] \in {line[i], Torn, None}
  BY <1>1
<1>3. Untagged(cut)
  <2>1. 1 \in 1 .. Len(cut)
    BY <1>1
  <2> QED  BY <1>2, <2>1, WordsAreApart DEF Untagged
<1>4. SectionWords(cut)
  <2>1. Len(cut) >= 4 => Len(line) >= 4
    BY <1>1
  <2> QED  BY <1>2, <2>1, WordsAreApart DEF SectionWords
<1>5. ASSUME SectionRow(S, line), Len(cut) >= 4
      PROVE  SectionRow(S, cut)
  <2>1. cut[1] = line[1] /\ cut[2] = line[2]
    BY <1>1, <1>5
  <2>2. Len(line) >= 4 /\ (Len(cut) >= 5 => Len(line) >= 5)
    BY <1>1, <1>5
  <2> QED  BY <1>5, <2>1, <2>2 DEF SectionRow
<1>6. Len(cut) < 4 => SectionRow(S, cut)
  BY <1>1 DEF SectionRow
<1> QED  BY <1>1, <1>3, <1>4, <1>5, <1>6

LEMMA CutOffRow ==
    ASSUME NEW line \in Line, Untagged(line), SectionWords(line), NEW cut \in CutStarts(line)
    PROVE  Untagged(cut) /\ SectionWords(cut)
<1>1. Len(line) \in Nat
  BY LenProperties DEF Line
<1>2. PICK k \in 1 .. Len(line) :
          /\ Len(cut) = Len(line) - k + 1
          /\ cut[1] \in {Torn, None} \/ (k >= 2 /\ cut[1] = line[k])
          /\ \A i \in 2 .. Len(cut) : cut[i] = line[k + i - 1]
  BY CutStart, TornIsAField DEF Line
<1>3. ASSUME NEW i \in 1 .. Len(cut) PROVE cut[i] \in {Torn, None} \/ \E j \in 1 .. Len(line) : cut[i] = line[j]
  <2>1. CASE i = 1
    BY <1>2, <2>1
  <2>2. CASE i # 1
    <3>1. i \in 2 .. Len(cut) /\ k + i - 1 \in 1 .. Len(line)
      BY <1>1, <1>2, <2>2
    <3> QED  BY <1>2, <3>1
  <2> QED  BY <2>1, <2>2
<1>4. Untagged(cut)
  <2>1. 1 \in 1 .. Len(cut)
    BY <1>1, <1>2
  <2> QED  BY <1>3, <2>1, WordsAreApart DEF Untagged
<1>5. Len(cut) >= 4 => Len(line) >= 4
  BY <1>1, <1>2
<1>6. SectionWords(cut)
  BY <1>3, <1>5, WordsAreApart DEF SectionWords
<1> QED  BY <1>4, <1>6

LEMMA CutTaggedRow ==
    ASSUME NEW line \in Line, TaggedWords(line), NEW cut \in CutEnds(line)
    PROVE  TaggedWords(cut)
<1>1. /\ cut \in Line /\ Len(cut) \in Nat /\ Len(line) \in Nat /\ Len(cut) \in 1 .. Len(line)
      /\ \A i \in 1 .. Len(cut) : i # Len(cut) \/ cut[i] \notin {Torn, None} => cut[i] = line[i]
  BY CutEnd, TornIsAField, LenProperties DEF Line
<1>2. ASSUME cut[1] \in {"CLIENT_LIST", "ROUTING_TABLE"}, NEW k \in 2 .. Len(cut)
      PROVE  cut[k] \in Words \cup {None}
  <2>1. 1 \in 1 .. Len(cut) /\ 1 # Len(cut) /\ k \in 1 .. Len(cut) /\ k \in 2 .. Len(line)
    BY <1>1, <1>2
  <2>2. cut[1] = line[1]
    BY <1>1, <2>1
  <2>3. cut[k] \in {Torn, None} \/ cut[k] = line[k]
    BY <1>1, <2>1
  <2>4. line[k] \in Words \cup {None}
    BY <1>2, <2>1, <2>2 DEF TaggedWords
  <2> QED  BY <2>3, <2>4, WordsAreApart
<1> QED  BY <1>2 DEF TaggedWords

LEMMA CutOffTaggedRow ==
    ASSUME NEW line \in Line, TitlesAfterTags(line), NEW cut \in CutStarts(line), NEW S
    PROVE  /\ TaggedWords(cut)
           /\ TaggedRoute(S, cut)
           /\ cut[1] \notin Tags => TaggedSession(S, cut)
<1>1. Len(line) \in Nat
  BY LenProperties DEF Line
<1>2. PICK k \in 1 .. Len(line) :
          /\ Len(cut) = Len(line) - k + 1
          /\ cut[1] \in {Torn, None} \/ (k >= 2 /\ cut[1] = line[k])
          /\ \A i \in 2 .. Len(cut) : cut[i] = line[k + i - 1]
  BY CutStart, TornIsAField DEF Line
<1>3. "CLIENT_LIST" \in Tags /\ "ROUTING_TABLE" \in Tags
  BY DEF Tags
<1>4. CASE cut[1] \notin {"CLIENT_LIST", "ROUTING_TABLE"}
  BY <1>4 DEF TaggedWords, TaggedRoute, TaggedSession
<1>5. CASE cut[1] \in {"CLIENT_LIST", "ROUTING_TABLE"}
  <2>1. k \in 2 .. Len(line) /\ line[k] \in Tags
    <3>1. cut[1] \in Tags /\ cut[1] \notin {Torn, None}
      BY <1>3, <1>5, WordsAreApart
    <3> QED  BY <1>1, <1>2, <3>1
  <2>2. k = 2 /\ \A j \in 3 .. Len(line) : line[j] = Other
    BY <2>1 DEF TitlesAfterTags
  <2>3. ASSUME NEW i \in 2 .. Len(cut) PROVE cut[i] = Other
    <3>1. k + i - 1 \in 3 .. Len(line)
      BY <1>1, <1>2, <2>2
    <3> QED  BY <1>2, <2>2, <3>1
  <2>4. TaggedWords(cut)
    BY <2>3, WordsAreApart DEF TaggedWords
  <2>5. \A i \in 2 .. 4 : Field(cut, i) \in {Other, None}
    <3>1. cut \in Line
      BY CutStart, TornIsAField DEF Line
    <3>2. DOMAIN cut = 1 .. Len(cut) /\ Len(cut) \in Nat
      BY <3>1, LenProperties DEF Line
    <3> QED  BY <2>3, <3>2 DEF Field
  <2>6. \A x, y \in {Other, None} : RouteIn(S, x, y)
    BY WordsAreApart DEF RouteIn
  <2>7. TaggedRoute(S, cut)
    <3>1. RouteIn(S, Field(cut, 4), Field(cut, 2))
      BY <2>5, <2>6
    <3>2. Len(cut) >= 3 => RouteIn(S, cut[2], cut[3])
      BY <1>1, <1>2, <2>3, <2>6
    <3> QED  BY <3>1, <3>2 DEF TaggedRoute
  <2> QED  BY <1>3, <1>5, <2>4, <2>7
<1> QED  BY <1>4, <1>5

-----------------------------------------------------------------------------
(* The file that is read: whose lines they are, ...                        *)
From == IF tear = "none" THEN {new} ELSE {old, new}

(* ... and what each is worth.  The column titles of the clients have as   *)
(* many fields as a client's row: they stand on the third line, after the  *)
(* one that says when the file was written, of every file of sections.     *)
TaggedFile ==
    \A n \in 1 .. Len(text) :
        /\ TaggedWords(text[n])
        /\ LinesOnly \/ tear \in {"start", "header"} => TaggedRoute(From, text[n])
        /\ LinesOnly \/ tear = "start" => TaggedSession(From, text[n])

SectionedFile ==
    /\ \A n \in 1 .. Len(text) : SectionWords(text[n])
    /\ LinesOnly \/ tear = "end" =>
           /\ \A n \in 1 .. Len(text) : n # 3 => SectionRow(From, text[n])
           /\ Len(text) >= 3 => text[2] = <<"Updated", Other>>

FileInv ==
    /\ old \in Servers /\ new \in Servers
    /\ tear \in {"none", "lines", "end", "start", "header"}
    /\ text \in Seq(Line)
    /\ HasTags(text) => TaggedFile
    /\ ~HasTags(text) => SectionedFile

WholeText == tear = "none" => text = IF HasTags(text) THEN Version2(new) ELSE Version1(new)

LEMMA FirstLines ==
    ASSUME NEW s \in Servers
    PROVE  /\ Version1(s) \in Seq(Line) /\ Len(Version1(s)) \in Nat /\ 3 =< Len(Version1(s))
           /\ DOMAIN Version1(s) = 1 .. Len(Version1(s))
           /\ Version1(s)[2] = <<"Updated", Other>>
           /\ Version2(s) \in Seq(Line) /\ Len(Version2(s)) \in Nat /\ 2 =< Len(Version2(s))
           /\ DOMAIN Version2(s) = 1 .. Len(Version2(s))
           /\ Version2(s)[1] = <<"TITLE", Other>>
<1>1. /\ Version1(s) \in Seq(Line) /\ Len(Version1(s)) \in Nat /\ 3 =< Len(Version1(s))
      /\ Version1(s)[2] = <<"Updated", Other>>
  <2>1. PICK a, b : a = Len(Connected(s)) /\ b = Len(Routed(s))
    OBVIOUS
  <2>2. IsVersion1(s, Version1(s), a, b)
    BY <2>1, Version1Is
  <2>3. Len(Version1(s)) = 8 + a + b /\ a \in Nat /\ b \in Nat
    BY <2>2 DEF IsVersion1
  <2>4. Len(Version1(s)) \in Nat /\ 3 =< Len(Version1(s))
    BY <2>3
  <2> QED  BY <2>2, <2>4 DEF IsVersion1
<1>2. /\ Version2(s) \in Seq(Line) /\ Len(Version2(s)) \in Nat /\ 2 =< Len(Version2(s))
      /\ Version2(s)[1] = <<"TITLE", Other>>
  BY Version2Is DEF IsVersion2
<1>3. DOMAIN Version1(s) = 1 .. Len(Version1(s)) /\ DOMAIN Version2(s) = 1 .. Len(Version2(s))
  BY <1>1, <1>2, LenProperties
<1> QED  BY <1>1, <1>2, <1>3

LEMMA InitFromVersion1 ==
    ASSUME ParseInit, NEW reading \in Readings(Version1(old), Version1(new), 3),
           tear = reading[1], text = reading[2]
    PROVE  FileInv /\ WholeText
<1>1. old \in Servers /\ new \in Servers
  BY DEF ParseInit
<1>2. PICK A, B : A = Version1(new) /\ B = Version1(old)
  OBVIOUS
<1>3. /\ A \in Seq(Line) /\ Len(A) \in Nat /\ 3 =< Len(A) /\ DOMAIN A = 1 .. Len(A)
      /\ A[2] = <<"Updated", Other>>
  BY <1>1, <1>2, FirstLines
<1>4. /\ B \in Seq(Line) /\ Len(B) \in Nat /\ 3 =< Len(B) /\ DOMAIN B = 1 .. Len(B)
      /\ B[2] = <<"Updated", Other>>
  BY <1>1, <1>2, FirstLines
<1>5. IsRead(tear, text, B, A, 3)
  BY <1>2, <1>3, <1>4, ReadLines
<1>6. Len(text) \in Nat /\ text \in Seq(Line)
  BY <1>5, LenProperties DEF IsRead
<1>7. \A n \in DOMAIN A : /\ A[n] \in Line /\ Len(A[n]) \in Nat /\ Untagged(A[n]) /\ SectionWords(A[n])
                          /\ n # 3 => SectionRow({new}, A[n])
  BY <1>1, <1>2, <1>3, Version1Lines
<1>8. \A n \in DOMAIN B : /\ B[n] \in Line /\ Len(B[n]) \in Nat /\ Untagged(B[n]) /\ SectionWords(B[n])
                          /\ n # 3 => SectionRow({old}, B[n])
  BY <1>1, <1>2, <1>4, Version1Lines
<1>9. new \in From /\ (tear # "none" => old \in From)
  BY DEF From
<1>10. ASSUME NEW n \in 1 .. Len(text)
       PROVE  /\ Untagged(text[n]) /\ SectionWords(text[n])
              /\ tear \in {"none", "lines", "end"} /\ n # 3 => SectionRow(From, text[n])
              /\ n = 2 /\ Len(text) >= 3 => text[2] = <<"Updated", Other>>
  <2>1. CASE n \in DOMAIN A /\ text[n] = A[n]
    BY <1>3, <1>7, <1>9, <2>1, OfMoreServers
  <2>2. CASE /\ tear \in {"lines", "start", "header"}
             /\ \E m \in DOMAIN B : text[n] = B[m] /\ (m = n \/ (m > 3 /\ n > 3))
    <3>1. PICK m \in DOMAIN B : text[n] = B[m] /\ (m = n \/ (m > 3 /\ n > 3))
      BY <2>2
    <3>2. n # 3 => m # 3
      BY <3>1
    <3>3. n = 2 => m = 2
      BY <3>1
    <3>4. old \in From
      BY <1>9, <2>2
    <3> QED  BY <1>4, <1>8, <3>1, <3>2, <3>3, <3>4, OfMoreServers
  <2>3. CASE tear = "end" /\ n = Len(text) /\ n \in DOMAIN A /\ text[n] \in CutEnds(A[n])
    <3>1. A[n] \in Line /\ Untagged(A[n]) /\ SectionWords(A[n]) /\ (n # 3 => SectionRow(From, A[n]))
      BY <1>7, <1>9, <2>3, OfMoreServers
    <3>2. Untagged(text[n]) /\ SectionWords(text[n]) /\ (n # 3 => SectionRow(From, text[n]))
      BY <2>3, <3>1, CutRow
    <3> QED  BY <1>6, <2>3, <3>2
  <2>4. CASE /\ tear \in {"start", "header"} /\ n > 3
             /\ \E k \in DOMAIN B : k > 3 /\ text[n] \in CutStarts(B[k])
    BY <1>8, <2>4, CutOffRow
  <2> QED  BY <1>5, <2>1, <2>2, <2>3, <2>4 DEF IsRead
<1>11. ~HasTags(text)
  <2>1. ASSUME NEW n \in DOMAIN text, text[n][1] \in {"TITLE", "HEADER", "CLIENT_LIST", "ROUTING_TABLE"}
        PROVE  FALSE
    <3>1. n \in 1 .. Len(text) /\ text[n] \in Line
      BY <1>6, LenProperties, ElementOfSeq
    <3>2. Untagged(text[n])
      BY <1>10, <3>1
    <3>3. text[n][1] \notin Tags
      BY <3>1, <3>2, LenProperties DEF Untagged, Line
    <3> QED  BY <2>1, <3>3 DEF Tags
  <2> QED  BY <2>1 DEF HasTags
<1>12. SectionedFile
  <2>1. LinesOnly \/ tear = "end" => tear \in {"none", "lines", "end"}
    BY DEF LinesOnly
  <2>2. Len(text) >= 3 => 2 \in 1 .. Len(text)
    BY <1>6
  <2> QED  BY <1>10, <2>1, <2>2 DEF SectionedFile
<1>13. WholeText
  BY <1>2, <1>5, <1>11 DEF WholeText, IsRead
<1> QED  BY <1>1, <1>5, <1>6, <1>11, <1>12, <1>13 DEF FileInv, IsRead

LEMMA ShortLine ==
    ASSUME NEW line, Len(line) \in 1 .. 2, NEW S
    PROVE  SectionWords(line) /\ SectionRow(S, line)
<1>1. PICK len : len = Len(line)
  OBVIOUS
<1>2. len \in 1 .. 2
  BY <1>1
<1>3. ~(len >= 4) /\ ~(len >= 5)
  BY <1>2
<1>4. ~(Len(line) >= 4) /\ ~(Len(line) >= 5)
  BY <1>1, <1>3, Zenon
<1> QED  BY <1>4, Zenon DEF SectionWords, SectionRow

LEMMA OneLine ==
    ASSUME NEW lines, Len(lines) = 1
    PROVE  ~(Len(lines) >= 3) /\ \A n \in 1 .. Len(lines) : n = 1
<1>1. PICK len : len = Len(lines)
  OBVIOUS
<1>2. len = 1
  BY <1>1
<1>3. ~(len >= 3)
  BY <1>2
<1>4. ~(Len(lines) >= 3)
  BY <1>1, <1>3, Zenon
<1> QED  BY <1>4

(* A version 2 file that is cut within its first line may look like a file *)
(* of sections, but has not much in it.                                    *)
LEMMA InitFromVersion2 ==
    ASSUME ParseInit, NEW reading \in Readings(Version2(old), Version2(new), 2),
           tear = reading[1], text = reading[2]
    PROVE  FileInv /\ WholeText
<1>1. old \in Servers /\ new \in Servers
  BY DEF ParseInit
<1>2. PICK A, B : A = Version2(new) /\ B = Version2(old)
  OBVIOUS
<1>3. /\ A \in Seq(Line) /\ Len(A) \in Nat /\ 2 =< Len(A) /\ DOMAIN A = 1 .. Len(A)
      /\ A[1] = <<"TITLE", Other>>
  BY <1>1, <1>2, FirstLines
<1>4. /\ B \in Seq(Line) /\ Len(B) \in Nat /\ 2 =< Len(B) /\ DOMAIN B = 1 .. Len(B)
      /\ B[1] = <<"TITLE", Other>>
  BY <1>1, <1>2, FirstLines
<1>5. IsRead(tear, text, B, A, 2)
  BY <1>2, <1>3, <1>4, ReadLines
<1>6. Len(text) \in Nat /\ text \in Seq(Line) /\ DOMAIN text = 1 .. Len(text)
  BY <1>5, LenProperties DEF IsRead
<1>7. \A n \in DOMAIN A : /\ A[n] \in Line /\ TitlesAfterTags(A[n]) /\ TaggedWords(A[n])
                          /\ TaggedRoute({new}, A[n]) /\ TaggedSession({new}, A[n])
  BY <1>1, <1>2, <1>3, Version2Lines
<1>8. \A n \in DOMAIN B : /\ B[n] \in Line /\ TitlesAfterTags(B[n]) /\ TaggedWords(B[n])
                          /\ TaggedRoute({old}, B[n]) /\ TaggedSession({old}, B[n])
  BY <1>1, <1>2, <1>4, Version2Lines
<1>9. new \in From /\ (tear # "none" => old \in From)
  BY DEF From
<1>10. ASSUME NEW n \in 1 .. Len(text)
       PROVE  /\ TaggedWords(text[n])
              /\ tear \in {"none", "lines", "start", "header"} => TaggedRoute(From, text[n])
              /\ tear \in {"none", "lines", "start"} => TaggedSession(From, text[n])
  <2>1. CASE n \in DOMAIN A /\ text[n] = A[n]
    BY <1>7, <1>9, <2>1, OfMoreServers
  <2>2. CASE /\ tear \in {"lines", "start", "header"}
             /\ \E m \in DOMAIN B : text[n] = B[m] /\ (m = n \/ (m > 2 /\ n > 2))
    <3>1. PICK m \in DOMAIN B : text[n] = B[m]
      BY <2>2
    <3>2. old \in From
      BY <1>9, <2>2
    <3> QED  BY <1>8, <3>1, <3>2, OfMoreServers
  <2>3. CASE tear = "end" /\ n = Len(text) /\ n \in DOMAIN A /\ text[n] \in CutEnds(A[n])
    BY <1>7, <2>3, CutTaggedRow
  <2>4. CASE /\ tear \in {"start", "header"} /\ n > 2
             /\ \E k \in DOMAIN B : k > 2 /\ text[n] \in CutStarts(B[k])
             /\ tear = "header" <=> text[n][1] \in Tags
    <3>1. PICK k \in DOMAIN B : text[n] \in CutStarts(B[k])
      BY <2>4
    <3>2. B[k] \in Line /\ TitlesAfterTags(B[k])
      BY <1>8
    <3> QED  BY <2>4, <3>1, <3>2, CutOffTaggedRow
  <2> QED  BY <1>5, <2>1, <2>2, <2>3, <2>4 DEF IsRead
<1>11. TaggedFile
  <2>1. /\ LinesOnly \/ tear \in {"start", "header"} => tear \in {"none", "lines", "start", "header"}
        /\ LinesOnly \/ tear = "start" => tear \in {"none", "lines", "start"}
    BY DEF LinesOnly
  <2> QED  BY <1>10, <2>1 DEF TaggedFile
<1>12. ASSUME ~HasTags(text) PROVE SectionedFile
  <2>1. CASE Len(text) = 0
    BY <2>1 DEF SectionedFile
  <2>2. CASE Len(text) # 0
    <3>1. 1 \in 1 .. Len(text)
      BY <1>6, <2>2
    <3>2. text[1] # <<"TITLE", Other>>
      <4>1. text[1][1] # "TITLE"
        BY <1>6, <1>12, <3>1 DEF HasTags
      <4> QED  BY <4>1
    <3>3. Len(text) = 1 /\ text[1] \in CutEnds(A[1])
      <4>1. ~(1 > 2)
        OBVIOUS
      <4> QED  BY <1>3, <1>4, <1>5, <3>1, <3>2, <4>1 DEF IsRead
    <3>4. Len(text[1]) \in 1 .. 2
      <4>1. A[1] \in Line /\ Len(A[1]) = 2
        BY <1>3, <1>7
      <4> QED  BY <3>3, <4>1, CutEnd, TornIsAField DEF Line
    <3>5. SectionWords(text[1]) /\ SectionRow(From, text[1])
      BY <3>4, ShortLine
    <3>6. Len(text) = 1
      BY <3>3
    <3>7. \A n \in 1 .. Len(text) : n = 1
      BY <3>6, OneLine
    <3>8. ~(Len(text) >= 3)
      BY <3>6, OneLine
    <3> QED  BY <3>5, <3>7, <3>8, Zenon DEF SectionedFile
  <2> QED  BY <2>1, <2>2
<1>13. WholeText
  <2>1. SUFFICES ASSUME tear = "none" PROVE HasTags(text) /\ text = Version2(new)
    BY DEF WholeText
  <2>2. text = A
    BY <1>5, <2>1 DEF IsRead
  <2>3. 1 \in DOMAIN text /\ text[1][1] = "TITLE"
    BY <1>3, <2>2
  <2> QED  BY <1>2, <2>2, <2>3 DEF HasTags
<1> QED  BY <1>1, <1>5, <1>6, <1>11, <1>12, <1>13 DEF FileInv, IsRead

LEMMA InitFile == ParseInit => FileInv /\ WholeText
<1> SUFFICES ASSUME ParseInit PROVE FileInv /\ WholeText
  OBVIOUS
<1>1. PICK reading \in Readings(Version1(old), Version1(new), 3) \cup Readings(Version2(old), Version2(new), 2) :
          tear = reading[1] /\ text = reading[2]
  BY DEF ParseInit
<1> QED  BY <1>1, InitFromVersion1, InitFromVersion2

-----------------------------------------------------------------------------
(* What a line does to the snapshot.                                       *)
Sessions0 == [common_name : Words \cup {None}, virtual_address : Words \cup {None}]

Snapshots ==
    [section : {"", "clients", "routes"}, expect_header : BOOLEAN,
     routes : [Words -> Words \cup {None}], order : Seq(Words), clients : Seq(Sessions0)]

Ordered(s) == \A k \in DOMAIN s.order : s.routes[s.order[k]] # None

Listed(s) == \A w \in Words : s.routes[w] # None => \E k \in DOMAIN s.order : s.order[k] = w

RoutesIn(S, s) == \A w \in Words : RouteIn(S, w, s.routes[w])

LEMMA Appended ==
    ASSUME NEW S, NEW q \in Seq(S), NEW e \in S, NEW r, r = Append(q, e)
    PROVE  /\ r \in Seq(S)
           /\ \A k \in DOMAIN r : r[k] = e \/ (k \in DOMAIN q /\ r[k] = q[k])
           /\ \A k \in DOMAIN q : k \in DOMAIN r /\ r[k] = q[k]
           /\ \E k \in DOMAIN r : r[k] = e
<1>1. /\ r \in Seq(S) /\ Len(r) = Len(q) + 1
      /\ \A i \in 1 .. Len(q) : r[i] = q[i]
      /\ r[Len(q) + 1] = e
  BY AppendProperties
<1>2. Len(q) \in Nat /\ DOMAIN q = 1 .. Len(q) /\ DOMAIN r = 1 .. Len(r)
  BY <1>1, LenProperties
<1>3. \A k \in DOMAIN r : k \in DOMAIN q \/ k = Len(q) + 1
  BY <1>1, <1>2
<1>4. Len(q) + 1 \in DOMAIN r /\ \A k \in DOMAIN q : k \in DOMAIN r
  BY <1>1, <1>2
<1> QED  BY <1>1, <1>2, <1>3, <1>4

IsRouted(t, s, a, c) ==
    /\ t \in Snapshots
    /\ t.section = s.section /\ t.expect_header = s.expect_header /\ t.clients = s.clients
    /\ Ordered(s) => Ordered(t)
    /\ Listed(s) => Listed(t)
    /\ \A w \in Words : t.routes[w] = IF w = a /\ c # None THEN c ELSE s.routes[w]
    /\ \A S : RoutesIn(S, s) /\ RouteIn(S, a, c) => RoutesIn(S, t)

LEMMA AddRouteIs ==
    ASSUME NEW s \in Snapshots, NEW a \in Words \cup {None}, NEW c \in Words \cup {None},
           NEW t, t = AddRoute(s, a, c)
    PROVE  IsRouted(t, s, a, c)
<1> USE DEF Snapshots
<1>1. CASE a = None \/ c = None
  <2>1. t = s
    BY <1>1 DEF AddRoute
  <2> QED  BY <1>1, <2>1, WordsAssumption DEF IsRouted
<1>2. CASE ~(a = None \/ c = None)
  <2>1. PICK order : order = IF s.routes[a] = None THEN Append(s.order, a) ELSE s.order
    OBVIOUS
  <2>2. t = [s EXCEPT !.routes[a] = c, !.order = order]
    BY <1>2, <2>1 DEF AddRoute
  <2>3. a \in Words /\ c \in Words
    BY <1>2
  <2>4. s.order \in Seq(Words)
    OBVIOUS
  <2>5. /\ order \in Seq(Words)
        /\ \A k \in DOMAIN order : order[k] = a \/ \E j \in DOMAIN s.order : order[k] = s.order[j]
        /\ \A k \in DOMAIN s.order : k \in DOMAIN order /\ order[k] = s.order[k]
        /\ s.routes[a] = None => \E k \in DOMAIN order : order[k] = a
    <3>1. CASE s.routes[a] = None
      <4>1. order = Append(s.order, a)
        BY <2>1, <3>1
      <4>2. a \in Words
        BY <2>3
      <4>3. /\ order \in Seq(Words)
            /\ \A k \in DOMAIN order : order[k] = a \/ (k \in DOMAIN s.order /\ order[k] = s.order[k])
            /\ \A k \in DOMAIN s.order : k \in DOMAIN order /\ order[k] = s.order[k]
            /\ \E k \in DOMAIN order : order[k] = a
        <5>1. PICK q : q = s.order
          OBVIOUS
        <5>2. q \in Seq(Words) /\ order = Append(q, a)
          BY <2>4, <4>1, <5>1
        <5>3. /\ order \in Seq(Words)
              /\ \A k \in DOMAIN order : order[k] = a \/ (k \in DOMAIN q /\ order[k] = q[k])
              /\ \A k \in DOMAIN q : k \in DOMAIN order /\ order[k] = q[k]
              /\ \E k \in DOMAIN order : order[k] = a
          <6> HIDE DEF Snapshots
          <6> QED  BY <4>2, <5>2, Appended
        <5> QED  BY <5>1, <5>3
      <4> QED  BY <4>3
    <3>2. CASE s.routes[a] # None
      BY <2>1, <2>4, <3>2
    <3> QED  BY <3>1, <3>2
  <2>6. /\ t.section = s.section /\ t.expect_header = s.expect_header /\ t.clients = s.clients
        /\ t.order = order /\ t.routes = [s.routes EXCEPT ![a] = c]
        /\ t \in Snapshots
    <3>1. PICK map : map = [s.routes EXCEPT ![a] = c]
      OBVIOUS
    <3>2. t = [s EXCEPT !.routes = map, !.order = order]
      BY <2>2, <3>1, Zenon
    <3>3. map \in [Words -> Words \cup {None}]
      BY <2>3, <3>1
    <3> QED  BY <2>5, <3>1, <3>2, <3>3
  <2>7. \A w \in Words : t.routes[w] = IF w = a /\ c # None THEN c ELSE s.routes[w]
    BY <1>2, <2>3, <2>6
  <2>8. ASSUME Ordered(s), NEW k \in DOMAIN order PROVE t.routes[order[k]] # None
    <3>1. order[k] \in Words
      BY <2>5, ElementOfSeq, LenProperties
    <3>2. order[k] = a \/ \E j \in DOMAIN s.order : order[k] = s.order[j]
      BY <2>5
    <3>3. \A j \in DOMAIN s.order : s.routes[s.order[j]] # None
      BY <2>8 DEF Ordered
    <3> HIDE DEF Snapshots
    <3> QED  BY <1>2, <2>7, <3>1, <3>2, <3>3
  <2>9. Ordered(s) => Ordered(t)
    BY <2>6, <2>8 DEF Ordered
  <2>10. \A S : RoutesIn(S, s) /\ RouteIn(S, a, c) => RoutesIn(S, t)
    BY <2>7 DEF RoutesIn
  <2>11. Listed(s) => Listed(t)
    <3>1. SUFFICES ASSUME Listed(s), NEW w \in Words, t.routes[w] # None
                   PROVE  \E k \in DOMAIN order : order[k] = w
      BY <2>6 DEF Listed
    <3>2. CASE s.routes[w] # None
      <4>1. PICK k \in DOMAIN s.order : s.order[k] = w
        BY <3>1, <3>2 DEF Listed
      <4> HIDE DEF Snapshots
      <4> QED  BY <2>5, <4>1
    <3>3. CASE s.routes[w] = None
      <4>1. w = a
        BY <2>7, <3>1, <3>3
      <4> QED  BY <2>5, <3>3, <4>1
    <3> QED  BY <3>2, <3>3
  <2> QED  BY <2>6, <2>7, <2>9, <2>10, <2>11 DEF IsRouted
<1> QED  BY <1>1, <1>2

LEMMA AddSessionIs ==
    ASSUME NEW s \in Snapshots, NEW a \in Words \cup {None}, NEW c \in Words \cup {None},
           NEW t, t = AddSession(s, c, a)
    PROVE  /\ t \in Snapshots
           /\ t.section = s.section /\ t.expect_header = s.expect_header
           /\ t.routes = s.routes /\ t.order = s.order
           /\ t.clients = Append(s.clients, [common_name |-> c, virtual_address |-> a])
<1>1. [common_name |-> c, virtual_address |-> a] \in Sessions0
  BY DEF Sessions0
<1>2. s.clients \in Seq(Sessions0)
  BY DEF Snapshots
<1>3. PICK q : q = Append(s.clients, [common_name |-> c, virtual_address |-> a])
  OBVIOUS
<1>4. q \in Seq(Sessions0)
  BY <1>1, <1>2, <1>3, AppendProperties
<1>5. t = [s EXCEPT !.clients = q]
  BY <1>3 DEF AddSession
<1> QED  BY <1>3, <1>4, <1>5 DEF Snapshots

IsSessionRow(line) == line[1] = "CLIENT_LIST" /\ Field(line, 2) # None

SessionOf(line) == [common_name |-> line[2], virtual_address |-> Field(line, 4)]

LEMMA TaggedStep ==
    ASSUME NEW s \in Snapshots, NEW line \in Line, TaggedWords(line), NEW t, t = Tagged(s, line)
    PROVE  /\ t \in Snapshots
           /\ Ordered(s) => Ordered(t)
           /\ \A S : RoutesIn(S, s) /\ TaggedRoute(S, line) => RoutesIn(S, t)
           /\ \A w \in Words : s.routes[w] # None => t.routes[w] # None
           /\ IsSessionRow(line) =>
                  /\ t.clients = Append(s.clients, SessionOf(line))
                  /\ SessionOf(line) \in Sessions0
                  /\ Field(line, 4) # None => t.routes[Field(line, 4)] # None
           /\ ~IsSessionRow(line) => t.clients = s.clients
<1>0. DOMAIN line = 1 .. Len(line) /\ Len(line) \in Nat
  BY LenProperties DEF Line
<1>1. CASE IsSessionRow(line)
  <2>1. PICK c, a : c = line[2] /\ a = Field(line, 4)
    OBVIOUS
  <2>2. line[1] = "CLIENT_LIST" /\ Field(line, 2) = c /\ c # None /\ 2 \in DOMAIN line
    BY <1>1, <2>1 DEF IsSessionRow, Field
  <2>3. c \in Words \cup {None} /\ a \in Words \cup {None}
    <3>1. \A k \in 2 .. Len(line) : line[k] \in Words \cup {None}
      BY <2>2 DEF TaggedWords
    <3>2. c \in Words \cup {None}
      BY <1>0, <2>1, <2>2, <3>1
    <3>3. a \in Words \cup {None}
      BY <1>0, <2>1, <3>1 DEF Field
    <3> QED  BY <3>2, <3>3
  <2>4. PICK u : u = AddSession(s, c, a)
    OBVIOUS
  <2>5. t = AddRoute(u, a, c)
    BY <1>1, <2>1, <2>2, <2>4 DEF Tagged, TaggedClient
  <2>6. /\ u \in Snapshots /\ u.routes = s.routes /\ u.order = s.order
        /\ u.clients = Append(s.clients, [common_name |-> c, virtual_address |-> a])
    BY <2>3, <2>4, AddSessionIs
  <2>7. /\ t \in Snapshots /\ t.clients = u.clients
        /\ Ordered(u) => Ordered(t)
        /\ \A w \in Words : t.routes[w] = IF w = a /\ c # None THEN c ELSE u.routes[w]
        /\ \A S : RoutesIn(S, u) /\ RouteIn(S, a, c) => RoutesIn(S, t)
    <3>1. u \in Snapshots
      BY <2>6
    <3>2. IsRouted(t, u, a, c)
      BY <2>3, <2>5, <3>1, AddRouteIs
    <3> QED  BY <3>2 DEF IsRouted
  <2>8. Ordered(s) => Ordered(t)
    BY <2>6, <2>7 DEF Ordered
  <2>9. \A S : RoutesIn(S, s) /\ TaggedRoute(S, line) => RoutesIn(S, t)
    BY <2>1, <2>2, <2>6, <2>7 DEF RoutesIn, TaggedRoute
  <2>10. \A w \in Words : s.routes[w] # None => t.routes[w] # None
    BY <2>2, <2>6, <2>7
  <2>11. t.clients = Append(s.clients, SessionOf(line)) /\ SessionOf(line) \in Sessions0
    BY <2>1, <2>3, <2>6, <2>7 DEF SessionOf, Sessions0
  <2>12. a # None => t.routes[a] # None
    BY <2>2, <2>3, <2>7
  <2> QED  BY <1>1, <2>1, <2>7, <2>8, <2>9, <2>10, <2>11, <2>12
<1>2. CASE line[1] = "ROUTING_TABLE" /\ Len(line) >= 3
  <2>1. t = AddRoute(s, line[2], line[3])
    BY <1>2 DEF Tagged
  <2>2. 2 \in 2 .. Len(line) /\ 3 \in 2 .. Len(line)
    BY <1>0, <1>2
  <2>3. line[2] \in Words \cup {None} /\ line[3] \in Words \cup {None}
    BY <1>2, <2>2 DEF TaggedWords
  <2>4. PICK a, c : a = line[2] /\ c = line[3]
    OBVIOUS
  <2>5. /\ t \in Snapshots /\ t.clients = s.clients
        /\ Ordered(s) => Ordered(t)
        /\ \A w \in Words : t.routes[w] = IF w = a /\ c # None THEN c ELSE s.routes[w]
        /\ \A S : RoutesIn(S, s) /\ RouteIn(S, a, c) => RoutesIn(S, t)
    <3>1. a \in Words \cup {None} /\ c \in Words \cup {None} /\ t = AddRoute(s, a, c)
      BY <2>1, <2>3, <2>4
    <3>2. IsRouted(t, s, a, c)
      BY <3>1, AddRouteIs
    <3> QED  BY <3>2 DEF IsRouted
  <2>6. \A S : RoutesIn(S, s) /\ TaggedRoute(S, line) => RoutesIn(S, t)
    BY <1>2, <2>4, <2>5 DEF TaggedRoute
  <2>7. ~IsSessionRow(line)
    BY <1>2 DEF IsSessionRow
  <2>8. \A w \in Words : s.routes[w] # None => t.routes[w] # None
    BY <2>5
  <2> QED  BY <2>5, <2>6, <2>7, <2>8
<1>3. CASE ~IsSessionRow(line) /\ ~(line[1] = "ROUTING_TABLE" /\ Len(line) >= 3)
  <2>1. t = s
    <3>1. CASE line[1] = "CLIENT_LIST"
      <4>1. Field(line, 2) = None
        BY <1>3, <3>1 DEF IsSessionRow
      <4> QED  BY <3>1, <4>1 DEF Tagged, TaggedClient
    <3>2. CASE line[1] # "CLIENT_LIST"
      BY <1>3, <3>2 DEF Tagged
    <3> QED  BY <3>1, <3>2
  <2> QED  BY <1>3, <2>1
<1> QED  BY <1>1, <1>2, <1>3

LEMMA SectionedStep ==
    ASSUME NEW s \in Snapshots, NEW line \in Line, SectionWords(line), NEW t, t = Sectioned(s, line)
    PROVE  /\ t \in Snapshots
           /\ Ordered(s) => Ordered(t)
           /\ \A S : RoutesIn(S, s) /\ (s.expect_header \/ SectionRow(S, line)) => RoutesIn(S, t)
           /\ \/ t.clients = s.clients
              \/ /\ ~s.expect_header /\ Len(line) >= 5
                 /\ line[1] \in Words \cup {None}
                 /\ t.clients = Append(s.clients, [common_name |-> line[1], virtual_address |-> None])
           /\ line = <<"Updated", Other>> => t.expect_header
<1>0. Len(line) \in Nat
  BY LenProperties DEF Line
<1>t. line = <<"Updated", Other>> => IsTitle(line)
  <2>1. \A x : <<"Updated", x>>[1] = "Updated" /\ Len(<<"Updated", x>>) > 1
    OBVIOUS
  <2> QED  BY <2>1, Zenon DEF IsTitle
<1>b. Blank(line) => ~IsTitle(line)
  <2>1. ASSUME line = <<None>> PROVE line[1] = None
    BY <2>1
  <2>2. None \notin {"OpenVPN CLIENT LIST", "Updated", "ROUTING TABLE", "GLOBAL STATS"}
    BY WordsAssumption DEF Titles
  <2>3. \A x : <<x>>[1] = x
    OBVIOUS
  <2> QED  BY <2>1, <2>2, <2>3 DEF Blank, IsTitle
<1>1. CASE Blank(line)
  <2>1. t = s
    BY <1>1, <1>b DEF Sectioned
  <2>2. line # <<"Updated", Other>>
    BY <1>1, <1>b, <1>t
  <2> QED  BY <2>1, <2>2
<1>2. CASE ~Blank(line) /\ IsTitle(line)
  <2>1. t = SectionTitle(s, line)
    BY <1>2 DEF Sectioned
  <2>2. /\ t \in Snapshots /\ t.routes = s.routes /\ t.order = s.order /\ t.clients = s.clients
        /\ line = <<"Updated", Other>> => t.expect_header
    <3>1. CASE line = <<"OpenVPN CLIENT LIST">>
      BY <2>1, <3>1 DEF SectionTitle, Snapshots
    <3>2. CASE line = <<"ROUTING TABLE">>
      BY <2>1, <3>2 DEF SectionTitle, Snapshots
    <3>3. CASE line = <<"GLOBAL STATS">>
      BY <2>1, <3>3 DEF SectionTitle, Snapshots
    <3>4. CASE line \notin {<<"OpenVPN CLIENT LIST">>, <<"ROUTING TABLE">>, <<"GLOBAL STATS">>}
      BY <2>1, <3>4 DEF SectionTitle, Snapshots
    <3> QED  BY <3>1, <3>2, <3>3, <3>4
  <2> QED  BY <2>2 DEF Ordered, RoutesIn
<1>3. CASE ~Blank(line) /\ ~IsTitle(line) /\ s.expect_header
  <2>1. t = [s EXCEPT !.expect_header = FALSE]
    BY <1>3 DEF Sectioned
  <2>2. line # <<"Updated", Other>>
    BY <1>3, <1>t
  <2> QED  BY <2>1, <2>2 DEF Snapshots, Ordered, RoutesIn
<1>4. CASE ~Blank(line) /\ ~IsTitle(line) /\ ~s.expect_header
  <2>0. line # <<"Updated", Other>>
    BY <1>4, <1>t
  <2>1. t = IF IsClientRow(s, line) THEN AddSession(s, line[1], None)
            ELSE IF IsRouteRow(s, line) THEN AddRoute(s, line[1], line[2])
            ELSE s
    BY <1>4 DEF Sectioned
  <2>2. CASE IsClientRow(s, line)
    <3>1. Len(line) >= 5 /\ Len(line) >= 4 /\ 1 \in 1 .. Len(line)
      BY <1>0, <2>2 DEF IsClientRow
    <3>2. line[1] \in Words \cup {None}
      BY <3>1 DEF SectionWords
    <3>3. PICK c : c = line[1]
      OBVIOUS
    <3>4. /\ t \in Snapshots /\ t.routes = s.routes /\ t.order = s.order
          /\ t.clients = Append(s.clients, [common_name |-> c, virtual_address |-> None])
      <4>1. c \in Words \cup {None} /\ None \in Words \cup {None} /\ t = AddSession(s, c, None)
        BY <2>1, <2>2, <3>2, <3>3
      <4> QED  BY <4>1, AddSessionIs
    <3> QED  BY <1>4, <2>0, <3>1, <3>2, <3>3, <3>4 DEF Ordered, RoutesIn
  <2>3. CASE ~IsClientRow(s, line) /\ IsRouteRow(s, line)
    <3>1. Len(line) >= 4 /\ 1 \in 1 .. Len(line) /\ 2 \in 1 .. Len(line)
      BY <1>0, <2>3 DEF IsRouteRow
    <3>2. line[1] \in Words \cup {None} /\ line[2] \in Words \cup {None}
      BY <3>1 DEF SectionWords
    <3>3. PICK a, c : a = line[1] /\ c = line[2]
      OBVIOUS
    <3>4. /\ t \in Snapshots /\ t.clients = s.clients
          /\ Ordered(s) => Ordered(t)
          /\ \A S : RoutesIn(S, s) /\ RouteIn(S, a, c) => RoutesIn(S, t)
      <4>1. a \in Words \cup {None} /\ c \in Words \cup {None} /\ t = AddRoute(s, a, c)
        BY <2>1, <2>3, <3>2, <3>3
      <4>2. IsRouted(t, s, a, c)
        BY <4>1, AddRouteIs
      <4> QED  BY <4>2 DEF IsRouted
    <3>5. \A S : SectionRow(S, line) => RouteIn(S, a, c)
      BY <3>1, <3>3 DEF SectionRow
    <3> QED  BY <1>4, <2>0, <3>4, <3>5
  <2>4. CASE ~IsClientRow(s, line) /\ ~IsRouteRow(s, line)
    BY <1>4, <2>0, <2>1, <2>4
  <2> QED  BY <2>2, <2>3, <2>4
<1> QED  BY <1>1, <1>2, <1>3, <1>4

-----------------------------------------------------------------------------
(* The inductive invariant.  Where only lines are mixed, and wherever the  *)
(* parser withstands a cut, whatever the snapshot holds is of a server the *)
(* file is from; and the column titles of the clients are passed over.     *)
SnapInv ==
    /\ LinesOnly \/ Withstood => RoutesIn(From, snap)
    /\ LinesOnly \/ (Withstood /\ tear # "header") =>
           \A n \in DOMAIN snap.clients :
               SessionIn(From, snap.clients[n].common_name, snap.clients[n].virtual_address)
    /\ ~HasTags(text) /\ (LinesOnly \/ tear = "end") /\ at = 2 /\ Len(text) >= 3 => snap.expect_header

PInv == FileInv /\ ParseTypeOK /\ SnapInv

LEMMA LeastIs ==
    ASSUME NEW T \in SUBSET Nat, T # {}
    PROVE  Min(T) \in T
<1>1. PICK x \in T : \A y \in T : <<y, x>> \notin OpToRel(<, Nat)
  BY NatLessThanWellFounded, WFMin
<1>2. \A y \in T : ~(y < x)
  BY <1>1 DEF OpToRel
<1>3. \A y \in T : x =< y
  BY <1>2
<1> QED  BY <1>3 DEF Min

(* What the end of _parse_v1 does to the snapshot.                         *)
IsBackfilled(t, s) ==
    /\ t \in Snapshots
    /\ t.routes = s.routes /\ t.order = s.order
    /\ DOMAIN t.clients = DOMAIN s.clients
    /\ \A n \in DOMAIN s.clients :
          /\ t.clients[n].common_name = s.clients[n].common_name
          /\ /\ \A m \in DOMAIN s.clients : s.clients[m].common_name = s.clients[n].common_name => m = n
             /\ Own(s, s.clients[n].common_name) # {}
             => \E k \in Own(s, s.clients[n].common_name) : t.clients[n].virtual_address = s.order[k]
          /\ \/ t.clients[n].virtual_address = s.clients[n].virtual_address
             \/ \E k \in Own(s, s.clients[n].common_name) : t.clients[n].virtual_address = s.order[k]

LEMMA BackfillIs ==
    ASSUME NEW s \in Snapshots, NEW t, t = Backfill(s)
    PROVE  IsBackfilled(t, s)
<1> DEFINE own(n) == Own(s, s.clients[n].common_name)
<1>0. PICK q, order : q = s.clients /\ order = s.order
  OBVIOUS
<1>1. q \in Seq(Sessions0) /\ order \in Seq(Words)
  BY <1>0 DEF Snapshots
<1>2. /\ \A n \in DOMAIN q : q[n] \in Sessions0
      /\ \A k \in DOMAIN order : order[k] \in Words /\ k \in Nat
      /\ Len(q) \in Nat /\ DOMAIN q = 1 .. Len(q)
  BY <1>1, LenProperties, ElementOfSeq
<1>3. ASSUME NEW n \in DOMAIN q, own(n) # {} PROVE Min(own(n)) \in own(n)
  <2>1. own(n) \subseteq Nat
    BY <1>0, <1>2 DEF Own
  <2> QED  BY <1>3, <2>1, LeastIs
<1>4. PICK r : r = [n \in DOMAIN q |->
          IF (\A m \in DOMAIN q : m > n => q[m].common_name # q[n].common_name) /\ own(n) # {}
          THEN [q[n] EXCEPT !.virtual_address = order[Min(own(n))]]
          ELSE q[n]]
  OBVIOUS
<1>5. t = [s EXCEPT !.clients = r]
  BY <1>0, <1>1, <1>4 DEF Backfill
<1>6. ASSUME NEW n \in DOMAIN q
      PROVE  /\ r[n] \in Sessions0
             /\ r[n].common_name = q[n].common_name
             /\ \/ r[n].virtual_address = q[n].virtual_address
                \/ \E k \in own(n) : r[n].virtual_address = order[k]
             /\ (\A m \in DOMAIN q : q[m].common_name = q[n].common_name => m = n) /\ own(n) # {}
                => \E k \in own(n) : r[n].virtual_address = order[k]
  <2>0. (\A m \in DOMAIN q : q[m].common_name = q[n].common_name => m = n) /\ own(n) # {}
        => r[n] = [q[n] EXCEPT !.virtual_address = order[Min(own(n))]]
    <3>1. ASSUME \A m \in DOMAIN q : q[m].common_name = q[n].common_name => m = n
          PROVE  \A m \in DOMAIN q : m > n => q[m].common_name # q[n].common_name
      BY <1>2, <3>1
    <3> QED  BY <1>4, <3>1
  <2>1. CASE ~(own(n) # {} /\ r[n] = [q[n] EXCEPT !.virtual_address = order[Min(own(n))]])
    <3>1. r[n] = q[n]
      BY <1>4, <2>1
    <3> QED  BY <1>2, <2>0, <2>1, <3>1
  <2>2. CASE own(n) # {} /\ r[n] = [q[n] EXCEPT !.virtual_address = order[Min(own(n))]]
    <3>1. PICK k \in own(n) : k = Min(own(n))
      BY <1>3, <2>2
    <3>2. order[k] \in Words
      BY <1>0, <1>2, <3>1 DEF Own
    <3>3. r[n] = [q[n] EXCEPT !.virtual_address = order[k]]
      BY <2>2, <3>1
    <3> HIDE DEF own
    <3> QED  BY <1>2, <3>1, <3>2, <3>3 DEF Sessions0
  <2> QED  BY <2>1, <2>2
<1>7. r \in Seq(Sessions0) /\ DOMAIN r = DOMAIN q
  <2>1. r \in [1 .. Len(q) -> Sessions0]
    BY <1>2, <1>4, <1>6
  <2> QED  BY <1>2, <2>1
<1>8. t \in Snapshots /\ t.routes = s.routes /\ t.order = s.order /\ t.clients = r
  BY <1>5, <1>7 DEF Snapshots
<1> QED  BY <1>0, <1>6, <1>7, <1>8 DEF IsBackfilled

LEMMA BackfillSound ==
    ASSUME NEW s \in Snapshots, NEW t, t = Backfill(s), NEW S, RoutesIn(S, s),
           \A n \in DOMAIN s.clients :
               SessionIn(S, s.clients[n].common_name, s.clients[n].virtual_address)
    PROVE  \A n \in DOMAIN t.clients :
               SessionIn(S, t.clients[n].common_name, t.clients[n].virtual_address)
<1>1. IsBackfilled(t, s)
  BY BackfillIs
<1>2. SUFFICES ASSUME NEW n \in DOMAIN s.clients
               PROVE  SessionIn(S, t.clients[n].common_name, t.clients[n].virtual_address)
  BY <1>1 DEF IsBackfilled
<1>3. PICK c, a, b : /\ c = s.clients[n].common_name
                     /\ a = s.clients[n].virtual_address
                     /\ b = t.clients[n].virtual_address
  OBVIOUS
<1>4. SessionIn(S, c, a) /\ t.clients[n].common_name = c
  BY <1>1, <1>3 DEF IsBackfilled
<1>5. b = a \/ \E k \in Own(s, c) : b = s.order[k]
  BY <1>1, <1>3 DEF IsBackfilled
<1>6. ASSUME NEW k \in Own(s, c), b = s.order[k] PROVE SessionIn(S, c, b)
  <2>1. k \in DOMAIN s.order /\ b # Net /\ s.routes[b] = c
    BY <1>6 DEF Own
  <2>2. b \in Words
    <3>1. PICK order : order = s.order
      OBVIOUS
    <3>2. order \in Seq(Words)
      BY <3>1 DEF Snapshots
    <3>3. order[k] \in Words
      BY <2>1, <3>1, <3>2, LenProperties, ElementOfSeq
    <3> QED  BY <1>6, <3>1, <3>3
  <2>3. c \in Names /\ (\E u \in S : u[c] # Absent)
    BY <1>4 DEF SessionIn
  <2>4. RouteIn(S, b, c) /\ b # None /\ c # None
    BY <2>1, <2>2, <2>3, WordsAreApart, WordsAssumption DEF RoutesIn
  <2>5. b \in Ips /\ \E u \in S : u[c] = b
    BY <2>1, <2>3, <2>4 DEF RouteIn
  <2> QED  BY <2>3, <2>5 DEF SessionIn
<1>7. SessionIn(S, c, b)
  BY <1>4, <1>5, <1>6
<1> QED  BY <1>3, <1>4, <1>7

-----------------------------------------------------------------------------
(* The clients are sessions of the servers S, in a snapshot.               *)
SessionsIn(S, s) ==
    \A n \in DOMAIN s.clients : SessionIn(S, s.clients[n].common_name, s.clients[n].virtual_address)

Named(s) == \A n \in DOMAIN s.clients : s.clients[n].common_name # None

LEMMA TypeIs ==
    ParseTypeOK <=> /\ tear \in {"none", "lines", "end", "start", "header"}
                    /\ at \in 0 .. Len(text)
                    /\ parsed \in BOOLEAN
                    /\ snap \in Snapshots /\ Ordered(snap)
                    /\ HasTags(text) => Named(snap)
BY DEF ParseTypeOK, Snapshots, Sessions0, Ordered, Named

LEMMA SameFile ==
    ASSUME FileInv, UNCHANGED <<old, new, tear, text>>
    PROVE  /\ FileInv'
           /\ From' = From /\ LinesOnly' = LinesOnly /\ Withstood' = Withstood
<1>1. From' = From /\ LinesOnly' = LinesOnly /\ Withstood' = Withstood
  BY DEF From, LinesOnly, Withstood
<1>2. TaggedFile => TaggedFile'
  BY <1>1 DEF TaggedFile
<1>3. SectionedFile => SectionedFile'
  BY <1>1 DEF SectionedFile
<1> QED  BY <1>1, <1>2, <1>3 DEF FileInv

(* One more session.                                                       *)
LEMMA OneMore ==
    ASSUME NEW s \in Snapshots, NEW t \in Snapshots, NEW e \in Sessions0,
           t.clients = Append(s.clients, e)
    PROVE  /\ Named(s) /\ e.common_name # None => Named(t)
           /\ \A S : SessionsIn(S, s) /\ SessionIn(S, e.common_name, e.virtual_address) => SessionsIn(S, t)
<1>1. PICK q, r : q = s.clients /\ r = t.clients
  OBVIOUS
<1>2. q \in Seq(Sessions0) /\ r = Append(q, e)
  BY <1>1 DEF Snapshots
<1>3. \A n \in DOMAIN r : r[n] = e \/ (n \in DOMAIN q /\ r[n] = q[n])
  BY <1>2, Appended
<1> QED  BY <1>1, <1>3 DEF Named, SessionsIn

LEMMA InitPInv == ParseInit => PInv
<1> SUFFICES ASSUME ParseInit PROVE PInv
  OBVIOUS
<1>1. FileInv
  BY InitFile
<1>2. Empty \in Snapshots /\ Ordered(Empty) /\ Named(Empty) /\ SessionsIn(From, Empty)
  BY DEF Empty, Snapshots, Ordered, Named, SessionsIn
<1>3. RoutesIn(From, Empty)
  BY DEF Empty, RoutesIn, RouteIn
<1>4. snap = Empty /\ at = 0 /\ parsed = FALSE
  BY DEF ParseInit
<1>5. Len(text) \in Nat
  BY <1>1, LenProperties DEF FileInv
<1>6. ParseTypeOK
  <2>0. PICK len : len = Len(text)
    OBVIOUS
  <2>1. /\ tear \in {"none", "lines", "end", "start", "header"}
        /\ at \in 0 .. Len(text) /\ parsed \in BOOLEAN
    <3>1. at \in 0 .. len
      BY <1>4, <1>5, <2>0
    <3>2. parsed \in BOOLEAN
      BY <1>4
    <3>3. tear \in {"none", "lines", "end", "start", "header"}
      BY <1>1 DEF FileInv
    <3> QED  BY <2>0, <3>1, <3>2, <3>3, Zenon
  <2>2. snap \in Snapshots /\ Ordered(snap) /\ Named(snap)
    BY <1>2, <1>4
  <2> QED  BY <2>1, <2>2, TypeIs, Zenon
<1>7. SnapInv
  BY <1>2, <1>3, <1>4 DEF SnapInv, SessionsIn
<1> QED  BY <1>1, <1>6, <1>7 DEF PInv

LEMMA TaggedPInv ==
    ASSUME PInv, ParseTagged
    PROVE  PInv'
<1>0. /\ FileInv' /\ From' = From /\ LinesOnly' = LinesOnly /\ Withstood' = Withstood
      /\ HasTags(text) /\ text' = text /\ tear' = tear /\ parsed' = parsed /\ at' = at + 1
  BY SameFile DEF ParseTagged, PInv
<1>1. PICK line : line = text[at + 1]
  OBVIOUS
<1>2. /\ Len(text) \in Nat /\ at + 1 \in 1 .. Len(text) /\ line \in Line
      /\ at' \in 0 .. Len(text)
  <2>1. text \in Seq(Line) /\ at \in 0 .. Len(text) /\ at < Len(text)
    BY DEF ParseTagged, PInv, FileInv, ParseTypeOK
  <2>2. Len(text) \in Nat
    BY <2>1, LenProperties
  <2>3. PICK len : len = Len(text)
    OBVIOUS
  <2>4. at \in Nat /\ at + 1 \in 1 .. len /\ at + 1 \in 0 .. len
    BY <2>1, <2>2, <2>3
  <2>5. text[at + 1] \in Line
    BY <2>1, <2>3, <2>4, ElementOfSeq
  <2> QED  BY <1>0, <1>1, <2>2, <2>3, <2>4, <2>5
<1>3. /\ TaggedWords(line)
      /\ LinesOnly \/ tear \in {"start", "header"} => TaggedRoute(From, line)
      /\ LinesOnly \/ tear = "start" => TaggedSession(From, line)
  BY <1>0, <1>1, <1>2 DEF PInv, FileInv, TaggedFile
<1>4. snap \in Snapshots /\ Ordered(snap) /\ Named(snap) /\ parsed \in BOOLEAN
  BY <1>0, TypeIs DEF PInv
<1>5. PICK s, t : s = snap /\ t = snap' /\ t = Tagged(s, line)
  BY <1>1 DEF ParseTagged
<1>6. /\ t \in Snapshots
      /\ Ordered(s) => Ordered(t)
      /\ \A S : RoutesIn(S, s) /\ TaggedRoute(S, line) => RoutesIn(S, t)
      /\ IsSessionRow(line) =>
             /\ t.clients = Append(s.clients, SessionOf(line))
             /\ SessionOf(line) \in Sessions0
      /\ ~IsSessionRow(line) => t.clients = s.clients
  <2>1. s \in Snapshots
    BY <1>4, <1>5
  <2> QED  BY <1>2, <1>3, <1>5, <2>1, TaggedStep
<1>7. Named(t) /\ (SessionsIn(From, s) /\ TaggedSession(From, line) => SessionsIn(From, t))
  <2>1. CASE IsSessionRow(line)
    <3>1. PICK e : e = SessionOf(line)
      OBVIOUS
    <3>2. e \in Sessions0 /\ t.clients = Append(s.clients, e)
      BY <1>6, <2>1, <3>1
    <3>3. /\ Named(s) /\ e.common_name # None => Named(t)
          /\ SessionsIn(From, s) /\ SessionIn(From, e.common_name, e.virtual_address) => SessionsIn(From, t)
      BY <1>4, <1>5, <1>6, <3>2, OneMore
    <3>4. e.common_name = line[2] /\ e.virtual_address = Field(line, 4) /\ line[2] # None
      BY <2>1, <3>1 DEF SessionOf, IsSessionRow, Field
    <3>5. TaggedSession(From, line) => SessionIn(From, line[2], Field(line, 4))
      <4>1. DOMAIN line = 1 .. Len(line) /\ Len(line) \in Nat
        BY <1>2, LenProperties DEF Line
      <4> QED  BY <2>1, <4>1 DEF IsSessionRow, TaggedSession, Field
    <3> QED  BY <1>4, <1>5, <3>3, <3>4, <3>5
  <2>2. CASE ~IsSessionRow(line)
    BY <1>4, <1>5, <1>6, <2>2 DEF Named, SessionsIn
  <2> QED  BY <2>1, <2>2
<1>8. ParseTypeOK'
  <2>1. /\ tear' \in {"none", "lines", "end", "start", "header"}
        /\ snap' \in Snapshots /\ Ordered(snap') /\ Named(snap')
    BY <1>0, <1>4, <1>5, <1>6, <1>7 DEF PInv, ParseTypeOK
  <2> QED  BY <1>0, <1>2, <1>4, <2>1 DEF ParseTypeOK, Snapshots, Sessions0, Ordered, Named
<1>9. SnapInv'
  <2>1. Withstood <=> tear \in {"start", "header"}
    BY <1>0 DEF Withstood
  <2>2. LinesOnly \/ Withstood => RoutesIn(From, t)
    BY <1>3, <1>5, <1>6, <2>1 DEF PInv, SnapInv
  <2>3. LinesOnly \/ (Withstood /\ tear # "header") => SessionsIn(From, t)
    BY <1>3, <1>5, <1>7, <2>1 DEF PInv, SnapInv, SessionsIn
  <2> QED  BY <1>0, <1>5, <2>2, <2>3 DEF SnapInv, SessionsIn
<1> QED  BY <1>0, <1>8, <1>9 DEF PInv

LEMMA SectionedPInv ==
    ASSUME PInv, ParseSectioned
    PROVE  PInv'
<1>0. /\ FileInv' /\ From' = From /\ LinesOnly' = LinesOnly /\ Withstood' = Withstood
      /\ ~HasTags(text) /\ text' = text /\ tear' = tear /\ parsed' = parsed /\ at' = at + 1
  BY SameFile DEF ParseSectioned, PInv
<1>1. PICK line : line = text[at + 1]
  OBVIOUS
<1>2. /\ Len(text) \in Nat /\ at + 1 \in 1 .. Len(text) /\ line \in Line
      /\ at \in Nat /\ at' \in 0 .. Len(text)
  <2>1. text \in Seq(Line) /\ at \in 0 .. Len(text) /\ at < Len(text)
    BY DEF ParseSectioned, PInv, FileInv, ParseTypeOK
  <2>2. Len(text) \in Nat
    BY <2>1, LenProperties
  <2>3. PICK len : len = Len(text)
    OBVIOUS
  <2>4. at \in Nat /\ at + 1 \in 1 .. len /\ at + 1 \in 0 .. len
    BY <2>1, <2>2, <2>3
  <2>5. text[at + 1] \in Line
    BY <2>1, <2>3, <2>4, ElementOfSeq
  <2> QED  BY <1>0, <1>1, <2>2, <2>3, <2>4, <2>5
<1>3. /\ SectionWords(line)
      /\ LinesOnly \/ tear = "end" =>
             /\ at + 1 # 3 => SectionRow(From, line)
             /\ Len(text) >= 3 => text[2] = <<"Updated", Other>>
  BY <1>0, <1>1, <1>2 DEF PInv, FileInv, SectionedFile
<1>4. snap \in Snapshots /\ Ordered(snap) /\ parsed \in BOOLEAN
  BY <1>0, TypeIs DEF PInv
<1>5. PICK s, t : s = snap /\ t = snap' /\ t = Sectioned(s, line)
  BY <1>1 DEF ParseSectioned
<1>6. /\ t \in Snapshots
      /\ Ordered(s) => Ordered(t)
      /\ \A S : RoutesIn(S, s) /\ (s.expect_header \/ SectionRow(S, line)) => RoutesIn(S, t)
      /\ \/ t.clients = s.clients
         \/ /\ ~s.expect_header /\ Len(line) >= 5
            /\ line[1] \in Words \cup {None}
            /\ t.clients = Append(s.clients, [common_name |-> line[1], virtual_address |-> None])
      /\ line = <<"Updated", Other>> => t.expect_header
  <2>1. s \in Snapshots
    BY <1>4, <1>5
  <2> QED  BY <1>2, <1>3, <1>5, <2>1, SectionedStep
<1>7. LinesOnly \/ tear = "end" => s.expect_header \/ SectionRow(From, line)
  <2>1. CASE at = 2
    <3>1. Len(text) >= 3
      BY <1>2, <2>1
    <3> QED  BY <1>0, <1>5, <2>1, <3>1 DEF PInv, SnapInv
  <2>2. CASE at # 2
    BY <1>2, <1>3, <2>2
  <2> QED  BY <2>1, <2>2
<1>8. SessionsIn(From, s) /\ (s.expect_header \/ SectionRow(From, line)) => SessionsIn(From, t)
  <2>1. CASE t.clients = s.clients
    BY <2>1 DEF SessionsIn
  <2>2. CASE /\ ~s.expect_header /\ Len(line) >= 5
             /\ line[1] \in Words \cup {None}
             /\ t.clients = Append(s.clients, [common_name |-> line[1], virtual_address |-> None])
    <3>1. PICK e : e = [common_name |-> line[1], virtual_address |-> None]
      OBVIOUS
    <3>2. e \in Sessions0 /\ e.common_name = line[1] /\ e.virtual_address = None
      BY <2>2, <3>1 DEF Sessions0
    <3>3. SessionsIn(From, s) /\ SessionIn(From, e.common_name, e.virtual_address) => SessionsIn(From, t)
      BY <1>4, <1>5, <1>6, <2>2, <3>1, <3>2, OneMore
    <3>4. SectionRow(From, line) => SessionIn(From, line[1], None)
      BY <2>2 DEF SectionRow
    <3> QED  BY <2>2, <3>2, <3>3, <3>4
  <2> QED  BY <1>6, <2>1, <2>2
<1>9. ParseTypeOK'
  <2>1. tear' \in {"none", "lines", "end", "start", "header"} /\ snap' \in Snapshots /\ Ordered(snap')
    BY <1>0, <1>4, <1>5, <1>6 DEF PInv, ParseTypeOK
  <2> QED  BY <1>0, <1>2, <1>4, <2>1 DEF ParseTypeOK, Snapshots, Sessions0, Ordered, Named
<1>10. SnapInv'
  <2>1. Withstood <=> tear = "end"
    BY <1>0 DEF Withstood
  <2>2. LinesOnly \/ Withstood => RoutesIn(From, t)
    BY <1>5, <1>6, <1>7, <2>1 DEF PInv, SnapInv
  <2>3. LinesOnly \/ (Withstood /\ tear # "header") => SessionsIn(From, t)
    BY <1>5, <1>7, <1>8, <2>1 DEF PInv, SnapInv, SessionsIn
  <2>4. LinesOnly \/ tear = "end" => (at' = 2 /\ Len(text) >= 3 => t.expect_header)
    <3>1. at' = 2 => at + 1 = 2
      BY <1>0
    <3> QED  BY <1>1, <1>3, <1>6, <3>1
  <2> QED  BY <1>0, <1>5, <2>2, <2>3, <2>4 DEF SnapInv, SessionsIn
<1> QED  BY <1>0, <1>9, <1>10 DEF PInv

LEMMA ReturnPInv ==
    ASSUME PInv, Return
    PROVE  PInv'
<1>0. /\ FileInv' /\ From' = From /\ LinesOnly' = LinesOnly /\ Withstood' = Withstood
      /\ text' = text /\ tear' = tear /\ parsed' = TRUE /\ at' = at /\ at = Len(text)
  BY SameFile DEF Return, PInv
<1>1. snap \in Snapshots /\ Ordered(snap) /\ (HasTags(text) => Named(snap)) /\ Len(text) \in Nat
  BY TypeIs, LenProperties DEF PInv, FileInv
<1>2. CASE HasTags(text)
  <2>1. snap' = snap
    BY <1>2 DEF Return
  <2>2. ParseTypeOK'
    BY <1>0, <2>1 DEF ParseTypeOK, PInv
  <2>3. SnapInv'
    BY <1>0, <1>2, <2>1 DEF SnapInv, PInv
  <2> QED  BY <1>0, <2>2, <2>3 DEF PInv
<1>3. CASE ~HasTags(text)
  <2>1. PICK s, t : s = snap /\ t = snap' /\ t = Backfill(s)
    BY <1>3 DEF Return
  <2>2. t \in Snapshots /\ t.routes = s.routes /\ t.order = s.order
    BY <1>1, <2>1, BackfillIs DEF IsBackfilled
  <2>3. \A S : RoutesIn(S, s) /\ SessionsIn(S, s) => SessionsIn(S, t)
    BY <1>1, <2>1, BackfillSound DEF SessionsIn
  <2>4. Ordered(t) /\ \A S : RoutesIn(S, s) => RoutesIn(S, t)
    BY <1>1, <2>1, <2>2 DEF Ordered, RoutesIn
  <2>5. ParseTypeOK'
    <3>1. /\ tear' \in {"none", "lines", "end", "start", "header"}
          /\ at' \in 0 .. Len(text)
          /\ snap' \in Snapshots /\ Ordered(snap')
      BY <1>0, <1>1, <2>1, <2>2, <2>4 DEF PInv, ParseTypeOK
    <3> QED  BY <1>0, <1>3, <3>1 DEF ParseTypeOK, Snapshots, Sessions0, Ordered, Named
  <2>6. SnapInv'
    <3>1. LinesOnly \/ Withstood => RoutesIn(From, t)
      BY <2>1, <2>4 DEF PInv, SnapInv
    <3>2. LinesOnly \/ (Withstood /\ tear # "header") => SessionsIn(From, t)
      BY <2>1, <2>3 DEF PInv, SnapInv, SessionsIn
    <3>3. ~(at' = 2 /\ Len(text) >= 3)
      BY <1>0, <1>1
    <3> QED  BY <1>0, <2>1, <3>1, <3>2, <3>3 DEF SnapInv, SessionsIn
  <2> QED  BY <1>0, <2>5, <2>6 DEF PInv
<1> QED  BY <1>2, <1>3

LEMMA StutterPInv ==
    ASSUME PInv, UNCHANGED parseVars
    PROVE  PInv'
<1>0. FileInv' /\ From' = From /\ LinesOnly' = LinesOnly /\ Withstood' = Withstood
  BY SameFile DEF PInv, parseVars
<1>1. ParseTypeOK' /\ SnapInv'
  BY <1>0 DEF PInv, ParseTypeOK, SnapInv, parseVars
<1> QED  BY <1>0, <1>1 DEF PInv

LEMMA ParsePInv == ParseSpec => []PInv
<1>1. PInv /\ [parse_status]_parseVars => PInv'
  BY TaggedPInv, SectionedPInv, ReturnPInv, StutterPInv DEF parse_status
<1> QED  BY InitPInv, <1>1, PTL DEF ParseSpec

(* The snapshot holds names and addresses where they belong, whatever is   *)
(* left of the file: a field cut in half is a name like any other.         *)
THEOREM ParserTypeCorrect == ParseSpec => []ParseTypeOK
<1>1. PInv => ParseTypeOK
  BY DEF PInv
<1> QED  BY ParsePInv, <1>1, PTL

LEMMA FromIs == ASSUME NEW c, NEW ip, \E s \in From : s[c] = ip PROVE ip \in {old[c], new[c]}
BY DEF From

(* No address is attributed to a client that had it neither before nor     *)
(* after the server rewrote the file, wherever _parse_v1 and _parse_v23    *)
(* withstand the tear.                                                     *)
THEOREM TornRoutesSound == ParseSpec => []RoutesSound
<1>1. ASSUME PInv PROVE RoutesSound
  <2>1. SUFFICES ASSUME LinesOnly \/ Withstood, NEW ip \in Ips, snap.routes[ip] # None
                 PROVE  snap.routes[ip] \in Names /\ ip \in {old[snap.routes[ip]], new[snap.routes[ip]]}
    BY DEF RoutesSound
  <2>2. RoutesIn(From, snap) /\ ip \in Words /\ ip # None /\ ip # Net
    BY <1>1, <2>1, WordsAreApart DEF PInv, SnapInv
  <2>3. RouteIn(From, ip, snap.routes[ip])
    BY <2>2 DEF RoutesIn
  <2>4. snap.routes[ip] \in Names /\ \E s \in From : s[snap.routes[ip]] = ip
    BY <2>1, <2>2, <2>3 DEF RouteIn
  <2> QED  BY <2>4, FromIs
<1> QED  BY <1>1, ParsePInv, PTL

(* Nor is a session recorded of a name no client has, of a client that was *)
(* not connected, or with an address that was not theirs: not by a row,    *)
(* and not by the address _parse_v1 fills in at the end.                   *)
THEOREM TornSessionsSound == ParseSpec => []SessionsSound
<1>1. ASSUME PInv PROVE SessionsSound
  <2>1. SUFFICES ASSUME LinesOnly \/ (Withstood /\ tear # "header"), NEW n \in DOMAIN snap.clients,
                        NEW c, c = snap.clients[n].common_name,
                        NEW a, a = snap.clients[n].virtual_address
                 PROVE  c \in Names /\ {old[c], new[c]} # {Absent} /\ (a # None => a \in {old[c], new[c]})
    BY DEF SessionsSound
  <2>2. SessionIn(From, c, a)
    BY <1>1, <2>1 DEF PInv, SnapInv
  <2>3. c \in Names /\ (\E s \in From : s[c] # Absent) /\ (a # None => \E s \in From : s[c] = a)
    BY <2>2 DEF SessionIn
  <2>4. {old[c], new[c]} # {Absent}
    BY <2>3 DEF From
  <2> QED  BY <2>3, <2>4, FromIs
<1> QED  BY <1>1, ParsePInv, PTL

-----------------------------------------------------------------------------
(* A whole file.                                                           *)
(* Of a file of sections with a clients and b routes, after n lines: where *)
(* the parser is, ...                                                      *)
SectionAt(s, n, a, b) ==
    /\ n \in 1 .. 3 + a => s.section = "clients" /\ (s.expect_header <=> n = 2)
    /\ n \in 4 + a .. 5 + a + b => s.section = "routes" /\ (s.expect_header <=> n = 4 + a)

(* ... and what it has: the clients and the routes of the rows before.     *)
Taken(s, n, u, a, b) ==
    /\ \A i \in 1 .. a : 3 + i <= n => \E k \in DOMAIN s.clients : s.clients[k].common_name = Connected(u)[i]
    /\ \A k \in DOMAIN s.clients : \E i \in 1 .. a : 3 + i <= n /\ s.clients[k].common_name = Connected(u)[i]
    /\ \A j, k \in DOMAIN s.clients : s.clients[j].common_name = s.clients[k].common_name => j = k
    /\ \A i \in 1 .. b : 5 + a + i <= n => s.routes[Routed(u)[i][1]] # None
    /\ Listed(s)

(* The same of a tagged file.                                              *)
TaggedTaken(s, n, u, a) ==
    /\ \A i \in 1 .. a : 2 + i <= n =>
           /\ \E k \in DOMAIN s.clients : s.clients[k].common_name = Connected(u)[i]
           /\ u[Connected(u)[i]] # None => s.routes[u[Connected(u)[i]]] # None
    /\ \A k \in DOMAIN s.clients : u[s.clients[k].common_name] = s.clients[k].virtual_address

LEMMA RowIs == ASSUME NEW line, line[1] \in Words PROVE ~Blank(line) /\ ~IsTitle(line)
<1>1. line[1] \notin {None, "OpenVPN CLIENT LIST", "Updated", "ROUTING TABLE", "GLOBAL STATS"}
  BY WordsAssumption DEF Titles
<1>2. \A x : <<x>>[1] = x
  OBVIOUS
<1> QED  BY <1>1, <1>2, Zenon DEF Blank, IsTitle

(* A line of less than four fields is no row.                              *)
LEMMA QuietLine ==
    ASSUME NEW s \in Snapshots, NEW line, Len(line) \in {1, 2}, NEW t, t = Sectioned(s, line)
    PROVE  t.clients = s.clients /\ t.routes = s.routes /\ t.order = s.order
<1>1. PICK len : len = Len(line)
  OBVIOUS
<1>2. ~(len >= 4) /\ ~(len >= 5)
  BY <1>1
<1>3. ~IsClientRow(s, line) /\ ~IsRouteRow(s, line)
  BY <1>1, <1>2, Zenon DEF IsClientRow, IsRouteRow
<1>b. Blank(line) => ~IsTitle(line)
  <2>1. ASSUME line = <<None>> PROVE line[1] = None
    BY <2>1
  <2>2. None \notin {"OpenVPN CLIENT LIST", "Updated", "ROUTING TABLE", "GLOBAL STATS"}
    BY WordsAssumption DEF Titles
  <2>3. \A x : <<x>>[1] = x
    OBVIOUS
  <2> QED  BY <2>1, <2>2, <2>3 DEF Blank, IsTitle
<1>4. CASE Blank(line)
  BY <1>4, <1>b DEF Sectioned
<1>5. CASE ~Blank(line) /\ IsTitle(line)
  <2>1. t = SectionTitle(s, line)
    BY <1>5 DEF Sectioned
  <2>2. CASE line = <<"OpenVPN CLIENT LIST">>
    BY <2>1, <2>2 DEF SectionTitle, Snapshots
  <2>3. CASE line = <<"ROUTING TABLE">>
    BY <2>1, <2>3 DEF SectionTitle, Snapshots
  <2>4. CASE line = <<"GLOBAL STATS">>
    BY <2>1, <2>4 DEF SectionTitle, Snapshots
  <2>5. CASE line \notin {<<"OpenVPN CLIENT LIST">>, <<"ROUTING TABLE">>, <<"GLOBAL STATS">>}
    BY <2>1, <2>5 DEF SectionTitle, Snapshots
  <2> QED  BY <2>2, <2>3, <2>4, <2>5
<1>6. CASE ~Blank(line) /\ ~IsTitle(line) /\ s.expect_header
  BY <1>6 DEF Sectioned, Snapshots
<1>7. CASE ~Blank(line) /\ ~IsTitle(line) /\ ~s.expect_header
  BY <1>3, <1>7 DEF Sectioned
<1> QED  BY <1>4, <1>5, <1>6, <1>7

LEMMA QuietTaken ==
    ASSUME NEW s, NEW t, NEW u, NEW a \in Nat, NEW b \in Nat, NEW n \in Nat, Taken(s, n, u, a, b),
           t.clients = s.clients, t.routes = s.routes, t.order = s.order,
           n + 1 \notin 4 .. 3 + a, n + 1 \notin 6 + a .. 5 + a + b
    PROVE  Taken(t, n + 1, u, a, b)
<1>1. \A i \in 1 .. a : 3 + i <= n + 1 <=> 3 + i <= n
  OBVIOUS
<1>2. \A i \in 1 .. b : 5 + a + i <= n + 1 <=> 5 + a + i <= n
  OBVIOUS
<1>3. \A i \in 1 .. a : 3 + i <= n + 1 => \E k \in DOMAIN t.clients : t.clients[k].common_name = Connected(u)[i]
  BY <1>1 DEF Taken
<1>4. \A k \in DOMAIN t.clients : \E i \in 1 .. a : 3 + i <= n + 1 /\ t.clients[k].common_name = Connected(u)[i]
  BY <1>1 DEF Taken
<1>5. \A j, k \in DOMAIN t.clients : t.clients[j].common_name = t.clients[k].common_name => j = k
  BY DEF Taken
<1>6. \A i \in 1 .. b : 5 + a + i <= n + 1 => t.routes[Routed(u)[i][1]] # None
  BY <1>2 DEF Taken
<1>7. Listed(t)
  BY DEF Taken, Listed
<1> QED  BY <1>3, <1>4, <1>5, <1>6, <1>7 DEF Taken

LEMMA ClientTaken ==
    ASSUME NEW u \in Servers, NEW s \in Snapshots, NEW a \in Nat, NEW b \in Nat, NEW n \in Nat,
           a = Len(Connected(u)), Taken(s, n, u, a, b), NEW i \in 1 .. a, n + 1 = 3 + i,
           NEW t, t = AddSession(s, Connected(u)[i], None)
    PROVE  Taken(t, n + 1, u, a, b)
<1>1. PICK c : c = Connected(u)
  OBVIOUS
<1>2. /\ c \in Seq(Names) /\ DOMAIN c = 1 .. a
      /\ \A j, k \in 1 .. a : c[j] = c[k] => j = k
      /\ c[i] \in Names
  BY <1>1, ConnectedIs, LenProperties, ElementOfSeq
<1>3. /\ t.routes = s.routes /\ t.order = s.order
      /\ t.clients = Append(s.clients, [common_name |-> c[i], virtual_address |-> None])
  <2>1. c[i] \in Words \cup {None} /\ None \in Words \cup {None} /\ t = AddSession(s, c[i], None)
    BY <1>1, <1>2, WordsAreApart
  <2> QED  BY <2>1, AddSessionIs
<1>4. PICK q, r, e : q = s.clients /\ r = t.clients /\ e = [common_name |-> c[i], virtual_address |-> None]
  OBVIOUS
<1>5. q \in Seq(Sessions0) /\ e \in Sessions0 /\ r = Append(q, e) /\ e.common_name = c[i]
  BY <1>2, <1>3, <1>4, WordsAreApart DEF Snapshots, Sessions0
<1>6. /\ Len(r) = Len(q) + 1 /\ Len(q) \in Nat
      /\ DOMAIN q = 1 .. Len(q) /\ DOMAIN r = 1 .. Len(r)
      /\ \A k \in 1 .. Len(q) : r[k] = q[k]
      /\ r[Len(q) + 1] = e
  BY <1>5, AppendProperties, LenProperties
<1>7. \A k \in DOMAIN r : k = Len(q) + 1 \/ k \in DOMAIN q
  BY <1>6
<1>8. \A j \in 1 .. a : 3 + j <= n + 1 <=> 3 + j <= n \/ j = i
  OBVIOUS
<1>9. /\ \A j \in 1 .. a : 3 + j <= n => \E k \in DOMAIN q : q[k].common_name = c[j]
      /\ \A k \in DOMAIN q : \E j \in 1 .. a : 3 + j <= n /\ q[k].common_name = c[j]
      /\ \A j, k \in DOMAIN q : q[j].common_name = q[k].common_name => j = k
      /\ \A j \in 1 .. b : 5 + a + j <= n => s.routes[Routed(u)[j][1]] # None
      /\ Listed(s)
  BY <1>1, <1>4 DEF Taken
<1>10. Len(q) + 1 \in DOMAIN r /\ \A k \in DOMAIN q : k \in DOMAIN r /\ r[k] = q[k]
  BY <1>6
<1>11. ASSUME NEW j \in 1 .. a, 3 + j <= n + 1
       PROVE  \E k \in DOMAIN r : r[k].common_name = c[j]
  <2>1. CASE j = i
    BY <1>5, <1>6, <1>10, <2>1
  <2>2. CASE 3 + j <= n
    <3>1. PICK k \in DOMAIN q : q[k].common_name = c[j]
      BY <1>9, <2>2
    <3> QED  BY <1>10, <3>1
  <2> QED  BY <1>8, <1>11, <2>1, <2>2
<1>12. ASSUME NEW k \in DOMAIN r
       PROVE  \E j \in 1 .. a : 3 + j <= n + 1 /\ r[k].common_name = c[j]
  <2>1. CASE k = Len(q) + 1
    BY <1>5, <1>6, <1>8, <2>1
  <2>2. CASE k \in DOMAIN q
    <3>1. PICK j \in 1 .. a : 3 + j <= n /\ q[k].common_name = c[j]
      BY <1>9, <2>2
    <3> QED  BY <1>8, <1>10, <2>2, <3>1
  <2> QED  BY <1>7, <2>1, <2>2
<1>13. \A k \in DOMAIN q : q[k].common_name # c[i]
  <2>1. SUFFICES ASSUME NEW k \in DOMAIN q, q[k].common_name = c[i] PROVE FALSE
    OBVIOUS
  <2>2. PICK j \in 1 .. a : 3 + j <= n /\ q[k].common_name = c[j]
    BY <1>9
  <2>3. j = i
    BY <1>2, <2>1, <2>2
  <2> QED  BY <2>2, <2>3
<1>14. ASSUME NEW j \in DOMAIN r, NEW k \in DOMAIN r, r[j].common_name = r[k].common_name
       PROVE  j = k
  <2>1. CASE j \in DOMAIN q /\ k \in DOMAIN q
    BY <1>9, <1>10, <1>14, <2>1
  <2>2. CASE j \in DOMAIN q /\ k = Len(q) + 1
    BY <1>5, <1>6, <1>10, <1>13, <1>14, <2>2
  <2>3. CASE j = Len(q) + 1 /\ k \in DOMAIN q
    BY <1>5, <1>6, <1>10, <1>13, <1>14, <2>3
  <2> QED  BY <1>7, <2>1, <2>2, <2>3
<1>15. \A j \in 1 .. b : 5 + a + j <= n + 1 => 5 + a + j <= n
  OBVIOUS
<1>16. Listed(t)
  BY <1>3, <1>9 DEF Listed
<1>17. \A j \in 1 .. b : 5 + a + j <= n + 1 => t.routes[Routed(u)[j][1]] # None
  BY <1>3, <1>9, <1>15
<1>18. /\ \A j \in 1 .. a : 3 + j <= n + 1 => \E k \in DOMAIN t.clients : t.clients[k].common_name = Connected(u)[j]
       /\ \A k \in DOMAIN t.clients : \E j \in 1 .. a : 3 + j <= n + 1 /\ t.clients[k].common_name = Connected(u)[j]
       /\ \A j, k \in DOMAIN t.clients : t.clients[j].common_name = t.clients[k].common_name => j = k
  BY <1>1, <1>4, <1>11, <1>12, <1>14
<1> QED  BY <1>16, <1>17, <1>18 DEF Taken

LEMMA RouteTaken ==
    ASSUME NEW u \in Servers, NEW s \in Snapshots, NEW a \in Nat, NEW b \in Nat, NEW n \in Nat,
           b = Len(Routed(u)), Taken(s, n, u, a, b), NEW i \in 1 .. b, n + 1 = 5 + a + i,
           NEW t, t = AddRoute(s, Routed(u)[i][1], Routed(u)[i][2])
    PROVE  Taken(t, n + 1, u, a, b)
<1>1. PICK r : r = Routed(u)
  OBVIOUS
<1>2. r \in Seq((Ips \cup {Net}) \X Names)
  BY <1>1, RoutedIs
<1>3. \A j \in 1 .. b : r[j] \in (Ips \cup {Net}) \X Names
  BY <1>1, <1>2, LenProperties, ElementOfSeq
<1>4. \A j \in 1 .. b : r[j][1] \in Words /\ r[j][2] \in Words /\ r[j][2] # None
  BY <1>3, WordsAreApart
<1>5. PICK w, c : w = r[i][1] /\ c = r[i][2]
  OBVIOUS
<1>6. IsRouted(t, s, w, c)
  <2>1. w \in Words \cup {None} /\ c \in Words \cup {None} /\ t = AddRoute(s, w, c)
    BY <1>1, <1>4, <1>5
  <2> QED  BY <2>1, AddRouteIs
<1>7. /\ t.clients = s.clients
      /\ Listed(s) => Listed(t)
      /\ \A x \in Words : s.routes[x] # None => t.routes[x] # None
      /\ t.routes[w] # None
  BY <1>4, <1>5, <1>6 DEF IsRouted
<1>8. ASSUME NEW j \in 1 .. b, 5 + a + j <= n + 1 PROVE t.routes[r[j][1]] # None
  <2>1. CASE j = i
    BY <1>5, <1>7, <2>1
  <2>2. CASE j # i
    <3>1. 5 + a + j <= n
      BY <1>8, <2>2
    <3>2. s.routes[r[j][1]] # None
      BY <1>1, <3>1 DEF Taken
    <3> QED  BY <1>4, <1>7, <3>2
  <2> QED  BY <2>1, <2>2
<1>9. \A j \in 1 .. a : 3 + j <= n + 1 /\ 3 + j <= n
  OBVIOUS
<1> QED  BY <1>1, <1>7, <1>8, <1>9 DEF Taken

(* What the titles do, ...                                                 *)
LEMMA TitleIs ==
    ASSUME NEW s \in Snapshots, NEW line, NEW t, t = Sectioned(s, line)
    PROVE  /\ line = <<"OpenVPN CLIENT LIST">> => t.section = "clients" /\ ~t.expect_header
           /\ line = <<"ROUTING TABLE">> => t.section = "routes" /\ t.expect_header
           /\ line = <<"Updated", Other>> => t.section = s.section /\ t.expect_header
<1>1. ASSUME IsTitle(line) PROVE t = SectionTitle(s, line) \/ Blank(line)
  BY <1>1 DEF Sectioned
<1>2. Blank(line) => ~IsTitle(line)
  <2>1. ASSUME line = <<None>> PROVE line[1] = None
    BY <2>1
  <2>2. None \notin {"OpenVPN CLIENT LIST", "Updated", "ROUTING TABLE", "GLOBAL STATS"}
    BY WordsAssumption DEF Titles
  <2>3. \A x : <<x>>[1] = x
    OBVIOUS
  <2> QED  BY <2>1, <2>2, <2>3 DEF Blank, IsTitle
<1>3. IsTitle(line) => t = SectionTitle(s, line)
  BY <1>1, <1>2
<1>4. ASSUME line = <<"OpenVPN CLIENT LIST">> PROVE t.section = "clients" /\ ~t.expect_header
  <2>1. IsTitle(line)
    BY <1>4 DEF IsTitle
  <2> QED  BY <1>3, <1>4, <2>1 DEF SectionTitle, Snapshots
<1>5. ASSUME line = <<"ROUTING TABLE">> PROVE t.section = "routes" /\ t.expect_header
  <2>1. IsTitle(line)
    BY <1>5 DEF IsTitle
  <2>2. line # <<"OpenVPN CLIENT LIST">>
    BY <1>5
  <2> QED  BY <1>3, <1>5, <2>1, <2>2 DEF SectionTitle, Snapshots
<1>6. ASSUME line = <<"Updated", Other>> PROVE t.section = s.section /\ t.expect_header
  <2>1. \A x : <<"Updated", x>>[1] = "Updated" /\ Len(<<"Updated", x>>) > 1
    OBVIOUS
  <2>2. IsTitle(line)
    BY <1>6, <2>1, Zenon DEF IsTitle
  <2>3. line \notin {<<"OpenVPN CLIENT LIST">>, <<"ROUTING TABLE">>, <<"GLOBAL STATS">>}
    BY <1>6
  <2> QED  BY <1>3, <2>2, <2>3 DEF SectionTitle, Snapshots
<1> QED  BY <1>4, <1>5, <1>6

(* ... and the column titles after one.                                    *)
LEMMA HeaderIs ==
    ASSUME NEW s \in Snapshots, NEW line, line[1] \in Words, s.expect_header, NEW t, t = Sectioned(s, line)
    PROVE  /\ t.clients = s.clients /\ t.routes = s.routes /\ t.order = s.order
           /\ t.section = s.section /\ ~t.expect_header
<1>1. ~Blank(line) /\ ~IsTitle(line)
  BY RowIs
<1>2. t = [s EXCEPT !.expect_header = FALSE]
  BY <1>1 DEF Sectioned
<1> QED  BY <1>2 DEF Snapshots

LEMMA SectionedTaken ==
    ASSUME NEW u \in Servers, NEW V, NEW a, NEW b, IsVersion1(u, V, a, b),
           a = Len(Connected(u)), b = Len(Routed(u)),
           NEW s \in Snapshots, NEW n \in Nat, n + 1 \in 1 .. 8 + a + b,
           SectionAt(s, n, a, b), Taken(s, n, u, a, b),
           NEW t, t = Sectioned(s, V[n + 1])
    PROVE  SectionAt(t, n + 1, a, b) /\ Taken(t, n + 1, u, a, b)
<1>0. a \in Nat /\ b \in Nat
  BY DEF IsVersion1
<1>1. PICK line : line = V[n + 1] /\ t = Sectioned(s, line)
  OBVIOUS
<1>2. CASE n + 1 \in {1, 2, 4 + a, 6 + a + b, 7 + a + b, 8 + a + b}
  <2>1. Len(line) \in {1, 2}
    <3>1. (\E x : line = <<x>>) \/ (\E x, y : line = <<x, y>>)
      BY <1>1, <1>2, Zenon DEF IsVersion1
    <3> QED  BY <3>1
  <2>2. t.clients = s.clients /\ t.routes = s.routes /\ t.order = s.order
    BY <1>1, <2>1, QuietLine
  <2>3. n + 1 \notin 4 .. 3 + a /\ n + 1 \notin 6 + a .. 5 + a + b
    BY <1>0, <1>2
  <2>4. Taken(t, n + 1, u, a, b)
    BY <1>0, <2>2, <2>3, QuietTaken
  <2>5. SectionAt(t, n + 1, a, b)
    <3>1. CASE n + 1 = 1
      <4>1. t.section = "clients" /\ ~t.expect_header
        <5>1. line = <<"OpenVPN CLIENT LIST">>
          BY <1>1, <3>1 DEF IsVersion1
        <5> QED  BY <1>1, <5>1, TitleIs
      <4> QED  BY <1>0, <3>1, <4>1 DEF SectionAt
    <3>2. CASE n + 1 = 2
      <4>1. t.section = s.section /\ t.expect_header
        <5>1. line = <<"Updated", Other>>
          BY <1>1, <3>2 DEF IsVersion1
        <5> QED  BY <1>1, <5>1, TitleIs
      <4> QED  BY <1>0, <3>2, <4>1 DEF SectionAt
    <3>3. CASE n + 1 = 4 + a
      <4>1. t.section = "routes" /\ t.expect_header
        <5>1. line = <<"ROUTING TABLE">>
          BY <1>1, <3>3 DEF IsVersion1
        <5> QED  BY <1>1, <5>1, TitleIs
      <4> QED  BY <1>0, <3>3, <4>1 DEF SectionAt
    <3>4. CASE n + 1 \in {6 + a + b, 7 + a + b, 8 + a + b}
      BY <1>0, <3>4 DEF SectionAt
    <3> QED  BY <1>2, <3>1, <3>2, <3>3, <3>4
  <2> QED  BY <2>4, <2>5
<1>3. CASE n + 1 \in {3, 5 + a}
  <2>1. line[1] = Other
    <3>1. line = <<Other, Other, Other, Other>> \/ line = <<Other, Other, Other, Other, Other>>
      BY <1>1, <1>3 DEF IsVersion1
    <3> QED  BY <3>1
  <2>2. s.expect_header
    BY <1>0, <1>3 DEF SectionAt
  <2>3. /\ t.clients = s.clients /\ t.routes = s.routes /\ t.order = s.order
        /\ t.section = s.section /\ ~t.expect_header
    <3>1. line[1] \in Words
      BY <2>1, WordsAreApart
    <3> QED  BY <1>1, <2>2, <3>1, HeaderIs
  <2>4. n + 1 \notin 4 .. 3 + a /\ n + 1 \notin 6 + a .. 5 + a + b
    BY <1>0, <1>3
  <2>5. Taken(t, n + 1, u, a, b)
    BY <1>0, <2>3, <2>4, QuietTaken
  <2>6. SectionAt(t, n + 1, a, b)
    BY <1>0, <1>3, <2>3 DEF SectionAt
  <2> QED  BY <2>5, <2>6
<1>4. CASE n + 1 \in 4 .. 3 + a
  <2>1. PICK i \in 1 .. a : n + 1 = 3 + i
    <3>1. n + 1 - 3 \in 1 .. a /\ n + 1 = 3 + (n + 1 - 3)
      BY <1>0, <1>4
    <3> QED  BY <3>1
  <2>2. PICK c : c = Connected(u)[i]
    OBVIOUS
  <2>3. line = <<c, Real, Other, Other, Other>>
    BY <1>1, <2>1, <2>2 DEF IsVersion1
  <2>4. line[1] = c /\ Len(line) = 5
    BY <2>3
  <2>5. c \in Names
    BY <1>0, <2>1, <2>2, ConnectedIs, LenProperties, ElementOfSeq
  <2>6. ~Blank(line) /\ ~IsTitle(line)
    BY <2>4, <2>5, RowIs, WordsAreApart
  <2>7. s.section = "clients" /\ ~s.expect_header
    BY <1>0, <1>4 DEF SectionAt
  <2>8. IsClientRow(s, line)
    BY <2>4, <2>7 DEF IsClientRow
  <2>9. t = AddSession(s, c, None)
    BY <1>1, <2>4, <2>6, <2>7, <2>8 DEF Sectioned
  <2>10. Taken(t, n + 1, u, a, b)
    BY <1>0, <2>1, <2>2, <2>9, ClientTaken
  <2>11. t.section = s.section /\ t.expect_header = s.expect_header
    BY <2>9 DEF AddSession, Snapshots
  <2>12. SectionAt(t, n + 1, a, b)
    BY <1>0, <1>4, <2>7, <2>11 DEF SectionAt
  <2> QED  BY <2>10, <2>12
<1>5. CASE n + 1 \in 6 + a .. 5 + a + b
  <2>1. PICK i \in 1 .. b : n + 1 = 5 + a + i
    <3>1. n + 1 - 5 - a \in 1 .. b /\ n + 1 = 5 + a + (n + 1 - 5 - a)
      BY <1>0, <1>5
    <3> QED  BY <3>1
  <2>2. PICK w, c : w = Routed(u)[i][1] /\ c = Routed(u)[i][2]
    OBVIOUS
  <2>3. line = <<w, c, Real, Other>>
    BY <1>1, <2>1, <2>2 DEF IsVersion1
  <2>4. line[1] = w /\ line[2] = c /\ Len(line) = 4
    BY <2>3
  <2>5. w \in Words /\ c \in Words
    <3>1. PICK r : r = Routed(u)
      OBVIOUS
    <3>2. r[i] \in (Ips \cup {Net}) \X Names
      BY <2>1, <3>1, RoutedIs, LenProperties, ElementOfSeq
    <3> QED  BY <2>2, <3>1, <3>2, WordsAreApart
  <2>6. ~Blank(line) /\ ~IsTitle(line)
    BY <2>4, <2>5, RowIs
  <2>7. s.section = "routes" /\ ~s.expect_header
    BY <1>0, <1>5 DEF SectionAt
  <2>8. IsRouteRow(s, line) /\ ~IsClientRow(s, line)
    BY <2>4, <2>7 DEF IsRouteRow, IsClientRow
  <2>9. t = AddRoute(s, w, c)
    BY <1>1, <2>4, <2>6, <2>7, <2>8 DEF Sectioned
  <2>10. Taken(t, n + 1, u, a, b)
    BY <1>0, <2>1, <2>2, <2>9, RouteTaken
  <2>11. t.section = s.section /\ t.expect_header = s.expect_header
    <3>1. w \in Words \cup {None} /\ c \in Words \cup {None}
      BY <2>5
    <3>2. IsRouted(t, s, w, c)
      BY <2>9, <3>1, AddRouteIs
    <3> QED  BY <3>2 DEF IsRouted
  <2>12. SectionAt(t, n + 1, a, b)
    BY <1>0, <1>5, <2>7, <2>11 DEF SectionAt
  <2> QED  BY <2>10, <2>12
<1>6. \/ n + 1 \in {1, 2, 4 + a, 6 + a + b, 7 + a + b, 8 + a + b}
      \/ n + 1 \in {3, 5 + a}
      \/ n + 1 \in 4 .. 3 + a
      \/ n + 1 \in 6 + a .. 5 + a + b
  BY <1>0
<1> QED  BY <1>2, <1>3, <1>4, <1>5, <1>6

LEMMA TaggedTakenStep ==
    ASSUME NEW u \in Servers, NEW V, V = Version2(u), NEW a, NEW b, IsVersion2(u, V, a, b),
           a = Len(Connected(u)),
           NEW s \in Snapshots, NEW n \in Nat, n + 1 \in 1 .. Len(V), TaggedTaken(s, n, u, a),
           NEW t, t = Tagged(s, V[n + 1])
    PROVE  TaggedTaken(t, n + 1, u, a)
<1>0. a \in Nat
  BY DEF IsVersion2
<1>1. PICK line : line = V[n + 1] /\ t = Tagged(s, line)
  OBVIOUS
<1>2. line \in Line /\ TaggedWords(line) /\ TaggedSession({u}, line)
  BY <1>1, Version2Lines
<1>3. /\ t \in Snapshots
      /\ \A w \in Words : s.routes[w] # None => t.routes[w] # None
      /\ IsSessionRow(line) =>
             /\ t.clients = Append(s.clients, SessionOf(line))
             /\ SessionOf(line) \in Sessions0
             /\ Field(line, 4) # None => t.routes[Field(line, 4)] # None
      /\ ~IsSessionRow(line) => t.clients = s.clients
  BY <1>1, <1>2, TaggedStep
<1>4. PICK q, r : q = s.clients /\ r = t.clients
  OBVIOUS
<1>5. PICK e : e = SessionOf(line)
  OBVIOUS
<1>6. IsSessionRow(line) => /\ \A k \in DOMAIN r : r[k] = e \/ (k \in DOMAIN q /\ r[k] = q[k])
                            /\ \A k \in DOMAIN q : k \in DOMAIN r /\ r[k] = q[k]
                            /\ \E k \in DOMAIN r : r[k] = e
  <2>1. ASSUME IsSessionRow(line) PROVE q \in Seq(Sessions0) /\ e \in Sessions0 /\ r = Append(q, e)
    BY <1>3, <1>4, <1>5, <2>1 DEF Snapshots
  <2> QED  BY <2>1, Appended
<1>7. /\ \A k \in DOMAIN r : (IsSessionRow(line) /\ r[k] = e) \/ (k \in DOMAIN q /\ r[k] = q[k])
      /\ \A k \in DOMAIN q : k \in DOMAIN r /\ r[k] = q[k]
  BY <1>3, <1>4, <1>6
<1>8. IsSessionRow(line) => e.common_name = line[2] /\ e.virtual_address = Field(line, 4)
                            /\ u[line[2]] = Field(line, 4)
  <2>1. DOMAIN line = 1 .. Len(line) /\ Len(line) \in Nat
    BY <1>2, LenProperties DEF Line
  <2> QED  BY <1>2, <1>5, <2>1 DEF SessionOf, IsSessionRow, TaggedSession, Field
<1>9. ASSUME NEW k \in DOMAIN r PROVE u[r[k].common_name] = r[k].virtual_address
  BY <1>4, <1>7, <1>8 DEF TaggedTaken
<1>10. PICK c : c = Connected(u)
  OBVIOUS
<1>11. \A i \in 1 .. a : c[i] \in Names /\ u[c[i]] \in Ips \cup {None}
  <2>1. c \in Seq(Names) /\ DOMAIN c = 1 .. a /\ \A i \in 1 .. a : u[c[i]] # Absent
    BY <1>0, <1>10, ConnectedIs, LenProperties
  <2>2. u \in [Names -> Ips \cup {None, Absent}]
    BY DEF Servers
  <2>3. \A i \in 1 .. a : c[i] \in Names
    BY <1>0, <1>10, <2>1, ElementOfSeq
  <2> QED  BY <2>1, <2>2, <2>3
<1>12. ASSUME NEW i \in 1 .. a, 2 + i <= n + 1
       PROVE  /\ \E k \in DOMAIN r : r[k].common_name = c[i]
              /\ u[c[i]] # None => t.routes[u[c[i]]] # None
  <2>1. CASE 2 + i <= n
    <3>1. /\ \E k \in DOMAIN q : q[k].common_name = c[i]
          /\ u[c[i]] # None => s.routes[u[c[i]]] # None
      BY <1>4, <1>10, <2>1 DEF TaggedTaken
    <3>2. u[c[i]] # None => u[c[i]] \in Words
      BY <1>11, WordsAreApart
    <3> QED  BY <1>3, <1>7, <3>1, <3>2
  <2>2. CASE ~(2 + i <= n)
    <3>1. n + 1 = 2 + i
      BY <1>12, <2>2
    <3>2. line = <<"CLIENT_LIST", c[i], Real, u[c[i]], Other>>
      BY <1>1, <1>10, <3>1 DEF IsVersion2
    <3>3. line[1] = "CLIENT_LIST" /\ line[2] = c[i] /\ line[4] = u[c[i]] /\ DOMAIN line = 1 .. 5
      BY <3>2
    <3>4. Field(line, 2) = c[i] /\ Field(line, 4) = u[c[i]]
      BY <3>3 DEF Field
    <3>5. c[i] # None
      BY <1>11, WordsAreApart
    <3>6. IsSessionRow(line)
      BY <3>3, <3>4, <3>5 DEF IsSessionRow
    <3> QED  BY <1>3, <1>6, <1>8, <3>3, <3>4, <3>6
  <2> QED  BY <2>1, <2>2
<1> QED  BY <1>4, <1>9, <1>10, <1>12 DEF TaggedTaken

(* What WholeFile says of a snapshot and a server.                         *)
Whole(s, u) ==
    /\ \A ip \in Ips, c \in Names : s.routes[ip] = c <=> u[c] = ip
    /\ Range(s.clients) = {[common_name |-> c, virtual_address |-> u[c]] : c \in {d \in Names : u[d] # Absent}}

LEMMA WholeIs ==
    ASSUME NEW u \in Servers, NEW s \in Snapshots, RoutesIn({u}, s), SessionsIn({u}, s),
           \A c \in Names : u[c] \in Ips => s.routes[u[c]] # None,
           \A c \in Names : u[c] # Absent => \E k \in DOMAIN s.clients : s.clients[k].common_name = c,
           \A k \in DOMAIN s.clients : u[s.clients[k].common_name] = s.clients[k].virtual_address
    PROVE  Whole(s, u)
<1>1. ASSUME NEW ip \in Ips, NEW c \in Names PROVE s.routes[ip] = c => u[c] = ip
  <2>1. SUFFICES ASSUME s.routes[ip] = c PROVE u[c] = ip
    OBVIOUS
  <2>2. ip \in Words /\ ip # None /\ ip # Net /\ c # None
    BY WordsAreApart
  <2>3. RouteIn({u}, ip, c)
    BY <2>1, <2>2 DEF RoutesIn
  <2> QED  BY <2>2, <2>3 DEF RouteIn
<1>2. ASSUME NEW ip \in Ips, NEW c \in Names, u[c] = ip PROVE s.routes[ip] = c
  <2>1. s.routes[ip] # None
    BY <1>2
  <2>2. ip \in Words /\ ip # None
    BY WordsAreApart
  <2>3. RouteIn({u}, ip, s.routes[ip])
    BY <2>2 DEF RoutesIn
  <2>4. s.routes[ip] \in Names
    BY <2>1, <2>2, <2>3 DEF RouteIn
  <2>5. u[s.routes[ip]] = ip
    BY <1>1, <2>4
  <2> QED  BY <1>2, <2>4, <2>5 DEF Servers
<1>3. PICK q : q = s.clients
  OBVIOUS
<1>4. \A k \in DOMAIN q : q[k] \in Sessions0
  <2>1. q \in Seq(Sessions0)
    BY <1>3 DEF Snapshots
  <2> QED  BY <2>1, LenProperties, ElementOfSeq
<1>5. ASSUME NEW k \in DOMAIN q
      PROVE  /\ q[k].common_name \in Names /\ u[q[k].common_name] # Absent
             /\ q[k] = [common_name |-> q[k].common_name, virtual_address |-> u[q[k].common_name]]
  <2>1. SessionIn({u}, q[k].common_name, q[k].virtual_address)
    BY <1>3 DEF SessionsIn
  <2>2. u[q[k].common_name] = q[k].virtual_address
    BY <1>3
  <2> QED  BY <1>4, <2>1, <2>2 DEF SessionIn, Sessions0
<1>6. \A c \in Names : u[c] # Absent =>
          \E k \in DOMAIN q : q[k] = [common_name |-> c, virtual_address |-> u[c]]
  BY <1>3, <1>5
<1>7. {q[k] : k \in DOMAIN q} =
          {[common_name |-> c, virtual_address |-> u[c]] : c \in {d \in Names : u[d] # Absent}}
  BY <1>5, <1>6
<1> QED  BY <1>1, <1>2, <1>3, <1>7 DEF Whole, Range

LEMMA SectionedWhole ==
    ASSUME NEW u \in Servers, NEW s \in Snapshots, RoutesIn({u}, s), SessionsIn({u}, s),
           NEW a \in Nat, NEW b \in Nat, a = Len(Connected(u)), b = Len(Routed(u)),
           Taken(s, 8 + a + b, u, a, b), NEW t, t = Backfill(s)
    PROVE  Whole(t, u)
<1>1. PICK c, r : c = Connected(u) /\ r = Routed(u)
  OBVIOUS
<1>2. DOMAIN c = 1 .. a /\ DOMAIN r = 1 .. b
  BY <1>1, ConnectedIs, RoutedIs, LenProperties
<1>3. /\ \A i \in 1 .. a : \E k \in DOMAIN s.clients : s.clients[k].common_name = c[i]
      /\ \A i \in 1 .. b : s.routes[r[i][1]] # None
  <2>1. (\A i \in 1 .. a : 3 + i <= 8 + a + b) /\ (\A i \in 1 .. b : 5 + a + i <= 8 + a + b)
    OBVIOUS
  <2> QED  BY <1>1, <2>1 DEF Taken
<1>4. ASSUME NEW d \in Names, u[d] \in Ips PROVE s.routes[u[d]] = d
  <2>1. PICK i \in 1 .. b : r[i] = <<u[d], d>>
    BY <1>1, <1>2, <1>4, RoutedIs
  <2>2. s.routes[u[d]] # None
    BY <1>3, <2>1
  <2>3. u[d] \in Words /\ u[d] # None /\ u[d] # Net
    BY <1>4, WordsAreApart
  <2>4. RouteIn({u}, u[d], s.routes[u[d]])
    BY <2>3 DEF RoutesIn
  <2>5. s.routes[u[d]] \in Names /\ u[s.routes[u[d]]] = u[d]
    BY <1>4, <2>2, <2>3, <2>4 DEF RouteIn
  <2> QED  BY <1>4, <2>5 DEF Servers
<1>5. IsBackfilled(t, s)
  BY BackfillIs
<1>6. t \in Snapshots /\ RoutesIn({u}, t) /\ SessionsIn({u}, t)
  BY <1>5, BackfillSound DEF IsBackfilled, RoutesIn, SessionsIn
<1>7. \A d \in Names : u[d] \in Ips => t.routes[u[d]] # None
  BY <1>4, <1>5, WordsAreApart DEF IsBackfilled
<1>8. \A d \in Names : u[d] # Absent => \E k \in DOMAIN t.clients : t.clients[k].common_name = d
  <2>1. SUFFICES ASSUME NEW d \in Names, u[d] # Absent
                 PROVE  \E k \in DOMAIN t.clients : t.clients[k].common_name = d
    OBVIOUS
  <2>2. PICK i \in 1 .. a : c[i] = d
    BY <1>1, <1>2, <2>1, ConnectedIs
  <2> QED  BY <1>3, <1>5, <2>2 DEF IsBackfilled
<1>9. ASSUME NEW k \in DOMAIN t.clients
      PROVE  u[t.clients[k].common_name] = t.clients[k].virtual_address
  <2>1. PICK d, x : d = t.clients[k].common_name /\ x = t.clients[k].virtual_address
    OBVIOUS
  <2>2. SessionIn({u}, d, x)
    BY <1>6, <2>1 DEF SessionsIn
  <2>3. d \in Names /\ u[d] # Absent /\ (x # None => u[d] = x)
    BY <2>2 DEF SessionIn
  <2>4. u[d] \in Ips \cup {None}
    BY <2>3 DEF Servers
  <2>5. ASSUME u[d] \in Ips PROVE x # None
    <3>1. s.routes[u[d]] = d /\ u[d] # Net /\ u[d] \in Words
      BY <1>4, <2>3, <2>5, WordsAreApart
    <3>2. s.routes[u[d]] # None
      BY <2>3, <3>1, WordsAreApart
    <3>3. PICK j \in DOMAIN s.order : s.order[j] = u[d]
      BY <3>1, <3>2 DEF Taken, Listed
    <3>4. j \in Own(s, d)
      BY <3>1, <3>3 DEF Own
    <3>5. k \in DOMAIN s.clients /\ s.clients[k].common_name = d
      BY <1>5, <2>1 DEF IsBackfilled
    <3>6. \A m \in DOMAIN s.clients : s.clients[m].common_name = d => m = k
      BY <3>5 DEF Taken
    <3>7. PICK i \in Own(s, d) : x = s.order[i]
      BY <1>5, <2>1, <3>4, <3>5, <3>6 DEF IsBackfilled
    <3>8. s.order[i] \in Words
      <4>1. PICK order : order = s.order
        OBVIOUS
      <4>2. order \in Seq(Words) /\ i \in DOMAIN order
        BY <3>7, <4>1 DEF Snapshots, Own
      <4>3. order[i] \in Words
        BY <4>2, LenProperties, ElementOfSeq
      <4> QED  BY <4>1, <4>3
    <3> QED  BY <3>7, <3>8, WordsAssumption
  <2> QED  BY <2>1, <2>3, <2>4, <2>5
<1> QED  BY <1>6, <1>7, <1>8, <1>9, WholeIs

LEMMA TaggedWhole ==
    ASSUME NEW u \in Servers, NEW s \in Snapshots, RoutesIn({u}, s), SessionsIn({u}, s),
           NEW a \in Nat, NEW b \in Nat, a = Len(Connected(u)), TaggedTaken(s, 5 + a + b, u, a)
    PROVE  Whole(s, u)
<1>1. PICK c, q, r : c = Connected(u) /\ q = s.clients /\ r = s.routes
  OBVIOUS
<1> DEFINE Has(d) == (\E k \in DOMAIN q : q[k].common_name = d) /\ (u[d] # None => r[u[d]] # None)
<1>2. DOMAIN c = 1 .. a /\ \A d \in Names : u[d] # Absent => \E i \in DOMAIN c : c[i] = d
  BY <1>1, ConnectedIs, LenProperties
<1>3. \A i \in 1 .. a : 2 + i <= 5 + a + b
  OBVIOUS
<1>4. \A i \in 1 .. a : Has(c[i])
  BY <1>1, <1>3 DEF TaggedTaken
<1>5. ASSUME NEW d \in Names, u[d] # Absent
      PROVE  Has(d)
  <2> HIDE DEF Has
  <2>1. PICK i \in 1 .. a : c[i] = d
    BY <1>2, <1>5
  <2> QED  BY <1>4, <2>1
<1>6. \A d \in Names : u[d] \in Ips => u[d] # Absent /\ u[d] # None
  BY WordsAreApart
<1>7. \A d \in Names : u[d] \in Ips => s.routes[u[d]] # None
  BY <1>1, <1>5, <1>6
<1>8. \A k \in DOMAIN s.clients : u[s.clients[k].common_name] = s.clients[k].virtual_address
  BY DEF TaggedTaken
<1>9. \A d \in Names : u[d] # Absent => \E k \in DOMAIN s.clients : s.clients[k].common_name = d
  BY <1>1, <1>5
<1> QED  BY <1>7, <1>8, <1>9, WholeIs

-----------------------------------------------------------------------------
(* The inductive invariant of a whole file: it is one, the parser has what *)
(* the lines before hold, and in the end the snapshot is the server.       *)
WholeInv ==
    tear = "none" =>
        /\ parsed => at = Len(text) /\ Whole(snap, new)
        /\ ~parsed /\ HasTags(text) => TaggedTaken(snap, at, new, Len(Connected(new)))
        /\ ~parsed /\ ~HasTags(text) =>
               /\ SectionAt(snap, at, Len(Connected(new)), Len(Routed(new)))
               /\ Taken(snap, at, new, Len(Connected(new)), Len(Routed(new)))

QInv == PInv /\ WholeText /\ WholeInv

LEMMA NewIs ==
    ASSUME QInv, tear = "none", NEW a, a = Len(Connected(new)), NEW b, b = Len(Routed(new))
    PROVE  /\ new \in Servers /\ From = {new} /\ LinesOnly
           /\ a \in Nat /\ b \in Nat /\ at \in Nat
           /\ HasTags(text) => text = Version2(new) /\ IsVersion2(new, text, a, b) /\ Len(text) = 5 + a + b
           /\ ~HasTags(text) => IsVersion1(new, text, a, b) /\ Len(text) = 8 + a + b
<1>1. new \in Servers /\ From = {new} /\ LinesOnly
  BY DEF QInv, PInv, FileInv, From, LinesOnly
<1>2. a \in Nat /\ b \in Nat
  BY <1>1, ConnectedIs, RoutedIs, LenProperties
<1>3. HasTags(text) => text = Version2(new) /\ IsVersion2(new, text, a, b)
  BY <1>1, Version2Is DEF QInv, WholeText
<1>4. ~HasTags(text) => IsVersion1(new, text, a, b)
  BY <1>1, Version1Is DEF QInv, WholeText
<1>5. (HasTags(text) => Len(text) = 5 + a + b) /\ (~HasTags(text) => Len(text) = 8 + a + b)
  BY <1>3, <1>4 DEF IsVersion1, IsVersion2
<1>6. at \in Nat
  <2>1. PICK len : len = Len(text)
    OBVIOUS
  <2>2. at \in 0 .. len
    BY <2>1 DEF QInv, PInv, ParseTypeOK
  <2> QED  BY <2>2
<1> QED  BY <1>1, <1>2, <1>3, <1>4, <1>5, <1>6

LEMMA InitQInv == ParseInit => QInv
<1> SUFFICES ASSUME ParseInit PROVE QInv
  OBVIOUS
<1>1. PInv /\ WholeText
  BY InitPInv, InitFile
<1>2. snap = Empty /\ at = 0 /\ ~parsed
  BY DEF ParseInit
<1>3. ASSUME NEW u, NEW a \in Nat, NEW b \in Nat
      PROVE  Taken(Empty, 0, u, a, b) /\ SectionAt(Empty, 0, a, b) /\ TaggedTaken(Empty, 0, u, a)
  <2>1. DOMAIN Empty.clients = {} /\ \A w \in Words : Empty.routes[w] = None
    BY DEF Empty
  <2>2. /\ \A i \in 1 .. a : ~(3 + i <= 0) /\ ~(2 + i <= 0)
        /\ \A i \in 1 .. b : ~(5 + a + i <= 0)
        /\ 0 \notin 1 .. 3 + a /\ 0 \notin 4 + a .. 5 + a + b
    OBVIOUS
  <2> QED  BY <2>1, <2>2 DEF Taken, TaggedTaken, SectionAt, Listed
<1>4. Len(Connected(new)) \in Nat /\ Len(Routed(new)) \in Nat
  BY ConnectedIs, RoutedIs, LenProperties DEF ParseInit
<1>5. WholeInv
  BY <1>2, <1>3, <1>4 DEF WholeInv
<1> QED  BY <1>1, <1>5 DEF QInv

LEMMA StepQInv ==
    ASSUME QInv, parse_status
    PROVE  QInv'
<1>1. PInv'
  BY TaggedPInv, SectionedPInv, ReturnPInv DEF QInv, parse_status
<1>2. UNCHANGED <<old, new, tear, text>>
  BY DEF parse_status, ParseTagged, ParseSectioned, Return
<1>3. WholeText'
  BY <1>2 DEF QInv, WholeText
<1>4. CASE tear # "none"
  BY <1>1, <1>2, <1>3, <1>4 DEF QInv, WholeInv
<1>5. CASE tear = "none"
  <2>1. PICK a, b : a = Len(Connected(new)) /\ b = Len(Routed(new))
    OBVIOUS
  <2>2. /\ new \in Servers /\ From = {new} /\ LinesOnly
        /\ a \in Nat /\ b \in Nat /\ at \in Nat
        /\ HasTags(text) => text = Version2(new) /\ IsVersion2(new, text, a, b) /\ Len(text) = 5 + a + b
        /\ ~HasTags(text) => IsVersion1(new, text, a, b) /\ Len(text) = 8 + a + b
    BY <1>5, <2>1, NewIs
  <2>3. at < Len(text) => ~parsed /\ at + 1 \in 1 .. Len(text)
    <3>1. parsed => at = Len(text)
      BY <1>5 DEF QInv, WholeInv
    <3>2. Len(text) \in Nat
      BY <2>2
    <3> QED  BY <2>2, <3>1, <3>2
  <2>4. snap \in Snapshots /\ RoutesIn({new}, snap) /\ SessionsIn({new}, snap)
    BY <2>2, TypeIs DEF QInv, PInv, SnapInv, SessionsIn
  <2>5. PICK s, t : s = snap /\ t = snap'
    OBVIOUS
  <2>6. CASE ParseTagged
    <3>1. /\ HasTags(text) /\ ~parsed /\ at + 1 \in 1 .. Len(text) /\ t = Tagged(s, text[at + 1])
          /\ ~parsed' /\ at' = at + 1
      BY <2>3, <2>5, <2>6 DEF ParseTagged
    <3>2. TaggedTaken(s, at, new, a)
      BY <1>5, <2>1, <2>5, <3>1 DEF QInv, WholeInv
    <3>3. TaggedTaken(t, at + 1, new, a)
      BY <2>1, <2>2, <2>4, <2>5, <3>1, <3>2, TaggedTakenStep
    <3> QED  BY <1>1, <1>2, <1>3, <2>1, <2>5, <3>1, <3>3 DEF QInv, WholeInv
  <2>7. CASE ParseSectioned
    <3>1. /\ ~HasTags(text) /\ ~parsed /\ at + 1 \in 1 .. 8 + a + b /\ t = Sectioned(s, text[at + 1])
          /\ ~parsed' /\ at' = at + 1
      BY <2>2, <2>3, <2>5, <2>7 DEF ParseSectioned
    <3>2. SectionAt(s, at, a, b) /\ Taken(s, at, new, a, b)
      BY <1>5, <2>1, <2>5, <3>1 DEF QInv, WholeInv
    <3>3. SectionAt(t, at + 1, a, b) /\ Taken(t, at + 1, new, a, b)
      BY <2>1, <2>2, <2>4, <2>5, <3>1, <3>2, SectionedTaken
    <3> QED  BY <1>1, <1>2, <1>3, <2>1, <2>5, <3>1, <3>3 DEF QInv, WholeInv
  <2>8. CASE Return
    <3>1. at = Len(text) /\ ~parsed /\ parsed' /\ at' = at
      BY <2>8 DEF Return
    <3>2. CASE HasTags(text)
      <4>1. t = s /\ at = 5 + a + b
        BY <2>2, <2>5, <2>8, <3>1, <3>2 DEF Return
      <4>2. TaggedTaken(s, 5 + a + b, new, a)
        BY <1>5, <2>1, <2>5, <3>1, <3>2, <4>1 DEF QInv, WholeInv
      <4>3. Whole(t, new)
        BY <2>1, <2>2, <2>4, <2>5, <4>1, <4>2, TaggedWhole
      <4> QED  BY <1>1, <1>2, <1>3, <2>5, <3>1, <4>3 DEF QInv, WholeInv
    <3>3. CASE ~HasTags(text)
      <4>1. t = Backfill(s) /\ at = 8 + a + b
        BY <2>2, <2>5, <2>8, <3>1, <3>3 DEF Return
      <4>2. Taken(s, 8 + a + b, new, a, b)
        BY <1>5, <2>1, <2>5, <3>1, <3>3, <4>1 DEF QInv, WholeInv
      <4>3. Whole(t, new)
        BY <2>1, <2>2, <2>4, <2>5, <4>1, <4>2, SectionedWhole
      <4> QED  BY <1>1, <1>2, <1>3, <2>5, <3>1, <4>3 DEF QInv, WholeInv
    <3> QED  BY <3>2, <3>3
  <2> QED  BY <2>6, <2>7, <2>8 DEF parse_status
<1> QED  BY <1>4, <1>5

(* Of a whole file, of whatever version and however many clients it lists, *)
(* nothing is lost, nothing is added and nothing is mixed up.              *)
THEOREM WholeFileKnown == ParseSpec => []WholeFile
<1>1. QInv /\ UNCHANGED parseVars => QInv'
  <2>1. SUFFICES ASSUME QInv, UNCHANGED parseVars PROVE QInv'
    OBVIOUS
  <2>2. PInv'
    BY <2>1, StutterPInv DEF QInv
  <2>3. WholeText' /\ WholeInv'
    BY <2>1 DEF QInv, WholeText, WholeInv, parseVars
  <2> QED  BY <2>2, <2>3 DEF QInv
<1>2. QInv /\ [parse_status]_parseVars => QInv'
  BY <1>1, StepQInv
<1>3. QInv => WholeFile
  BY DEF QInv, WholeInv, Whole, WholeFile
<1> QED  BY InitQInv, <1>2, <1>3, PTL DEF ParseSpec

-----------------------------------------------------------------------------
(* The file is as young as its writer promises, and lists who was there.   *)
FileTrue ==
    /\ \A s \in connected : gone[s] = 0
    /\ \A s \in file : gone[s] =< fileAge

(* The inductive invariant of the table, whatever happens to the polls.    *)
SInv ==
    /\ TypeOK
    /\ FileTrue
    /\ SeenInTime

(* Every poll comes within what is kept.                                   *)
PollsInTime == ~Outages /\ \A keep \in Keeps : PollGap =< keep

(* Under PollsInTime: who is known is in every file from then on, and was  *)
(* seen no longer ago than the last whole poll.                            *)
KInv ==
    /\ TypeOK
    /\ stale =< PollGap
    /\ known \subseteq file
    /\ \A s \in known : seen[s] =< stale

USE PeriodsAssumption DEF Ages, Never, Older

-----------------------------------------------------------------------------
LEMMA InitTypeOK == Init => TypeOK
BY DEF Init, TypeOK

LEMMA NextTypeOK == ASSUME TypeOK, [Next]_vars PROVE TypeOK'
<1> USE DEF TypeOK
<1>1. ASSUME NEW s \in Sessions, Connect(s) \/ Disconnect(s) PROVE TypeOK'
  BY <1>1 DEF Connect, Disconnect
<1>2. CASE WriteStatus \/ LoseStatus \/ RestoreStatus
  <2>1. CASE WriteStatus
    BY <2>1 DEF WriteStatus
  <2>2. CASE LoseStatus \/ RestoreStatus
    BY <2>2 DEF LoseStatus, RestoreStatus
  <2> QED  BY <1>2, <2>1, <2>2
<1>3. CASE Poll \/ PollUnstored \/ Restart
  BY <1>3 DEF Poll, PollUnstored, Restart, ReplaceRoutes, Stored
<1>4. ASSUME NEW read \in SUBSET Sessions, PollTorn(read) PROVE TypeOK'
  BY <1>4 DEF PollTorn, ReplaceRoutes, Stored
<1>5. ASSUME NEW keep \in Keeps, Prune(keep) PROVE TypeOK'
  BY <1>5 DEF Prune
<1>6. CASE Tick
  BY <1>6 DEF Tick
<1>7. CASE UNCHANGED vars
  BY <1>7 DEF vars
<1> QED  BY <1>1, <1>2, <1>3, <1>4, <1>5, <1>6, <1>7 DEF Next, Server, Watcher

(* Ages and names keep to their ranges.                                    *)
THEOREM SessionsTypeCorrect == Spec => []TypeOK
BY InitTypeOK, NextTypeOK, PTL DEF Spec

-----------------------------------------------------------------------------
LEMMA InitSInv == Init => SInv
BY InitTypeOK DEF Init, SInv, FileTrue, SeenInTime

LEMMA NextSInv == ASSUME SInv, [Next]_vars PROVE SInv'
<1>0. TypeOK'
  BY NextTypeOK DEF SInv
<1> USE <1>0 DEF SInv, TypeOK, FileTrue, SeenInTime
<1>1. ASSUME NEW s \in Sessions, Connect(s) \/ Disconnect(s) PROVE SInv'
  BY <1>1 DEF Connect, Disconnect
<1>2. CASE WriteStatus \/ LoseStatus \/ RestoreStatus
  BY <1>2 DEF WriteStatus, LoseStatus, RestoreStatus
<1>3. CASE Poll \/ PollUnstored \/ Restart
  BY <1>3 DEF Poll, PollUnstored, Restart, ReplaceRoutes, Stored
<1>4. ASSUME NEW read \in SUBSET Sessions, PollTorn(read) PROVE SInv'
  BY <1>4 DEF PollTorn, ReplaceRoutes, Stored
<1>5. ASSUME NEW keep \in Keeps, Prune(keep) PROVE SInv'
  BY <1>5 DEF Prune
<1>6. CASE Tick
  BY <1>6 DEF Tick
<1>7. CASE UNCHANGED vars
  BY <1>7 DEF vars
<1> QED  BY <1>1, <1>2, <1>3, <1>4, <1>5, <1>6, <1>7 DEF Next, Server, Watcher

(* record_sessions: a last_seen is the time of a poll whose file was true  *)
(* at most StatusPeriod earlier.                                           *)
THEOREM LastSeenIsTrue == Spec => []SeenInTime
<1>1. SInv => SeenInTime
  BY DEF SInv
<1> QED  BY <1>1, InitSInv, NextSInv, PTL DEF Spec

-----------------------------------------------------------------------------
LEMMA InitKInv == Init => KInv
BY InitTypeOK DEF Init, KInv

LEMMA NextKInv == ASSUME PollsInTime, KInv, [Next]_vars PROVE KInv'
<1>0. TypeOK'
  BY NextTypeOK DEF KInv
<1> USE <1>0 DEF KInv, TypeOK
<1>1. ASSUME NEW s \in Sessions, Connect(s) \/ Disconnect(s) PROVE KInv'
  BY <1>1 DEF Connect, Disconnect
<1>2. CASE WriteStatus \/ LoseStatus \/ RestoreStatus
  BY <1>2 DEF WriteStatus, LoseStatus, RestoreStatus
<1>3. CASE Poll \/ PollUnstored \/ Restart
  BY <1>3 DEF Poll, PollUnstored, Restart, ReplaceRoutes, Stored
<1>4. ASSUME NEW read \in SUBSET Sessions, PollTorn(read) PROVE KInv'
  BY <1>4 DEF PollTorn, ReplaceRoutes, Stored
<1>5. ASSUME NEW keep \in Keeps, Prune(keep) PROVE KInv'
  BY <1>5 DEF Prune, PollsInTime
<1>6. CASE Tick
  BY <1>6 DEF Tick, PollsInTime
<1>7. CASE UNCHANGED vars
  BY <1>7 DEF vars
<1> QED  BY <1>1, <1>2, <1>3, <1>4, <1>5, <1>6, <1>7 DEF Next, Server, Watcher

(* prune: under PollsInTime no connected client that was stored is pruned. *)
THEOREM ConnectedNeverPruned == PollsInTime => (Spec => []ConnectedKept)
<1>1. KInv => ConnectedKept
  BY DEF KInv, TypeOK, ConnectedKept
<1>2. PollsInTime /\ KInv /\ [Next]_vars => KInv'
  BY NextKInv
<1>3. SUFFICES ASSUME PollsInTime PROVE Spec => []ConnectedKept
  OBVIOUS
<1>4. KInv /\ [Next]_vars => KInv'
  BY <1>2, <1>3
<1> QED  BY <1>1, <1>4, InitKInv, PTL DEF Spec
=============================================================================
