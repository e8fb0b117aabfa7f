-------------------------- MODULE SQLParserProofs --------------------------
(***************************************************************************)
(* What holds of the tokenizer of the SQL parser for every text: the tokens *)
(* hold the symbols of the text in order, apart from spaces, and each is an *)
(* operator, a word or a literal.                                          *)
(*                                                                         *)
(* LexInv relates the tokens and the one that is begun to the part of the  *)
(* text that has been read.  A literal that is open has its quotes doubled; *)
(* whether the next quote ends it depends on the parity of the run of      *)
(* quotes before it, and that of an open literal is even (OpenRunEven).    *)
(* FlattenSeq is a recursive function: FlattensExists and FlattensAgree say *)
(* what it computes, by induction over a set of numbers.                   *)
(***************************************************************************)
EXTENDS SQLParser, FiniteSetTheorems, SequenceTheorems, TLAPS

-----------------------------------------------------------------------------
(* Induction *)

\* A set of numbers that is not empty has a least one.
LEMMA LeastExists ==
  ASSUME NEW X \in SUBSET Nat, X # {}
  PROVE  \E least \in X : \A x \in X : least <= x
<1> DEFINE Initial == {0 .. x : x \in X}
<1>1. Initial \subseteq FiniteSubsetsOf(Nat)
  <2> SUFFICES ASSUME NEW x \in X
               PROVE  0 .. x \in SUBSET Nat /\ IsFiniteSet(0 .. x)
    BY DEF FiniteSubsetsOf
  <2> QED BY FS_Interval
<1>2. PICK lowest \in Initial : \A other \in Initial : ~ (<<other, lowest>> \in StrictSubsetOrdering(Nat))
  <2>1. Initial # {}
    OBVIOUS
  <2> HIDE DEF Initial
  <2> QED BY <1>1, <2>1, WFMin, FS_StrictSubsetOrderingWellFounded, Zenon
<1>3. PICK least \in X : lowest = 0 .. least
  OBVIOUS
<1>4. ASSUME NEW x \in X, x < least
      PROVE  FALSE
  <2>1. 0 .. x \subseteq 0 .. least /\ 0 .. x # 0 .. least
    BY <1>4
  <2>2. <<0 .. x, lowest>> \in StrictSubsetOrdering(Nat)
    BY <1>3, <2>1 DEF StrictSubsetOrdering
  <2> QED BY <1>2, <2>2
<1> QED BY <1>4

\* Induction, for a property given as the set of the numbers that have it.
LEMMA Induction ==
  ASSUME NEW Good \in SUBSET Nat, 0 \in Good, \A m \in Good : m + 1 \in Good
  PROVE  \A m \in Nat : m \in Good
<1> SUFFICES ASSUME Nat \ Good # {} PROVE FALSE
  OBVIOUS
<1>1. PICK m \in Nat \ Good : \A other \in Nat \ Good : m <= other
  BY LeastExists
<1>2. m - 1 \in Nat /\ m = (m - 1) + 1
  BY <1>1
<1>3. m - 1 \in Good
  BY <1>1, <1>2
<1> QED BY <1>1, <1>2, <1>3

-----------------------------------------------------------------------------
(* FlattenSeq *)

\* The equation of the function that FlattenSeq chooses, up to n.
Flattens(g, n, seqs) == g = [k \in 1 .. n |-> IF k = 1 THEN seqs[k] ELSE g[k - 1] \o seqs[k]]

LEMMA FlattensExists ==
  ASSUME NEW seqs
  PROVE  \A n \in Nat : \E g : Flattens(g, n, seqs)
<1> DEFINE Good == {n \in Nat : \E g : Flattens(g, n, seqs)}
<1>1. 0 \in Good
  <2>1. Flattens([k \in 1 .. 0 |-> seqs[k]], 0, seqs)
    BY DEF Flattens
  <2> QED BY <2>1
<1>2. ASSUME NEW n \in Good PROVE n + 1 \in Good
  <2>1. PICK g : Flattens(g, n, seqs)
    OBVIOUS
  <2> DEFINE last == IF n = 0 THEN seqs[1] ELSE g[n] \o seqs[n + 1]
             h == [k \in 1 .. (n + 1) |-> IF k = n + 1 THEN last ELSE g[k]]
  <2>2. \A k \in 1 .. n : g[k] = IF k = 1 THEN seqs[k] ELSE g[k - 1] \o seqs[k]
    BY <2>1 DEF Flattens
  <2>3. \A k \in 1 .. (n + 1) : h[k] = IF k = 1 THEN seqs[k] ELSE h[k - 1] \o seqs[k]
    <3> SUFFICES ASSUME NEW k \in 1 .. (n + 1)
                 PROVE  h[k] = IF k = 1 THEN seqs[k] ELSE h[k - 1] \o seqs[k]
      OBVIOUS
    <3>1. CASE k = n + 1
      <4>1. h[k] = last /\ (k # 1 => h[k - 1] = g[n])
        BY <3>1
      <4> QED BY <3>1, <4>1
    <3>2. CASE k # n + 1
      <4>1. k \in 1 .. n /\ h[k] = g[k] /\ (k # 1 => h[k - 1] = g[k - 1])
        BY <3>2
      <4> HIDE DEF h
      <4> QED BY <2>2, <4>1
    <3> QED BY <3>1, <3>2
  <2>4. h = [k \in 1 .. (n + 1) |-> h[k]]
    OBVIOUS
  <2> HIDE DEF h
  <2>5. Flattens(h, n + 1, seqs)
    BY <2>3, <2>4 DEF Flattens
  <2> QED BY <2>5
<1> Good \in SUBSET Nat
  OBVIOUS
<1>3. \A n \in Nat : n \in Good
  <2> HIDE DEF Good
  <2> QED BY <1>1, <1>2, Induction
<1> QED BY <1>3

BeginAlike(A, m, seqs, ts) == \A k \in 1 .. m : seqs[k] \in Seq(A) /\ ts[k] = seqs[k]

\* What it chooses for equal beginnings is equal, and a sequence.
LEMMA FlattensAgree ==
  ASSUME NEW A, NEW m \in Nat, NEW n \in Nat, m <= n, NEW seqs, NEW ts, NEW g, NEW h,
         BeginAlike(A, m, seqs, ts),
         Flattens(g, m, seqs), Flattens(h, n, ts)
  PROVE  \A k \in 1 .. m : g[k] \in Seq(A) /\ h[k] = g[k]
<1> USE DEF BeginAlike
<1> DEFINE Good == {k \in Nat : k + 1 \in 1 .. m => g[k + 1] \in Seq(A) /\ h[k + 1] = g[k + 1]}
<1>1. \A k \in 1 .. m : g[k] = IF k = 1 THEN seqs[k] ELSE g[k - 1] \o seqs[k]
  BY DEF Flattens
<1>2. \A k \in 1 .. m : h[k] = IF k = 1 THEN seqs[k] ELSE h[k - 1] \o seqs[k]
  <2>1. \A k \in 1 .. n : h[k] = IF k = 1 THEN ts[k] ELSE h[k - 1] \o ts[k]
    BY DEF Flattens
  <2>2. \A k \in 1 .. m : k \in 1 .. n
    OBVIOUS
  <2> QED BY <2>1, <2>2
<1>3. 0 \in Good
  BY <1>1, <1>2
<1>4. ASSUME NEW k \in Good PROVE k + 1 \in Good
  <2> SUFFICES ASSUME k + 2 \in 1 .. m
               PROVE  g[k + 2] \in Seq(A) /\ h[k + 2] = g[k + 2]
    OBVIOUS
  <2>1. g[k + 1] \in Seq(A) /\ h[k + 1] = g[k + 1]
    OBVIOUS
  <2>2. k + 2 # 1 /\ (k + 2) - 1 = k + 1
    OBVIOUS
  <2>3. g[k + 2] = g[k + 1] \o seqs[k + 2] /\ h[k + 2] = h[k + 1] \o seqs[k + 2]
    BY <1>1, <1>2, <2>2
  <2>4. seqs[k + 2] \in Seq(A)
    OBVIOUS
  <2>5. g[k + 1] \o seqs[k + 2] \in Seq(A)
    BY <2>1, <2>4, ConcatProperties
  <2> QED BY <2>1, <2>3, <2>5
<1> Good \in SUBSET Nat
  OBVIOUS
<1>5. \A k \in Nat : k \in Good
  <2> HIDE DEF Good
  <2> QED BY <1>3, <1>4, Induction
<1> SUFFICES ASSUME NEW k \in 1 .. m PROVE g[k] \in Seq(A) /\ h[k] = g[k]
  OBVIOUS
<1>6. k - 1 \in Nat /\ (k - 1) + 1 = k
  OBVIOUS
<1>7. k - 1 \in Good
  BY <1>5, <1>6
<1> QED BY <1>6, <1>7

LEMMA FlattenChosen ==
  ASSUME NEW A, NEW seqs \in Seq(Seq(A)), Len(seqs) > 0
  PROVE  \E g : Flattens(g, Len(seqs), seqs) /\ FlattenSeq(seqs) = g[Len(seqs)]
<1>1. Len(seqs) \in Nat /\ Len(seqs) # 0
  BY LenProperties
<1>2. \E g : Flattens(g, Len(seqs), seqs)
  BY <1>1, FlattensExists
<1> DEFINE chosen == CHOOSE g : Flattens(g, Len(seqs), seqs)
<1>3. Flattens(chosen, Len(seqs), seqs)
  BY <1>2, Zenon
<1>4. FlattenSeq(seqs) = chosen[Len(seqs)]
  BY <1>1, Zenon DEF FlattenSeq, Flattens
<1> HIDE DEF chosen
<1> QED BY <1>3, <1>4

\* FlattenSeq of a sequence of sequences is a sequence, and it grows at the end.
LEMMA FlattenAppend ==
  ASSUME NEW A, NEW seqs \in Seq(Seq(A)), NEW t \in Seq(A)
  PROVE  /\ FlattenSeq(seqs) \in Seq(A)
         /\ FlattenSeq(Append(seqs, t)) = FlattenSeq(seqs) \o t
<1>1. PICK n \in Nat : n = Len(seqs)
  BY LenProperties
<1>2. \A k \in 1 .. n : seqs[k] \in Seq(A)
  BY <1>1, ElementOfSeq
<1>3. PICK ts \in Seq(Seq(A)) : ts = Append(seqs, t)
  BY AppendProperties
<1>4. Len(ts) = n + 1 /\ (\A k \in 1 .. n : ts[k] = seqs[k]) /\ ts[n + 1] = t
  BY <1>1, <1>3, AppendProperties
<1>5. PICK h : Flattens(h, n + 1, ts) /\ FlattenSeq(ts) = h[n + 1]
  BY <1>1, <1>4, FlattenChosen
<1>6. \A k \in 1 .. (n + 1) : h[k] = IF k = 1 THEN ts[k] ELSE h[k - 1] \o ts[k]
  BY <1>5 DEF Flattens
<1>7. CASE n = 0
  <2>1. seqs = <<>> /\ FlattenSeq(seqs) = <<>>
    <3>1. seqs = <<>>
      BY <1>1, <1>7, EmptySeq
    <3> QED BY <3>1, <1>1, <1>7 DEF FlattenSeq
  <2>2. FlattenSeq(ts) = t
    BY <1>4, <1>5, <1>6, <1>7
  <2>3. <<>> \in Seq(A) /\ <<>> \o t = t
    BY ConcatEmptySeq, EmptySeq
  <2> QED BY <1>3, <2>1, <2>2, <2>3
<1>8. CASE n # 0
  <2>1. PICK g : Flattens(g, n, seqs) /\ FlattenSeq(seqs) = g[n]
    BY <1>1, <1>8, FlattenChosen
  <2>2. \A k \in 1 .. n : g[k] \in Seq(A) /\ h[k] = g[k]
    <3>1. n + 1 \in Nat /\ n <= n + 1
      OBVIOUS
    <3>2. BeginAlike(A, n, seqs, ts)
      BY <1>2, <1>4 DEF BeginAlike
    <3>3. Flattens(g, n, seqs) /\ Flattens(h, n + 1, ts)
      BY <1>5, <2>1
    <3> QED BY <3>1, <3>2, <3>3, FlattensAgree, SMTT(30)
  <2>3. g[n] \in Seq(A) /\ h[n] = g[n]
    BY <1>8, <2>2
  <2>4. h[n + 1] = h[n] \o t
    <3>1. n + 1 \in 1 .. (n + 1) /\ n + 1 # 1 /\ (n + 1) - 1 = n
      BY <1>8
    <3> QED BY <1>4, <1>6, <3>1
  <2> QED BY <1>3, <1>5, <2>1, <2>3, <2>4
<1> QED BY <1>7, <1>8

-----------------------------------------------------------------------------
(* Texts *)

\* What is left of one symbol without spaces.
Kept(c) == IF c = " " THEN <<>> ELSE <<c>>
Marked(s) == [k \in DOMAIN s |-> IF s[k] = " " THEN <<>> ELSE <<s[k]>>]

LEMMA KeptType ==
  ASSUME NEW A, NEW c \in A
  PROVE  Kept(c) \in Seq(A)
<1>1. <<>> \in Seq(A) /\ <<c>> \in Seq(A)
  BY EmptySeq
<1> QED BY <1>1 DEF Kept

LEMMA MarkedType ==
  ASSUME NEW A, NEW s \in Seq(A)
  PROVE  /\ Marked(s) \in Seq(Seq(A)) /\ Len(Marked(s)) = Len(s)
         /\ \A k \in 1 .. Len(s) : Marked(s)[k] = Kept(s[k])
<1>1. Len(s) \in Nat /\ DOMAIN s = 1 .. Len(s)
  BY LenProperties
<1>2. \A k \in 1 .. Len(s) : Kept(s[k]) \in Seq(A)
  BY ElementOfSeq, KeptType
<1>3. Marked(s) = [k \in 1 .. Len(s) |-> Kept(s[k])]
  BY <1>1, Zenon DEF Marked, Kept
<1> QED BY <1>1, <1>2, <1>3

LEMMA MarkedAppend ==
  ASSUME NEW A, NEW s \in Seq(A), NEW c \in A
  PROVE  Marked(Append(s, c)) = Append(Marked(s), Kept(c))
<1>1. PICK n \in Nat : n = Len(s)
  BY LenProperties
<1>2. PICK u \in Seq(A) : u = Append(s, c)
  BY AppendProperties
<1>3. Len(u) = n + 1 /\ (\A k \in 1 .. n : u[k] = s[k]) /\ u[n + 1] = c
  BY <1>1, <1>2, AppendProperties
<1>4. PICK a \in Seq(Seq(A)) : a = Marked(u)
  BY MarkedType
<1>5. PICK m \in Seq(Seq(A)) : m = Marked(s)
  BY MarkedType
<1>6. Len(a) = n + 1 /\ \A k \in 1 .. (n + 1) : a[k] = Kept(u[k])
  BY <1>3, <1>4, MarkedType
<1>7. Len(m) = n /\ \A k \in 1 .. n : m[k] = Kept(s[k])
  BY <1>1, <1>5, MarkedType
<1>8. PICK b \in Seq(Seq(A)) : b = Append(m, Kept(c))
  BY KeptType, AppendProperties
<1>9. Len(b) = n + 1 /\ (\A k \in 1 .. n : b[k] = m[k]) /\ b[n + 1] = Kept(c)
  BY <1>7, <1>8, KeptType, AppendProperties
<1>10. \A k \in 1 .. (n + 1) : a[k] = b[k]
  <2> SUFFICES ASSUME NEW k \in 1 .. (n + 1) PROVE a[k] = b[k]
    OBVIOUS
  <2>1. CASE k = n + 1
    BY <1>3, <1>6, <1>9, <2>1
  <2>2. CASE k # n + 1
    <3>1. k \in 1 .. n
      BY <2>2
    <3> QED BY <1>3, <1>6, <1>7, <1>9, <3>1
  <2> QED BY <2>1, <2>2
<1>11. a = b
  BY <1>6, <1>9, <1>10, SeqEqual
<1> QED BY <1>2, <1>4, <1>5, <1>8, <1>11

LEMMA SpacesAppend ==
  ASSUME NEW A, NEW s \in Seq(A), NEW c \in A
  PROVE  WithoutSpaces(Append(s, c)) = WithoutSpaces(s) \o Kept(c)
<1>1. WithoutSpaces(s) = FlattenSeq(Marked(s)) /\ WithoutSpaces(Append(s, c)) = FlattenSeq(Marked(Append(s, c)))
  BY Zenon DEF WithoutSpaces, Marked
<1>2. Marked(s) \in Seq(Seq(A)) /\ Kept(c) \in Seq(A)
  BY MarkedType, KeptType
<1>3. FlattenSeq(Append(Marked(s), Kept(c))) = FlattenSeq(Marked(s)) \o Kept(c)
  BY <1>2, FlattenAppend
<1> QED BY <1>1, <1>3, MarkedAppend

\* The symbols of the tokens and of the one that is begun.
Text(ts, t) == FlattenSeq(ts) \o t

LEMMA TextType ==
  ASSUME NEW A, NEW ts \in Seq(Seq(A)), NEW t \in Seq(A)
  PROVE  Text(ts, t) \in Seq(A)
<1>1. PICK f \in Seq(A) : f = FlattenSeq(ts)
  BY FlattenAppend
<1>2. f \o t \in Seq(A)
  BY ConcatProperties
<1> QED BY <1>1, <1>2 DEF Text

LEMMA TextGrows ==
  ASSUME NEW A, NEW ts \in Seq(Seq(A)), NEW t \in Seq(A), NEW c \in A
  PROVE  Text(ts, Append(t, c)) = Append(Text(ts, t), c)
<1>1. PICK f \in Seq(A) : f = FlattenSeq(ts)
  BY FlattenAppend
<1>2. <<c>> \in Seq(A) /\ f \o t \in Seq(A)
  BY ConcatProperties
<1>3. Append(t, c) = t \o <<c>>
  BY AppendIsConcat
<1>4. Append(f \o t, c) = (f \o t) \o <<c>>
  BY <1>2, AppendIsConcat
<1>5. (f \o t) \o <<c>> = f \o (t \o <<c>>)
  BY <1>2, ConcatAssociative
<1> QED BY <1>1, <1>3, <1>4, <1>5 DEF Text

LEMMA TextPushed ==
  ASSUME NEW A, NEW ts \in Seq(Seq(A)), NEW t \in Seq(A)
  PROVE  Text(Append(ts, t), <<>>) = Text(ts, t)
<1>1. PICK f \in Seq(A) : f = FlattenSeq(ts) /\ FlattenSeq(Append(ts, t)) = f \o t
  BY FlattenAppend
<1>2. (f \o t) \o <<>> = f \o t
  BY ConcatProperties, ConcatEmptySeq
<1> QED BY <1>1, <1>2 DEF Text

LEMMA TextOne ==
  ASSUME NEW A, NEW ts \in Seq(Seq(A)), NEW c \in A
  PROVE  Text(ts, <<c>>) = Append(Text(ts, <<>>), c)
<1>1. PICK f \in Seq(A) : f = FlattenSeq(ts)
  BY FlattenAppend
<1>2. f \o <<>> = f
  BY ConcatEmptySeq
<1>3. Append(f, c) = f \o <<c>>
  BY AppendIsConcat
<1> QED BY <1>1, <1>2, <1>3 DEF Text

LEMMA TextTwo ==
  ASSUME NEW A, NEW ts \in Seq(Seq(A)), NEW t \in Seq(A), NEW c \in A, NEW d \in A
  PROVE  /\ t \o <<c, d>> \in Seq(A)
         /\ Text(ts, t \o <<c, d>>) = Append(Append(Text(ts, t), c), d)
<1>1. PICK u \in Seq(A) : u = Append(t, c)
  BY AppendProperties
<1>2. t \o <<c, d>> = Append(u, d) /\ Append(u, d) \in Seq(A)
  BY <1>1, AppendProperties
<1>3. Text(ts, u) = Append(Text(ts, t), c)
  BY <1>1, TextGrows
<1>4. Text(ts, Append(u, d)) = Append(Text(ts, u), d)
  BY TextGrows
<1> QED BY <1>2, <1>3, <1>4

LEMMA TextPair ==
  ASSUME NEW A, NEW ts \in Seq(Seq(A)), NEW c \in A, NEW d \in A
  PROVE  /\ <<c, d>> \in Seq(A)
         /\ Text(ts, <<c, d>>) = Append(Append(Text(ts, <<>>), c), d)
<1>1. PICK u \in Seq(A) : u = <<c>>
  <2>1. <<c>> \in Seq(A)
    OBVIOUS
  <2> QED BY <2>1
<1>2. <<c, d>> = Append(u, d) /\ Append(u, d) \in Seq(A)
  BY <1>1
<1>3. Text(ts, u) = Append(Text(ts, <<>>), c)
  BY <1>1, TextOne
<1>4. Text(ts, Append(u, d)) = Append(Text(ts, u), d)
  BY TextGrows
<1> QED BY <1>2, <1>3, <1>4

\* One more symbol on both sides.
LEMMA OneMore ==
  ASSUME NEW A, NEW s \in Seq(A), NEW n \in Nat, n < Len(s), NEW text \in Seq(A),
         WithoutSpaces(text) = WithoutSpaces(SubSeq(s, 1, n))
  PROVE  /\ WithoutSpaces(Append(text, s[n + 1])) = WithoutSpaces(SubSeq(s, 1, n + 1))
         /\ s[n + 1] = " " => WithoutSpaces(text) = WithoutSpaces(SubSeq(s, 1, n + 1))
<1>1. Len(s) \in Nat /\ n + 1 \in 1 .. Len(s) /\ 1 \in 1 .. Len(s) /\ n + 1 \in 1 .. Len(s)
  BY LenProperties
<1>2. PICK c \in A : c = s[n + 1]
  BY <1>1, ElementOfSeq
<1>3. PICK read \in Seq(A) : read = SubSeq(s, 1, n)
  <2>1. \A k \in 1 .. n : s[k] \in A
    BY <1>1, ElementOfSeq
  <2>2. SubSeq(s, 1, n) \in Seq(A)
    BY <1>1, <2>1
  <2> QED BY <2>2
<1>4. SubSeq(s, 1, n + 1) = Append(read, c)
  <2>1. SubSeq(s, 1, n + 1) = SubSeq(s, 1, (n + 1) - 1) \o <<s[n + 1]>>
    BY <1>1, SubSeqRecursiveSecond
  <2>2. (n + 1) - 1 = n
    OBVIOUS
  <2> QED BY <1>2, <1>3, <2>1, <2>2, AppendIsConcat
<1>5. /\ WithoutSpaces(Append(read, c)) = WithoutSpaces(read) \o Kept(c)
      /\ WithoutSpaces(Append(text, c)) = WithoutSpaces(text) \o Kept(c)
  BY SpacesAppend
<1>6. ASSUME c = " " PROVE WithoutSpaces(text) = WithoutSpaces(Append(read, c))
  <2>1. Kept(c) = <<>>
    BY <1>6 DEF Kept
  <2>2. WithoutSpaces(text) \in Seq(A)
    <3>1. WithoutSpaces(text) = FlattenSeq(Marked(text))
      BY Zenon DEF WithoutSpaces, Marked
    <3>2. Marked(text) \in Seq(Seq(A)) /\ Kept(c) \in Seq(A)
      BY MarkedType, KeptType
    <3> QED BY <3>1, <3>2, FlattenAppend
  <2>3. WithoutSpaces(text) \o <<>> = WithoutSpaces(text)
    BY <2>2, ConcatEmptySeq
  <2> QED BY <1>3, <1>5, <2>1, <2>3
<1> QED BY <1>2, <1>3, <1>4, <1>5, <1>6

-----------------------------------------------------------------------------
(* Literals *)

Runs(t, k) == {n \in 0 .. (k - 2) : \A j \in (k - n) .. (k - 1) : t[j] = t[1]}

\* A set of numbers with a bound has a greatest one.
LEMMA GreatestExists ==
  ASSUME NEW bound \in Nat, NEW X \in SUBSET (0 .. bound), X # {}
  PROVE  Max(X) \in X /\ \A x \in X : Max(X) >= x
<1> DEFINE Y == {bound - x : x \in X}
<1>1. Y \in SUBSET Nat /\ Y # {}
  <2>1. \A x \in X : bound - x \in Nat
    OBVIOUS
  <2>2. PICK x \in X : TRUE
    OBVIOUS
  <2>3. bound - x \in Y
    OBVIOUS
  <2>4. \A y \in Y : y \in Nat
    BY <2>1
  <2> HIDE DEF Y
  <2> QED BY <2>3, <2>4
<1>2. PICK least \in Y : \A y \in Y : least <= y
  <2> HIDE DEF Y
  <2> QED BY <1>1, LeastExists
<1>3. PICK top \in X : least = bound - top
  <2>1. \E x \in X : least = bound - x
    BY <1>2, Zenon
  <2> QED BY <2>1
<1>4. \A x \in X : top >= x
  <2> SUFFICES ASSUME NEW x \in X PROVE top >= x
    OBVIOUS
  <2>1. bound - x \in Y
    OBVIOUS
  <2>2. bound - top <= bound - x
    BY <1>2, <1>3, <2>1
  <2> QED BY <2>2
<1> HIDE DEF Y
<1>5. \E x \in X : \A y \in X : x >= y
  BY <1>4
<1> QED BY <1>5, Zenon DEF Max

LEMMA RunsGreatest ==
  ASSUME NEW t, NEW k \in Nat, k >= 2
  PROVE  /\ Runs(t, k) \in SUBSET (0 .. (k - 2)) /\ QuotesBefore(t, k) \in Runs(t, k)
         /\ \A n \in Runs(t, k) : QuotesBefore(t, k) >= n
<1>1. 0 \in Runs(t, k) /\ k - 2 \in Nat
  BY DEF Runs
<1>2. Runs(t, k) \in SUBSET (0 .. (k - 2)) /\ Runs(t, k) # {}
  BY <1>1 DEF Runs
<1>3. QuotesBefore(t, k) = Max(Runs(t, k))
  BY Zenon DEF QuotesBefore, Runs
<1> QED BY <1>1, <1>2, <1>3, GreatestExists

\* The run of quotes before a position, from the one before.
LEMMA RunNext ==
  ASSUME NEW t, NEW k \in Nat, k >= 2
  PROVE  QuotesBefore(t, k + 1) = IF t[k] = t[1] THEN QuotesBefore(t, k) + 1 ELSE 0
<1>1. PICK a \in 0 .. (k - 2) : a = QuotesBefore(t, k)
  BY RunsGreatest
<1>2. (\A j \in (k - a) .. (k - 1) : t[j] = t[1]) /\ \A n \in Runs(t, k) : a >= n
  BY <1>1, RunsGreatest DEF Runs
<1>3. k + 1 \in Nat /\ k + 1 >= 2 /\ (k + 1) - 2 = k - 1 /\ (k + 1) - 1 = k
  OBVIOUS
<1>4. PICK b \in 0 .. (k - 1) : b = QuotesBefore(t, k + 1)
  BY <1>3, RunsGreatest
<1>5. (\A j \in ((k + 1) - b) .. k : t[j] = t[1]) /\ \A n \in Runs(t, k + 1) : b >= n
  BY <1>3, <1>4, RunsGreatest DEF Runs
<1>6. CASE t[k] # t[1]
  <2>1. b = 0
    <3>1. ASSUME b > 0 PROVE FALSE
      <4>1. k \in ((k + 1) - b) .. k
        BY <3>1
      <4> QED BY <1>5, <1>6, <4>1
    <3> QED BY <3>1
  <2> QED BY <1>4, <1>6, <2>1
<1>7. CASE t[k] = t[1]
  <2>1. b >= a + 1
    <3>1. a + 1 \in Runs(t, k + 1)
      <4>1. a + 1 \in 0 .. ((k + 1) - 2)
        OBVIOUS
      <4>2. ASSUME NEW j \in ((k + 1) - (a + 1)) .. ((k + 1) - 1) PROVE t[j] = t[1]
        <5>1. j = k \/ j \in (k - a) .. (k - 1)
          OBVIOUS
        <5> QED BY <1>2, <1>7, <5>1
      <4> QED BY <4>1, <4>2 DEF Runs
    <3> QED BY <1>5, <3>1
  <2>2. a >= b - 1
    <3>1. b - 1 \in Runs(t, k)
      <4>1. b - 1 \in 0 .. (k - 2)
        BY <2>1
      <4>2. ASSUME NEW j \in (k - (b - 1)) .. (k - 1) PROVE t[j] = t[1]
        <5>1. j \in ((k + 1) - b) .. k
          OBVIOUS
        <5> QED BY <1>5, <5>1
      <4> QED BY <4>1, <4>2 DEF Runs
    <3> QED BY <1>2, <3>1
  <2>3. b = a + 1
    BY <2>1, <2>2
  <2> QED BY <1>1, <1>4, <1>7, <2>3
<1> QED BY <1>6, <1>7

LEMMA RunFirst ==
  ASSUME NEW t
  PROVE  QuotesBefore(t, 2) = 0
BY RunsGreatest

\* It depends on the symbols before the position only.
LEMMA RunSame ==
  ASSUME NEW t, NEW u, NEW k \in Nat, k >= 2, \A j \in 1 .. (k - 1) : u[j] = t[j]
  PROVE  QuotesBefore(u, k) = QuotesBefore(t, k)
<1>1. Runs(u, k) = Runs(t, k)
  <2>1. u[1] = t[1]
    OBVIOUS
  <2>2. ASSUME NEW n \in 0 .. (k - 2)
        PROVE  (\A j \in (k - n) .. (k - 1) : u[j] = u[1]) <=> (\A j \in (k - n) .. (k - 1) : t[j] = t[1])
    <3>1. \A j \in (k - n) .. (k - 1) : j \in 1 .. (k - 1)
      OBVIOUS
    <3> QED BY <2>1, <3>1
  <2> QED BY <2>2 DEF Runs
<1>2. QuotesBefore(u, k) = Max(Runs(u, k)) /\ QuotesBefore(t, k) = Max(Runs(t, k))
  BY Zenon DEF QuotesBefore, Runs
<1> QED BY <1>1, <1>2

\* A literal whose end has not been read: every quote in it is doubled.
OpenLiteral(t) ==
    /\ t # <<>> /\ t[1] \in Quotes
    /\ \A k \in 2 .. Len(t) : ~Closes(t, k)

\* The run of quotes at the end of an open literal is even.
LEMMA OpenRunEven ==
  ASSUME NEW A, NEW t \in Seq(A), OpenLiteral(t)
  PROVE  /\ Len(t) \in Nat /\ Len(t) >= 1
         /\ QuotesBefore(t, Len(t) + 1) \in Nat
         /\ QuotesBefore(t, Len(t) + 1) % 2 = 0
<1>1. Len(t) \in Nat /\ Len(t) >= 1
  BY EmptySeq, LenProperties DEF OpenLiteral
<1>2. CASE Len(t) = 1
  <2>1. Len(t) + 1 = 2 /\ 0 % 2 = 0
    BY <1>2
  <2> QED BY <1>1, <2>1, RunFirst
<1>3. CASE Len(t) >= 2
  <2>1. PICK a \in Nat : a = QuotesBefore(t, Len(t))
    <3>1. \A n \in Runs(t, Len(t)) : n \in Nat
      BY DEF Runs
    <3> QED BY <1>1, <1>3, <3>1, RunsGreatest
  <2>2. QuotesBefore(t, Len(t) + 1) = IF t[Len(t)] = t[1] THEN a + 1 ELSE 0
    BY <1>1, <1>3, <2>1, RunNext
  <2>3. ASSUME t[Len(t)] = t[1] PROVE a % 2 = 1
    <3>1. Len(t) \in 2 .. Len(t)
      BY <1>1, <1>3
    <3>2. ~Closes(t, Len(t))
      BY <3>1 DEF OpenLiteral
    <3>3. a % 2 # 0
      BY <2>1, <2>3, <3>2 DEF Closes
    <3> QED BY <3>3
  <2>4. a % 2 = 1 => (a + 1) % 2 = 0
    OBVIOUS
  <2> QED BY <1>1, <2>2, <2>3, <2>4
<1>4. Len(t) = 1 \/ Len(t) >= 2
  <2>1. PICK n \in Nat : n = Len(t) /\ n >= 1
    BY <1>1
  <2>2. n = 1 \/ n >= 2
    BY <2>1
  <2> QED BY <2>1, <2>2
<1> QED BY <1>1, <1>2, <1>3, <1>4, Zenon

LEMMA OpenGrows ==
  ASSUME NEW A, NEW t \in Seq(A), OpenLiteral(t), NEW c \in A, c # t[1]
  PROVE  OpenLiteral(Append(t, c)) /\ Append(t, c)[1] = t[1]
<1>1. PICK n \in Nat : n = Len(t) /\ n >= 1
  BY OpenRunEven
<1>2. PICK u \in Seq(A) : u = Append(t, c)
  BY AppendProperties
<1>3. u # <<>> /\ Len(u) = n + 1 /\ (\A k \in 1 .. n : u[k] = t[k]) /\ u[n + 1] = c
  BY <1>1, <1>2, AppendProperties
<1>4. u[1] = t[1]
  BY <1>1, <1>3
<1>5. ASSUME NEW k \in 2 .. (n + 1), Closes(u, k) PROVE FALSE
  <2>1. k # n + 1
    BY <1>3, <1>4, <1>5 DEF Closes
  <2>2. k \in 2 .. n /\ k \in Nat /\ k >= 2 /\ k \in 1 .. n
    BY <2>1
  <2>3. QuotesBefore(u, k) = QuotesBefore(t, k)
    <3>1. \A j \in 1 .. (k - 1) : u[j] = t[j]
      BY <1>3, <2>2
    <3> QED BY <2>2, <3>1, RunSame
  <2>4. k # n => k + 1 \in 1 .. n /\ u[k + 1] = t[k + 1]
    BY <1>3, <2>2
  <2>5. u[k] = u[1] /\ QuotesBefore(u, k) % 2 = 0 /\ (k = Len(u) \/ u[k + 1] # u[1])
    BY <1>5 DEF Closes
  <2>6. Closes(t, k)
    BY <1>1, <1>3, <1>4, <2>1, <2>2, <2>3, <2>4, <2>5 DEF Closes
  <2> QED BY <1>1, <2>2, <2>6 DEF OpenLiteral
<1> QED BY <1>2, <1>3, <1>4, <1>5 DEF OpenLiteral

\* What a quote at the end of an open literal makes of it, before and after the
\* next symbol is known.
LEMMA OpenQuoted ==
  ASSUME NEW A, NEW t \in Seq(A), OpenLiteral(t), NEW u \in Seq(A), Len(u) >= Len(t) + 1,
         \A k \in 1 .. Len(t) : u[k] = t[k], u[Len(t) + 1] = t[1]
  PROVE  /\ u[1] = t[1] /\ u # <<>>
         /\ QuotesBefore(u, Len(t) + 1) \in Nat /\ QuotesBefore(u, Len(t) + 1) % 2 = 0
         /\ \A k \in 2 .. Len(t) : ~Closes(u, k)
<1>1. PICK n \in Nat : n = Len(t) /\ n >= 1
  BY OpenRunEven
<1>2. u[1] = t[1] /\ u # <<>>
  <2>1. Len(u) # 0
    BY <1>1, LenProperties
  <2> QED BY <1>1, <2>1, EmptySeq
<1>3. QuotesBefore(u, n + 1) = QuotesBefore(t, n + 1)
  <2>1. n + 1 \in Nat /\ n + 1 >= 2 /\ \A j \in 1 .. ((n + 1) - 1) : u[j] = t[j]
    BY <1>1
  <2> QED BY <2>1, RunSame
<1>4. ASSUME NEW k \in 2 .. n, Closes(u, k) PROVE FALSE
  <2>1. k \in Nat /\ k >= 2 /\ k \in 1 .. n
    OBVIOUS
  <2>2. QuotesBefore(u, k) = QuotesBefore(t, k)
    <3>1. \A j \in 1 .. (k - 1) : u[j] = t[j]
      BY <1>1, <2>1
    <3> QED BY <2>1, <3>1, RunSame
  <2>3. u[k] = u[1] /\ QuotesBefore(u, k) % 2 = 0 /\ (k = Len(u) \/ u[k + 1] # u[1])
    BY <1>4 DEF Closes
  <2>4. k # Len(u) /\ k # n
    <3>1. k < Len(u)
      BY <1>1, <2>1, LenProperties
    <3>2. k # n
      BY <1>1, <1>2, <2>3, <3>1
    <3> QED BY <3>1, <3>2
  <2>5. k + 1 \in 1 .. n /\ u[k + 1] = t[k + 1]
    BY <1>1, <2>1, <2>4
  <2>6. Closes(t, k)
    BY <1>1, <1>2, <2>1, <2>2, <2>3, <2>4, <2>5 DEF Closes
  <2> QED BY <1>1, <2>1, <2>6 DEF OpenLiteral
<1> QED BY <1>1, <1>2, <1>3, <1>4, OpenRunEven

\* A doubled quote leaves the literal open.
LEMMA OpenDoubled ==
  ASSUME NEW A, NEW t \in Seq(A), OpenLiteral(t), NEW c \in A, c = t[1]
  PROVE  OpenLiteral(t \o <<c, c>>) /\ (t \o <<c, c>>)[1] = t[1]
<1>1. PICK n \in Nat : n = Len(t) /\ n >= 1
  BY OpenRunEven
<1>2. <<c, c>> \in Seq(A) /\ Len(<<c, c>>) = 2 /\ <<c, c>>[1] = c /\ <<c, c>>[2] = c
  OBVIOUS
<1>3. PICK u \in Seq(A) : u = t \o <<c, c>>
  BY <1>2, ConcatProperties
<1>4. Len(u) = n + 2 /\ (\A k \in 1 .. n : u[k] = t[k]) /\ u[n + 1] = c /\ u[n + 2] = c
  BY <1>1, <1>2, <1>3
<1>5. /\ u[1] = t[1] /\ u # <<>>
      /\ QuotesBefore(u, n + 1) \in Nat /\ QuotesBefore(u, n + 1) % 2 = 0
      /\ \A k \in 2 .. n : ~Closes(u, k)
  BY <1>1, <1>4, OpenQuoted
<1>6. ~Closes(u, n + 1)
  BY <1>4, <1>5 DEF Closes
<1>7. ~Closes(u, n + 2)
  <2>1. QuotesBefore(u, (n + 1) + 1) = QuotesBefore(u, n + 1) + 1
    <3>1. n + 1 \in Nat /\ n + 1 >= 2 /\ u[n + 1] = u[1]
      BY <1>1, <1>4, <1>5
    <3> QED BY <3>1, RunNext
  <2>2. PICK a \in Nat : a = QuotesBefore(u, n + 1) /\ a % 2 = 0
    BY <1>5
  <2>3. (a + 1) % 2 = 1
    BY <2>2
  <2>4. QuotesBefore(u, n + 2) = a + 1
    BY <2>1, <2>2
  <2> QED BY <2>3, <2>4 DEF Closes
<1>8. \A k \in 2 .. (n + 2) : ~Closes(u, k)
  BY <1>5, <1>6, <1>7
<1> QED BY <1>3, <1>4, <1>5, <1>8 DEF OpenLiteral

\* A single one closes it.
LEMMA LiteralClosed ==
  ASSUME NEW A, NEW t \in Seq(A), OpenLiteral(t), NEW c \in A, c = t[1]
  PROVE  IsLiteral(Append(t, c), FALSE)
<1>1. PICK n \in Nat : n = Len(t) /\ n >= 1
  BY OpenRunEven
<1>2. PICK u \in Seq(A) : u = Append(t, c)
  BY AppendProperties
<1>3. Len(u) = n + 1 /\ (\A k \in 1 .. n : u[k] = t[k]) /\ u[n + 1] = c
  BY <1>1, <1>2, AppendProperties
<1>4. /\ u[1] = t[1]
      /\ QuotesBefore(u, n + 1) % 2 = 0
      /\ \A k \in 2 .. n : ~Closes(u, k)
  BY <1>1, <1>3, OpenQuoted
<1>5. Closes(u, n + 1)
  BY <1>3, <1>4 DEF Closes
<1>6. \A k \in 2 .. (n + 1) : Closes(u, k) => k = n + 1
  BY <1>4
<1>7. u[1] \in Quotes /\ n + 1 > 1
  BY <1>1, <1>4 DEF OpenLiteral
<1> QED BY <1>2, <1>3, <1>5, <1>6, <1>7 DEF IsLiteral

-----------------------------------------------------------------------------
(* The invariant of the tokenizer *)

\* The provers know no member of STRING.
Symbols == STRING \cup {" "}

LEMMA TextsOfSymbols ==
  /\ " " \in Symbols
  /\ Texts \subseteq Seq(Symbols)
  /\ \A s \in Statements : s.tokens \in Seq(Seq(Symbols))
<1>1. " " \in Symbols /\ STRING \subseteq Symbols
  BY DEF Symbols
<1>2. \A t \in Seq(STRING) : t \in Seq(Symbols)
  BY <1>1, SeqMonotonic
<1>3. \A ts \in Seq(Seq(STRING)) : ts \in Seq(Seq(Symbols))
  <2>1. Seq(STRING) \subseteq Seq(Symbols)
    BY <1>2
  <2> QED BY <2>1, SeqMonotonic
<1> QED BY <1>1, <1>2, <1>3, TextsAssumption

\* A token that is finished.
WholeToken(t) == IsOperator(t) \/ IsLiteral(t, FALSE) \/ IsPlainWord(t)

LexType ==
    /\ sql \in Seq(Symbols) /\ i \in 0 .. Len(sql)
    /\ tokens \in Seq(Seq(Symbols)) /\ current \in Seq(Symbols)

\* The symbols read so far are those of the tokens and of the one that is begun.
ReadInv == WithoutSpaces(Text(tokens, current)) = WithoutSpaces(SubSeq(sql, 1, i))

\* What is begun is a word or, within quotes, a literal.
ShapeInv ==
    /\ \A k \in 1 .. Len(tokens) : WholeToken(tokens[k])
    /\ quote_char = NoQuote => IsPlainWord(current)
    /\ quote_char # NoQuote => OpenLiteral(current) /\ current[1] = quote_char

LexInv == LexType /\ ReadInv /\ ShapeInv

\* While the tokenizer runs its invariant holds, and then what it has shown.
ParseInv ==
    /\ phase = "tokenize" => LexInv
    /\ TokensExact

LEMMA FlattenType ==
  ASSUME NEW A, NEW seqs \in Seq(Seq(A))
  PROVE  FlattenSeq(seqs) \in Seq(A)
<1>1. <<>> \in Seq(A)
  BY EmptySeq
<1> QED BY <1>1, FlattenAppend

LEMMA OneSymbol ==
  ASSUME NEW A, NEW c \in A
  PROVE  <<c>> \in Seq(A)
OBVIOUS

\* Texts written from tokens are texts.
LEMMA SpacedType ==
  ASSUME NEW ts \in Seq(Seq(Symbols))
  PROVE  Spaced(ts) \in Seq(Symbols) /\ Compact(ts) \in Seq(Symbols)
<1> DEFINE space == <<" ">>
           spaced == [k \in DOMAIN ts |-> IF k = 1 THEN ts[k] ELSE space \o ts[k]]
           compact == [k \in DOMAIN ts |->
             IF k > 1 /\ IsWord(ts[k]) /\ IsWord(ts[k - 1]) THEN space \o ts[k] ELSE ts[k]]
<1>1. Len(ts) \in Nat /\ DOMAIN ts = 1 .. Len(ts)
  BY LenProperties
<1>2. space \in Seq(Symbols)
  BY TextsOfSymbols, OneSymbol, Zenon
<1>3. Spaced(ts) = FlattenSeq(spaced) /\ Compact(ts) = FlattenSeq(compact)
  BY Zenon DEF Spaced, Compact
<1> HIDE DEF space
<1>4. \A k \in 1 .. Len(ts) : ts[k] \in Seq(Symbols) /\ space \o ts[k] \in Seq(Symbols)
  BY <1>2, ElementOfSeq, ConcatProperties
<1>5. spaced \in Seq(Seq(Symbols)) /\ compact \in Seq(Seq(Symbols))
  BY <1>1, <1>4
<1> HIDE DEF spaced, compact
<1> QED BY <1>3, <1>5, FlattenType

LEMMA CutType ==
  ASSUME NEW A, NEW ts \in Seq(A), NEW n \in 1 .. Len(ts)
  PROVE  SubSeq(ts, 1, n) \in Seq(A) /\ RemoveAt(ts, n) \in Seq(A)
<1>1. Len(ts) \in Nat /\ \A k \in 1 .. Len(ts) : ts[k] \in A
  BY LenProperties, ElementOfSeq
<1>2. SubSeq(ts, 1, n) \in Seq(A) /\ SubSeq(ts, 1, n - 1) \in Seq(A) /\ SubSeq(ts, n + 1, Len(ts)) \in Seq(A)
  BY <1>1
<1> QED BY <1>2, ConcatProperties DEF RemoveAt

LEMMA LexInit == Init => ParseInv
<1> SUFFICES ASSUME Init PROVE ParseInv
  OBVIOUS
<1>1. sql \in Seq(Symbols)
  <2>1. ASSUME NEW s \in Statements, sql = Compact(s.tokens) PROVE sql \in Seq(Symbols)
    BY <2>1, SpacedType, TextsOfSymbols
  <2>2. ASSUME NEW s \in Statements, NEW n \in 1 .. Len(s.tokens),
               sql = Spaced(SubSeq(s.tokens, 1, n)) \/ sql = Spaced(RemoveAt(s.tokens, n))
        PROVE  sql \in Seq(Symbols)
    <3>1. s.tokens \in Seq(Seq(Symbols))
      BY TextsOfSymbols
    <3>2. SubSeq(s.tokens, 1, n) \in Seq(Seq(Symbols)) /\ RemoveAt(s.tokens, n) \in Seq(Seq(Symbols))
      BY <3>1, CutType
    <3> QED BY <2>2, <3>2, SpacedType
  <2>3. ASSUME sql \in Texts PROVE sql \in Seq(Symbols)
    BY <2>3, TextsOfSymbols
  <2> QED BY <2>1, <2>2, <2>3, Zenon DEF Init
<1>2. Len(sql) \in Nat /\ i = 0 /\ tokens = <<>> /\ current = <<>> /\ quote_char = NoQuote /\ phase = "tokenize"
  BY <1>1, LenProperties DEF Init
<1>3. LexType
  BY <1>1, <1>2, EmptySeq DEF LexType
<1>4. ReadInv
  <2>1. Text(tokens, current) = <<>>
    <3>1. FlattenSeq(<<>>) = <<>>
      BY DEF FlattenSeq
    <3>2. <<>> \o <<>> = <<>>
      OBVIOUS
    <3> QED BY <1>2, <3>1, <3>2 DEF Text
  <2>2. SubSeq(sql, 1, i) = <<>>
    BY <1>2, SubSeqEmpty
  <2> QED BY <2>1, <2>2 DEF ReadInv
<1>5. ShapeInv
  BY <1>2 DEF ShapeInv, IsPlainWord
<1> QED BY <1>2, <1>3, <1>4, <1>5 DEF ParseInv, LexInv, TokensExact

\* One symbol more in the token that is begun.
LEMMA AppendFacts ==
  ASSUME NEW A, NEW t \in Seq(A), NEW c \in A
  PROVE  /\ Append(t, c) \in Seq(A) /\ Len(t) \in Nat /\ Len(Append(t, c)) = Len(t) + 1
         /\ DOMAIN t = 1 .. Len(t) /\ DOMAIN Append(t, c) = 1 .. (Len(t) + 1)
         /\ \A k \in 1 .. Len(t) : Append(t, c)[k] = t[k]
         /\ Append(t, c)[Len(t) + 1] = c
         /\ \A k \in 1 .. (Len(t) + 1) : k = Len(t) + 1 \/ k \in 1 .. Len(t)
<1>1. Append(t, c) \in Seq(A) /\ Len(t) \in Nat /\ Len(Append(t, c)) = Len(t) + 1 /\ DOMAIN t = 1 .. Len(t)
  BY AppendProperties, LenProperties
<1>2. DOMAIN Append(t, c) = 1 .. (Len(t) + 1)
  BY <1>1, LenProperties
<1>3. PICK n \in Nat : n = Len(t)
  BY <1>1
<1>4. \A k \in 1 .. (n + 1) : k = n + 1 \/ k \in 1 .. n
  OBVIOUS
<1> QED BY <1>1, <1>2, <1>3, <1>4, AppendProperties

LEMMA OutsideGrows ==
  ASSUME NEW A, NEW Bad, NEW t \in Seq(A), NEW c \in A, \A k \in DOMAIN t : t[k] \notin Bad, c \notin Bad
  PROVE  \A k \in DOMAIN Append(t, c) : Append(t, c)[k] \notin Bad
BY AppendFacts

LEMMA WordGrows ==
  ASSUME NEW t \in Seq(Symbols), NEW c \in Symbols, IsPlainWord(t), c \notin Quotes \cup Delimiters \cup {" "}
  PROVE  IsPlainWord(Append(t, c))
<1> DEFINE Bad == Quotes \cup Delimiters \cup {" "}
<1>1. c \notin Bad /\ \A k \in DOMAIN t : t[k] \notin Bad
  BY Zenon DEF IsPlainWord
<1> HIDE DEF Bad
<1>2. \A k \in DOMAIN Append(t, c) : Append(t, c)[k] \notin Bad
  BY <1>1, OutsideGrows
<1> USE DEF Bad
<1> QED BY <1>2, Zenon DEF IsPlainWord

\* One token more.
LEMMA TokensGrow ==
  ASSUME NEW ts \in Seq(Seq(Symbols)), NEW t \in Seq(Symbols),
         \A k \in 1 .. Len(ts) : WholeToken(ts[k]), WholeToken(t)
  PROVE  /\ Append(ts, t) \in Seq(Seq(Symbols))
         /\ \A k \in 1 .. Len(Append(ts, t)) : WholeToken(Append(ts, t)[k])
BY AppendFacts

\* The token that is begun becomes one of the tokens.
LEMMA PushedFacts ==
  ASSUME LexInv, quote_char = NoQuote
  PROVE  /\ Pushed \in Seq(Seq(Symbols)) /\ Text(Pushed, <<>>) = Text(tokens, current)
         /\ \A k \in 1 .. Len(Pushed) : WholeToken(Pushed[k])
<1>1. tokens \in Seq(Seq(Symbols)) /\ current \in Seq(Symbols) /\ IsPlainWord(current)
  BY DEF LexInv, LexType, ShapeInv
<1>2. CASE current = <<>>
  BY <1>1, <1>2 DEF Pushed, LexInv, ShapeInv
<1>3. CASE current # <<>>
  <2>1. Pushed = Append(tokens, current)
    BY <1>3 DEF Pushed
  <2>2. WholeToken(current)
    BY <1>1 DEF WholeToken
  <2>3. Text(Append(tokens, current), <<>>) = Text(tokens, current)
    BY <1>1, TextPushed
  <2> QED BY <1>1, <2>1, <2>2, <2>3, TokensGrow DEF LexInv, ShapeInv
<1> QED BY <1>2, <1>3

\* The symbol that is read, and the text with it.
LEMMA CharFacts ==
  ASSUME LexInv, Lexing
  PROVE  /\ Char \in Symbols /\ i \in Nat /\ i + 1 \in 0 .. Len(sql) /\ Text(tokens, current) \in Seq(Symbols)
         /\ WithoutSpaces(Append(Text(tokens, current), Char)) = WithoutSpaces(SubSeq(sql, 1, i + 1))
         /\ Char = " " => WithoutSpaces(Text(tokens, current)) = WithoutSpaces(SubSeq(sql, 1, i + 1))
<1>1. sql \in Seq(Symbols) /\ Len(sql) \in Nat /\ i \in Nat /\ i < Len(sql)
  BY LenProperties DEF LexInv, LexType, Lexing
<1>2. i + 1 \in 0 .. Len(sql) /\ i + 1 \in 1 .. Len(sql)
  BY <1>1
<1>3. Char \in Symbols
  BY <1>1, <1>2, ElementOfSeq DEF Char
<1>4. Text(tokens, current) \in Seq(Symbols)
  BY TextType DEF LexInv, LexType
<1>5. WithoutSpaces(Text(tokens, current)) = WithoutSpaces(SubSeq(sql, 1, i))
  BY DEF LexInv, ReadInv
<1> QED BY <1>1, <1>2, <1>3, <1>4, <1>5, OneMore DEF Char

LEMMA NextCharFacts ==
  ASSUME LexInv, Lexing, NEW c, Follows(c)
  PROVE  /\ c \in Symbols /\ i + 2 \in 0 .. Len(sql)
         /\ WithoutSpaces(Append(Append(Text(tokens, current), Char), c)) = WithoutSpaces(SubSeq(sql, 1, i + 2))
<1>1. sql \in Seq(Symbols) /\ Len(sql) \in Nat /\ i \in Nat /\ i + 1 < Len(sql) /\ c = sql[i + 2]
  BY LenProperties DEF LexInv, LexType, Lexing, Follows
<1>2. i + 2 \in 0 .. Len(sql) /\ i + 2 \in 1 .. Len(sql) /\ i + 1 \in Nat /\ (i + 1) + 1 = i + 2
  BY <1>1
<1>3. c \in Symbols
  BY <1>1, <1>2, ElementOfSeq
<1>4. PICK text \in Seq(Symbols) : text = Append(Text(tokens, current), Char)
  BY CharFacts, AppendProperties
<1>5. WithoutSpaces(text) = WithoutSpaces(SubSeq(sql, 1, i + 1))
  BY <1>4, CharFacts
<1>6. WithoutSpaces(Append(text, sql[(i + 1) + 1])) = WithoutSpaces(SubSeq(sql, 1, (i + 1) + 1))
  BY <1>1, <1>2, <1>5, OneMore
<1> QED BY <1>1, <1>2, <1>3, <1>4, <1>6

-----------------------------------------------------------------------------
(* The steps of the tokenizer *)

\* What a step that reads has to show.
LEMMA LexStep ==
  ASSUME UNCHANGED sql, sql \in Seq(Symbols), i' \in 0 .. Len(sql),
         tokens' \in Seq(Seq(Symbols)), current' \in Seq(Symbols),
         WithoutSpaces(Text(tokens', current')) = WithoutSpaces(SubSeq(sql, 1, i')),
         \A k \in 1 .. Len(tokens') : WholeToken(tokens'[k]),
         quote_char' = NoQuote => IsPlainWord(current'),
         quote_char' # NoQuote => OpenLiteral(current') /\ current'[1] = quote_char'
  PROVE  LexInv'
<1>1. LexType'
  BY DEF LexType
<1>2. ReadInv'
  BY DEF ReadInv
<1>3. ShapeInv'
  BY Zenon DEF ShapeInv
<1> QED BY <1>1, <1>2, <1>3 DEF LexInv

LEMMA EmptyWord == <<>> \in Seq(Symbols) /\ IsPlainWord(<<>>)
<1>1. <<>> \in Seq(Symbols)
  BY EmptySeq
<1>2. DOMAIN <<>> = {}
  OBVIOUS
<1> QED BY <1>1, <1>2 DEF IsPlainWord

LEMMA LiteralBegins ==
  ASSUME NEW c \in Symbols, c \in Quotes
  PROVE  <<c>> \in Seq(Symbols) /\ OpenLiteral(<<c>>) /\ <<c>>[1] = c
<1>1. <<c>> \in Seq(Symbols)
  BY OneSymbol, Zenon
<1> DEFINE t == <<c>>
<1>2. t # <<>> /\ t[1] = c /\ Len(t) = 1
  OBVIOUS
<1>3. 2 .. 1 = {}
  OBVIOUS
<1> HIDE DEF t
<1>4. OpenLiteral(t)
  BY <1>2, <1>3, Zenon DEF OpenLiteral
<1> USE DEF t
<1> QED BY <1>1, <1>2, <1>4, Zenon

LEMMA OpenQuoteStep ==
  ASSUME LexInv, OpenQuote
  PROVE  LexInv'
<1>1. Lexing /\ quote_char = NoQuote /\ Char \in Quotes /\ UNCHANGED sql /\ tokens' = Pushed /\ i' = i + 1
      /\ current' = <<Char>> /\ quote_char' = Char
  BY DEF OpenQuote, lexRest
<1>2. quote_char' # NoQuote
  BY <1>1 DEF Quotes, NoQuote
<1>3. OpenLiteral(current') /\ current'[1] = quote_char' /\ current' \in Seq(Symbols)
  BY <1>1, CharFacts, LiteralBegins, Zenon
<1>4. Text(Pushed, <<Char>>) = Append(Text(tokens, current), Char)
  <2>1. Pushed \in Seq(Seq(Symbols)) /\ Text(Pushed, <<>>) = Text(tokens, current) /\ Char \in Symbols
    BY <1>1, CharFacts, PushedFacts
  <2> QED BY <2>1, TextOne
<1>5. WithoutSpaces(Text(tokens', current')) = WithoutSpaces(SubSeq(sql, 1, i'))
  BY <1>1, <1>4, CharFacts
<1>6. sql \in Seq(Symbols)
  BY DEF LexInv, LexType
<1> QED BY <1>1, <1>2, <1>3, <1>5, <1>6, CharFacts, PushedFacts, LexStep

LEMMA QuotedQuoteStep ==
  ASSUME LexInv, QuotedQuote
  PROVE  LexInv'
<1>1. Lexing /\ quote_char # NoQuote /\ Char = quote_char /\ UNCHANGED sql
  BY DEF QuotedQuote, lexRest
<1>2. /\ sql \in Seq(Symbols) /\ tokens \in Seq(Seq(Symbols)) /\ current \in Seq(Symbols)
      /\ \A k \in 1 .. Len(tokens) : WholeToken(tokens[k])
      /\ OpenLiteral(current) /\ current[1] = Char /\ Char \in Symbols
  BY <1>1, CharFacts DEF LexInv, LexType, ShapeInv
<1>3. CASE Escaped
  <2>1. current' = current \o <<Char, Char>> /\ i' = i + 2 /\ UNCHANGED <<tokens, quote_char>>
    BY <1>3 DEF QuotedQuote
  <2>2. /\ i' \in 0 .. Len(sql)
        /\ WithoutSpaces(Append(Append(Text(tokens, current), Char), Char)) = WithoutSpaces(SubSeq(sql, 1, i'))
    BY <1>1, <1>3, <2>1, NextCharFacts DEF Escaped
  <2>3. current' \in Seq(Symbols) /\ Text(tokens', current') = Append(Append(Text(tokens, current), Char), Char)
    BY <1>2, <2>1, TextTwo
  <2>4. OpenLiteral(current') /\ current'[1] = quote_char' /\ quote_char' # NoQuote
    BY <1>1, <1>2, <2>1, OpenDoubled
  <2> QED BY <1>1, <1>2, <2>1, <2>2, <2>3, <2>4, LexStep
<1>4. CASE ~Escaped
  <2>1. /\ tokens' = Append(tokens, Append(current, Char)) /\ current' = <<>>
        /\ quote_char' = NoQuote /\ i' = i + 1
    BY <1>4 DEF QuotedQuote
  <2>2. PICK t \in Seq(Symbols) : t = Append(current, Char)
    BY <1>2, AppendProperties
  <2>3. WholeToken(t)
    BY <1>2, <2>2, LiteralClosed DEF WholeToken
  <2>4. tokens' \in Seq(Seq(Symbols)) /\ \A k \in 1 .. Len(tokens') : WholeToken(tokens'[k])
    BY <1>2, <2>1, <2>2, <2>3, TokensGrow
  <2>5. Text(tokens', current') = Append(Text(tokens, current), Char)
    <3>1. Text(Append(tokens, t), <<>>) = Text(tokens, t)
      BY <1>2, TextPushed
    <3>2. Text(tokens, Append(current, Char)) = Append(Text(tokens, current), Char)
      BY <1>2, TextGrows
    <3> QED BY <2>1, <2>2, <3>1, <3>2
  <2>6. i' \in 0 .. Len(sql) /\ WithoutSpaces(Text(tokens', current')) = WithoutSpaces(SubSeq(sql, 1, i'))
    BY <1>1, <2>1, <2>5, CharFacts
  <2> QED BY <1>1, <1>2, <2>1, <2>4, <2>6, EmptyWord, LexStep
<1> QED BY <1>3, <1>4

LEMMA QuotedCharStep ==
  ASSUME LexInv, QuotedChar
  PROVE  LexInv'
<1>1. /\ Lexing /\ quote_char # NoQuote /\ Char # quote_char
      /\ current' = Append(current, Char) /\ i' = i + 1 /\ UNCHANGED <<sql, tokens, quote_char>>
  BY DEF QuotedChar, lexRest
<1>2. /\ sql \in Seq(Symbols) /\ tokens \in Seq(Seq(Symbols)) /\ current \in Seq(Symbols)
      /\ \A k \in 1 .. Len(tokens) : WholeToken(tokens[k])
      /\ OpenLiteral(current) /\ current[1] = quote_char /\ Char \in Symbols
  BY <1>1, CharFacts DEF LexInv, LexType, ShapeInv
<1>3. OpenLiteral(current') /\ current'[1] = quote_char' /\ current' \in Seq(Symbols)
  BY <1>1, <1>2, OpenGrows, AppendProperties
<1>4. Text(tokens', current') = Append(Text(tokens, current), Char)
  BY <1>1, <1>2, TextGrows
<1>5. i' \in 0 .. Len(sql) /\ WithoutSpaces(Text(tokens', current')) = WithoutSpaces(SubSeq(sql, 1, i'))
  BY <1>1, <1>4, CharFacts
<1> QED BY <1>1, <1>2, <1>3, <1>5, LexStep

LEMMA SpaceStep ==
  ASSUME LexInv, Space
  PROVE  LexInv'
<1>1. /\ Lexing /\ quote_char = NoQuote /\ Char = " "
      /\ tokens' = Pushed /\ current' = <<>> /\ i' = i + 1 /\ UNCHANGED <<sql, quote_char>>
  BY DEF Space, lexRest
<1>2. sql \in Seq(Symbols)
  BY DEF LexInv, LexType
<1>3. i' \in 0 .. Len(sql) /\ WithoutSpaces(Text(tokens, current)) = WithoutSpaces(SubSeq(sql, 1, i'))
  BY <1>1, CharFacts
<1>4. /\ tokens' \in Seq(Seq(Symbols)) /\ Text(tokens', current') = Text(tokens, current)
      /\ \A k \in 1 .. Len(tokens') : WholeToken(tokens'[k])
  BY <1>1, PushedFacts
<1> QED BY <1>1, <1>2, <1>3, <1>4, EmptyWord, LexStep

LEMMA WordCharStep ==
  ASSUME LexInv, WordChar
  PROVE  LexInv'
<1>1. /\ Lexing /\ quote_char = NoQuote /\ Char \notin Quotes \cup Delimiters \cup {" "}
      /\ current' = Append(current, Char) /\ i' = i + 1 /\ UNCHANGED <<sql, tokens, quote_char>>
  BY DEF WordChar, lexRest
<1>2. /\ sql \in Seq(Symbols) /\ tokens \in Seq(Seq(Symbols)) /\ current \in Seq(Symbols)
      /\ \A k \in 1 .. Len(tokens) : WholeToken(tokens[k])
      /\ IsPlainWord(current) /\ Char \in Symbols
  BY <1>1, CharFacts DEF LexInv, LexType, ShapeInv
<1>3. IsPlainWord(current') /\ quote_char' = NoQuote
  BY <1>1, <1>2, WordGrows, Zenon
<1>4. current' \in Seq(Symbols) /\ Text(tokens', current') = Append(Text(tokens, current), Char)
  <2>1. Append(current, Char) \in Seq(Symbols)
    BY <1>2, AppendProperties
  <2>2. Text(tokens, Append(current, Char)) = Append(Text(tokens, current), Char)
    BY <1>2, TextGrows
  <2> QED BY <1>1, <2>1, <2>2
<1>5. i' \in 0 .. Len(sql) /\ WithoutSpaces(Text(tokens', current')) = WithoutSpaces(SubSeq(sql, 1, i'))
  BY <1>1, <1>4, CharFacts
<1> QED BY <1>1, <1>2, <1>3, <1>4, <1>5, LexStep

LEMMA OperatorTokens ==
  ASSUME NEW c, c \in Delimiters
  PROVE  /\ WholeToken(<<c>>)
         /\ c \in {"<", ">", "!"} => WholeToken(<<c, "=">>)
BY DEF WholeToken, IsOperator

LEMMA DelimiterStep ==
  ASSUME LexInv, Delimiter
  PROVE  LexInv'
<1> DEFINE eq == "="
           two == Char \in {"<", ">", "!"} /\ Follows(eq)
<1>1. /\ Lexing /\ quote_char = NoQuote /\ Char \in Delimiters
      /\ UNCHANGED <<sql, quote_char>> /\ current' = <<>>
      /\ two => tokens' = Append(Pushed, <<Char, eq>>) /\ i' = i + 2
      /\ ~two => tokens' = Append(Pushed, <<Char>>) /\ i' = i + 1
  BY DEF Delimiter, lexRest
<1>2. WholeToken(<<Char>>) /\ (two => WholeToken(<<Char, eq>>) /\ Follows(eq))
  BY <1>1, OperatorTokens, Zenon
<1> HIDE DEF eq, two
<1>3. sql \in Seq(Symbols) /\ Char \in Symbols
  BY <1>1, CharFacts DEF LexInv, LexType
<1>4. /\ Pushed \in Seq(Seq(Symbols)) /\ Text(Pushed, <<>>) = Text(tokens, current)
      /\ \A k \in 1 .. Len(Pushed) : WholeToken(Pushed[k])
  BY <1>1, PushedFacts
<1>5. CASE two
  <2>1. /\ eq \in Symbols /\ i' \in 0 .. Len(sql)
        /\ WithoutSpaces(Append(Append(Text(tokens, current), Char), eq)) = WithoutSpaces(SubSeq(sql, 1, i'))
    BY <1>1, <1>2, <1>5, NextCharFacts
  <2>2. PICK t \in Seq(Symbols) :
           t = <<Char, eq>> /\ Text(Pushed, t) = Append(Append(Text(Pushed, <<>>), Char), eq)
    <3>1. /\ <<Char, eq>> \in Seq(Symbols)
          /\ Text(Pushed, <<Char, eq>>) = Append(Append(Text(Pushed, <<>>), Char), eq)
      BY <1>3, <1>4, <2>1, TextPair
    <3> QED BY <3>1
  <2>3. tokens' \in Seq(Seq(Symbols)) /\ \A k \in 1 .. Len(tokens') : WholeToken(tokens'[k])
    BY <1>1, <1>2, <1>4, <1>5, <2>2, TokensGrow
  <2>4. Text(tokens', current') = Text(Pushed, t)
    BY <1>1, <1>4, <1>5, <2>2, TextPushed
  <2> QED BY <1>1, <1>3, <1>4, <2>1, <2>2, <2>3, <2>4, EmptyWord, LexStep
<1>6. CASE ~two
  <2>1. /\ i' \in 0 .. Len(sql)
        /\ WithoutSpaces(Append(Text(tokens, current), Char)) = WithoutSpaces(SubSeq(sql, 1, i'))
    BY <1>1, <1>6, CharFacts
  <2>2. PICK t \in Seq(Symbols) : t = <<Char>> /\ Text(Pushed, t) = Append(Text(Pushed, <<>>), Char)
    BY <1>3, <1>4, TextOne, OneSymbol
  <2>3. tokens' \in Seq(Seq(Symbols)) /\ \A k \in 1 .. Len(tokens') : WholeToken(tokens'[k])
    BY <1>1, <1>2, <1>4, <1>6, <2>2, TokensGrow
  <2>4. Text(tokens', current') = Text(Pushed, t)
    BY <1>1, <1>4, <1>6, <2>2, TextPushed
  <2> QED BY <1>1, <1>3, <1>4, <2>1, <2>2, <2>3, <2>4, EmptyWord, LexStep
<1> QED BY <1>5, <1>6

\* A literal that the text leaves open is the last token.
LEMMA OpenIsLast ==
  ASSUME NEW t, OpenLiteral(t)
  PROVE  IsLiteral(t, TRUE)
BY Zenon DEF OpenLiteral, IsLiteral

LEMMA WholeIsToken ==
  ASSUME NEW t, NEW last \in BOOLEAN, WholeToken(t)
  PROVE  IsOperator(t) \/ IsLiteral(t, last) \/ IsPlainWord(t)
BY Zenon DEF WholeToken, IsLiteral

\* A literal may be the last token without being closed.
LEMMA EndPushes ==
  ASSUME LexInv
  PROVE  /\ Pushed \in Seq(Seq(Symbols)) /\ Text(Pushed, <<>>) = Text(tokens, current)
         /\ \A k \in 1 .. Len(Pushed) : WholeToken(Pushed[k]) \/ (k = Len(Pushed) /\ OpenLiteral(Pushed[k]))
<1>1. CASE quote_char = NoQuote
  BY <1>1, PushedFacts
<1>2. CASE quote_char # NoQuote
  <2>1. /\ tokens \in Seq(Seq(Symbols)) /\ current \in Seq(Symbols) /\ OpenLiteral(current)
        /\ \A k \in 1 .. Len(tokens) : WholeToken(tokens[k])
    BY <1>2 DEF LexInv, LexType, ShapeInv
  <2>2. Pushed = Append(tokens, current)
    BY <2>1 DEF Pushed, OpenLiteral
  <2>3. Text(Append(tokens, current), <<>>) = Text(tokens, current)
    BY <2>1, TextPushed
  <2>4. PICK ts : ts = Append(tokens, current)
    OBVIOUS
  <2>5. /\ ts \in Seq(Seq(Symbols)) /\ Len(tokens) \in Nat /\ Len(ts) = Len(tokens) + 1
        /\ \A k \in 1 .. Len(tokens) : ts[k] = tokens[k]
        /\ ts[Len(tokens) + 1] = current
        /\ \A k \in 1 .. (Len(tokens) + 1) : k = Len(tokens) + 1 \/ k \in 1 .. Len(tokens)
    BY <2>1, <2>4, AppendFacts
  <2>6. \A k \in 1 .. Len(ts) : WholeToken(ts[k]) \/ (k = Len(ts) /\ OpenLiteral(ts[k]))
    BY <2>1, <2>5
  <2> QED BY <2>2, <2>3, <2>4, <2>5, <2>6
<1> QED BY <1>1, <1>2

LEMMA TokenizeEndStep ==
  ASSUME LexInv, TokenizeEnd
  PROVE  ParseInv'
<1>1. phase' = "dispatch" /\ i = Len(sql) /\ tokens' = Pushed /\ UNCHANGED sql
  BY DEF TokenizeEnd
<1>2. PICK ts \in Seq(Seq(Symbols)) : ts = Pushed
  BY EndPushes
<1>3. WithoutSpaces(FlattenSeq(ts)) = WithoutSpaces(sql)
  <2>1. FlattenSeq(ts) = Text(ts, <<>>)
    <3>1. PICK f \in Seq(Symbols) : f = FlattenSeq(ts)
      BY FlattenType
    <3>2. f \o <<>> = f
      BY ConcatEmptySeq
    <3> QED BY <3>1, <3>2 DEF Text
  <2>2. SubSeq(sql, 1, i) = sql
    BY <1>1, SubSeqFull DEF LexInv, LexType
  <2> QED BY <1>2, <2>1, <2>2, EndPushes DEF LexInv, ReadInv
<1>4. ASSUME NEW k \in DOMAIN ts
      PROVE  IsOperator(ts[k]) \/ IsLiteral(ts[k], k = Len(ts)) \/ IsPlainWord(ts[k])
  <2>1. k \in 1 .. Len(ts)
    BY <1>2, LenProperties
  <2>2. CASE WholeToken(ts[k])
    <3>1. (k = Len(ts)) \in BOOLEAN
      OBVIOUS
    <3> QED BY <2>2, <3>1, WholeIsToken, Zenon
  <2>3. CASE k = Len(ts) /\ OpenLiteral(ts[k])
    <3>1. IsLiteral(ts[k], TRUE)
      BY <2>3, OpenIsLast
    <3>2. IsLiteral(ts[k], k = Len(ts))
      BY <2>3, <3>1, Zenon DEF IsLiteral
    <3> QED BY <3>2
  <2>4. WholeToken(ts[k]) \/ (k = Len(ts) /\ OpenLiteral(ts[k]))
    BY <1>2, <2>1, EndPushes
  <2> QED BY <2>2, <2>3, <2>4
<1>5. ts = tokens' /\ sql' = sql
  BY <1>1, <1>2
<1>6. TokensExact'
  BY <1>3, <1>4, <1>5, Zenon DEF TokensExact
<1>7. phase' # "tokenize"
  BY <1>1
<1> QED BY <1>6, <1>7 DEF ParseInv

-----------------------------------------------------------------------------
(* The parser leaves the tokens alone *)

Parsing == phase # "tokenize" /\ phase' # "tokenize" /\ UNCHANGED <<sql, tokens>>

LEMMA RunParses ==
  ASSUME NEW run, NEW next, phase # "tokenize", next # "tokenize", Parse(run, next)
  PROVE  Parsing
<1>1. phase' = next \/ phase' = "done"
  BY Zenon DEF Parse
<1>2. UNCHANGED <<sql, tokens>>
  BY DEF Parse, parseRest
<1> QED BY <1>1, <1>2 DEF Parsing

LEMMA RejectParses ==
  ASSUME phase # "tokenize", Reject
  PROVE  Parsing
BY DEF Reject, Parsing, parseRest

LEMMA KeepParses ==
  ASSUME NEW name, NEW next, phase # "tokenize", next # "tokenize", Keep(name, next)
  PROVE  Parsing
<1>1. phase' = next
  BY Zenon DEF Keep
<1>2. UNCHANGED <<sql, tokens>>
  BY DEF Keep, parseRest
<1> QED BY <1>1, <1>2 DEF Parsing

LEMMA DispatchParses ==
  ASSUME ParseQuery
  PROVE  Parsing
<1>1. ASSUME NEW word, NEW t, NEW next, next # "tokenize", Dispatch(word, t, next) PROVE Parsing
  BY <1>1 DEF Dispatch, Parsing, parseRest
<1>2. CASE phase = "dispatch" /\ Reject
  BY <1>2, RejectParses
<1>3. \/ Dispatch("SELECT", "SELECT", "columns") \/ Dispatch("INSERT", "INSERT", "insert")
      \/ Dispatch("UPDATE", "UPDATE", "update") \/ Dispatch("DELETE", "DELETE", "delete")
      \/ Dispatch("CREATE", "CREATE_TABLE", "create") \/ (phase = "dispatch" /\ Reject)
  BY Zenon DEF ParseQuery
<1>4. /\ "columns" # "tokenize" /\ "insert" # "tokenize" /\ "update" # "tokenize"
      /\ "delete" # "tokenize" /\ "create" # "tokenize"
  OBVIOUS
<1> QED BY <1>1, <1>2, <1>3, <1>4, Zenon

LEMMA ListStepParses ==
  ASSUME ColumnListStart \/ ColumnListStep \/ ValueListStart \/ ValueListStep \/ DefinitionStep
  PROVE  Parsing
<1>1. UNCHANGED <<sql, tokens>>
  BY DEF ColumnListStart, ColumnListStep, ValueListStart, ValueListStep, DefinitionStep, parseRest
<1>2. phase \in {"columns", "column", "values", "value", "definitions"}
  BY Zenon DEF ColumnListStart, ColumnListStep, ValueListStart, ValueListStep, DefinitionStep
<1>3. \/ UNCHANGED phase
      \/ phase' \in {"columns_end", "column", "value", "values_end", "definitions_end"}
  <2>1. ASSUME NEW next, ListEnd(next) PROVE phase' = next
    BY <2>1, Zenon DEF ListEnd
  <2>2. ASSUME ListComma \/ ListItem PROVE UNCHANGED phase
    BY <2>2 DEF ListComma, ListItem
  <2>3. CASE ColumnListStart
    BY <2>3, Zenon DEF ColumnListStart
  <2>4. CASE ColumnListStep
    BY <2>1, <2>2, <2>4, Zenon DEF ColumnListStep
  <2>5. CASE ValueListStart
    BY <2>5, Zenon DEF ValueListStart
  <2>6. CASE ValueListStep
    BY <2>1, <2>2, <2>6, Zenon DEF ValueListStep
  <2>7. CASE DefinitionStep
    BY <2>1, <2>2, <2>7, Zenon DEF DefinitionStep
  <2> QED BY <2>3, <2>4, <2>5, <2>6, <2>7
<1> QED BY <1>1, <1>2, <1>3 DEF Parsing

LEMMA WhereParses ==
  ASSUME ParseWhereClause
  PROVE  Parsing
<1>1. phase = "where" /\ phase # "tokenize" /\ "done" # "tokenize"
  BY DEF ParseWhereClause
<1>2. Parse(WhereClause, "done") \/ (phase' = "done" /\ UNCHANGED parseRest)
  BY Zenon DEF ParseWhereClause
<1>3. CASE Parse(WhereClause, "done")
  BY <1>1, <1>3, RunParses, Zenon
<1>4. CASE phase' = "done" /\ UNCHANGED parseRest
  BY <1>1, <1>4 DEF Parsing, parseRest
<1> QED BY <1>2, <1>3, <1>4

LEMMA SelectParses ==
  ASSUME ParseSelect
  PROVE  Parsing
<1>1. CASE ColumnListStart
  BY <1>1, ListStepParses
<1>2. CASE phase = "columns_end" /\ (Reject \/ Keep("columns", "from"))
  <2>1. phase # "tokenize" /\ "from" # "tokenize"
    BY <1>2
  <2> QED BY <1>2, <2>1, KeepParses, RejectParses, Zenon
<1>3. CASE phase = "from" /\ Parse(<<Keyword("FROM"), Attribute("table")>>, "where")
  <2>1. phase # "tokenize" /\ "where" # "tokenize"
    BY <1>3
  <2> QED BY <1>3, <2>1, RunParses, Zenon
<1> QED BY <1>1, <1>2, <1>3, Zenon DEF ParseSelect

LEMMA InsertParses ==
  ASSUME ParseInsert
  PROVE  Parsing
<1>1. CASE phase = "insert" /\ Parse(<<Keyword("INTO"), Attribute("table")>>, "insert_columns")
  <2>1. phase # "tokenize" /\ "insert_columns" # "tokenize"
    BY <1>1
  <2> QED BY <1>1, <2>1, RunParses, Zenon
<1>2. CASE phase = "insert_columns" /\ phase' = (IF Here({"("}) THEN "columns" ELSE "values") /\ UNCHANGED parseRest
  <2>1. phase' = "columns" \/ phase' = "values"
    BY <1>2, Zenon
  <2> QED BY <1>2, <2>1 DEF Parsing, parseRest
<1>3. CASE phase = "columns_end" /\ Keep("columns", "values")
  <2>1. phase # "tokenize" /\ "values" # "tokenize"
    BY <1>3
  <2> QED BY <1>3, <2>1, KeepParses, Zenon
<1>4. CASE phase = "values" /\ Reject
  BY <1>4, RejectParses
<1>5. CASE ValueListStart
  BY <1>5, ListStepParses
<1>6. CASE phase = "values_end" /\ (Reject \/ Keep("values", "done"))
  <2>1. phase # "tokenize" /\ "done" # "tokenize"
    BY <1>6
  <2> QED BY <1>6, <2>1, KeepParses, RejectParses, Zenon
<1>7. \/ phase = "insert" /\ Parse(<<Keyword("INTO"), Attribute("table")>>, "insert_columns")
      \/ phase = "insert_columns" /\ phase' = (IF Here({"("}) THEN "columns" ELSE "values") /\ UNCHANGED parseRest
      \/ phase = "columns_end" /\ Keep("columns", "values")
      \/ phase = "values" /\ Reject
      \/ ValueListStart
      \/ phase = "values_end" /\ (Reject \/ Keep("values", "done"))
  BY Zenon DEF ParseInsert
<1> QED BY <1>1, <1>2, <1>3, <1>4, <1>5, <1>6, <1>7

LEMMA UpdateParses ==
  ASSUME ParseUpdate \/ ParseDelete
  PROVE  Parsing
<1>1. phase # "tokenize" /\ "where" # "tokenize"
  <2>1. phase = "update" \/ phase = "delete"
    BY Zenon DEF ParseUpdate, ParseDelete
  <2> QED BY <2>1
<1>2. \E run : Parse(run, "where")
  BY Zenon DEF ParseUpdate, ParseDelete
<1> QED BY <1>1, <1>2, RunParses, Zenon

LEMMA CreateParses ==
  ASSUME ParseCreateTable
  PROVE  Parsing
<1>1. CASE phase = "create" /\ Parse(<<Keyword("TABLE"), Attribute("table"), Keyword("(")>>, "definitions")
  <2>1. phase # "tokenize" /\ "definitions" # "tokenize"
    BY <1>1
  <2> QED BY <1>1, <2>1, RunParses, Zenon
<1>2. CASE DefinitionStep
  BY <1>2, ListStepParses
<1>3. CASE phase = "definitions_end" /\ (Reject \/ Keep("columns", "done"))
  <2>1. phase # "tokenize" /\ "done" # "tokenize"
    BY <1>3
  <2> QED BY <1>3, <2>1, KeepParses, RejectParses, Zenon
<1> QED BY <1>1, <1>2, <1>3, Zenon DEF ParseCreateTable

\* A step that reads keeps the tokenizer's invariant.
LEMMA ReadStep ==
  ASSUME ParseInv, Tokenize
  PROVE  ParseInv'
<1>1. phase = "tokenize" /\ LexInv
  BY DEF ParseInv, Tokenize, OpenQuote, QuotedQuote, QuotedChar, Space, Delimiter, WordChar, TokenizeEnd, Lexing
<1>2. CASE TokenizeEnd
  BY <1>1, <1>2, TokenizeEndStep
<1>3. CASE OpenQuote \/ QuotedQuote \/ QuotedChar \/ Space \/ Delimiter \/ WordChar
  <2>1. LexInv'
    BY <1>1, <1>3, OpenQuoteStep, QuotedQuoteStep, QuotedCharStep, SpaceStep, DelimiterStep, WordCharStep
  <2>2. phase' = "tokenize"
    BY <1>1, <1>3 DEF OpenQuote, QuotedQuote, QuotedChar, Space, Delimiter, WordChar, lexRest
  <2> QED BY <2>1, <2>2 DEF ParseInv, TokensExact
<1> QED BY <1>2, <1>3 DEF Tokenize

LEMMA ParseStep ==
  ASSUME ParseInv, Parsing
  PROVE  ParseInv'
<1>1. phase' # "tokenize" /\ phase # "tokenize" /\ UNCHANGED <<sql, tokens>>
  BY DEF Parsing
<1>2. TokensExact'
  BY <1>1, Zenon DEF ParseInv, TokensExact
<1> QED BY <1>1, <1>2 DEF ParseInv

LEMMA LexStutters ==
  ASSUME ParseInv, UNCHANGED vars
  PROVE  ParseInv'
<1>1. UNCHANGED <<sql, i, quote_char, current, tokens, phase>>
  BY DEF vars, lexVars
<1> QED BY <1>1, Zenon DEF ParseInv, LexInv, LexType, ReadInv, ShapeInv, TokensExact

\* Tokenize loses and adds nothing but spaces and makes of every text operators,
\* words and whole literals, and nothing of the parser changes the tokens.
THEOREM TokensAreExact == Spec => []TokensExact
<1>1. ASSUME ParseInv, [Next]_vars PROVE ParseInv'
  <2>1. CASE Tokenize
    BY <1>1, <2>1, ReadStep
  <2>2. CASE Next /\ ~Tokenize
    <3>1. Parsing
      BY <2>2, DispatchParses, SelectParses, InsertParses, UpdateParses, CreateParses, ListStepParses,
         WhereParses DEF Next
    <3> QED BY <1>1, <3>1, ParseStep
  <2>3. CASE UNCHANGED vars
    BY <1>1, <2>3, LexStutters
  <2> QED BY <1>1, <2>1, <2>2, <2>3
<1>2. ParseInv => TokensExact
  BY DEF ParseInv
<1> QED BY <1>1, <1>2, LexInit, PTL DEF Spec
=============================================================================
