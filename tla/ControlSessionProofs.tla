------------------------- MODULE ControlSessionProofs -------------------------
(***************************************************************************)
(* The control sessions, for any clients, any lines and any rules: what a  *)
(* client sent is parsed, collected or on its way, in its order, however   *)
(* the reads cut it; a client that waits for each of its commands has each *)
(* line parsed alone; and no command leaves what is no list of rules.      *)
(***************************************************************************)
EXTENDS ControlSession, RulesListProofs, Sums

-----------------------------------------------------------------------------
(* Texts without some of their symbols.                                    *)

LEMMA WithoutType ==
  ASSUME NEW S, NEW text \in Seq(S), NEW symbols
  PROVE  Without(symbols, text) \in Seq(S)
<1>1. Len(text) \in Nat /\ AllIn(Len(text), text, S)
  BY DEF AllIn
<1> QED BY <1>1, KeptType DEF Without

LEMMA WithoutEmpty == \A symbols : Without(symbols, <<>>) = <<>>
<1>1. Len(<<>>) = 0
  OBVIOUS
<1> QED BY <1>1, KeptNext DEF Without

\* Symbols are taken out of two pieces as out of the whole.
LEMMA WithoutPlus ==
  ASSUME NEW S, NEW x \in Seq(S), NEW y \in Seq(S), NEW symbols
  PROVE  Without(symbols, x \o y) = Without(symbols, x) \o Without(symbols, y)
<1> DEFINE markX == [i \in DOMAIN x |-> x[i] \notin symbols]
           markY == [i \in DOMAIN y |-> y[i] \notin symbols]
           mark == [i \in DOMAIN (x \o y) |-> (x \o y)[i] \notin symbols]
<1>1. PICK a \in Nat, b \in Nat : a = Len(x) /\ b = Len(y)
  BY LenProperties
<1>2. /\ x \o y \in Seq(S) /\ Len(x \o y) = a + b /\ DOMAIN (x \o y) = 1 .. a + b
      /\ DOMAIN x = 1 .. a /\ DOMAIN y = 1 .. b
      /\ \A i \in 1 .. a : (x \o y)[i] = x[i]
      /\ \A i \in 1 .. b : (x \o y)[a + i] = y[i]
  <2>1. /\ x \o y \in Seq(S) /\ Len(x \o y) = a + b
        /\ \A i \in 1 .. a + b : (x \o y)[i] = IF i <= a THEN x[i] ELSE y[i - a]
    BY <1>1, ConcatProperties
  <2>2. DOMAIN x = 1 .. a /\ DOMAIN y = 1 .. b /\ DOMAIN (x \o y) = 1 .. a + b
    BY <1>1, <2>1, LenProperties
  <2>3. \A i \in 1 .. a : i \in 1 .. a + b /\ i <= a
    OBVIOUS
  <2>4. \A i \in 1 .. b : a + i \in 1 .. a + b /\ ~(a + i <= a) /\ (a + i) - a = i
    OBVIOUS
  <2> QED BY <2>1, <2>2, <2>3, <2>4
<1>3. \A i \in 1 .. a : mark[i] = markX[i]
  BY <1>2
<1>4. \A i \in 1 .. b : mark[a + i] = markY[i]
  BY <1>2
<1>5. /\ Without(symbols, x) = Kept(a, x, markX)
      /\ Without(symbols, y) = Kept(b, y, markY)
      /\ Without(symbols, x \o y) = Kept(a + b, x \o y, mark)
  BY <1>1, <1>2 DEF Without
<1> HIDE DEF markX, markY, mark
<1>6. Kept(a, x, markX) = Kept(a, x \o y, mark)
  <2>1. PICK z : z = x \o y
    OBVIOUS
  <2>2. \A i \in 1 .. a : x[i] = z[i] /\ markX[i] = mark[i]
    BY <1>2, <1>3, <2>1
  <2>3. Kept(a, x, markX) = Kept(a, z, mark)
    BY <2>2, KeptSame
  <2> QED BY <2>1, <2>3
<1>7. LastOnes(S, a, b, x \o y, mark, y, markY)
  <2>1. AllIn(a + b, x \o y, S)
    BY <1>2 DEF AllIn
  <2> QED BY <1>2, <1>4, <2>1 DEF LastOnes
<1>8. Kept(a, x \o y, mark) \o Kept(b, y, markY) = Kept(a + b, x \o y, mark)
  BY <1>7, KeptPlus
<1> QED BY <1>5, <1>6, <1>8

\* What is parsed is what was said.
LEMMA CleanedIsSaid == \A text : Cleaned(text) = Said(text)
  BY DEF Cleaned, Said, Ending

-----------------------------------------------------------------------------
(* Sequences of texts.                                                     *)

\* The recursion of FlattenSeq, up to the n-th text.
IsFlat(f, n, texts) ==
  f = [i \in 1 .. n |-> IF i = 1 THEN texts[i] ELSE f[i - 1] \o texts[i]]

LEMMA FlatIsChoice ==
  ASSUME NEW texts, Len(texts) # 0
  PROVE  FlattenSeq(texts) = (CHOOSE f : IsFlat(f, Len(texts), texts))[Len(texts)]
  BY Zenon DEF FlattenSeq, IsFlat

\* Two such functions, for texts of which the first k are the same.
FlatAlike(k, m, n, s, t, f, g) ==
  /\ m \in Nat /\ n \in Nat /\ k \in Nat /\ k <= m /\ k <= n
  /\ \A i \in 1 .. k : s[i] = t[i]
  /\ IsFlat(f, m, s) /\ IsFlat(g, n, t)

LEMMA FlatUnique ==
  ASSUME NEW k, NEW m, NEW n, NEW s, NEW t, NEW f, NEW g, FlatAlike(k, m, n, s, t, f, g)
  PROVE  \A i \in 1 .. k : f[i] = g[i]
<1> /\ m \in Nat /\ n \in Nat /\ k \in Nat /\ k <= m /\ k <= n
    /\ \A i \in 1 .. k : s[i] = t[i]
    /\ IsFlat(f, m, s) /\ IsFlat(g, n, t)
  BY DEF FlatAlike
<1> DEFINE Good == {i \in 0 .. k : i = 0 \/ f[i] = g[i]}
<1>1. 0 \in Good
  OBVIOUS
<1>2. ASSUME NEW i \in 0 .. k - 1, i \in Good PROVE i + 1 \in Good
  <2>1. /\ i + 1 \in 1 .. k /\ i + 1 \in 1 .. m /\ i + 1 \in 1 .. n /\ i + 1 \in 0 .. k
        /\ (i + 1) - 1 = i /\ (i + 1 = 1 <=> i = 0)
    OBVIOUS
  <2>2. f[i + 1] = IF i = 0 THEN s[i + 1] ELSE f[i] \o s[i + 1]
    <3>1. f[i + 1] = IF i + 1 = 1 THEN s[i + 1] ELSE f[(i + 1) - 1] \o s[i + 1]
      BY <2>1 DEF IsFlat
    <3> QED BY <2>1, <3>1
  <2>3. g[i + 1] = IF i = 0 THEN t[i + 1] ELSE g[i] \o t[i + 1]
    <3>1. g[i + 1] = IF i + 1 = 1 THEN t[i + 1] ELSE g[(i + 1) - 1] \o t[i + 1]
      BY <2>1 DEF IsFlat
    <3> QED BY <2>1, <3>1
  <2>4. s[i + 1] = t[i + 1]
    BY <2>1
  <2> QED BY <1>2, <2>1, <2>2, <2>3, <2>4
<1> HIDE DEF Good
<1>3. 0 .. k \subseteq Good
  BY <1>1, <1>2, UpTo
<1>4. ASSUME NEW i \in 1 .. k PROVE f[i] = g[i]
  <2>1. i \in 0 .. k /\ i # 0
    OBVIOUS
  <2> QED BY <1>3, <2>1 DEF Good
<1> QED BY <1>4

LEMMA FlatExists ==
  ASSUME NEW texts, NEW n \in Nat
  PROVE  \E f : IsFlat(f, n, texts)
<1> DEFINE Good == {i \in 0 .. n : \E f : IsFlat(f, i, texts)}
<1>1. 0 \in Good
  <2>1. IsFlat([i \in 1 .. 0 |-> <<>>], 0, texts)
    BY DEF IsFlat
  <2> QED BY <2>1
<1>2. ASSUME NEW i \in 0 .. n - 1, i \in Good PROVE i + 1 \in Good
  <2>1. PICK f : IsFlat(f, i, texts)
    BY <1>2
  <2> DEFINE last == IF i = 0 THEN texts[i + 1] ELSE f[i] \o texts[i + 1]
             g == [j \in 1 .. i + 1 |-> IF j = i + 1 THEN last ELSE f[j]]
  <2>2. g[i + 1] = last /\ \A j \in 1 .. i : g[j] = f[j]
    <3>1. i + 1 \in 1 .. i + 1 /\ \A j \in 1 .. i : j \in 1 .. i + 1 /\ j # i + 1
      OBVIOUS
    <3> HIDE DEF last
    <3> QED BY <3>1
  <2>3. \A j \in 1 .. i : f[j] = IF j = 1 THEN texts[j] ELSE f[j - 1] \o texts[j]
    BY <2>1 DEF IsFlat
  <2>4. \A j \in 1 .. i + 1 : g[j] = IF j = 1 THEN texts[j] ELSE g[j - 1] \o texts[j]
    <3>1. (i + 1) - 1 = i /\ (i = 0 \/ i \in 1 .. i) /\ (i + 1 = 1 <=> i = 0)
      OBVIOUS
    <3>2. \A j \in 1 .. i : j = 1 \/ j - 1 \in 1 .. i
      OBVIOUS
    <3>3. \A j \in 1 .. i + 1 : j = i + 1 \/ j \in 1 .. i
      OBVIOUS
    <3> HIDE DEF g
    <3> QED BY <2>2, <2>3, <3>1, <3>2, <3>3
  <2>5. g = [j \in 1 .. i + 1 |-> IF j = 1 THEN texts[j] ELSE g[j - 1] \o texts[j]]
    <3>1. g = [j \in 1 .. i + 1 |-> g[j]]
      OBVIOUS
    <3> HIDE DEF g
    <3> QED BY <2>4, <3>1
  <2> HIDE DEF g
  <2>6. IsFlat(g, i + 1, texts)
    BY <2>5, Zenon DEF IsFlat
  <2> QED BY <2>6
<1> HIDE DEF Good
<1>3. 0 .. n \subseteq Good
  BY <1>1, <1>2, UpTo
<1> QED BY <1>3 DEF Good

\* One more text comes after all the others.
LEMMA FlatAppend ==
  ASSUME NEW S, NEW texts \in Seq(Seq(S)), NEW text \in Seq(S)
  PROVE  /\ FlattenSeq(<<>>) = <<>>
         /\ FlattenSeq(Append(texts, text)) = FlattenSeq(texts) \o text
<1>1. FlattenSeq(<<>>) = <<>>
  BY DEF FlattenSeq
<1>0. PICK n \in Nat : n = Len(texts)
  BY LenProperties
<1>2. PICK all : n = Len(texts) /\ all = Append(texts, text)
  BY <1>0
<1>3. /\ all \in Seq(Seq(S)) /\ Len(all) = n + 1 /\ all[n + 1] = text
      /\ \A i \in 1 .. n : all[i] = texts[i]
  BY <1>2, AppendProperties
<1>4. PICK g : g = CHOOSE f : IsFlat(f, n + 1, all)
  OBVIOUS
<1>5. IsFlat(g, n + 1, all) /\ FlattenSeq(all) = g[n + 1]
  <2>1. \E f : IsFlat(f, n + 1, all)
    <3>1. PICK m \in Nat : m = n + 1
      OBVIOUS
    <3>2. \E f : IsFlat(f, m, all)
      BY FlatExists
    <3> QED BY <3>1, <3>2
  <2>2. Len(all) # 0
    BY <1>3
  <2> QED BY <1>3, <1>4, <2>1, <2>2, FlatIsChoice
<1>6. g[n + 1] = IF n = 0 THEN text ELSE g[n] \o text
  <2>1. n + 1 \in 1 .. n + 1 /\ (n + 1) - 1 = n /\ (n + 1 = 1 <=> n = 0)
    OBVIOUS
  <2> QED BY <1>3, <1>5, <2>1 DEF IsFlat
<1>7. CASE n = 0
  <2>1. texts = <<>>
    BY <1>2, <1>7, EmptySeq
  <2>2. <<>> \o text = text
    OBVIOUS
  <2> QED BY <1>1, <1>2, <1>5, <1>6, <1>7, <2>1, <2>2
<1>8. CASE n # 0
  <2>1. PICK h : h = CHOOSE f : IsFlat(f, n, texts)
    OBVIOUS
  <2>2. IsFlat(h, n, texts) /\ FlattenSeq(texts) = h[n]
    BY <1>2, <1>8, <2>1, FlatExists, FlatIsChoice
  <2>3. n \in 1 .. n /\ n <= n + 1
    BY <1>8
  <2>4. \A i \in 1 .. n : h[i] = g[i]
    <3>1. PICK m \in Nat : m = n + 1
      OBVIOUS
    <3>2. n <= n /\ n <= m /\ \A i \in 1 .. n : texts[i] = all[i]
      BY <1>3, <3>1
    <3>3. IsFlat(g, m, all)
      BY <1>5, <3>1
    <3>4. FlatAlike(n, n, m, texts, all, h, g)
      BY <2>2, <3>2, <3>3 DEF FlatAlike
    <3> QED BY <3>4, FlatUnique
  <2> QED BY <1>1, <1>2, <1>5, <1>6, <1>8, <2>2, <2>3, <2>4
<1> QED BY <1>7, <1>8

LEMMA FlatType ==
  ASSUME NEW S, NEW texts \in Seq(Seq(S))
  PROVE  FlattenSeq(texts) \in Seq(S)
<1>1. CASE Len(texts) = 0
  <2>1. texts = <<>> /\ <<>> \in Seq(S)
    BY <1>1
  <2> QED BY <2>1 DEF FlattenSeq
<1>2. CASE Len(texts) # 0
  <2>1. PICK n \in Nat : n = Len(texts) /\ n # 0 /\ n \in 1 .. n
    BY <1>2
  <2>2. PICK h : h = CHOOSE f : IsFlat(f, n, texts)
    OBVIOUS
  <2>3. IsFlat(h, n, texts) /\ FlattenSeq(texts) = h[n]
    BY <1>2, <2>1, <2>2, FlatExists, FlatIsChoice
  <2> DEFINE Good == {i \in 0 .. n : i = 0 \/ h[i] \in Seq(S)}
  <2>4. 0 \in Good
    OBVIOUS
  <2>5. ASSUME NEW i \in 0 .. n - 1, i \in Good PROVE i + 1 \in Good
    <3>1. /\ i + 1 \in 1 .. n /\ i + 1 \in 0 .. n
          /\ (i + 1) - 1 = i /\ (i + 1 = 1 <=> i = 0)
      OBVIOUS
    <3>2. h[i + 1] = IF i = 0 THEN texts[i + 1] ELSE h[i] \o texts[i + 1]
      BY <2>3, <3>1 DEF IsFlat
    <3>3. texts[i + 1] \in Seq(S)
      BY <2>1, <3>1, ElementOfSeq
    <3>4. i # 0 => h[i] \in Seq(S)
      BY <2>5
    <3>5. PICK x, y : x = h[i] /\ y = texts[i + 1]
      OBVIOUS
    <3>6. i # 0 => x \o y \in Seq(S)
      BY <3>3, <3>4, <3>5, ConcatProperties
    <3>7. h[i + 1] \in Seq(S)
      BY <3>2, <3>3, <3>5, <3>6
    <3> QED BY <3>1, <3>7, Zenon
  <2> HIDE DEF Good
  <2>6. 0 .. n \subseteq Good
    BY <2>4, <2>5, UpTo
  <2>7. n \in 0 .. n
    OBVIOUS
  <2>8. h[n] \in Seq(S)
    BY <2>1, <2>6, <2>7, Zenon DEF Good
  <2> QED BY <2>3, <2>8
<1> QED BY <1>1, <1>2

-----------------------------------------------------------------------------
(* The words of a text.                                                    *)

SpaceAt(text, i) == i \notin DOMAIN text \/ text[i] = "SP"
Starts(text) == {i \in DOMAIN text : ~SpaceAt(text, i) /\ SpaceAt(text, i - 1)}
Ends(text, i) == {j \in i .. Len(text) : SpaceAt(text, j + 1)}
NthStart(text, k) == CHOOSE i \in Starts(text) : Cardinality(UpToHere(Starts(text), i)) = k

LEMMA WordsAre ==
  \A text : Words(text) = [k \in 1 .. Cardinality(Starts(text)) |->
              SubSeq(text, NthStart(text, k), Min(Ends(text, NthStart(text, k))))]
  BY Zenon DEF Words, SpaceAt, Starts, Ends, NthStart, UpToHere

LEMMA WordsType ==
  ASSUME NEW S, NEW text \in Seq(S)
  PROVE  Words(text) \in Seq(Seq(S))
<1>1. PICK n \in Nat : n = Len(text) /\ DOMAIN text = 1 .. n
  BY LenProperties
<1>2. IsFiniteSet(Starts(text)) /\ Starts(text) \subseteq 1 .. n
  <2>1. IsFiniteSet(1 .. n)
    BY FS_Interval
  <2>2. Starts(text) \subseteq 1 .. n
    BY <1>1 DEF Starts
  <2> QED BY <2>1, <2>2, FS_Subset
<1>3. PICK c \in Nat : c = Cardinality(Starts(text))
  BY <1>2, FS_CardinalityType
<1>4. ASSUME NEW k \in 1 .. c
      PROVE  SubSeq(text, NthStart(text, k), Min(Ends(text, NthStart(text, k)))) \in Seq(S)
  <2>1. \E i \in Starts(text) : Cardinality(UpToHere(Starts(text), i)) = k
    <3>1. Starts(text) \subseteq Int
      BY <1>2
    <3> QED BY <1>2, <1>3, <3>1, NthOf
  <2>2. PICK i : i = NthStart(text, k) /\ i \in 1 .. n
    BY <1>2, <2>1 DEF NthStart
  <2>3. /\ IsFiniteSet(Ends(text, i)) /\ Ends(text, i) \subseteq i .. n
        /\ Ends(text, i) # {}
    <3>1. IsFiniteSet(i .. n)
      BY <2>2, FS_Interval
    <3>2. Ends(text, i) \subseteq i .. n
      BY <1>1 DEF Ends
    <3>3. n \in i .. n /\ n + 1 \notin 1 .. n
      BY <2>2
    <3>4. n \in Ends(text, i)
      BY <1>1, <3>3 DEF Ends, SpaceAt
    <3> QED BY <3>1, <3>2, <3>4, FS_Subset
  <2>4. PICK j : j = Min(Ends(text, i)) /\ j \in i .. n
    <3>1. Ends(text, i) \subseteq Int
      BY <2>2, <2>3
    <3>2. \E x \in Ends(text, i) : \A y \in Ends(text, i) : x <= y
      BY <2>3, <3>1, FirstOf
    <3> QED BY <2>3, <3>2 DEF Min
  <2>5. SubSeq(text, i, j) \in Seq(S)
    BY <1>1, <2>2, <2>4, SubSeqProperties
  <2> QED BY <2>2, <2>4, <2>5
<1>5. Words(text) = [k \in 1 .. c |->
        SubSeq(text, NthStart(text, k), Min(Ends(text, NthStart(text, k))))]
  BY <1>3, WordsAre
<1> QED BY <1>4, <1>5

-----------------------------------------------------------------------------
(* The number a word begins with.                                          *)

DigitsOnly(word, i) == \A j \in 1 .. i : word[j] \in DOMAIN Digit
DigitsOf(word) ==
  CHOOSE i \in 0 .. Len(word) :
    DigitsOnly(word, i) /\ (i < Len(word) => word[i + 1] \notin DOMAIN Digit)
IsNumber(f, n, word) ==
  f = [i \in 0 .. n |-> IF i = 0 THEN 0 ELSE 10 * f[i - 1] + Digit[word[i]]]

LEMMA AToIIs ==
  \A word : AToI(word) = (CHOOSE f : IsNumber(f, DigitsOf(word), word))[DigitsOf(word)]
  BY Zenon DEF AToI, DigitsOnly, DigitsOf, IsNumber

LEMMA DigitsOfType ==
  ASSUME NEW word, Len(word) \in Nat
  PROVE  DigitsOf(word) \in 0 .. Len(word) /\ DigitsOnly(word, DigitsOf(word))
<1>1. PICK n \in Nat : n = Len(word)
  OBVIOUS
<1> DEFINE Good == {i \in 0 .. n : DigitsOnly(word, i)}
<1>2. IsFiniteSet(Good) /\ Good \subseteq Int /\ 0 \in Good
  <2>1. IsFiniteSet(0 .. n)
    BY FS_Interval
  <2>2. 0 \in Good
    BY DEF DigitsOnly
  <2> QED BY <2>1, <2>2, FS_Subset
<1>3. PICK x \in Good : \A y \in Good : y <= x
  <2> HIDE DEF Good
  <2> QED BY <1>2, LastOf
<1>4. ASSUME x < n PROVE word[x + 1] \notin DOMAIN Digit
  <2>1. SUFFICES ASSUME word[x + 1] \in DOMAIN Digit PROVE FALSE
    OBVIOUS
  <2>2. DigitsOnly(word, x + 1)
    <3>1. \A j \in 1 .. x + 1 : j = x + 1 \/ j \in 1 .. x
      OBVIOUS
    <3> QED BY <2>1, <3>1 DEF DigitsOnly
  <2>3. x + 1 \in Good
    BY <1>4, <2>2
  <2> QED BY <1>3, <2>3
<1>5. x \in 0 .. Len(word) /\ DigitsOnly(word, x) /\ (x < Len(word) => word[x + 1] \notin DOMAIN Digit)
  BY <1>1, <1>4
<1> QED BY <1>5 DEF DigitsOf

LEMMA AToIType ==
  ASSUME NEW word, Len(word) \in Nat
  PROVE  AToI(word) \in Nat
<1>1. PICK n \in Nat : n = DigitsOf(word) /\ DigitsOnly(word, n)
  BY DigitsOfType
<1> DEFINE Good == {i \in 0 .. n : \E f : IsNumber(f, i, word)}
<1>2. 0 \in Good
  <2>1. IsNumber([i \in 0 .. 0 |-> 0], 0, word)
    BY DEF IsNumber
  <2> QED BY <2>1
<1>3. ASSUME NEW i \in 0 .. n - 1, i \in Good PROVE i + 1 \in Good
  <2>1. PICK f : IsNumber(f, i, word)
    BY <1>3
  <2> DEFINE next == 10 * f[i] + Digit[word[i + 1]]
             g == [j \in 0 .. i + 1 |-> IF j = i + 1 THEN next ELSE f[j]]
  <2>2. g[i + 1] = next /\ \A j \in 0 .. i : g[j] = f[j]
    <3>1. i + 1 \in 0 .. i + 1 /\ \A j \in 0 .. i : j \in 0 .. i + 1 /\ j # i + 1
      OBVIOUS
    <3> HIDE DEF next
    <3> QED BY <3>1
  <2>3. \A j \in 0 .. i : f[j] = IF j = 0 THEN 0 ELSE 10 * f[j - 1] + Digit[word[j]]
    BY <2>1 DEF IsNumber
  <2>4. \A j \in 0 .. i + 1 : g[j] = IF j = 0 THEN 0 ELSE 10 * g[j - 1] + Digit[word[j]]
    <3>1. (i + 1) - 1 = i /\ i \in 0 .. i /\ i + 1 # 0
      OBVIOUS
    <3>2. \A j \in 0 .. i : j = 0 \/ j - 1 \in 0 .. i
      OBVIOUS
    <3>3. \A j \in 0 .. i + 1 : j = i + 1 \/ j \in 0 .. i
      OBVIOUS
    <3> HIDE DEF g
    <3> QED BY <2>2, <2>3, <3>1, <3>2, <3>3
  <2>5. g = [j \in 0 .. i + 1 |-> IF j = 0 THEN 0 ELSE 10 * g[j - 1] + Digit[word[j]]]
    <3>1. g = [j \in 0 .. i + 1 |-> g[j]]
      OBVIOUS
    <3> HIDE DEF g
    <3> QED BY <2>4, <3>1
  <2> HIDE DEF g
  <2>6. IsNumber(g, i + 1, word)
    BY <2>5, Zenon DEF IsNumber
  <2> QED BY <2>6
<1> HIDE DEF Good
<1>4. n \in Good
  <2>1. 0 .. n \subseteq Good
    BY <1>2, <1>3, UpTo
  <2> QED BY <2>1
<1>5. PICK f : IsNumber(f, n, word) /\ AToI(word) = f[n]
  BY <1>1, <1>4, AToIIs DEF Good
<1> DEFINE Nats == {i \in 0 .. n : f[i] \in Nat}
<1>6. 0 \in Nats
  BY <1>5 DEF IsNumber
<1>7. ASSUME NEW i \in 0 .. n - 1, i \in Nats PROVE i + 1 \in Nats
  <2>1. i + 1 \in 0 .. n /\ i + 1 # 0 /\ (i + 1) - 1 = i /\ i + 1 \in 1 .. n
    OBVIOUS
  <2>2. f[i + 1] = 10 * f[i] + Digit[word[i + 1]]
    BY <1>5, <2>1 DEF IsNumber
  <2>3. PICK v \in Nat, d \in Nat : v = f[i] /\ d = Digit[word[i + 1]]
    <3>1. word[i + 1] \in DOMAIN Digit
      BY <1>1, <2>1 DEF DigitsOnly
    <3>2. \A x \in DOMAIN Digit : Digit[x] \in Nat
      BY DEF Digit
    <3> QED BY <1>7, <3>1, <3>2
  <2>4. 10 * v + d \in Nat
    OBVIOUS
  <2> QED BY <2>1, <2>2, <2>3, <2>4
<1> HIDE DEF Nats
<1>8. n \in Nats
  <2>1. 0 .. n \subseteq Nats
    BY <1>6, <1>7, UpTo
  <2> QED BY <2>1
<1> QED BY <1>5, <1>8 DEF Nats

-----------------------------------------------------------------------------
(* Commands.                                                               *)

Collection == [Type -> Seq(Rule)]
EffectOK(e) == e.lists \in Collection /\ e.reply \in Reply /\ e.raises \in BOOLEAN

LEMMA EffectType ==
  ASSUME NEW new \in Collection, NEW reply \in Reply
  PROVE  EffectOK(Effect(new, reply))
  BY DEF Effect, EffectOK

LEMMA UnchangedType ==
  ASSUME NEW old \in Collection
  PROVE  EffectOK(Nothing(old)) /\ EffectOK(Error(old))
<1>1. "none" \in Reply /\ "error" \in Reply
  BY DEF Reply
<1> QED BY <1>1, EffectType DEF Nothing, Error

\* A change of one of the lists to a list of rules.
LEMMA ChangeType ==
  ASSUME NEW old \in Collection, NEW t \in Type, NEW list \in Seq(Rule)
  PROVE  EffectOK(Effect([old EXCEPT ![t] = list], "none"))
<1>1. [old EXCEPT ![t] = list] \in Collection
  BY DEF Collection
<1>2. "none" \in Reply
  BY DEF Reply
<1> QED BY <1>1, <1>2, EffectType

LEMMA AddType ==
  ASSUME NEW old \in Collection, NEW t \in Type, NEW w
  PROVE  EffectOK(Add(old, t, w))
<1>1. CASE IsRule(RuleIn(w, 4))
  <2>1. PICK k \in Key : k = RuleText[RuleIn(w, 4)]
    BY <1>1, RuleTextAssumption DEF IsRule
  <2>2. PICK list \in Seq(Rule) : list = old[t]
    BY DEF Collection
  <2>3. AppendRule(list, k) \in Seq(Rule)
    BY EditType
  <2>4. Add(old, t, w) = Effect([old EXCEPT ![t] = AppendRule(list, k)], "none")
    BY <1>1, <2>1, <2>2 DEF Add
  <2> QED BY <2>3, <2>4, ChangeType
<1>2. CASE ~IsRule(RuleIn(w, 4))
  BY <1>2, UnchangedType DEF Add
<1> QED BY <1>1, <1>2

LEMMA InsertType ==
  ASSUME NEW old \in Collection, NEW t \in Type, NEW w, AToI(w[4]) \in Nat
  PROVE  EffectOK(Insert(old, t, w))
<1> DEFINE allowed == IsRule(RuleIn(w, 5)) /\ ValidNum(old[t], AToI(w[4]))
<1>1. CASE allowed
  <2>1. PICK k \in Key : k = RuleText[RuleIn(w, 5)]
    BY <1>1, RuleTextAssumption DEF IsRule
  <2>2. PICK list \in Seq(Rule) : list = old[t]
    BY DEF Collection
  <2>3. PICK num \in Nat : num = AToI(w[4])
    OBVIOUS
  <2>4. ValidNum(list, num)
    BY <1>1, <2>2, <2>3
  <2>5. InsertRule(list, num, k) \in Seq(Rule)
    BY <2>4, EditType
  <2>6. Insert(old, t, w) = Effect([old EXCEPT ![t] = InsertRule(list, num, k)], "none")
    BY <1>1, <2>1, <2>2, <2>3 DEF Insert
  <2> QED BY <2>5, <2>6, ChangeType
<1>2. CASE ~allowed
  BY <1>2, UnchangedType DEF Insert
<1> QED BY <1>1, <1>2

LEMMA DelType ==
  ASSUME NEW old \in Collection, NEW t \in Type, NEW w, AToI(w[4]) \in Nat
  PROVE  EffectOK(Del(old, t, w))
<1> DEFINE allowed == ValidNum(old[t], AToI(w[4]))
<1>1. CASE allowed
  <2>1. PICK list \in Seq(Rule) : list = old[t]
    BY DEF Collection
  <2>2. PICK num \in Nat : num = AToI(w[4])
    OBVIOUS
  <2>3. ValidNum(list, num)
    BY <1>1, <2>1, <2>2
  <2>4. DelRule(list, num) \in Seq(Rule)
    BY <2>3, EditType
  <2>5. Del(old, t, w) = Effect([old EXCEPT ![t] = DelRule(list, num)], "none")
    BY <1>1, <2>1, <2>2 DEF Del
  <2> QED BY <2>4, <2>5, ChangeType
<1>2. CASE ~allowed
  BY <1>2, UnchangedType DEF Del
<1> QED BY <1>1, <1>2

LEMMA RuleCommandType ==
  ASSUME NEW old \in Collection, NEW w \in Seq(Seq(STRING)), Len(w) >= 4
  PROVE  EffectOK(RuleCommand(old, w))
<1>1. AToI(w[4]) \in Nat
  <2>1. Len(w) \in Nat /\ 4 \in 1 .. Len(w)
    OBVIOUS
  <2>2. w[4] \in Seq(STRING)
    BY <2>1, ElementOfSeq
  <2> QED BY <2>2, AToIType
<1>2. PICK t : /\ t = (IF \E u \in Type : w[3] = <<u>> THEN w[3][1] ELSE "none")
               /\ t \in Type \cup {"none"}
  <2>1. \A u \in Type : w[3] = <<u>> => w[3][1] \in Type
    OBVIOUS
  <2> QED BY <2>1
<1>3. /\ EffectOK(Nothing(old)) /\ EffectOK(Error(old))
      /\ t \in Type => EffectOK(Add(old, t, w)) /\ EffectOK(Insert(old, t, w)) /\ EffectOK(Del(old, t, w))
  BY <1>1, UnchangedType, AddType, InsertType, DelType
<1>4. t # "none" => t \in Type
  BY <1>2
<1>5. RuleCommand(old, w) \in
        {Nothing(old), Error(old)} \cup
        (IF t = "none" THEN {} ELSE {Add(old, t, w), Insert(old, t, w), Del(old, t, w)})
  BY <1>2 DEF RuleCommand
<1> QED BY <1>3, <1>4, <1>5

\* A command leaves lists of rules.
LEMMA ParseType ==
  ASSUME NEW old \in Collection, NEW text \in Seq(STRING)
  PROVE  EffectOK(Parse(old, text))
<1>1. PICK w \in Seq(Seq(STRING)) : w = Words(text)
  BY WordsType
<1>2. /\ EffectOK(Nothing(old)) /\ EffectOK(Error(old))
      /\ \A r \in Reply : EffectOK(Effect(old, r))
      /\ Len(w) >= 4 => EffectOK(RuleCommand(old, w))
  BY UnchangedType, EffectType, RuleCommandType
<1>3. EffectOK([Nothing(old) EXCEPT !.raises = TRUE])
  BY DEF EffectOK, Nothing, Effect, Reply
<1>4. "closed" \in Reply /\ "help" \in Reply /\ "rules" \in Reply
  BY DEF Reply
<1>5. Parse(old, text) \in
        {Nothing(old), Error(old), [Nothing(old) EXCEPT !.raises = TRUE]} \cup
        {Effect(old, r) : r \in Reply} \cup
        (IF Len(w) >= 4 THEN {RuleCommand(old, w)} ELSE {})
  BY <1>1, <1>4 DEF Parse
<1> QED BY <1>2, <1>3, <1>5

-----------------------------------------------------------------------------
(* One session: what was parsed p, what is collected m, what is on the way *)
(* w, what was sent s.                                                     *)

Text == Seq(Symbol)
Command == [text : Text, reply : Reply]
TextsOf(p) == [i \in DOMAIN p |-> p[i].text]

Whole(p, m, w, s) == FlattenSeq(TextsOf(p)) \o Said(m \o w) = Said(FlattenSeq(s))

\* Each line was parsed alone, and there is no other, or one that is not yet
\* a command.
OneByOne(p, m, w, s) ==
  /\ \A i \in DOMAIN p : p[i].text = Said(s[i])
  /\ \/ Len(p) = Len(s) /\ m \o w = <<>>
     \/ Len(s) = Len(p) + 1 /\ m \o w = s[Len(s)]

LEMMA LineIsText ==
  /\ Lines \subseteq Text /\ Text \subseteq Seq(STRING)
  /\ \A s \in Seq(Lines) : s \in Seq(Text)
<1>1. ASSUME NEW line \in Lines PROVE line \in Text
  <2>1. line \in Seq(STRING) /\ DOMAIN line = 1 .. Len(line) /\ Len(line) \in Nat
        /\ line = [i \in 1 .. Len(line) |-> line[i]]
    BY LinesAssumption
  <2>2. \A i \in 1 .. Len(line) : line[i] \in Symbol
    BY <2>1 DEF Symbol, Range
  <2>3. line \in [1 .. Len(line) -> Symbol]
    BY <2>1, <2>2
  <2> QED BY <2>1, <2>3 DEF Text
<1>2. Symbol \subseteq STRING
  <2>1. ASSUME NEW line \in Lines PROVE Range(line) \subseteq STRING
    <3>1. line \in Seq(STRING) /\ DOMAIN line = 1 .. Len(line)
      BY LinesAssumption
    <3> QED BY <3>1, ElementOfSeq DEF Range
  <2> QED BY <2>1 DEF Symbol
<1>3. Text \subseteq Seq(STRING)
  BY <1>2, SeqMonotonic DEF Text
<1>4. Lines \subseteq Text
  BY <1>1
<1>5. \A s \in Seq(Lines) : s \in Seq(Text)
  BY <1>4, SeqMonotonic
<1> QED BY <1>3, <1>4, <1>5

LEMMA SaidType == \A text \in Text : Said(text) \in Text
  BY WithoutType DEF Said, Text

LEMMA SaidPlus == \A x, y \in Text : Said(x \o y) = Said(x) \o Said(y)
  BY WithoutPlus DEF Said, Text

LEMMA TextPlus == \A x, y \in Text : x \o y \in Text
  BY ConcatProperties DEF Text

LEMMA Joined == \A x, y, z \in Text : (x \o y) \o z = x \o (y \o z)
  BY ConcatAssociative DEF Text

LEMMA TextsType ==
  ASSUME NEW p \in Seq(Command)
  PROVE  TextsOf(p) \in Seq(Text)
<1>1. Len(p) \in Nat /\ DOMAIN p = 1 .. Len(p) /\ \A i \in 1 .. Len(p) : p[i] \in Command
  BY LenProperties, ElementOfSeq
<1>2. \A i \in 1 .. Len(p) : p[i].text \in Text
  BY <1>1 DEF Command
<1>3. TextsOf(p) = [i \in 1 .. Len(p) |-> p[i].text]
  BY <1>1 DEF TextsOf
<1> QED BY <1>1, <1>2, <1>3

LEMMA TextsAppend ==
  ASSUME NEW p \in Seq(Command), NEW e \in Command
  PROVE  TextsOf(Append(p, e)) = Append(TextsOf(p), e.text)
<1>0. PICK n \in Nat : n = Len(p)
  BY LenProperties
<1>1. PICK q : n = Len(p) /\ q = Append(p, e)
  BY <1>0
<1>2. DOMAIN p = 1 .. n /\ DOMAIN q = 1 .. n + 1 /\ q[n + 1] = e /\ \A i \in 1 .. n : q[i] = p[i]
  <2>1. q \in Seq(Command) /\ Len(q) = n + 1 /\ q[n + 1] = e /\ \A i \in 1 .. n : q[i] = p[i]
    BY <1>1, AppendProperties
  <2> QED BY <1>1, <2>1, LenProperties
<1>3. PICK x, y : x = TextsOf(p) /\ y = Append(x, e.text)
  OBVIOUS
<1>4. x \in Seq(Text) /\ Len(x) = n /\ \A i \in 1 .. n : x[i] = p[i].text
  <2>1. DOMAIN x = 1 .. n /\ \A i \in 1 .. n : x[i] = p[i].text
    BY <1>2, <1>3 DEF TextsOf
  <2> QED BY <1>3, <2>1, TextsType, LenProperties
<1>5. e.text \in Text
  BY DEF Command
<1>6. y \in Seq(Text) /\ Len(y) = n + 1 /\ y[n + 1] = e.text /\ \A i \in 1 .. n : y[i] = x[i]
  BY <1>3, <1>4, <1>5, AppendProperties
<1>7. DOMAIN y = 1 .. n + 1 /\ y = [i \in 1 .. n + 1 |-> y[i]]
  BY <1>6, LenProperties
<1>8. TextsOf(q) = [i \in 1 .. n + 1 |-> q[i].text]
  BY <1>2 DEF TextsOf
<1>9. \A i \in 1 .. n + 1 : q[i].text = y[i]
  <2>1. \A i \in 1 .. n + 1 : i = n + 1 \/ i \in 1 .. n
    OBVIOUS
  <2> QED BY <1>2, <1>4, <1>6, <2>1
<1>10. TextsOf(q) = y
  BY <1>7, <1>8, <1>9
<1> QED BY <1>1, <1>3, <1>10

\* A read takes the first of what is on the way.
LEMMA Cut ==
  ASSUME NEW m \in Text, NEW w \in Text, NEW n \in 1 .. Len(w)
  PROVE  /\ m \o SubSeq(w, 1, n) \in Text /\ SubSeq(w, n + 1, Len(w)) \in Text
         /\ (m \o SubSeq(w, 1, n)) \o SubSeq(w, n + 1, Len(w)) = m \o w
         /\ m \o w # <<>>
<1>1. PICK k \in Nat : k = Len(w) /\ n \in 1 .. k /\ n \in Nat /\ DOMAIN w = 1 .. k
  BY LenProperties DEF Text
<1>2. PICK x, y : x = SubSeq(w, 1, n) /\ y = SubSeq(w, n + 1, k)
  OBVIOUS
<1>3. \A i \in 1 .. k : w[i] \in Symbol
  BY <1>1, ElementOfSeq DEF Text
<1>4. x \in Text /\ y \in Text
  <2>1. (\A i \in 1 .. n : w[i] \in Symbol) /\ (\A i \in n + 1 .. k : w[i] \in Symbol)
    BY <1>1, <1>3
  <2> QED BY <1>1, <1>2, <2>1, SubSeqProperties DEF Text
<1>5. x \o y = w
  <2>1. 1 \in 1 .. Len(w) + 1 /\ n \in 1 - 1 .. Len(w) /\ k \in n .. Len(w)
    BY <1>1
  <2>2. SubSeq(w, 1, n) \o SubSeq(w, n + 1, k) = SubSeq(w, 1, k)
    BY <2>1, ConcatAdjacentSubSeq DEF Text
  <2>3. SubSeq(w, 1, k) = w
    BY <1>1, SubSeqFull DEF Text
  <2> QED BY <1>2, <2>2, <2>3
<1>6. m \o x \in Text /\ (m \o x) \o y = m \o (x \o y)
  <2>1. m \o x \in Text
    BY <1>4, TextPlus
  <2>2. (m \o x) \o y = m \o (x \o y)
    BY <1>4, Joined, Zenon
  <2> QED BY <2>1, <2>2
<1>7. m \o w # <<>>
  <2>1. w # <<>>
    BY <1>1
  <2>2. m \o w = <<>> <=> m = <<>> /\ w = <<>>
    BY ConcatEqualIffEmpty DEF Text
  <2> QED BY <2>1, <2>2
<1> QED BY <1>1, <1>2, <1>4, <1>5, <1>6, <1>7

\* What is parsed, collected and on the way stays the same text.
LEMMA ExecuteWhole ==
  ASSUME NEW p \in Seq(Command), NEW m, NEW w, NEW s, Whole(p, m, w, s),
         NEW text \in Text, NEW rest \in Text, text \o rest = m \o w,
         NEW e \in Command, e.text = Cleaned(text)
  PROVE  Whole(Append(p, e), <<>>, rest, s)
<1>1. PICK x : x = TextsOf(p) /\ x \in Seq(Text)
  BY TextsType
<1>2. PICK a, b, d : a = FlattenSeq(x) /\ b = Said(text) /\ d = Said(rest)
  OBVIOUS
<1>3. a \in Text /\ b \in Text /\ d \in Text
  BY <1>1, <1>2, FlatType, SaidType DEF Text
<1>4. TextsOf(Append(p, e)) = Append(x, b)
  BY <1>1, <1>2, TextsAppend, CleanedIsSaid
<1>5. FlattenSeq(Append(x, b)) = a \o b
  BY <1>1, <1>2, <1>3, FlatAppend DEF Text
<1>6. <<>> \o rest = rest
  BY ConcatEmptySeq DEF Text
<1>7. Said(m \o w) = b \o d
  <2>1. Said(text \o rest) = Said(text) \o Said(rest)
    BY SaidPlus, Zenon
  <2> QED BY <1>2, <2>1
<1>8. (a \o b) \o d = a \o (b \o d)
  BY <1>3, Joined, Zenon
<1>9. a \o (b \o d) = Said(FlattenSeq(s))
  BY <1>1, <1>2, <1>7, Zenon DEF Whole
<1> QED BY <1>2, <1>4, <1>5, <1>6, <1>8, <1>9 DEF Whole

LEMMA SendWhole ==
  ASSUME NEW p \in Seq(Command), NEW m \in Text, NEW w \in Text, NEW s \in Seq(Lines),
         Whole(p, m, w, s), NEW line \in Lines
  PROVE  Whole(p, m, w \o line, Append(s, line))
<1>1. line \in Text /\ s \in Seq(Text)
  BY LineIsText
<1>2. PICK a : a = FlattenSeq(TextsOf(p)) /\ a \in Text
  BY TextsType, FlatType DEF Text
<1>3. PICK b, d, f : b = Said(m \o w) /\ d = Said(line) /\ f = FlattenSeq(s)
  OBVIOUS
<1>4. m \o w \in Text /\ f \in Text
  BY <1>1, <1>3, FlatType, ConcatProperties DEF Text
<1>5. b \in Text /\ d \in Text
  BY <1>1, <1>3, <1>4, SaidType
<1>6. Said(m \o (w \o line)) = b \o d
  <2>1. m \o (w \o line) = (m \o w) \o line
    BY <1>1, Joined, Zenon
  <2>2. PICK z : z = m \o w /\ z \in Text
    BY <1>4
  <2>3. Said(z \o line) = Said(z) \o Said(line)
    BY <1>1, <2>2, SaidPlus
  <2> QED BY <1>3, <2>1, <2>2, <2>3
<1>7. FlattenSeq(Append(s, line)) = f \o line
  <2>1. FlattenSeq(Append(s, line)) = FlattenSeq(s) \o line
    BY <1>1, FlatAppend DEF Text
  <2> QED BY <1>3, <2>1
<1>8. Said(f \o line) = Said(f) \o d
  BY <1>1, <1>3, <1>4, SaidPlus
<1>9. a \o b = Said(f)
  BY <1>2, <1>3 DEF Whole
<1>10. a \o (b \o d) = (a \o b) \o d
  BY <1>2, <1>5, Joined, Zenon
<1> QED BY <1>2, <1>6, <1>7, <1>8, <1>9, <1>10 DEF Whole

\* A text with a newline is the whole of the line that is on the way.
LEMMA ExecuteAlone ==
  ASSUME NEW p \in Seq(Command), NEW m, NEW w, NEW s \in Seq(Lines), OneByOne(p, m, w, s),
         NEW text \in Text, NEW rest \in Text, text \o rest = m \o w, m \o w # <<>>,
         "NL" \in Range(text), NEW e \in Command, e.text = Cleaned(text)
  PROVE  OneByOne(Append(p, e), <<>>, rest, s)
<1>1. PICK n \in Nat : n = Len(p) /\ DOMAIN p = 1 .. n /\ Len(s) = n + 1
  BY LenProperties DEF OneByOne
<1>2. PICK line \in Lines : line = s[n + 1] /\ text \o rest = line
  <2>1. n + 1 \in 1 .. Len(s)
    BY <1>1
  <2>2. s[n + 1] \in Lines
    BY <2>1, ElementOfSeq
  <2>3. Len(s) # Len(p)
    BY <1>1
  <2>4. m \o w = s[Len(s)]
    BY <2>3 DEF OneByOne
  <2> QED BY <1>1, <2>2, <2>4
<1>3. PICK a \in Nat, b \in Nat :
        /\ a = Len(text) /\ b = Len(rest) /\ Len(line) = a + b
        /\ DOMAIN text = 1 .. a /\ DOMAIN line = 1 .. a + b
        /\ \A i \in 1 .. a : line[i] = text[i]
  <2>1. PICK a \in Nat, b \in Nat : a = Len(text) /\ b = Len(rest) /\ DOMAIN text = 1 .. a
    BY LenProperties DEF Text
  <2>2. /\ text \o rest \in Seq(Symbol) /\ Len(text \o rest) = a + b
        /\ \A i \in 1 .. a + b : (text \o rest)[i] = IF i <= a THEN text[i] ELSE rest[i - a]
    BY <2>1, ConcatProperties DEF Text
  <2>3. \A i \in 1 .. a : i \in 1 .. a + b /\ i <= a
    OBVIOUS
  <2>4. line \in Seq(Symbol) /\ Len(line) = a + b /\ \A i \in 1 .. a : line[i] = text[i]
    BY <1>2, <2>2, <2>3
  <2>5. DOMAIN line = 1 .. a + b
    BY <2>4, LenProperties
  <2> QED BY <2>1, <2>4, <2>5
<1>4. PICK i \in 1 .. a : text[i] = "NL"
  BY <1>3 DEF Range
<1>5. i \in 1 .. a + b /\ line[i] = "NL"
  BY <1>3, <1>4
<1>6. i = a + b
  BY <1>3, <1>5, LinesAssumption
<1>7. b = 0
  BY <1>6
<1>8. rest = <<>> /\ text = line /\ <<>> \o rest = <<>>
  <2>1. rest = <<>>
    BY <1>3, <1>7, EmptySeq DEF Text
  <2>2. text \o <<>> = text /\ <<>> \o rest = rest
    BY ConcatEmptySeq DEF Text
  <2> QED BY <1>2, <2>1, <2>2
<1>9. PICK q : q = Append(p, e)
  OBVIOUS
<1>10. DOMAIN q = 1 .. n + 1 /\ Len(q) = n + 1 /\ q[n + 1] = e /\ \A j \in 1 .. n : q[j] = p[j]
  <2>1. q \in Seq(Command) /\ Len(q) = n + 1 /\ q[n + 1] = e /\ \A j \in 1 .. n : q[j] = p[j]
    BY <1>1, <1>9, AppendProperties
  <2> QED BY <2>1, LenProperties
<1>11. ASSUME NEW j \in 1 .. n + 1 PROVE q[j].text = Said(s[j])
  <2>1. CASE j = n + 1
    BY <1>2, <1>8, <1>10, <2>1, CleanedIsSaid
  <2>2. CASE j # n + 1
    <3>1. j \in 1 .. n
      BY <2>2
    <3>2. p[j].text = Said(s[j])
      BY <1>1, <3>1 DEF OneByOne
    <3> QED BY <1>10, <3>1, <3>2
  <2> QED BY <2>1, <2>2
<1> QED BY <1>1, <1>8, <1>9, <1>10, <1>11 DEF OneByOne

\* Nothing is on the way when a client that waits sends a line.
LEMMA SendAlone ==
  ASSUME NEW p \in Seq(Command), NEW m \in Text, NEW w \in Text, NEW s \in Seq(Lines),
         OneByOne(p, m, w, s), ~(Len(p) < Len(s)), NEW line \in Lines
  PROVE  OneByOne(p, m, w \o line, Append(s, line))
<1>1. PICK n \in Nat : n = Len(p) /\ n = Len(s) /\ DOMAIN p = 1 .. n /\ m \o w = <<>>
  <2>1. Len(p) \in Nat /\ Len(s) \in Nat /\ DOMAIN p = 1 .. Len(p)
    BY LenProperties
  <2>2. Len(s) # Len(p) + 1
    BY <2>1
  <2> QED BY <2>1, <2>2 DEF OneByOne
<1>2. m = <<>> /\ w = <<>>
  BY <1>1, ConcatEqualIffEmpty DEF Text
<1>3. m \o (w \o line) = line
  <2>1. line \in Text
    BY LineIsText
  <2>2. <<>> \o line = line
    BY <2>1, ConcatEmptySeq DEF Text
  <2> QED BY <1>2, <2>2
<1>4. PICK r : r = Append(s, line)
  OBVIOUS
<1>5. Len(r) = n + 1 /\ r[n + 1] = line /\ \A i \in 1 .. n : r[i] = s[i]
  BY <1>1, <1>4, AppendProperties
<1> QED BY <1>1, <1>3, <1>4, <1>5 DEF OneByOne

-----------------------------------------------------------------------------
(* The sessions.                                                           *)

Types ==
  /\ state \in [Client -> {"off", "open", "closed"}]
  /\ wire \in [Client -> Text] /\ cmd \in [Client -> Text]
  /\ hung \in [Client -> BOOLEAN] /\ ahead \in [Client -> BOOLEAN]
  /\ lists \in Collection
  /\ raised \in BOOLEAN
  /\ sent \in [Client -> Seq(Lines)]
  /\ parsed \in [Client -> Seq(Command)]

Sound(c) ==
  /\ Whole(parsed[c], cmd[c], wire[c], sent[c])
  /\ ~ahead[c] => OneByOne(parsed[c], cmd[c], wire[c], sent[c])

SInv == Types /\ \A c \in Client : Sound(c)

LEMMA InitSound == Init => SInv
<1> SUFFICES ASSUME Init PROVE SInv
  OBVIOUS
<1>1. <<>> \in Text /\ <<>> \in Seq(Lines) /\ <<>> \in Seq(Command)
  BY EmptySeq DEF Text
<1>2. Types
  BY <1>1, FirstListsAssumption DEF Init, Types, Collection
<1>3. Whole(<<>>, <<>>, <<>>, <<>>) /\ OneByOne(<<>>, <<>>, <<>>, <<>>)
  <2>1. <<>> \o <<>> = <<>> /\ DOMAIN <<>> = {} /\ Len(<<>>) = 0
    BY <1>1, ConcatEmptySeq
  <2>2. TextsOf(<<>>) = <<>> /\ Said(<<>>) = <<>> /\ FlattenSeq(<<>>) = <<>>
    BY <2>1, WithoutEmpty DEF TextsOf, Said, FlattenSeq
  <2> QED BY <2>1, <2>2 DEF Whole, OneByOne
<1>4. ASSUME NEW c \in Client PROVE Sound(c)
  <2>1. parsed[c] = <<>> /\ cmd[c] = <<>> /\ wire[c] = <<>> /\ sent[c] = <<>>
    BY DEF Init
  <2> QED BY <1>3, <2>1 DEF Sound
<1> QED BY <1>2, <1>4 DEF SInv

\* The part of a session that the others leave alone.
Same(c) ==
  /\ parsed'[c] = parsed[c] /\ cmd'[c] = cmd[c] /\ wire'[c] = wire[c]
  /\ sent'[c] = sent[c] /\ ahead'[c] = ahead[c]

LEMMA SameSound == \A c \in Client : Sound(c) /\ Same(c) => Sound(c)'
  BY DEF Sound, Same

LEMMA ConnectSound ==
  ASSUME SInv, NEW c \in Client, Connect(c) \/ Hangup(c) \/ ReadEnd(c) PROVE SInv'
<1>1. Types'
  BY DEF SInv, Types, Connect, Hangup, ReadEnd
<1>2. \A d \in Client : Same(d)
  BY DEF Same, Connect, Hangup, ReadEnd
<1> QED BY <1>1, <1>2, SameSound DEF SInv

LEMMA SendSound ==
  ASSUME SInv, NEW c \in Client, NEW line \in Lines, Send(c, line) PROVE SInv'
<1>1. PICK p, m, w, s : p = parsed[c] /\ m = cmd[c] /\ w = wire[c] /\ s = sent[c]
  OBVIOUS
<1>2. p \in Seq(Command) /\ m \in Text /\ w \in Text /\ s \in Seq(Lines) /\ line \in Text
  BY <1>1, LineIsText DEF SInv, Types
<1>3. /\ wire' = [wire EXCEPT ![c] = w \o line] /\ sent' = [sent EXCEPT ![c] = Append(s, line)]
      /\ ahead' = [ahead EXCEPT ![c] = ahead[c] \/ Len(p) < Len(s)]
      /\ UNCHANGED <<state, hung, cmd, lists, raised, parsed>>
  BY <1>1 DEF Send
<1>4. w \o line \in Text /\ Append(s, line) \in Seq(Lines)
  BY <1>2, ConcatProperties, AppendProperties DEF Text
<1>5. Types'
  BY <1>3, <1>4 DEF SInv, Types
<1>6. Whole(p, m, w, s) /\ (~ahead[c] => OneByOne(p, m, w, s))
  BY <1>1 DEF SInv, Sound
<1>7. Whole(p, m, w \o line, Append(s, line))
  BY <1>2, <1>6, SendWhole
<1>8. ~(ahead[c] \/ Len(p) < Len(s)) => OneByOne(p, m, w \o line, Append(s, line))
  BY <1>2, <1>6, SendAlone
<1>9. /\ parsed'[c] = p /\ cmd'[c] = m /\ wire'[c] = w \o line /\ sent'[c] = Append(s, line)
      /\ ahead'[c] = (ahead[c] \/ Len(p) < Len(s))
  BY <1>1, <1>3 DEF SInv, Types
<1>10. Sound(c)'
  BY <1>7, <1>8, <1>9 DEF Sound
<1>11. \A d \in Client \ {c} : Same(d)
  BY <1>3 DEF SInv, Types, Same
<1> QED BY <1>5, <1>10, <1>11, SameSound DEF SInv

LEMMA ReadSound ==
  ASSUME SInv, NEW c \in Client, NEW n \in 1 .. Len(wire[c]), Read(c, n) PROVE SInv'
<1>1. PICK p, m, w, s : p = parsed[c] /\ m = cmd[c] /\ w = wire[c] /\ s = sent[c]
  OBVIOUS
<1>2. PICK text, rest : text = m \o SubSeq(w, 1, n) /\ rest = SubSeq(w, n + 1, Len(w))
  OBVIOUS
<1>3. p \in Seq(Command) /\ m \in Text /\ w \in Text /\ s \in Seq(Lines)
  BY <1>1 DEF SInv, Types
<1>4. text \in Text /\ rest \in Text /\ text \o rest = m \o w /\ m \o w # <<>>
  BY <1>1, <1>2, <1>3, Cut
<1>5. /\ wire' = [wire EXCEPT ![c] = rest] /\ UNCHANGED <<hung, sent, ahead>>
      /\ IF "NL" \in Range(text) THEN Execute(c, text) ELSE Collect(c, text)
  BY <1>1, <1>2 DEF Read
<1>6. Whole(p, m, w, s) /\ (~ahead[c] => OneByOne(p, m, w, s))
  BY <1>1 DEF SInv, Sound
<1>7. CASE "NL" \in Range(text)
  <2>1. PICK done : /\ done = Parse(lists, Cleaned(text))
                    /\ lists' = done.lists /\ raised' = (raised \/ done.raises)
                    /\ parsed' = [parsed EXCEPT ![c] = Append(p, [text |-> Cleaned(text), reply |-> done.reply])]
                    /\ cmd' = [cmd EXCEPT ![c] = <<>>]
                    /\ state' = IF done.reply = "closed" THEN [state EXCEPT ![c] = "closed"] ELSE state
    BY <1>1, <1>5, <1>7 DEF Execute
  <2>2. PICK e : e = [text |-> Cleaned(text), reply |-> done.reply]
    OBVIOUS
  <2>3. Cleaned(text) \in Text /\ EffectOK(done)
    <3>1. Cleaned(text) \in Text
      BY <1>4, SaidType, CleanedIsSaid
    <3>2. Cleaned(text) \in Seq(STRING) /\ lists \in Collection
      BY <3>1, LineIsText DEF SInv, Types
    <3> QED BY <2>1, <3>1, <3>2, ParseType
  <2>4. e \in Command /\ e.text = Cleaned(text)
    BY <2>2, <2>3 DEF Command, EffectOK
  <2>5. Append(p, e) \in Seq(Command) /\ <<>> \in Text
    BY <1>3, <2>4, AppendProperties, EmptySeq DEF Text
  <2>6. Types'
    <3>1. lists' \in Collection /\ raised' \in BOOLEAN
      BY <2>1, <2>3 DEF EffectOK, SInv, Types
    <3>2. parsed' = [parsed EXCEPT ![c] = Append(p, e)]
      BY <2>1, <2>2
    <3>3. state' \in [Client -> {"off", "open", "closed"}]
      BY <2>1 DEF SInv, Types
    <3> QED BY <1>4, <1>5, <2>1, <2>5, <3>1, <3>2, <3>3 DEF SInv, Types
  <2>7. Whole(Append(p, e), <<>>, rest, s)
    BY <1>3, <1>4, <1>6, <2>4, ExecuteWhole
  <2>8. ~ahead[c] => OneByOne(Append(p, e), <<>>, rest, s)
    BY <1>3, <1>4, <1>6, <1>7, <2>4, ExecuteAlone
  <2>9. /\ parsed'[c] = Append(p, e) /\ cmd'[c] = <<>> /\ wire'[c] = rest /\ sent'[c] = s
        /\ ahead'[c] = ahead[c]
    BY <1>1, <1>5, <2>1, <2>2 DEF SInv, Types
  <2>10. Sound(c)'
    BY <2>7, <2>8, <2>9 DEF Sound
  <2>11. \A d \in Client \ {c} : Same(d)
    BY <1>5, <2>1 DEF SInv, Types, Same
  <2> QED BY <2>6, <2>10, <2>11, SameSound DEF SInv
<1>8. CASE "NL" \notin Range(text)
  <2>1. cmd' = [cmd EXCEPT ![c] = text] /\ UNCHANGED <<state, lists, raised, parsed>>
    BY <1>5, <1>8 DEF Collect
  <2>2. Types'
    BY <1>4, <1>5, <2>1 DEF SInv, Types
  <2>3. Whole(p, text, rest, s) /\ (~ahead[c] => OneByOne(p, text, rest, s))
    BY <1>4, <1>6 DEF Whole, OneByOne
  <2>4. /\ parsed'[c] = p /\ cmd'[c] = text /\ wire'[c] = rest /\ sent'[c] = s
        /\ ahead'[c] = ahead[c]
    BY <1>1, <1>5, <2>1 DEF SInv, Types
  <2>5. Sound(c)'
    BY <2>3, <2>4 DEF Sound
  <2>6. \A d \in Client \ {c} : Same(d)
    BY <1>5, <2>1 DEF SInv, Types, Same
  <2> QED BY <2>2, <2>5, <2>6, SameSound DEF SInv
<1> QED BY <1>7, <1>8

LEMMA NextSound == SInv /\ [Next]_vars => SInv'
<1> SUFFICES ASSUME SInv, [Next]_vars PROVE SInv'
  OBVIOUS
<1>1. CASE UNCHANGED vars
  <2>1. Types'
    BY <1>1 DEF vars, SInv, Types
  <2>2. \A d \in Client : Same(d)
    BY <1>1 DEF vars, Same
  <2> QED BY <2>1, <2>2, SameSound DEF SInv
<1>2. CASE Next
  BY <1>2, ConnectSound, SendSound, ReadSound DEF Next, Handler
<1> QED BY <1>1, <1>2

\* Whatever the clients send and however the reads cut it, the state of the
\* sessions is what it should be, and the lists are lists of rules.
THEOREM SessionTypes == Spec => []TypeOK
<1>1. SInv => TypeOK
  BY DEF SInv, Types, TypeOK, Text, Command, Collection
<1> QED BY <1>1, InitSound, NextSound, PTL DEF Spec

\* No symbol of a client is lost, doubled or moved by the reads, the cleaning
\* and the collecting of do_read (controld.cpp:29-51).
THEOREM SessionLosesNothing == Spec => []NothingLost
<1>1. SInv => NothingLost
  BY DEF SInv, Sound, Whole, TextsOf, NothingLost
<1> QED BY <1>1, InitSound, NextSound, PTL DEF Spec

\* A client that waits for its commands has each of its lines parsed alone,
\* however the reads cut them.
THEOREM SessionFramed == Spec => []Framed
<1>1. SInv => Framed
  BY DEF SInv, Sound, OneByOne, Framed
<1> QED BY <1>1, InitSound, NextSound, PTL DEF Spec

\* What a waiting client's command says is what its last line says.
LEMMA LastLine ==
  ASSUME NEW p \in Seq(Command), NEW m, NEW w, NEW s \in Seq(Lines), OneByOne(p, m, w, s),
         m \o w # <<>>, NEW e \in Command, NEW rest, OneByOne(Append(p, e), <<>>, rest, s)
  PROVE  e.text = Said(Last(s))
<1>1. PICK n \in Nat : n = Len(p) /\ Len(s) = n + 1
  BY LenProperties DEF OneByOne
<1>2. PICK q : q = Append(p, e)
  OBVIOUS
<1>3. q \in Seq(Command) /\ Len(q) = n + 1 /\ q[n + 1] = e
  BY <1>1, <1>2, AppendProperties
<1>4. n + 1 \in DOMAIN q
  BY <1>3, LenProperties
<1>5. q[n + 1].text = Said(s[n + 1])
  BY <1>2, <1>4 DEF OneByOne
<1> QED BY <1>1, <1>3, <1>5 DEF Last

LEMMA ReadObeys ==
  ASSUME SInv, SInv', NEW c \in Client, NEW n \in 1 .. Len(wire[c]), Read(c, n), lists' # lists
  PROVE  /\ parsed'[c] # parsed[c]
         /\ ~ahead[c] => lists' = Parse(lists, Said(Last(sent[c]))).lists
<1>1. PICK p, m, w, s : p = parsed[c] /\ m = cmd[c] /\ w = wire[c] /\ s = sent[c]
  OBVIOUS
<1>2. PICK text, rest : text = m \o SubSeq(w, 1, n) /\ rest = SubSeq(w, n + 1, Len(w))
  OBVIOUS
<1>3. p \in Seq(Command) /\ m \in Text /\ w \in Text /\ s \in Seq(Lines)
  BY <1>1 DEF SInv, Types
<1>4. text \in Text /\ m \o w # <<>>
  BY <1>1, <1>2, <1>3, Cut
<1>5. /\ wire' = [wire EXCEPT ![c] = rest] /\ UNCHANGED <<hung, sent, ahead>>
      /\ Execute(c, text)
  BY <1>1, <1>2 DEF Read, Collect
<1>6. PICK done : /\ done = Parse(lists, Cleaned(text)) /\ lists' = done.lists
                  /\ parsed' = [parsed EXCEPT ![c] = Append(p, [text |-> Cleaned(text), reply |-> done.reply])]
                  /\ cmd' = [cmd EXCEPT ![c] = <<>>]
  BY <1>1, <1>5 DEF Execute
<1>7. PICK e : e = [text |-> Cleaned(text), reply |-> done.reply]
  OBVIOUS
<1>8. e \in Command /\ e.text = Cleaned(text)
  <2>1. Cleaned(text) \in Text /\ Text \subseteq Seq(STRING) /\ lists \in Collection
    BY <1>4, SaidType, CleanedIsSaid, LineIsText DEF SInv, Types
  <2>2. EffectOK(done)
    BY <1>6, <2>1, ParseType
  <2> QED BY <1>7, <2>1, <2>2 DEF Command, EffectOK
<1>9. parsed'[c] = Append(p, e) /\ cmd'[c] = <<>> /\ wire'[c] = rest /\ sent'[c] = s /\ ahead'[c] = ahead[c]
  BY <1>1, <1>5, <1>6, <1>7 DEF SInv, Types
<1>10. Append(p, e) # p
  <2>1. Len(p) \in Nat /\ Len(Append(p, e)) = Len(p) + 1
    BY <1>3, <1>8, LenProperties, AppendProperties
  <2> QED BY <2>1
<1>11. ASSUME ~ahead[c] PROVE e.text = Said(Last(s))
  <2>1. OneByOne(p, m, w, s)
    BY <1>1, <1>11 DEF SInv, Sound
  <2>2. OneByOne(Append(p, e), <<>>, rest, s)
    BY <1>9, <1>11 DEF SInv, Sound
  <2> QED BY <1>3, <1>4, <1>8, <2>1, <2>2, LastLine
<1> QED BY <1>1, <1>6, <1>8, <1>9, <1>10, <1>11

\* A client that waits for its commands has the lists changed as its line says,
\* though the reads cut the line.
THEOREM SessionObeysWaiters == Spec => WaitersAreObeyed
<1> DEFINE Obeyed == lists' # lists =>
             \E c \in Client :
               /\ parsed'[c] # parsed[c]
               /\ ~ahead[c] => lists' = Parse(lists, Said(Last(sent[c]))).lists
<1>1. SInv /\ SInv' /\ [Next]_vars => [Obeyed]_vars
  <2> SUFFICES ASSUME SInv, SInv', Next, lists' # lists PROVE Obeyed
    BY DEF vars
  <2>1. PICK c \in Client : Handler(c)
    BY DEF Next, Connect, Hangup, Send
  <2>2. PICK n \in 1 .. Len(wire[c]) : Read(c, n)
    BY <2>1 DEF Handler, ReadEnd
  <2> QED BY <2>2, ReadObeys
<1> QED BY <1>1, InitSound, NextSound, PTL DEF Spec, WaitersAreObeyed
=============================================================================
