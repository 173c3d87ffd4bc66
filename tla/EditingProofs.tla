--------------------------- MODULE EditingProofs ---------------------------
(***************************************************************************)
(* Theorems about one open document, for texts, paths and lines of any      *)
(* length: the buffer follows the editor's text (TextSync), every spelling  *)
(* of the document's address names one document (Uri), a completion         *)
(* replaces the word at the cursor (Completions), and expansions and hints  *)
(* are where they belong (Annotations). They rest on recursive functions    *)
(* over sequences; induction is by the least counterexample.                *)
(***************************************************************************)
EXTENDS TextSync, Uri, Completions, Annotations, SequenceTheorems, FiniteSetTheorems, WellFoundedInduction, TLAPS

\* A set of numbers that is not empty has a least one.
LEMMA Least ==
  ASSUME NEW T \in SUBSET Nat, T # {}
  PROVE  \E n \in T : \A m \in T : n <= m
<1>1. \E n \in T : \A m \in T : <<m, n>> \notin OpToRel(<, Nat)
  BY WFMin, NatLessThanWellFounded, Zenon
<1>2. ASSUME NEW n \in T, NEW m \in T, <<m, n>> \notin OpToRel(<, Nat)
      PROVE  n <= m
  BY <1>2 DEF OpToRel
<1> QED BY <1>1, <1>2

\* A set of numbers with a bound that is not empty has a greatest one.
LEMMA Greatest ==
  ASSUME NEW n \in Nat, NEW T \in SUBSET (0 .. n), T # {}
  PROVE  \E k \in T : \A l \in T : l <= k
<1> DEFINE U == {d \in 0 .. n : n - d \in T}
<1>1. PICK k0 \in T : TRUE
  OBVIOUS
<1>2. n - k0 \in 0 .. n /\ n - (n - k0) = k0
  OBVIOUS
<1>3. U \in SUBSET Nat /\ U # {}
  BY <1>2
<1>4. PICK d \in U : \A e \in U : d <= e
  BY <1>3, Least
<1>5. d \in 0 .. n /\ n - d \in T
  OBVIOUS
<1>6. ASSUME NEW l \in T PROVE l <= n - d
  <2>1. l \in 0 .. n /\ n - l \in 0 .. n /\ n - (n - l) = l
    OBVIOUS
  <2>2. d <= n - l
    BY <1>4, <2>1
  <2> QED BY <1>5, <2>1, <2>2
<1> QED BY <1>5, <1>6

-----------------------------------------------------------------------------
(* Bytes.                                                                   *)

\* Every character is one byte.
OneByte == "u" \notin Chars

\* The equation that defines FlattenSeq.
Flattens(f, seqs) ==
  f = [i \in 1 .. Len(seqs) |-> IF i = 1 THEN seqs[i] ELSE f[i - 1] \o seqs[i]]

\* The equation has one solution.
LEMMA FlattenUnique ==
  ASSUME NEW seqs, Len(seqs) \in Nat, NEW f, NEW g, Flattens(f, seqs), Flattens(g, seqs)
  PROVE  f = g
<1> DEFINE T == {i \in 1 .. Len(seqs) : f[i] # g[i]}
<1>1. ASSUME T # {} PROVE FALSE
  <2>1. T \in SUBSET Nat
    OBVIOUS
  <2>2. PICK i \in T : \A j \in T : i <= j
    BY <1>1, <2>1, Least
  <2>3. i \in 1 .. Len(seqs) /\ f[i] # g[i]
    OBVIOUS
  <2>4. i # 1 => f[i - 1] = g[i - 1]
    <3> SUFFICES ASSUME i # 1, f[i - 1] # g[i - 1] PROVE FALSE
      OBVIOUS
    <3>1. i - 1 \in T
      BY <2>3
    <3> QED BY <2>2, <2>3, <3>1
  <2>5. /\ f[i] = IF i = 1 THEN seqs[i] ELSE f[i - 1] \o seqs[i]
        /\ g[i] = IF i = 1 THEN seqs[i] ELSE g[i - 1] \o seqs[i]
    BY <2>3 DEF Flattens
  <2> QED BY <2>3, <2>4, <2>5
<1>2. \A i \in 1 .. Len(seqs) : f[i] = g[i]
  BY <1>1
<1>3. f = [i \in 1 .. Len(seqs) |-> f[i]] /\ g = [i \in 1 .. Len(seqs) |-> g[i]]
  BY DEF Flattens
<1> QED BY <1>2, <1>3

\* So FlattenSeq is the last value of any solution.
LEMMA FlattenIs ==
  ASSUME NEW seqs, Len(seqs) \in Nat \ {0}, NEW f, Flattens(f, seqs)
  PROVE  FlattenSeq(seqs) = f[Len(seqs)]
<1> DEFINE g == CHOOSE h : Flattens(h, seqs)
<1>1. Flattens(g, seqs)
  OBVIOUS
<1>2. FlattenSeq(seqs) = g[Len(seqs)]
  BY DEF FlattenSeq, Flattens
<1> HIDE DEF g
<1>3. g = f
  BY <1>1, FlattenUnique
<1> QED BY <1>2, <1>3

\* A text of one-byte characters is its own encoding.
LEMMA BytesSame ==
  ASSUME OneByte, NEW t \in Seq(Chars)
  PROVE  Bytes(t) = t
<1> DEFINE seqs == [i \in DOMAIN t |-> Encode(t[i])]
<1>1. Len(t) \in Nat /\ DOMAIN t = 1 .. Len(t) /\ \A i \in 1 .. Len(t) : t[i] \in Chars
  BY LenProperties, ElementOfSeq
<1>2. \A i \in 1 .. Len(t) : seqs[i] = <<t[i]>>
  BY <1>1 DEF Encode, OneByte
<1>3. Len(seqs) = Len(t) /\ DOMAIN seqs = 1 .. Len(t)
  BY <1>1
<1>4. CASE Len(t) = 0
  <2>1. t = <<>>
    BY <1>4, EmptySeq
  <2>2. seqs = <<>>
    BY <1>1, <1>3, <1>4
  <2> QED BY <1>3, <1>4, <2>1, <2>2 DEF Bytes, FlattenSeq
<1>5. CASE Len(t) # 0
  <2> DEFINE f == [i \in 1 .. Len(seqs) |-> SubSeq(t, 1, i)]
  <2>1. ASSUME NEW i \in 1 .. Len(seqs)
        PROVE  f[i] = IF i = 1 THEN seqs[i] ELSE f[i - 1] \o seqs[i]
    <3>1. SubSeq(t, 1, i) = SubSeq(t, 1, i - 1) \o <<t[i]>>
      BY <1>1, <1>3, SubSeqRecursiveSecond
    <3>2. CASE i = 1
      <4>1. SubSeq(t, 1, 0) = <<>> /\ <<t[1]>> \in Seq(Chars)
        BY <1>1, <1>3, <3>2, SubSeqEmpty
      <4>2. <<>> \o <<t[1]>> = <<t[1]>>
        BY <4>1, ConcatEmptySeq
      <4>3. 1 - 1 = 0 /\ SubSeq(t, 1, 1) = SubSeq(t, 1, 1 - 1) \o <<t[1]>>
        BY <3>1, <3>2
      <4>4. SubSeq(t, 1, 1) = <<t[1]>>
        BY <4>1, <4>2, <4>3
      <4> QED BY <1>2, <1>3, <3>2, <4>4
    <3>3. CASE i # 1
      <4>1. f[i - 1] = SubSeq(t, 1, i - 1) /\ f[i] = SubSeq(t, 1, i)
        BY <1>1, <1>3, <3>3
      <4> QED BY <1>2, <1>3, <3>1, <3>3, <4>1
    <3> QED BY <3>2, <3>3
  <2>2. Flattens(f, seqs)
    BY <2>1 DEF Flattens
  <2>3. Len(seqs) \in Nat \ {0}
    BY <1>1, <1>3, <1>5
  <2>4. f[Len(seqs)] = t
    BY <1>1, <1>3, <1>5, SubSeqFull
  <2> HIDE DEF f, seqs
  <2>5. FlattenSeq(seqs) = t
    BY <2>2, <2>3, <2>4, FlattenIs
  <2> QED BY <2>5 DEF Bytes, seqs
<1> QED BY <1>4, <1>5

-----------------------------------------------------------------------------
(* Positions and offsets.                                                   *)

\* What Position returns.
Positions == [line : Nat, character : Int]

\* The newlines up to a place.
Newlines(v, i) == {k \in 1 .. i : v[k] = "n"}

LEMMA NewlinesFinite ==
  ASSUME NEW v, NEW i \in Nat
  PROVE  /\ IsFiniteSet(Newlines(v, i)) /\ Cardinality(Newlines(v, i)) \in Nat
         /\ Cardinality(Newlines(v, i)) = 0 <=> Newlines(v, i) = {}
<1>1. IsFiniteSet(1 .. i)
  BY FS_Interval
<1>2. Newlines(v, i) \in SUBSET (1 .. i)
  BY DEF Newlines
<1>3. IsFiniteSet(Newlines(v, i))
  BY <1>1, <1>2, FS_Subset
<1> QED BY <1>3, FS_CardinalityType, FS_EmptySet

\* Two places have the same newlines before them if they have as many.
LEMMA NewlinesCount ==
  ASSUME NEW v, NEW i \in Nat, NEW j \in Nat, i <= j
  PROVE  /\ Cardinality(Newlines(v, i)) <= Cardinality(Newlines(v, j))
         /\ Cardinality(Newlines(v, i)) = Cardinality(Newlines(v, j)) => Newlines(v, i) = Newlines(v, j)
<1>1. Newlines(v, i) \in SUBSET Newlines(v, j)
  BY DEF Newlines
<1>2. IsFiniteSet(Newlines(v, j))
  BY NewlinesFinite
<1> QED BY <1>1, <1>2, FS_Subset

\* The l-th newline is at one place.
LEMMA OneNewline ==
  ASSUME NEW v, NEW i \in Nat \ {0}, NEW j \in Nat \ {0}, v[i] = "n", v[j] = "n",
         Cardinality(Newlines(v, i)) = Cardinality(Newlines(v, j))
  PROVE  i = j
<1>1. i \in Newlines(v, i) /\ j \in Newlines(v, j)
  BY DEF Newlines
<1>2. Newlines(v, i) = Newlines(v, j)
  <2>1. CASE i <= j
    BY <2>1, NewlinesCount
  <2>2. CASE j <= i
    BY <2>2, NewlinesCount
  <2> QED BY <2>1, <2>2
<1> QED BY <1>1, <1>2 DEF Newlines

\* The position the editor sends for a gap is found again in the buffer, which holds
\* the text the position was computed for.
LEMMA OffsetOfPosition ==
  ASSUME NEW t \in Seq(Chars), NEW i \in 0 .. Len(t), NEW v, v = t \o <<NUL>>
  PROVE  /\ Position(t, i) \in Positions
         /\ Position(t, i).line < LineCount(v)
         /\ LineOffset(v, Position(t, i).line) + Position(t, i).character = i
<1>1. /\ Len(t) \in Nat /\ i \in Nat /\ DOMAIN v = 1 .. Len(t) + 1
      /\ v[Len(t) + 1] = NUL /\ \A k \in 1 .. Len(t) : v[k] = t[k]
  <2>1. t \in Seq(Chars \cup {NUL}) /\ <<NUL>> \in Seq(Chars \cup {NUL}) /\ Len(<<NUL>>) = 1
    BY SeqMonotonic
  <2>2. /\ v \in Seq(Chars \cup {NUL}) /\ Len(v) = Len(t) + 1 /\ Len(t) \in Nat
        /\ \A k \in 1 .. Len(t) + 1 : v[k] = IF k <= Len(t) THEN t[k] ELSE <<NUL>>[k - Len(t)]
    BY <2>1, ConcatProperties, LenProperties
  <2>3. DOMAIN v = 1 .. Len(v)
    BY <2>2, LenProperties
  <2> QED BY <2>2, <2>3
<1> DEFINE N == Newlines(t, i)
           last == IF N = {} THEN 0 ELSE CHOOSE k \in N : \A l \in N : l <= k
<1>2. Position(t, i) = [line |-> Cardinality(N), character |-> i - last]
  BY DEF Position, Newlines
<1>3. N = Newlines(v, i)
  BY <1>1 DEF Newlines
<1>4. Cardinality(N) < LineCount(v)
  <2>1. Newlines(v, Len(t) + 1) = {k \in DOMAIN v : v[k] = "n"}
    BY <1>1 DEF Newlines
  <2>2. Cardinality(Newlines(v, i)) <= Cardinality(Newlines(v, Len(t) + 1))
    <3>1. i \in Nat /\ Len(t) + 1 \in Nat /\ i <= Len(t) + 1
      BY <1>1
    <3> HIDE DEF N, last
    <3> QED BY <3>1, NewlinesCount
  <2>3. Cardinality(Newlines(v, i)) \in Nat /\ Cardinality(Newlines(v, Len(t) + 1)) \in Nat
    BY <1>1, NewlinesFinite
  <2>4. LineCount(v) = 1 + Cardinality(Newlines(v, Len(t) + 1))
    BY <2>1, Zenon DEF LineCount
  <2> HIDE DEF N
  <2> QED BY <1>3, <2>2, <2>3, <2>4
<1>5. LineOffset(v, Cardinality(N)) = last /\ last \in Nat
  <2>1. CASE N = {}
    <3>1. Cardinality(N) = 0
      BY <1>1, <2>1, NewlinesFinite
    <3> QED BY <2>1, <3>1 DEF LineOffset
  <2>2. CASE N # {}
    <3>1. Cardinality(N) # 0
      BY <1>1, <2>2, NewlinesFinite
    <3>2. \E k \in N : \A l \in N : l <= k
      <4>1. N \in SUBSET (0 .. i)
        BY DEF Newlines
      <4> HIDE DEF N
      <4> QED BY <1>1, <2>2, <4>1, Greatest
    <3>3. last \in N /\ \A l \in N : l <= last
      BY <2>2, <3>2
    <3> HIDE DEF last
    <3>4. last \in 1 .. i /\ last \in DOMAIN v /\ v[last] = "n"
      BY <1>1, <3>3 DEF Newlines
    <3>5. Newlines(v, last) = N
      BY <1>1, <1>3, <3>3, <3>4 DEF Newlines
    <3> DEFINE p == CHOOSE k \in DOMAIN v : /\ v[k] = "n"
                                            /\ Cardinality(Newlines(v, k)) = Cardinality(N)
    <3>6. LineOffset(v, Cardinality(N)) = p
      BY <3>1 DEF LineOffset, Newlines
    <3>7. p \in DOMAIN v /\ v[p] = "n" /\ Cardinality(Newlines(v, p)) = Cardinality(N)
      BY <3>4, <3>5
    <3> HIDE DEF p
    <3>8. p = last
      <4>1. p \in Nat \ {0} /\ last \in Nat \ {0}
        BY <1>1, <3>4, <3>7
      <4>2. Cardinality(Newlines(v, p)) = Cardinality(Newlines(v, last))
        BY <3>5, <3>7
      <4> QED BY <3>4, <3>7, <4>1, <4>2, OneNewline
    <3> QED BY <3>4, <3>6, <3>8
  <2> QED BY <2>1, <2>2
<1>6. Cardinality(N) \in Nat
  BY <1>1, NewlinesFinite
<1> HIDE DEF N, last
<1> QED BY <1>1, <1>2, <1>4, <1>5, <1>6 DEF Positions

-----------------------------------------------------------------------------
(* One change.                                                              *)

\* What the editor's text becomes when t replaces what is between two gaps.
Edited(old, i, j, t) == SubSeq(old, 1, i) \o t \o SubSeq(old, j + 1, Len(old))

\* A text with its NUL, place by place.
LEMMA WithNul ==
  ASSUME NEW t \in Seq(Chars)
  PROVE  /\ t \o <<NUL>> \in Seq(Chars \cup {NUL}) /\ Len(t \o <<NUL>>) = Len(t) + 1
         /\ (t \o <<NUL>>)[Len(t) + 1] = NUL
         /\ \A k \in 1 .. Len(t) : (t \o <<NUL>>)[k] = t[k]
<1>1. t \in Seq(Chars \cup {NUL}) /\ <<NUL>> \in Seq(Chars \cup {NUL}) /\ Len(<<NUL>>) = 1
  BY SeqMonotonic
<1>2. /\ Len(t) \in Nat
      /\ \A k \in 1 .. Len(t) + 1 : (t \o <<NUL>>)[k] = IF k <= Len(t) THEN t[k] ELSE <<NUL>>[k - Len(t)]
  BY <1>1, ConcatProperties, LenProperties
<1> QED BY <1>1, <1>2, ConcatProperties

\* ensureNullTerminated adds the NUL to a text and leaves what ends with one.
LEMMA TerminatedFacts ==
  ASSUME NEW t \in Seq(Chars)
  PROVE  /\ Terminated(t) = t \o <<NUL>>
         /\ Terminated(t \o <<NUL>>) = t \o <<NUL>>
<1>1. Terminated(t) = Append(t, NUL)
  <2>1. CASE t = <<>>
    BY <2>1 DEF Terminated
  <2>2. CASE t # <<>>
    <3>1. Len(t) \in Nat \ {0}
      BY <2>2, EmptySeq
    <3>2. t[Len(t)] \in Chars
      BY <3>1, ElementOfSeq
    <3> QED BY <3>2, TextAssumption DEF Terminated, Last
  <2> QED BY <2>1, <2>2
<1>2. t \in Seq(Chars \cup {NUL})
  BY SeqMonotonic
<1>3. Append(t, NUL) = t \o <<NUL>>
  BY <1>2, AppendIsConcat
<1>4. Last(t \o <<NUL>>) = NUL /\ t \o <<NUL>> # <<>>
  <2>1. Len(t) \in Nat /\ Len(<<>>) = 0
    BY LenProperties
  <2> QED BY <2>1, WithNul DEF Last
<1> QED BY <1>1, <1>3, <1>4 DEF Terminated

\* An edited text is a text.
LEMMA EditedText ==
  ASSUME NEW old \in Seq(Chars), NEW i \in 0 .. Len(old), NEW j \in i .. Len(old), NEW t \in Seq(Chars)
  PROVE  /\ SubSeq(old, 1, i) \in Seq(Chars) /\ SubSeq(old, j + 1, Len(old)) \in Seq(Chars)
         /\ Edited(old, i, j, t) \in Seq(Chars)
<1>1. Len(old) \in Nat /\ \A k \in 1 .. Len(old) : old[k] \in Chars
  BY LenProperties, ElementOfSeq
<1>2. SubSeq(old, 1, i) \in Seq(Chars)
  <2>1. 1 \in Int /\ i \in Int /\ \A k \in 1 .. i : old[k] \in Chars
    BY <1>1
  <2> QED BY <2>1, SubSeqProperties
<1>3. SubSeq(old, j + 1, Len(old)) \in Seq(Chars)
  <2>1. j + 1 \in Int /\ Len(old) \in Int /\ \A k \in j + 1 .. Len(old) : old[k] \in Chars
    BY <1>1
  <2> QED BY <2>1, SubSeqProperties
<1> QED BY <1>2, <1>3, ConcatProperties DEF Edited

\* The pieces the server cuts out of the buffer are those the editor cuts out of the
\* text, the last with the NUL.
LEMMA Pieces ==
  ASSUME NEW old \in Seq(Chars), NEW v, v = old \o <<NUL>>,
         NEW i \in 0 .. Len(old), NEW j \in 0 .. Len(old)
  PROVE  /\ SubSeq(v, 1, i) = SubSeq(old, 1, i)
         /\ SubSeq(v, j + 1, Len(v)) = SubSeq(old, j + 1, Len(old)) \o <<NUL>>
<1> DEFINE B == Chars \cup {NUL}
<1>1. /\ Len(old) \in Nat /\ old \in Seq(B) /\ v \in Seq(B) /\ Len(v) = Len(old) + 1
      /\ v[Len(old) + 1] = NUL /\ \A k \in 1 .. Len(old) : v[k] = old[k] /\ old[k] \in Chars
  BY LenProperties, ElementOfSeq, SeqMonotonic, WithNul
<1>2. SubSeq(v, 1, i) = SubSeq(old, 1, i)
  <2>1. i \in Int /\ 1 \in Int /\ \A k \in 1 .. i : v[k] \in B /\ old[k] \in B /\ v[k] = old[k]
    BY <1>1
  <2>2. /\ SubSeq(v, 1, i) \in Seq(B) /\ Len(SubSeq(v, 1, i)) = IF 1 <= i THEN i - 1 + 1 ELSE 0
        /\ \A k \in 1 .. i - 1 + 1 : SubSeq(v, 1, i)[k] = v[1 + k - 1]
    BY <2>1, SubSeqProperties
  <2>3. /\ SubSeq(old, 1, i) \in Seq(B) /\ Len(SubSeq(old, 1, i)) = IF 1 <= i THEN i - 1 + 1 ELSE 0
        /\ \A k \in 1 .. i - 1 + 1 : SubSeq(old, 1, i)[k] = old[1 + k - 1]
    BY <2>1, SubSeqProperties
  <2>4. /\ Len(SubSeq(v, 1, i)) = Len(SubSeq(old, 1, i))
        /\ \A k \in 1 .. Len(SubSeq(v, 1, i)) : SubSeq(v, 1, i)[k] = SubSeq(old, 1, i)[k]
    BY <1>1, <2>1, <2>2, <2>3
  <2> QED BY <2>2, <2>3, <2>4, SeqEqual
<1>3. SubSeq(v, j + 1, Len(v)) = SubSeq(old, j + 1, Len(old)) \o <<NUL>>
  <2>1. SubSeq(v, j + 1, Len(v)) = SubSeq(v, j + 1, Len(v) - 1) \o <<v[Len(v)]>>
    <3>1. j + 1 \in 1 .. Len(v) /\ Len(v) \in j + 1 .. Len(v) /\ v \in Seq(B)
      BY <1>1
    <3> HIDE DEF B
    <3> QED BY <3>1, SubSeqRecursiveSecond
  <2> DEFINE a == SubSeq(v, j + 1, Len(old))
             b == SubSeq(old, j + 1, Len(old))
  <2>2. /\ j + 1 \in Int /\ Len(old) \in Int
        /\ \A k \in j + 1 .. Len(old) : v[k] \in B /\ old[k] \in B /\ v[k] = old[k]
    BY <1>1
  <2>3. /\ a \in Seq(B) /\ Len(a) = IF j + 1 <= Len(old) THEN Len(old) - (j + 1) + 1 ELSE 0
        /\ \A k \in 1 .. Len(old) - (j + 1) + 1 : a[k] = v[(j + 1) + k - 1]
    BY <2>2, SubSeqProperties
  <2>4. /\ b \in Seq(B) /\ Len(b) = IF j + 1 <= Len(old) THEN Len(old) - (j + 1) + 1 ELSE 0
        /\ \A k \in 1 .. Len(old) - (j + 1) + 1 : b[k] = old[(j + 1) + k - 1]
    BY <2>2, SubSeqProperties
  <2> HIDE DEF a, b
  <2>5. Len(a) = Len(b) /\ \A k \in 1 .. Len(a) : a[k] = b[k]
    BY <1>1, <2>2, <2>3, <2>4
  <2>6. a = b
    BY <2>3, <2>4, <2>5, SeqEqual
  <2>7. Len(v) - 1 = Len(old) /\ v[Len(v)] = NUL
    BY <1>1
  <2> QED BY <2>1, <2>6, <2>7 DEF a, b
<1> QED BY <1>2, <1>3

\* The two halves of a concatenation.
LEMMA Halves ==
  ASSUME NEW S, NEW a \in Seq(S), NEW b \in Seq(S), NEW s, s = a \o b
  PROVE  SubSeq(s, 1, Len(a)) = a /\ SubSeq(s, Len(a) + 1, Len(s)) = b
<1>1. /\ Len(a) \in Nat /\ Len(b) \in Nat /\ s \in Seq(S) /\ Len(s) = Len(a) + Len(b)
      /\ \A k \in 1 .. Len(a) + Len(b) : s[k] = IF k <= Len(a) THEN a[k] ELSE b[k - Len(a)]
  BY ConcatProperties, LenProperties
<1>2. \A k \in 1 .. Len(s) : s[k] \in S
  BY <1>1, ElementOfSeq
<1>3. SubSeq(s, 1, Len(a)) = a
  <2>1. 1 \in Int /\ Len(a) \in Int /\ \A k \in 1 .. Len(a) : s[k] \in S
    BY <1>1, <1>2
  <2> DEFINE x == SubSeq(s, 1, Len(a))
  <2>2. /\ x \in Seq(S) /\ Len(x) = IF 1 <= Len(a) THEN Len(a) - 1 + 1 ELSE 0
        /\ \A k \in 1 .. Len(a) - 1 + 1 : x[k] = s[1 + k - 1]
    BY <2>1, SubSeqProperties
  <2> HIDE DEF x
  <2>3. Len(x) = Len(a) /\ \A k \in 1 .. Len(x) : x[k] = a[k]
    BY <1>1, <2>2
  <2>4. x = a
    BY <2>2, <2>3, SeqEqual
  <2> QED BY <2>4 DEF x
<1>4. SubSeq(s, Len(a) + 1, Len(s)) = b
  <2>1. Len(a) + 1 \in Int /\ Len(s) \in Int /\ \A k \in Len(a) + 1 .. Len(s) : s[k] \in S
    BY <1>1, <1>2
  <2> DEFINE x == SubSeq(s, Len(a) + 1, Len(s))
  <2>2. /\ x \in Seq(S) /\ Len(x) = IF Len(a) + 1 <= Len(s) THEN Len(s) - (Len(a) + 1) + 1 ELSE 0
        /\ \A k \in 1 .. Len(s) - (Len(a) + 1) + 1 : x[k] = s[(Len(a) + 1) + k - 1]
    BY <2>1, SubSeqProperties
  <2> HIDE DEF x
  <2>3. Len(x) = Len(b)
    BY <1>1, <2>2
  <2>4. ASSUME NEW k \in 1 .. Len(x) PROVE x[k] = b[k]
    <3>1. x[k] = s[Len(a) + k] /\ Len(a) + k \in 1 .. Len(a) + Len(b) /\ ~ (Len(a) + k <= Len(a))
      <4>1. k \in Nat /\ k >= 1 /\ k <= Len(b)
        BY <1>1, <2>3
      <4>2. Len(s) - (Len(a) + 1) + 1 = Len(b) /\ (Len(a) + 1) + k - 1 = Len(a) + k
        BY <1>1, <4>1
      <4>3. x[k] = s[Len(a) + k]
        BY <2>2, <2>3, <4>2
      <4> QED BY <1>1, <4>1, <4>3
    <3>2. Len(a) + k - Len(a) = k
      BY <1>1, <2>3
    <3> QED BY <1>1, <3>1, <3>2
  <2>5. x = b
    BY <2>2, <2>3, <2>4, SeqEqual
  <2> QED BY <2>5 DEF x
<1> QED BY <1>3, <1>4

\* Applied to the buffer that holds the old text, the first change and a later one
\* both make it hold the new.
LEMMA ChangeApplied ==
  ASSUME NEW old \in Seq(Chars), NEW c, c.text \in Seq(Chars),
         NEW i \in 0 .. Len(old), NEW j \in i .. Len(old),
         getOffsets(old \o <<NUL>>, c).first = i, getOffsets(old \o <<NUL>>, c).second = j
  PROVE  /\ FirstChange(old \o <<NUL>>, c) = Edited(old, i, j, c.text) \o <<NUL>>
         /\ LaterChange(old \o <<NUL>>, c) = Edited(old, i, j, c.text) \o <<NUL>>
<1>v. PICK v : v = old \o <<NUL>>
  OBVIOUS
<1>o. getOffsets(v, c).first = i /\ getOffsets(v, c).second = j
  BY <1>v
<1>t. PICK t \in Seq(Chars) : t = c.text
  OBVIOUS
<1> DEFINE B == Chars \cup {NUL}
           head == SubSeq(old, 1, i)
           rest == SubSeq(old, j + 1, Len(old))
<1>1. Len(old) \in Nat /\ i \in Nat /\ j \in Nat /\ i <= j /\ j \in 0 .. Len(old)
  BY LenProperties
<1>2. /\ SubSeq(v, 1, i) = head /\ SubSeq(v, j + 1, Len(v)) = rest \o <<NUL>>
  BY <1>v, <1>1, Pieces
<1>3. /\ head \in Seq(Chars) /\ rest \in Seq(Chars) /\ Edited(old, i, j, t) \in Seq(Chars)
      /\ Edited(old, i, j, t) = head \o t \o rest
  BY EditedText DEF Edited
<1>4. /\ head \in Seq(B) /\ rest \in Seq(B) /\ t \in Seq(B) /\ <<NUL>> \in Seq(B)
  BY <1>3, SeqMonotonic
<1>5. Len(head) = i
  <2>1. 1 \in Int /\ i \in Int /\ \A k \in 1 .. i : old[k] \in Chars
    BY <1>1, ElementOfSeq
  <2>2. Len(head) = IF 1 <= i THEN i - 1 + 1 ELSE 0
    BY <2>1, SubSeqProperties
  <2> QED BY <1>1, <2>2
<1> HIDE DEF B, head, rest
<1>6. (head \o t) \o (rest \o <<NUL>>) = Edited(old, i, j, t) \o <<NUL>>
  <2>1. head \o t \in Seq(B)
    BY <1>4, ConcatProperties
  <2>2. (head \o t) \o (rest \o <<NUL>>) = ((head \o t) \o rest) \o <<NUL>>
    <3>1. PICK q \in Seq(B) : q = head \o t
      BY <2>1
    <3>2. (q \o rest) \o <<NUL>> = q \o (rest \o <<NUL>>)
      BY <1>4, ConcatAssociative, SMTT(30)
    <3> QED BY <3>1, <3>2
  <2>3. (head \o t) \o rest = head \o t \o rest
    OBVIOUS
  <2> QED BY <1>3, <2>2, <2>3
<1>7. FirstChange(v, c) = Edited(old, i, j, t) \o <<NUL>>
  <2>1. FirstChange(v, c) = Terminated((SubSeq(v, 1, i) \o t) \o SubSeq(v, j + 1, Len(v)))
    BY <1>o, <1>t DEF FirstChange
  <2> QED BY <1>2, <1>3, <1>6, <2>1, TerminatedFacts
<1>8. /\ j > i => LaterChange(v, c)
           = (SubSeq(SubSeq(v, 1, i) \o SubSeq(v, j + 1, Len(v)), 1, i) \o t)
             \o SubSeq(SubSeq(v, 1, i) \o SubSeq(v, j + 1, Len(v)), i + 1,
                       Len(SubSeq(v, 1, i) \o SubSeq(v, j + 1, Len(v))))
      /\ ~ (j > i) => LaterChange(v, c) = (SubSeq(v, 1, i) \o t) \o SubSeq(v, i + 1, Len(v))
  BY <1>o, <1>t, Zenon DEF LaterChange
<1>9. ASSUME ~ (j > i) PROVE LaterChange(v, c) = Edited(old, i, j, t) \o <<NUL>>
  <2>1. i = j
    BY <1>1, <1>9
  <2> QED BY <1>2, <1>6, <1>8, <1>9, <2>1
<1>10. ASSUME j > i PROVE LaterChange(v, c) = Edited(old, i, j, t) \o <<NUL>>
  <2> DEFINE tail == rest \o <<NUL>>
             erased == head \o tail
  <2>1. tail \in Seq(B)
    BY <1>4, ConcatProperties
  <2>2. LaterChange(v, c) = (SubSeq(erased, 1, i) \o t) \o SubSeq(erased, i + 1, Len(erased))
    BY <1>2, <1>8, <1>10, Zenon
  <2> HIDE DEF tail
  <2>3. SubSeq(erased, 1, Len(head)) = head /\ SubSeq(erased, Len(head) + 1, Len(erased)) = tail
    BY <1>4, <2>1, Halves
  <2> HIDE DEF erased
  <2>4. LaterChange(v, c) = (head \o t) \o tail
    BY <1>5, <2>2, <2>3
  <2> QED BY <1>6, <2>4 DEF tail
<1>11. LaterChange(v, c) = Edited(old, i, j, t) \o <<NUL>>
  BY <1>9, <1>10
<1> QED BY <1>v, <1>t, <1>7, <1>11

\* The outcome of a change that leaves the buffer with a text.
Holds(t) == [status |-> "done", view |-> t \o <<NUL>>]

\* The changes of the editor.
WholeChange == [whole : BOOLEAN, text : Seq(Chars)]
PartialChange == [whole : BOOLEAN, start : Positions, end : Positions, text : Seq(Chars)]
Change == WholeChange \cup PartialChange

\* A change of a stretch, whichever change of its batch it is, takes the buffer from the
\* text it was made in to the text it made.
LEMMA PartialHolds ==
  ASSUME OneByte, NEW old \in Seq(Chars), NEW i \in 0 .. Len(old), NEW j \in i .. Len(old),
         NEW t \in Seq(Chars)
  PROVE  /\ Partial(Position(old, i), Position(old, j), t) \in Change
         /\ ChangeOne(Holds(old), Partial(Position(old, i), Position(old, j), t), FALSE)
              = Holds(Edited(old, i, j, t))
         /\ ChangeOne(Holds(old), Partial(Position(old, i), Position(old, j), t), TRUE)
              = Holds(Edited(old, i, j, t))
<1>c. PICK c : c = Partial(Position(old, i), Position(old, j), t)
  OBVIOUS
<1> DEFINE v == old \o <<NUL>>
           p == Position(old, i)
           q == Position(old, j)
<1>1. Len(old) \in Nat /\ i \in Nat /\ j \in Nat /\ i <= j /\ j <= Len(old) /\ Len(v) = Len(old) + 1
      /\ j \in 0 .. Len(old)
  BY LenProperties, WithNul
<1>2. /\ p \in Positions /\ p.line < LineCount(v)
      /\ LineOffset(v, p.line) + p.character = i
  BY OffsetOfPosition
<1>3. /\ q \in Positions /\ q.line < LineCount(v)
      /\ LineOffset(v, q.line) + q.character = j
  BY <1>1, OffsetOfPosition
<1>v. v = old \o <<NUL>>
  OBVIOUS
<1> HIDE DEF v, p, q
<1>4. c = [whole |-> FALSE, start |-> p, end |-> q, text |-> t]
  BY <1>c, BytesSame DEF Partial, p, q
<1>5. c \in Change
  <2>1. FALSE \in BOOLEAN
    OBVIOUS
  <2>2. c \in PartialChange
    BY <1>2, <1>3, <1>4, <2>1, SMT DEF PartialChange
  <2> QED BY <2>2 DEF Change
<1>6. c.whole = FALSE /\ c.start = p /\ c.end = q /\ c.text = t
  BY <1>4
<1>7. getOffsets(v, c) = [first |-> i, second |-> j]
  BY <1>2, <1>3, <1>6 DEF getOffsets
<1>8. LinesKnown(v, c) /\ InView(v, c)
  <2>1. LinesKnown(v, c)
    BY <1>2, <1>3, <1>6 DEF LinesKnown
  <2>2. getOffsets(v, c).first <= Len(v) /\ getOffsets(v, c).second <= Len(v)
    BY <1>1, <1>7
  <2> QED BY <2>1, <2>2 DEF InView
<1>9. /\ FirstChange(v, c) = Edited(old, i, j, t) \o <<NUL>>
      /\ LaterChange(v, c) = Edited(old, i, j, t) \o <<NUL>>
  <2>1. getOffsets(v, c).first = i /\ getOffsets(v, c).second = j /\ c.text = t
    BY <1>6, <1>7
  <2>2. c.text \in Seq(Chars) /\ v = old \o <<NUL>>
    BY <1>v, <1>6
  <2> QED BY <2>1, <2>2, ChangeApplied
<1>10. Holds(old).status = "done" /\ Holds(old).view = v
  BY DEF Holds, v
<1>11. /\ ChangeOne(Holds(old), c, FALSE) = [Holds(old) EXCEPT !.view = FirstChange(@, c)]
       /\ ChangeOne(Holds(old), c, TRUE) = [Holds(old) EXCEPT !.view = LaterChange(@, c)]
  BY <1>6, <1>8, <1>10 DEF ChangeOne
<1>12. /\ ChangeOne(Holds(old), c, FALSE) = [Holds(old) EXCEPT !.view = FirstChange(v, c)]
       /\ ChangeOne(Holds(old), c, TRUE) = [Holds(old) EXCEPT !.view = LaterChange(v, c)]
  BY <1>10, <1>11
<1>13. /\ ChangeOne(Holds(old), c, FALSE) = Holds(Edited(old, i, j, t))
       /\ ChangeOne(Holds(old), c, TRUE) = Holds(Edited(old, i, j, t))
  BY <1>9, <1>12 DEF Holds
<1> QED BY <1>c, <1>5, <1>13

\* The whole document replaces whatever the buffer held.
LEMMA WholeHolds ==
  ASSUME OneByte, NEW old, NEW t \in Seq(Chars), NEW later
  PROVE  Whole(t) \in Change /\ ChangeOne(Holds(old), Whole(t), later) = Holds(t)
<1>1. Whole(t) = [whole |-> TRUE, text |-> t]
  BY BytesSame DEF Whole
<1>2. Terminated(t) = t \o <<NUL>>
  BY TerminatedFacts
<1>3. Holds(old).status = "done"
  BY DEF Holds
<1>4. Whole(t) \in Change
  <2>1. TRUE \in BOOLEAN
    OBVIOUS
  <2>2. Whole(t) \in WholeChange
    BY <1>1, <2>1, SMT DEF WholeChange
  <2> QED BY <2>2 DEF Change
<1>5. Whole(t).whole = TRUE /\ Whole(t).text = t
  BY <1>1
<1>6. ASSUME NEW r, NEW c, r.status = "done", c.whole = TRUE
      PROVE  ChangeOne(r, c, later) = [status |-> "done", view |-> Terminated(c.text)]
  BY <1>6 DEF ChangeOne
<1>7. ChangeOne(Holds(old), Whole(t), later) = [status |-> "done", view |-> Terminated(Whole(t).text)]
  BY <1>3, <1>5, <1>6
<1> QED BY <1>2, <1>4, <1>5, <1>7 DEF Holds

-----------------------------------------------------------------------------
(* A batch of changes.                                                      *)

\* The equation that defines onChange.
Applies(f, v, changes) ==
  f = [i \in 0 .. Len(changes) |->
         IF i = 0 THEN [status |-> "done", view |-> v]
         ELSE ChangeOne(f[i - 1], changes[i], i > 1)]

\* The equation has one solution.
LEMMA AppliesUnique ==
  ASSUME NEW v, NEW changes, Len(changes) \in Nat, NEW f, NEW g,
         Applies(f, v, changes), Applies(g, v, changes)
  PROVE  f = g
<1> DEFINE T == {i \in 0 .. Len(changes) : f[i] # g[i]}
<1>1. ASSUME T # {} PROVE FALSE
  <2>1. T \in SUBSET Nat
    OBVIOUS
  <2>2. PICK i \in T : \A j \in T : i <= j
    BY <1>1, <2>1, Least
  <2>3. i \in 0 .. Len(changes) /\ f[i] # g[i]
    OBVIOUS
  <2>4. i # 0 => f[i - 1] = g[i - 1]
    <3> SUFFICES ASSUME i # 0, f[i - 1] # g[i - 1] PROVE FALSE
      OBVIOUS
    <3>1. i - 1 \in T
      BY <2>3
    <3> QED BY <2>2, <2>3, <3>1
  <2>5. /\ f[i] = IF i = 0 THEN [status |-> "done", view |-> v]
                  ELSE ChangeOne(f[i - 1], changes[i], i > 1)
        /\ g[i] = IF i = 0 THEN [status |-> "done", view |-> v]
                  ELSE ChangeOne(g[i - 1], changes[i], i > 1)
    BY <2>3 DEF Applies
  <2> QED BY <2>3, <2>4, <2>5
<1>2. \A i \in 0 .. Len(changes) : f[i] = g[i]
  BY <1>1
<1>3. f = [i \in 0 .. Len(changes) |-> f[i]] /\ g = [i \in 0 .. Len(changes) |-> g[i]]
  BY DEF Applies
<1> QED BY <1>2, <1>3

\* So onChange is the last value of any solution.
LEMMA OnChangeIs ==
  ASSUME NEW v, NEW changes, Len(changes) \in Nat, NEW f, Applies(f, v, changes)
  PROVE  onChange(v, changes) = f[Len(changes)]
<1> DEFINE g == CHOOSE h : Applies(h, v, changes)
<1>1. Applies(g, v, changes)
  OBVIOUS
<1>2. onChange(v, changes) = g[Len(changes)]
  BY DEF onChange, Applies
<1> HIDE DEF g
<1>3. g = f
  BY <1>1, AppliesUnique
<1> QED BY <1>2, <1>3

\* One more change in the batch is applied to the outcome of those before it.
LEMMA AppliesAppend ==
  ASSUME NEW v, NEW changes \in Seq(Change), NEW c \in Change, NEW f, Applies(f, v, changes),
         NEW r, r = ChangeOne(f[Len(changes)], c, Len(changes) > 0)
  PROVE  \E g : Applies(g, v, Append(changes, c)) /\ g[Len(Append(changes, c))] = r
<1> DEFINE n == Len(changes)
           more == Append(changes, c)
           g == [i \in 0 .. n + 1 |-> IF i = n + 1 THEN r ELSE f[i]]
<1>1. /\ n \in Nat /\ Len(more) = n + 1 /\ more[n + 1] = c
      /\ \A i \in 1 .. n : more[i] = changes[i]
  BY AppendProperties, LenProperties
<1>2. \A i \in 0 .. n : f[i] = IF i = 0 THEN [status |-> "done", view |-> v]
                               ELSE ChangeOne(f[i - 1], changes[i], i > 1)
  BY DEF Applies
<1>3. g[n + 1] = r /\ \A i \in 0 .. n : g[i] = f[i]
  BY <1>1
<1>4. g = [i \in 0 .. n + 1 |-> g[i]]
  OBVIOUS
<1> HIDE DEF n, more, g
<1>5. ASSUME NEW i \in 0 .. n + 1
      PROVE  g[i] = IF i = 0 THEN [status |-> "done", view |-> v]
                    ELSE ChangeOne(g[i - 1], more[i], i > 1)
  <2>1. CASE i = 0
    BY <1>1, <1>2, <1>3, <2>1
  <2>2. CASE i \in 1 .. n
    <3>1. i - 1 \in 0 .. n /\ i \in 0 .. n /\ i # 0
      BY <1>1, <2>2
    <3> QED BY <1>1, <1>2, <1>3, <2>2, <3>1
  <2>3. CASE i = n + 1
    <3>1. i - 1 = n /\ n \in 0 .. n /\ (i > 1) = (n > 0) /\ i # 0
      BY <1>1, <2>3
    <3> QED BY <1>1, <1>3, <2>3, <3>1 DEF n
  <2> QED BY <1>1, <2>1, <2>2, <2>3
<1>6. Applies(g, v, more)
  BY <1>1, <1>4, <1>5 DEF Applies
<1> QED BY <1>1, <1>3, <1>6 DEF more

-----------------------------------------------------------------------------
(* The buffer follows the editor.                                           *)

\* The buffer holds the editor's text once the changes in flight are applied to it.
Follows(t, changes, v) ==
  \E f : Applies(f, v, changes) /\ f[Len(changes)] = Holds(t)

\* The invariant: every change in flight was made in the text the changes before it
\* made of the buffer.
FollowInv ==
  /\ text \in Seq(Chars) /\ pending \in Seq(Change) /\ diverged \in BOOLEAN
  /\ ~ diverged => Follows(text, pending, buffer)

LEMMA TextsAreSeqs == Texts \subseteq Seq(Chars)
<1> SUFFICES ASSUME NEW n \in 0 .. MaxLength, NEW t \in [1 .. n -> Chars] PROVE t \in Seq(Chars)
  BY DEF Texts
<1>1. n \in Nat
  BY TextAssumption
<1> QED BY <1>1

\* With no change in flight, following is holding the text.
LEMMA FollowsNone ==
  ASSUME NEW t, NEW v
  PROVE  Follows(t, <<>>, v) <=> v = t \o <<NUL>>
<1> DEFINE start == [status |-> "done", view |-> v]
           f == [i \in 0 .. 0 |-> start]
<1>1. Len(<<>>) = 0
  OBVIOUS
<1>2. ASSUME NEW g, Applies(g, v, <<>>) PROVE g[0] = start
  BY <1>1, <1>2 DEF Applies
<1>3. Applies(f, v, <<>>) /\ f[0] = start
  <2>1. \A i \in 0 .. 0 : i = 0
    OBVIOUS
  <2> QED BY <1>1, <2>1 DEF Applies
<1> HIDE DEF f
<1>4. start = Holds(t) <=> v = t \o <<NUL>>
  BY DEF Holds
<1> HIDE DEF start
<1>5. ASSUME Follows(t, <<>>, v) PROVE v = t \o <<NUL>>
  <2>1. PICK g : Applies(g, v, <<>>) /\ g[Len(<<>>)] = Holds(t)
    BY <1>5 DEF Follows
  <2> QED BY <1>1, <1>2, <1>4, <2>1
<1>6. ASSUME v = t \o <<NUL>> PROVE Follows(t, <<>>, v)
  <2>1. f[Len(<<>>)] = Holds(t)
    BY <1>1, <1>3, <1>4, <1>6
  <2> QED BY <1>3, <2>1 DEF Follows
<1> QED BY <1>5, <1>6

\* One more change, made in the text the others lead to.
LEMMA FollowsMore ==
  ASSUME NEW old, NEW changes \in Seq(Change), NEW v, Follows(old, changes, v), NEW c \in Change,
         NEW t, ChangeOne(Holds(old), c, FALSE) = Holds(t), ChangeOne(Holds(old), c, TRUE) = Holds(t)
  PROVE  Follows(t, Append(changes, c), v)
<1>1. PICK f : Applies(f, v, changes) /\ f[Len(changes)] = Holds(old)
  BY DEF Follows
<1>2. ChangeOne(f[Len(changes)], c, Len(changes) > 0) = Holds(t)
  <2>1. CASE Len(changes) > 0
    <3>1. (Len(changes) > 0) = TRUE
      BY <2>1
    <3> QED BY <1>1, <3>1
  <2>2. CASE ~ (Len(changes) > 0)
    <3>1. (Len(changes) > 0) = FALSE
      BY <2>2
    <3> QED BY <1>1, <3>1
  <2> QED BY <2>1, <2>2
<1>3. \E g : Applies(g, v, Append(changes, c)) /\ g[Len(Append(changes, c))] = Holds(t)
  BY <1>1, <1>2, AppliesAppend
<1> QED BY <1>3 DEF Follows

\* The buffer is the editor's text, NUL-terminated, whenever the editor's changes are
\* in, for any number of changes in a batch, any mixture of stretches and whole
\* documents, and any lines (SlangDoc::onChange), as long as the file was not re-read
\* since the last save and every character takes one byte.
THEOREM EditorIsMirrored ==
  ASSUME OneByte
  PROVE  TextSpec => []Mirrored
<1>1. TextInit => FollowInv
  <2> SUFFICES ASSUME TextInit PROVE FollowInv
    OBVIOUS
  <2>1. text \in Seq(Chars) /\ pending = <<>> /\ diverged = FALSE /\ buffer = Terminated(Bytes(text))
    BY TextsAreSeqs DEF TextInit
  <2>2. buffer = text \o <<NUL>>
    BY <2>1, BytesSame, TerminatedFacts
  <2>3. pending \in Seq(Change)
    BY <2>1
  <2> QED BY <2>1, <2>2, <2>3, FollowsNone DEF FollowInv
<1>2. FollowInv /\ [TextNext]_textVars => FollowInv'
  <2> SUFFICES ASSUME FollowInv, [TextNext]_textVars PROVE FollowInv'
    OBVIOUS
  <2>t. /\ text \in Seq(Chars) /\ pending \in Seq(Change) /\ diverged \in BOOLEAN
        /\ ~ diverged => Follows(text, pending, buffer)
    BY DEF FollowInv
  <2>0. <<>> \in Seq(Change)
    OBVIOUS
  <2>1. CASE Type
    <3>1. PICK i \in 0 .. Len(text) : \E j \in i .. Len(text), t \in {<<>>} \cup {<<c>> : c \in Chars} :
            /\ text' = SubSeq(text, 1, i) \o t \o SubSeq(text, j + 1, Len(text))
            /\ pending' = Append(pending, Partial(Position(text, i), Position(text, j), t))
            /\ UNCHANGED <<buffer, diverged>>
      BY <2>1 DEF Type
    <3>2. PICK j \in i .. Len(text), t \in {<<>>} \cup {<<c>> : c \in Chars} :
            /\ text' = SubSeq(text, 1, i) \o t \o SubSeq(text, j + 1, Len(text))
            /\ pending' = Append(pending, Partial(Position(text, i), Position(text, j), t))
            /\ UNCHANGED <<buffer, diverged>>
      BY <3>1
    <3>3. t \in Seq(Chars)
      <4>1. CASE t = <<>>
        BY <4>1
      <4>2. CASE t # <<>>
        <5>1. PICK c \in Chars : t = <<c>>
          BY <4>2
        <5> QED BY <5>1
      <4> QED BY <4>1, <4>2
    <3>4. text' = Edited(text, i, j, t)
      BY <3>2 DEF Edited
    <3>5. PICK c : c = Partial(Position(text, i), Position(text, j), t)
      OBVIOUS
    <3>6. /\ c \in Change
          /\ ChangeOne(Holds(text), c, FALSE) = Holds(Edited(text, i, j, t))
          /\ ChangeOne(Holds(text), c, TRUE) = Holds(Edited(text, i, j, t))
      <4>1. /\ Partial(Position(text, i), Position(text, j), t) \in Change
            /\ ChangeOne(Holds(text), Partial(Position(text, i), Position(text, j), t), FALSE)
                 = Holds(Edited(text, i, j, t))
            /\ ChangeOne(Holds(text), Partial(Position(text, i), Position(text, j), t), TRUE)
                 = Holds(Edited(text, i, j, t))
        BY <2>t, <3>3, PartialHolds
      <4> QED BY <3>5, <4>1
    <3>7. text' \in Seq(Chars) /\ pending' \in Seq(Change)
      BY <2>t, <3>2, <3>3, <3>4, <3>5, <3>6, EditedText, AppendProperties
    <3>8. ~ diverged' => Follows(text', pending', buffer')
      <4> SUFFICES ASSUME ~ diverged PROVE Follows(text', pending', buffer')
        BY <3>2
      <4>1. Follows(Edited(text, i, j, t), Append(pending, c), buffer)
        BY <2>t, <3>6, FollowsMore
      <4> QED BY <3>2, <3>4, <3>5, <4>1
    <3> QED BY <2>t, <3>2, <3>7, <3>8 DEF FollowInv
  <2>2. CASE ReplaceDocument
    <3>1. PICK t \in Texts : /\ text' = t /\ pending' = Append(pending, Whole(t))
                             /\ UNCHANGED <<buffer, diverged>>
      BY <2>2 DEF ReplaceDocument
    <3>2. t \in Seq(Chars)
      BY TextsAreSeqs
    <3>3. /\ Whole(t) \in Change /\ ChangeOne(Holds(text), Whole(t), FALSE) = Holds(t)
          /\ ChangeOne(Holds(text), Whole(t), TRUE) = Holds(t)
      BY <3>2, WholeHolds
    <3>4. pending' \in Seq(Change)
      BY <2>t, <3>1, <3>3, AppendProperties
    <3>5. ~ diverged' => Follows(text', pending', buffer')
      <4> SUFFICES ASSUME ~ diverged PROVE Follows(text', pending', buffer')
        BY <3>1
      <4>1. Follows(t, Append(pending, Whole(t)), buffer)
        BY <2>t, <3>3, FollowsMore
      <4> QED BY <3>1, <4>1
    <3> QED BY <2>t, <3>1, <3>2, <3>4, <3>5 DEF FollowInv
  <2>3. CASE DidChange
    <3>1. pending' = <<>> /\ text' = text /\ diverged' = diverged
      BY <2>3 DEF DidChange
    <3>2. ~ diverged' => Follows(text', pending', buffer')
      <4> SUFFICES ASSUME ~ diverged PROVE Follows(text', pending', buffer')
        BY <3>1
      <4>1. PICK f : Applies(f, buffer, pending) /\ f[Len(pending)] = Holds(text)
        BY <2>t DEF Follows
      <4>2. Len(pending) \in Nat
        BY <2>t, LenProperties
      <4>3. onChange(buffer, pending) = Holds(text)
        BY <4>1, <4>2, OnChangeIs
      <4>4. Holds(text).status = "done" /\ Holds(text).view = text \o <<NUL>>
        BY DEF Holds
      <4>5. buffer' = text \o <<NUL>>
        BY <2>3, <4>3, <4>4 DEF DidChange
      <4>6. Follows(text, <<>>, buffer')
        BY <4>5, FollowsNone
      <4> QED BY <3>1, <4>6
    <3> QED BY <2>t, <2>0, <3>1, <3>2 DEF FollowInv
  <2>4. CASE DidSave
    <3>1. /\ pending = <<>> /\ pending' = pending /\ text' = text /\ diverged' = FALSE
          /\ buffer' = IF textMatches(buffer, text) THEN buffer ELSE Terminated(Bytes(text))
      BY <2>4 DEF DidSave
    <3>2. buffer' = text \o <<NUL>>
      BY <2>t, <3>1, BytesSame, TerminatedFacts DEF textMatches
    <3>3. Follows(text, <<>>, buffer')
      BY <3>2, FollowsNone
    <3> QED BY <2>t, <3>1, <3>3 DEF FollowInv
  <2>5. CASE Reload
    <3>1. PICK t \in Texts : /\ buffer' = Terminated(Bytes(t)) /\ text' = text /\ pending' = pending
                             /\ diverged' = (t # text \/ pending # <<>>)
      BY <2>5 DEF Reload
    <3>2. t \in Seq(Chars)
      BY TextsAreSeqs
    <3>3. diverged' \in BOOLEAN
      BY <3>1
    <3>4. ~ diverged' => Follows(text', pending', buffer')
      <4> SUFFICES ASSUME t = text, pending = <<>> PROVE Follows(text', pending', buffer')
        BY <3>1
      <4>1. buffer' = text \o <<NUL>>
        BY <3>1, <3>2, BytesSame, TerminatedFacts
      <4>2. Follows(text, <<>>, buffer')
        BY <4>1, FollowsNone
      <4> QED BY <3>1, <4>2
    <3> QED BY <2>t, <3>1, <3>3, <3>4 DEF FollowInv
  <2>6. CASE UNCHANGED textVars
    BY <2>6, <2>t DEF FollowInv, textVars
  <2> QED BY <2>1, <2>2, <2>3, <2>4, <2>5, <2>6 DEF TextNext
<1>3. FollowInv => Mirrored
  <2> SUFFICES ASSUME FollowInv, ~ diverged, pending = <<>> PROVE buffer = Bytes(text) \o <<NUL>>
    BY DEF Mirrored
  <2>1. text \in Seq(Chars) /\ Follows(text, <<>>, buffer)
    BY DEF FollowInv
  <2> QED BY <2>1, BytesSame, FollowsNone
<1> QED BY <1>1, <1>2, <1>3, PTL DEF TextSpec

-----------------------------------------------------------------------------
(* Addresses: digits and escapes.                                           *)

DigitChars == {"0", "1", "2", "3", "4", "5", "6", "7", "8", "9", "A", "B", "C", "D", "E", "F"}

\* The digits are sixteen different characters.
LEMMA DigitFacts ==
  ASSUME NEW k \in 0 .. 15
  PROVE  hex_chars[k + 1] \in DigitChars /\ Value(hex_chars[k + 1]) = k
<1>1. /\ hex_chars[1] = "0" /\ hex_chars[2] = "1" /\ hex_chars[3] = "2" /\ hex_chars[4] = "3"
      /\ hex_chars[5] = "4" /\ hex_chars[6] = "5" /\ hex_chars[7] = "6" /\ hex_chars[8] = "7"
      /\ hex_chars[9] = "8" /\ hex_chars[10] = "9" /\ hex_chars[11] = "A" /\ hex_chars[12] = "B"
      /\ hex_chars[13] = "C" /\ hex_chars[14] = "D" /\ hex_chars[15] = "E" /\ hex_chars[16] = "F"
  BY DEF hex_chars
<1>2. ASSUME NEW j \in 0 .. 15
      PROVE  \/ j + 1 = 1 \/ j + 1 = 2 \/ j + 1 = 3 \/ j + 1 = 4 \/ j + 1 = 5 \/ j + 1 = 6
             \/ j + 1 = 7 \/ j + 1 = 8 \/ j + 1 = 9 \/ j + 1 = 10 \/ j + 1 = 11 \/ j + 1 = 12
             \/ j + 1 = 13 \/ j + 1 = 14 \/ j + 1 = 15 \/ j + 1 = 16
  OBVIOUS
<1>3. hex_chars[k + 1] \in DigitChars
  BY <1>1, <1>2 DEF DigitChars
<1>4. \A j \in 0 .. 15 : hex_chars[j + 1] = hex_chars[k + 1] => j = k
  BY <1>1, <1>2
<1> QED BY <1>3, <1>4 DEF Value

\* Reading back the two digits of a character gives the character.
LEMMA HexFacts ==
  ASSUME NEW c \in DOMAIN Code
  PROVE  /\ Len(to_hex(c)) = 2 /\ to_hex(c)[1] \in DigitChars /\ to_hex(c)[2] \in DigitChars
         /\ Character(stoi(to_hex(c)[1], to_hex(c)[2])) = c
<1>1. Code[c] \in 0 .. 255 /\ \A d \in DOMAIN Code : Code[d] = Code[c] => d = c
  BY UriAssumption
<1> DEFINE high == Code[c] \div 16
           low == Code[c] % 16
<1>2. high \in 0 .. 15 /\ low \in 0 .. 15 /\ 16 * high + low = Code[c]
  BY <1>1
<1>3. to_hex(c) = <<hex_chars[high + 1], hex_chars[low + 1]>>
  BY DEF to_hex
<1> HIDE DEF high, low
<1>4. /\ hex_chars[high + 1] \in DigitChars /\ Value(hex_chars[high + 1]) = high
      /\ hex_chars[low + 1] \in DigitChars /\ Value(hex_chars[low + 1]) = low
  BY <1>2, DigitFacts
<1>5. /\ Len(to_hex(c)) = 2 /\ to_hex(c)[1] = hex_chars[high + 1] /\ to_hex(c)[2] = hex_chars[low + 1]
  BY <1>3
<1>6. stoi(to_hex(c)[1], to_hex(c)[2]) = Code[c]
  BY <1>2, <1>4, <1>5 DEF stoi
<1>7. Character(Code[c]) = c
  BY <1>1 DEF Character
<1> QED BY <1>4, <1>5, <1>6, <1>7

-----------------------------------------------------------------------------
(* decode.                                                                  *)

\* The equation that defines decode, from place m on.
DecodeStep(f, s, i) ==
  IF i > Len(s) THEN <<>>
  ELSE IF s[i] = "%" /\ i + 2 <= Len(s)
  THEN <<Character(stoi(s[i + 1], s[i + 2]))>> \o f[i + 3]
  ELSE <<s[i]>> \o f[i + 1]

DecodesFrom(f, s, m) == f = [i \in m .. Len(s) + 1 |-> DecodeStep(f, s, i)]

\* A solution is continued to the left by one place.
LEMMA DecodesMore ==
  ASSUME NEW s, Len(s) \in Nat, NEW m \in 1 .. Len(s), NEW f, DecodesFrom(f, s, m + 1)
  PROVE  \E g : DecodesFrom(g, s, m)
<1> DEFINE g == [i \in m .. Len(s) + 1 |-> IF i = m THEN DecodeStep(f, s, m) ELSE f[i]]
<1>1. g[m] = DecodeStep(f, s, m) /\ \A i \in m + 1 .. Len(s) + 1 : g[i] = f[i]
  OBVIOUS
<1>2. g = [i \in m .. Len(s) + 1 |-> g[i]]
  OBVIOUS
<1>3. \A i \in m + 1 .. Len(s) + 1 : f[i] = DecodeStep(f, s, i)
  BY DEF DecodesFrom
<1> HIDE DEF g
<1>4. ASSUME NEW i \in m .. Len(s) + 1 PROVE DecodeStep(g, s, i) = DecodeStep(f, s, i)
  <2>1. i <= Len(s) => g[i + 1] = f[i + 1]
    BY <1>1
  <2>2. i + 2 <= Len(s) => g[i + 3] = f[i + 3]
    BY <1>1
  <2>3. CASE i > Len(s)
    BY <2>3 DEF DecodeStep
  <2>4. CASE ~ (i > Len(s))
    <3>1. i <= Len(s)
      BY <2>4
    <3> QED BY <2>1, <2>2, <2>4, <3>1 DEF DecodeStep
  <2> QED BY <2>3, <2>4
<1>5. ASSUME NEW i \in m .. Len(s) + 1 PROVE g[i] = DecodeStep(g, s, i)
  <2>1. CASE i = m
    BY <1>1, <1>4, <2>1
  <2>2. CASE i # m
    <3>1. i \in m + 1 .. Len(s) + 1
      BY <2>2
    <3> QED BY <1>1, <1>3, <1>4, <3>1
  <2> QED BY <2>1, <2>2
<1>6. DecodesFrom(g, s, m)
  BY <1>2, <1>5 DEF DecodesFrom
<1> QED BY <1>6

\* decode is the first value of a solution of its equation.
LEMMA DecodeIs ==
  ASSUME NEW s, Len(s) \in Nat
  PROVE  \E f : DecodesFrom(f, s, 1) /\ decode(s) = f[1]
<1> DEFINE T == {n \in 0 .. Len(s) : ~ \E f : DecodesFrom(f, s, Len(s) + 1 - n)}
<1>1. ASSUME T # {} PROVE FALSE
  <2>1. T \in SUBSET Nat
    OBVIOUS
  <2>2. PICK n \in T : \A k \in T : n <= k
    BY <1>1, <2>1, Least
  <2>3. n \in 0 .. Len(s) /\ ~ \E f : DecodesFrom(f, s, Len(s) + 1 - n)
    OBVIOUS
  <2>4. CASE n = 0
    <3> DEFINE f == [i \in Len(s) + 1 .. Len(s) + 1 |-> <<>>]
    <3>1. \A i \in Len(s) + 1 .. Len(s) + 1 : i > Len(s)
      OBVIOUS
    <3>2. \A i \in Len(s) + 1 .. Len(s) + 1 : DecodeStep(f, s, i) = <<>>
      BY <3>1 DEF DecodeStep
    <3>3. DecodesFrom(f, s, Len(s) + 1)
      BY <3>2 DEF DecodesFrom
    <3>4. Len(s) + 1 - n = Len(s) + 1
      BY <2>4
    <3> QED BY <2>3, <3>3, <3>4
  <2>5. CASE n # 0
    <3>1. n - 1 \in 0 .. Len(s) /\ n - 1 \notin T
      BY <2>2, <2>3, <2>5
    <3>2. PICK f : DecodesFrom(f, s, Len(s) + 1 - (n - 1))
      BY <3>1
    <3>3. Len(s) + 1 - (n - 1) = (Len(s) + 1 - n) + 1 /\ Len(s) + 1 - n \in 1 .. Len(s)
      BY <2>3, <2>5
    <3>4. \E g : DecodesFrom(g, s, Len(s) + 1 - n)
      BY <3>2, <3>3, DecodesMore
    <3> QED BY <2>3, <3>4
  <2> QED BY <2>4, <2>5
<1>2. \E f : DecodesFrom(f, s, 1)
  <2>1. Len(s) \in 0 .. Len(s) /\ Len(s) \notin T /\ Len(s) + 1 - Len(s) = 1
    BY <1>1
  <2> QED BY <2>1
<1> DEFINE g == CHOOSE f : DecodesFrom(f, s, 1)
<1>3. DecodesFrom(g, s, 1)
  BY <1>2
<1>4. decode(s) = g[1]
  BY DEF decode, DecodesFrom, DecodeStep
<1> QED BY <1>3, <1>4

\* From place i on, w has a piece that reads as c and ends at place e: the character
\* itself, or an escape of it.
PieceAt(w, i, e, c) ==
  \/ e = i /\ w[i] = c /\ c # "%"
  \/ e = i + 2 /\ w[i] = "%" /\ Character(stoi(w[i + 1], w[i + 2])) = c

\* w is a row of pieces that read as the n first characters of p; end has the place where
\* each of them ends.
PiecedTo(w, p, end, n) ==
  /\ end \in [0 .. n -> Nat]
  /\ end[0] = 0 /\ end[n] = Len(w)
  /\ \A k \in 0 .. n : end[k] <= Len(w)
  /\ \A k \in 1 .. n : PieceAt(w, end[k - 1] + 1, end[k], p[k])

Pieced(w, p, end) == PiecedTo(w, p, end, Len(p))

\* One piece is one step of decode.
LEMMA DecodePiece ==
  ASSUME NEW w, Len(w) \in Nat, NEW f, NEW c, NEW i \in Nat \ {0}, NEW e \in Nat, e <= Len(w),
         PieceAt(w, i, e, c)
  PROVE  DecodeStep(f, w, i) = <<c>> \o f[e + 1] /\ i \in 1 .. Len(w) + 1
<1>1. CASE e = i /\ w[i] = c /\ c # "%"
  BY <1>1 DEF DecodeStep
<1>2. CASE e = i + 2 /\ w[i] = "%" /\ Character(stoi(w[i + 1], w[i + 2])) = c
  <2>1. ~ (i > Len(w)) /\ i + 2 <= Len(w) /\ e + 1 = i + 3 /\ i \in 1 .. Len(w) + 1
    BY <1>2
  <2>2. DecodeStep(f, w, i) = <<c>> \o f[i + 3]
    BY <1>2, <2>1 DEF DecodeStep
  <2> QED BY <2>1, <2>2
<1> QED BY <1>1, <1>2 DEF PieceAt

\* What decode has read of the pieces after the n last ones.
Read(f, p, end, n) == f[end[Len(p) - n] + 1] = SubSeq(p, Len(p) - n + 1, Len(p))

\* Reading the n last pieces gives the n last characters.
LEMMA ReadMore ==
  ASSUME NEW w, Len(w) \in Nat, NEW S, NEW p \in Seq(S), NEW end, Pieced(w, p, end),
         NEW f, \A i \in 1 .. Len(w) + 1 : f[i] = DecodeStep(f, w, i),
         NEW n \in 1 .. Len(p), Read(f, p, end, n - 1)
  PROVE  Read(f, p, end, n)
<1>1. Len(p) \in Nat
  BY LenProperties
<1> DEFINE k == Len(p) - n + 1
<1>2. k = Len(p) - n + 1
  OBVIOUS
<1> HIDE DEF k
<1>3. k \in 1 .. Len(p) /\ Len(p) - (n - 1) = k /\ Len(p) - n = k - 1
  BY <1>1, <1>2
<1>4. k - 1 \in 0 .. Len(p) /\ k \in 0 .. Len(p)
  BY <1>1, <1>3
<1>5. /\ end[k - 1] \in Nat /\ end[k] \in Nat /\ end[k] <= Len(w)
      /\ PieceAt(w, end[k - 1] + 1, end[k], p[k])
  BY <1>3, <1>4 DEF Pieced, PiecedTo
<1>6. end[k - 1] + 1 \in Nat \ {0}
  BY <1>5
<1>7. /\ DecodeStep(f, w, end[k - 1] + 1) = <<p[k]>> \o f[end[k] + 1]
      /\ end[k - 1] + 1 \in 1 .. Len(w) + 1
  <2> DEFINE i == end[k - 1] + 1
             e == end[k]
             c == p[k]
  <2>1. i \in Nat \ {0} /\ e \in Nat /\ e <= Len(w) /\ PieceAt(w, i, e, c)
    BY <1>5, <1>6
  <2> HIDE DEF i, e, c
  <2>2. DecodeStep(f, w, i) = <<c>> \o f[e + 1] /\ i \in 1 .. Len(w) + 1
    BY <2>1, DecodePiece
  <2> QED BY <2>2 DEF i, e, c
<1>8. f[end[k] + 1] = SubSeq(p, k + 1, Len(p))
  BY <1>3 DEF Read
<1>9. SubSeq(p, k, Len(p)) = <<p[k]>> \o SubSeq(p, k + 1, Len(p))
  BY <1>1, <1>3, SubSeqRecursiveFirst
<1>10. f[end[k - 1] + 1] = SubSeq(p, k, Len(p))
  BY <1>7, <1>8, <1>9
<1> QED BY <1>2, <1>3, <1>10 DEF Read

\* decode reads a row of pieces as their characters.
LEMMA DecodePieces ==
  ASSUME NEW w, Len(w) \in Nat, NEW S, NEW p \in Seq(S), NEW end, Pieced(w, p, end)
  PROVE  decode(w) = p
<1>1. PICK f : DecodesFrom(f, w, 1) /\ decode(w) = f[1]
  BY DecodeIs
<1>2. PICK N \in Nat : Len(p) = N
  BY LenProperties
<1>3. \A i \in 1 .. Len(w) + 1 : f[i] = DecodeStep(f, w, i)
  BY <1>1 DEF DecodesFrom
<1> DEFINE T == {n \in 0 .. N : ~ Read(f, p, end, n)}
<1>4. ASSUME T # {} PROVE FALSE
  <2>1. T \in SUBSET Nat
    OBVIOUS
  <2>2. PICK n \in T : \A k \in T : n <= k
    BY <1>4, <2>1, Least
  <2>3. n \in 0 .. N /\ ~ Read(f, p, end, n)
    OBVIOUS
  <2>4. CASE n = 0
    <3>1. end[N] = Len(w)
      BY <1>2 DEF Pieced, PiecedTo
    <3>2. N - n = N /\ N - n + 1 = N + 1 /\ N + 1 \in Int /\ N + 1 > N
      BY <2>4
    <3>3. SubSeq(p, N + 1, N) = <<>>
      BY <3>2, SubSeqEmpty
    <3>4. Len(w) + 1 > Len(w) /\ Len(w) + 1 \in 1 .. Len(w) + 1
      OBVIOUS
    <3>5. f[Len(w) + 1] = <<>>
      BY <1>3, <3>4 DEF DecodeStep
    <3> QED BY <1>2, <2>3, <3>1, <3>2, <3>3, <3>5 DEF Read
  <2>5. CASE n # 0
    <3>1. n \in 1 .. N /\ n - 1 \in 0 .. N /\ ~ (n <= n - 1)
      BY <2>3, <2>5
    <3>2. Read(f, p, end, n - 1)
      BY <2>2, <3>1
    <3> QED BY <1>2, <1>3, <2>3, <3>1, <3>2, ReadMore
  <2> QED BY <2>4, <2>5
<1>5. Read(f, p, end, N)
  BY <1>4
<1>6. N - N = 0 /\ N - N + 1 = 1 /\ end[0] = 0
  BY DEF Pieced, PiecedTo
<1>7. f[1] = SubSeq(p, 1, Len(p))
  BY <1>2, <1>5, <1>6 DEF Read
<1> QED BY <1>1, <1>7, SubSeqFull

\* A text without escapes is its own decoding.
LEMMA DecodePlain ==
  ASSUME NEW S, NEW p \in Seq(S), \A k \in 1 .. Len(p) : p[k] # "%"
  PROVE  decode(p) = p
<1> DEFINE end == [k \in 0 .. Len(p) |-> k]
<1>1. Len(p) \in Nat
  BY LenProperties
<1>2. /\ end \in [0 .. Len(p) -> Nat] /\ end[0] = 0 /\ end[Len(p)] = Len(p)
      /\ \A k \in 0 .. Len(p) : end[k] <= Len(p)
  BY <1>1
<1>3. ASSUME NEW k \in 1 .. Len(p) PROVE PieceAt(p, end[k - 1] + 1, end[k], p[k])
  <2>1. k - 1 \in 0 .. Len(p) /\ k \in 0 .. Len(p) /\ k - 1 + 1 = k
    BY <1>1
  <2>2. end[k] = k /\ end[k - 1] + 1 = k
    BY <2>1
  <2> QED BY <2>2 DEF PieceAt
<1> HIDE DEF end
<1>4. Pieced(p, p, end)
  BY <1>2, <1>3 DEF Pieced, PiecedTo
<1> QED BY <1>1, <1>4, DecodePieces

LEMMA DecodeEmpty == decode(<<>>) = <<>>
<1>1. Len(<<>>) = 0 /\ <<>> \in Seq(STRING)
  OBVIOUS
<1>2. \A k \in 1 .. Len(<<>>) : <<>>[k] # "%"
  BY <1>1
<1> QED BY <1>1, <1>2, DecodePlain

-----------------------------------------------------------------------------
(* What an editor sends.                                                    *)

\* One more piece on the right.
LEMMA PieceAppend ==
  ASSUME NEW W, NEW w \in Seq(W), NEW x \in Seq(W), NEW p, NEW n \in Nat, NEW end,
         PiecedTo(w, p, end, n), PieceAt(x, 1, Len(x), p[n + 1])
  PROVE  \E more : PiecedTo(w \o x, p, more, n + 1)
<1> DEFINE a == Len(w)
           b == Len(x)
           s == w \o x
<1>1. /\ a \in Nat /\ b \in Nat /\ s \in Seq(W) /\ Len(s) = a + b
      /\ \A i \in 1 .. a + b : s[i] = IF i <= a THEN w[i] ELSE x[i - a]
  BY ConcatProperties, LenProperties
<1>2. \A i \in 1 .. a : s[i] = w[i]
  BY <1>1
<1>3. ASSUME NEW i \in 1 .. b PROVE s[a + i] = x[i]
  <2>1. a + i \in 1 .. a + b /\ ~ (a + i <= a) /\ (a + i) - a = i
    BY <1>1
  <2> QED BY <1>1, <2>1
<1>4. /\ end \in [0 .. n -> Nat] /\ end[0] = 0 /\ end[n] = a /\ \A k \in 0 .. n : end[k] <= a
      /\ \A k \in 1 .. n : PieceAt(w, end[k - 1] + 1, end[k], p[k])
  BY DEF PiecedTo
<1> HIDE DEF a, b, s
<1> DEFINE more == [k \in 0 .. n + 1 |-> IF k = n + 1 THEN a + b ELSE end[k]]
<1>5. /\ more \in [0 .. n + 1 -> Nat] /\ more[n + 1] = a + b /\ \A k \in 0 .. n : more[k] = end[k]
  BY <1>1, <1>4
<1> HIDE DEF more
<1>6. more[0] = 0 /\ more[n] = a
  BY <1>4, <1>5
<1>7. ASSUME NEW k \in 0 .. n + 1 PROVE more[k] <= a + b
  <2>1. CASE k = n + 1
    BY <1>1, <1>5, <2>1
  <2>2. CASE k # n + 1
    <3>1. k \in 0 .. n
      BY <2>2
    <3>2. more[k] = end[k] /\ end[k] \in Nat /\ end[k] <= a
      BY <1>4, <1>5, <3>1
    <3> QED BY <1>1, <3>2
  <2> QED BY <2>1, <2>2
<1>8. ASSUME NEW i \in Nat \ {0}, NEW e \in Nat, e <= a, NEW c, PieceAt(w, i, e, c)
      PROVE  PieceAt(s, i, e, c)
  <2>1. CASE e = i /\ w[i] = c /\ c # "%"
    <3>1. s[i] = w[i]
      BY <1>1, <1>2, <1>8, <2>1
    <3> QED BY <2>1, <3>1 DEF PieceAt
  <2>2. CASE e = i + 2 /\ w[i] = "%" /\ Character(stoi(w[i + 1], w[i + 2])) = c
    <3>1. i \in 1 .. a /\ i + 1 \in 1 .. a /\ i + 2 \in 1 .. a
      BY <1>1, <1>8, <2>2
    <3>2. s[i] = w[i] /\ s[i + 1] = w[i + 1] /\ s[i + 2] = w[i + 2]
      BY <1>2, <3>1
    <3> QED BY <2>2, <3>2 DEF PieceAt
  <2> QED BY <1>8, <2>1, <2>2 DEF PieceAt
<1>9. PieceAt(s, a + 1, a + b, p[n + 1])
  <2>1. CASE b = 1 /\ x[1] = p[n + 1] /\ p[n + 1] # "%"
    <3>1. s[a + 1] = x[1]
      BY <1>1, <1>3, <2>1
    <3> QED BY <2>1, <3>1 DEF PieceAt
  <2>2. CASE b = 1 + 2 /\ x[1] = "%" /\ Character(stoi(x[1 + 1], x[1 + 2])) = p[n + 1]
    <3>1. s[a + 1] = x[1] /\ s[a + 2] = x[2] /\ s[a + 3] = x[3]
      BY <1>1, <1>3, <2>2
    <3>2. a + b = (a + 1) + 2 /\ (a + 1) + 1 = a + 2 /\ (a + 1) + 2 = a + 3 /\ 1 + 1 = 2 /\ 1 + 2 = 3
      BY <1>1, <2>2
    <3> QED BY <2>2, <3>1, <3>2 DEF PieceAt
  <2>3. PieceAt(x, 1, b, p[n + 1])
    BY DEF b
  <2> QED BY <2>1, <2>2, <2>3 DEF PieceAt
<1>10. ASSUME NEW k \in 1 .. n + 1 PROVE PieceAt(s, more[k - 1] + 1, more[k], p[k])
  <2>1. CASE k = n + 1
    <3>1. k - 1 = n
      BY <2>1
    <3> QED BY <1>5, <1>6, <1>9, <2>1, <3>1
  <2>2. CASE k # n + 1
    <3>1. k \in 1 .. n /\ k - 1 \in 0 .. n /\ k \in 0 .. n
      BY <2>2
    <3>2. /\ more[k] = end[k] /\ more[k - 1] = end[k - 1] /\ end[k] \in Nat /\ end[k] <= a
          /\ end[k - 1] \in Nat /\ PieceAt(w, end[k - 1] + 1, end[k], p[k])
      BY <1>4, <1>5, <3>1
    <3> DEFINE i == end[k - 1] + 1
               e == end[k]
    <3>3. i \in Nat \ {0} /\ e \in Nat /\ e <= a /\ PieceAt(w, i, e, p[k])
      BY <3>2
    <3> HIDE DEF i, e
    <3>4. PieceAt(s, i, e, p[k])
      BY <1>8, <3>3
    <3> QED BY <3>2, <3>4 DEF i, e
  <2> QED BY <2>1, <2>2
<1>11. PiecedTo(s, p, more, n + 1)
  BY <1>1, <1>5, <1>6, <1>7, <1>10 DEF PiecedTo
<1> QED BY <1>11 DEF s

\* A character as an editor spells it that escapes the ones in also, and a path.
UriSpelling(c, also) == IF c \in {"%", "?", "#"} \cup also THEN <<"%">> \o to_hex(c) ELSE <<c>>

Spelled(p, also) == [i \in DOMAIN p |-> UriSpelling(p[i], also)]

\* What a spelling is made of.
WireChars == ((DOMAIN Code) \cup DigitChars \cup {"%"}) \ {"?", "#"}

\* A spelling is one piece.
LEMMA SpellingPiece ==
  ASSUME NEW c \in DOMAIN Code, NEW also
  PROVE  /\ UriSpelling(c, also) \in Seq(WireChars)
         /\ PieceAt(UriSpelling(c, also), 1, Len(UriSpelling(c, also)), c)
<1>1. CASE c \in {"%", "?", "#"} \cup also
  <2> DEFINE h == to_hex(c)[1]
             l == to_hex(c)[2]
  <2>1. h \in DigitChars /\ l \in DigitChars /\ Character(stoi(h, l)) = c
    BY HexFacts
  <2>2. to_hex(c) = <<h, l>>
    BY DEF to_hex
  <2> HIDE DEF h, l
  <2>3. h \in WireChars /\ l \in WireChars /\ "%" \in WireChars
    BY <2>1 DEF WireChars, DigitChars
  <2>4. /\ <<"%">> \in Seq(WireChars) /\ Len(<<"%">>) = 1 /\ <<"%">>[1] = "%"
        /\ <<h, l>> \in Seq(WireChars) /\ Len(<<h, l>>) = 2 /\ <<h, l>>[1] = h /\ <<h, l>>[2] = l
    BY <2>3
  <2> DEFINE x == <<"%">>
             y == <<h, l>>
             z == x \o y
  <2>5. UriSpelling(c, also) = z
    BY <1>1, <2>2, Zenon DEF UriSpelling
  <2> HIDE DEF x, y, z
  <2>6. /\ z \in Seq(WireChars) /\ Len(z) = Len(x) + Len(y)
        /\ \A i \in 1 .. Len(x) + Len(y) : z[i] = IF i <= Len(x) THEN x[i] ELSE y[i - Len(x)]
    BY <2>4, ConcatProperties DEF x, y, z
  <2>7. Len(z) = 1 + 2 /\ z[1] = "%" /\ z[1 + 1] = h /\ z[1 + 2] = l
    <3>1. /\ Len(x) = 1 /\ Len(y) = 2 /\ x[1] = "%" /\ y[1] = h /\ y[2] = l
      BY <2>4 DEF x, y
    <3> QED BY <2>6, <3>1
  <2>8. PieceAt(z, 1, Len(z), c)
    BY <2>1, <2>7 DEF PieceAt
  <2> QED BY <2>5, <2>6, <2>8
<1>2. CASE c \notin {"%", "?", "#"} \cup also
  <2>1. UriSpelling(c, also) = <<c>> /\ c # "%" /\ c # "?" /\ c # "#"
    BY <1>2 DEF UriSpelling
  <2>2. c \in WireChars
    BY <2>1 DEF WireChars
  <2>3. <<c>> \in Seq(WireChars) /\ Len(<<c>>) = 1 /\ <<c>>[1] = c
    BY <2>2
  <2> QED BY <2>1, <2>3 DEF PieceAt
<1> QED BY <1>1, <1>2

\* The equation that defines FlattenSeq, up to place n.
FlattensTo(f, seqs, n) ==
  f = [i \in 1 .. n |-> IF i = 1 THEN seqs[i] ELSE f[i - 1] \o seqs[i]]

\* A solution is continued to the right by one place.
LEMMA FlattensMore ==
  ASSUME NEW seqs, NEW n \in Nat \ {0}, NEW f, FlattensTo(f, seqs, n)
  PROVE  \E g : FlattensTo(g, seqs, n + 1) /\ g[n + 1] = f[n] \o seqs[n + 1]
<1> DEFINE g == [i \in 1 .. n + 1 |-> IF i = n + 1 THEN f[n] \o seqs[n + 1] ELSE f[i]]
<1>0. n + 1 \in 1 .. n + 1 /\ \A i \in 1 .. n : i \in 1 .. n + 1 /\ i # n + 1
  OBVIOUS
<1>1. g[n + 1] = f[n] \o seqs[n + 1] /\ \A i \in 1 .. n : g[i] = f[i]
  BY <1>0, Zenon
<1>2. g = [i \in 1 .. n + 1 |-> g[i]]
  OBVIOUS
<1>3. \A i \in 1 .. n : f[i] = IF i = 1 THEN seqs[i] ELSE f[i - 1] \o seqs[i]
  BY DEF FlattensTo
<1> HIDE DEF g
<1>4. ASSUME NEW i \in 1 .. n + 1 PROVE g[i] = IF i = 1 THEN seqs[i] ELSE g[i - 1] \o seqs[i]
  <2>1. CASE i = n + 1
    <3>1. i # 1 /\ i - 1 = n /\ n \in 1 .. n
      BY <2>1
    <3> QED BY <1>1, <2>1, <3>1
  <2>2. CASE i # n + 1
    <3>1. i \in 1 .. n /\ (i # 1 => i - 1 \in 1 .. n)
      BY <2>2
    <3> QED BY <1>1, <1>3, <3>1
  <2> QED BY <2>1, <2>2
<1>5. FlattensTo(g, seqs, n + 1)
  BY <1>2, <1>4 DEF FlattensTo
<1> QED BY <1>1, <1>5

\* The first n spellings, put together, begin with the slash and are n pieces.
SpeltTo(p, also, n) ==
  \E f, end : /\ FlattensTo(f, Spelled(p, also), n)
              /\ f[n] \in Seq(WireChars) /\ Len(f[n]) > 0 /\ f[n][1] = "/"
              /\ PiecedTo(f[n], p, end, n)

LEMMA SpeltFirst ==
  ASSUME NEW p \in Seq(DOMAIN Code), Len(p) > 0, p[1] = "/", NEW also \in SUBSET (PathChars \ {"/"})
  PROVE  SpeltTo(p, also, 1)
<1> DEFINE f == [i \in 1 .. 1 |-> <<"/">>]
           end == [k \in 0 .. 1 |-> k]
<1>1. 1 \in DOMAIN p /\ "/" \in DOMAIN Code
  BY LenProperties, UriAssumption
<1>2. "/" \notin {"%", "?", "#"} \cup also
  OBVIOUS
<1>3. Spelled(p, also)[1] = <<"/">>
  BY <1>1, <1>2 DEF Spelled, UriSpelling
<1>4. FlattensTo(f, Spelled(p, also), 1)
  BY <1>3 DEF FlattensTo
<1>5. "/" \in WireChars
  BY <1>1 DEF WireChars
<1>6. <<"/">> \in Seq(WireChars) /\ Len(<<"/">>) = 1 /\ <<"/">>[1] = "/"
  BY <1>5
<1>7. PieceAt(<<"/">>, 1, 1, "/")
  BY DEF PieceAt
<1>8. PiecedTo(<<"/">>, p, end, 1)
  <2>1. end \in [0 .. 1 -> Nat] /\ end[0] = 0 /\ end[1] = 1 /\ \A k \in 0 .. 1 : end[k] <= 1
    OBVIOUS
  <2>2. ASSUME NEW k \in 1 .. 1 PROVE PieceAt(<<"/">>, end[k - 1] + 1, end[k], p[k])
    <3>1. k = 1 /\ end[k - 1] + 1 = 1 /\ end[k] = 1
      OBVIOUS
    <3> QED BY <1>7, <3>1
  <2> QED BY <1>6, <2>1, <2>2 DEF PiecedTo
<1>9. f[1] = <<"/">>
  OBVIOUS
<1> HIDE DEF f, end
<1>10. /\ f[1] \in Seq(WireChars) /\ Len(f[1]) > 0 /\ f[1][1] = "/"
       /\ PiecedTo(f[1], p, end, 1)
  BY <1>6, <1>8, <1>9
<1> QED BY <1>4, <1>10 DEF SpeltTo

LEMMA SpeltNext ==
  ASSUME NEW p \in Seq(DOMAIN Code), NEW also, NEW n \in Nat \ {0}, n + 1 <= Len(p),
         SpeltTo(p, also, n)
  PROVE  SpeltTo(p, also, n + 1)
<1>1. PICK f, end : /\ FlattensTo(f, Spelled(p, also), n)
                    /\ f[n] \in Seq(WireChars) /\ Len(f[n]) > 0 /\ f[n][1] = "/"
                    /\ PiecedTo(f[n], p, end, n)
  BY DEF SpeltTo
<1>2. PICK g : FlattensTo(g, Spelled(p, also), n + 1) /\ g[n + 1] = f[n] \o Spelled(p, also)[n + 1]
  BY <1>1, FlattensMore
<1>3. n + 1 \in 1 .. Len(p) /\ Len(p) \in Nat /\ DOMAIN p = 1 .. Len(p)
  BY LenProperties
<1>4. p[n + 1] \in DOMAIN Code
  BY <1>3, ElementOfSeq
<1> DEFINE w == f[n]
           x == UriSpelling(p[n + 1], also)
<1>5. g[n + 1] = w \o x
  BY <1>2, <1>3 DEF Spelled
<1>6. x \in Seq(WireChars) /\ PieceAt(x, 1, Len(x), p[n + 1])
  BY <1>4, SpellingPiece
<1>7. w \in Seq(WireChars) /\ Len(w) > 0 /\ w[1] = "/" /\ PiecedTo(w, p, end, n)
  BY <1>1
<1> HIDE DEF w, x
<1>8. PICK more : PiecedTo(w \o x, p, more, n + 1)
  BY <1>6, <1>7, PieceAppend
<1>9. w \o x \in Seq(WireChars) /\ Len(w \o x) > 0 /\ (w \o x)[1] = "/"
  BY <1>6, <1>7
<1> QED BY <1>2, <1>5, <1>8, <1>9 DEF SpeltTo

\* Whatever an editor escapes, the server reads the path again.
LEMMA SpellingRead ==
  ASSUME NEW p \in Seq(DOMAIN Code), Len(p) > 0, p[1] = "/", NEW also \in SUBSET (PathChars \ {"/"}),
         NEW w, w = FlattenSeq(Spelled(p, also))
  PROVE  w \in Seq(WireChars) /\ Len(w) > 0 /\ w[1] = "/" /\ decode(w) = p
<1>1. PICK N \in Nat : Len(p) = N /\ DOMAIN p = 1 .. N
  BY LenProperties
<1> DEFINE T == {n \in 1 .. N : ~ SpeltTo(p, also, n)}
<1>2. ASSUME T # {} PROVE FALSE
  <2>1. T \in SUBSET Nat
    OBVIOUS
  <2>2. PICK n \in T : \A k \in T : n <= k
    BY <1>2, <2>1, Least
  <2>3. n \in 1 .. N /\ ~ SpeltTo(p, also, n)
    OBVIOUS
  <2>4. CASE n = 1
    BY <2>3, <2>4, SpeltFirst
  <2>5. CASE n # 1
    <3> DEFINE m == n - 1
    <3>1. m \in 1 .. N /\ ~ (n <= m) /\ m \in Nat \ {0} /\ m + 1 <= N /\ n = m + 1
      BY <2>3, <2>5
    <3> HIDE DEF m
    <3>2. SpeltTo(p, also, m)
      BY <2>2, <3>1
    <3> QED BY <1>1, <2>3, <3>1, <3>2, SpeltNext
  <2> QED BY <2>4, <2>5
<1> HIDE DEF T
<1>3. SpeltTo(p, also, N)
  <2>1. N \in 1 .. N
    BY <1>1
  <2> QED BY <1>2, <2>1 DEF T
<1>4. PICK f, end : /\ FlattensTo(f, Spelled(p, also), N)
                    /\ f[N] \in Seq(WireChars) /\ Len(f[N]) > 0 /\ f[N][1] = "/"
                    /\ PiecedTo(f[N], p, end, N)
  BY <1>3 DEF SpeltTo
<1>5. Len(Spelled(p, also)) = N
  BY <1>1 DEF Spelled
<1>6. Flattens(f, Spelled(p, also))
  BY <1>4, <1>5 DEF Flattens, FlattensTo
<1>7. w = f[N]
  BY <1>1, <1>5, <1>6, FlattenIs
<1>8. Pieced(w, p, end) /\ Len(w) \in Nat
  BY <1>1, <1>4, <1>7, LenProperties DEF Pieced
<1>9. decode(w) = p
  BY <1>8, DecodePieces
<1> QED BY <1>4, <1>7, <1>9

-----------------------------------------------------------------------------
(* parse.                                                                   *)

Prefix == <<"file", ":", "/", "/">>

\* Until finds the first character of D.
LEMMA UntilIs ==
  ASSUME NEW s, Len(s) \in Nat, NEW i \in Nat, NEW D, NEW m \in i .. Len(s) + 1,
         \A k \in i .. m - 1 : s[k] \notin D, m = Len(s) + 1 \/ s[m] \in D
  PROVE  Until(s, i, D) = m
<1> DEFINE T == {Len(s) + 1} \cup {k \in i .. Len(s) : s[k] \in D}
<1>1. m \in T
  OBVIOUS
<1>2. ASSUME NEW k \in T PROVE m <= k
  <2>1. CASE k = Len(s) + 1
    BY <2>1
  <2>2. CASE k \in i .. Len(s) /\ s[k] \in D
    <3> SUFFICES ASSUME ~ (m <= k) PROVE FALSE
      OBVIOUS
    <3>1. k \in i .. m - 1
      BY <2>2
    <3> QED BY <2>2, <3>1
  <2> QED BY <2>1, <2>2
<1>3. T \subseteq Nat
  OBVIOUS
<1>4. Until(s, i, D) = Min(T)
  BY DEF Until
<1> HIDE DEF T
<1>5. \A x \in T : (\A y \in T : x <= y) => x = m
  BY <1>1, <1>2, <1>3
<1> QED BY <1>1, <1>2, <1>4, <1>5 DEF Min

\* What follows the prefix is the path, decoded, if it begins with a slash and has
\* neither a query nor a fragment.
LEMMA ParseFile ==
  ASSUME NEW S, NEW w \in Seq(S), Len(w) > 0, w[1] = "/",
         \A k \in 1 .. Len(w) : w[k] # "?" /\ w[k] # "#"
  PROVE  parse(Prefix \o w) = fromFile(decode(w))
<1> DEFINE R == S \cup {"file", ":", "/"}
<1>n. PICK n \in Nat : n = Len(w)
  BY LenProperties
<1>s. PICK s : s = Prefix \o w
  OBVIOUS
<1>0. n = Len(w) /\ s = Prefix \o w
  BY <1>n, <1>s
<1>1. /\ Prefix \in Seq(R) /\ Len(Prefix) = 4 /\ Prefix[1] = "file" /\ Prefix[2] = ":"
      /\ Prefix[3] = "/" /\ Prefix[4] = "/"
  BY DEF Prefix
<1>2. w \in Seq(R) /\ n > 0
  BY <1>0
<1> HIDE DEF R
<1>3. /\ s \in Seq(R) /\ Len(s) = 4 + n
      /\ \A k \in 1 .. 4 + n : s[k] = IF k <= 4 THEN Prefix[k] ELSE w[k - 4]
  <2>1. Prefix \in Seq(R) /\ w \in Seq(R)
    BY <1>1, <1>2
  <2>2. /\ Prefix \o w \in Seq(R) /\ Len(Prefix \o w) = Len(Prefix) + Len(w)
        /\ \A k \in 1 .. Len(Prefix) + Len(w) :
             (Prefix \o w)[k] = IF k <= Len(Prefix) THEN Prefix[k] ELSE w[k - Len(Prefix)]
    BY <2>1, ConcatProperties, Zenon
  <2>3. Len(Prefix) = 4 /\ Len(w) = n /\ Prefix \o w = s
    BY <1>0, <1>1
  <2> QED BY <2>2, <2>3, Zenon
<1>4. SubSeq(s, 4 + 1, Len(s)) = w
  <2>1. Prefix \in Seq(R) /\ w \in Seq(R) /\ s = Prefix \o w
    BY <1>0, <1>1, <1>2
  <2>2. SubSeq(s, Len(Prefix) + 1, Len(s)) = w
    BY <2>1, Halves, SMT
  <2> QED BY <1>1, <2>2, Zenon
<1>5. s[1] = "file" /\ s[2] = ":" /\ s[3] = "/" /\ s[4] = "/" /\ s[5] = "/"
  <2>1. \A k \in 1 .. 4 : s[k] = Prefix[k]
    BY <1>2, <1>3
  <2>2. s[5] = w[1]
    BY <1>2, <1>3
  <2> QED BY <1>1, <2>1, <2>2
<1>6. \A k \in 5 .. Len(s) : s[k] \notin {"?", "#"}
  <2> SUFFICES ASSUME NEW k \in 5 .. Len(s) PROVE s[k] = w[k - 4] /\ k - 4 \in 1 .. n
    BY <1>0
  <2> QED BY <1>2, <1>3
<1>7. Until(s, 1, {":", "/", "?", "#"}) = 2
  <2>1. 2 \in 1 .. Len(s) + 1 /\ Len(s) \in Nat /\ \A k \in 1 .. 2 - 1 : k = 1
    BY <1>2, <1>3
  <2>2. \A k \in 1 .. 2 - 1 : s[k] \notin {":", "/", "?", "#"}
    BY <1>5, <2>1
  <2> QED BY <1>5, <2>1, <2>2, UntilIs
<1>8. Until(s, 5, {"/", "?", "#"}) = 5
  <2>1. 5 \in 5 .. Len(s) + 1 /\ Len(s) \in Nat /\ 5 .. 5 - 1 = {}
    BY <1>2, <1>3
  <2> DEFINE D == {"/", "?", "#"}
  <2>2. s[5] \in D /\ 5 \in Nat /\ \A k \in 5 .. 5 - 1 : s[k] \notin D
    BY <1>5, <2>1
  <2> HIDE DEF D
  <2>3. Until(s, 5, D) = 5
    BY <2>1, <2>2, UntilIs
  <2> QED BY <2>3 DEF D
<1>9. Until(s, 5, {"?", "#"}) = Len(s) + 1
  <2>1. Len(s) + 1 \in 5 .. Len(s) + 1 /\ Len(s) \in Nat /\ Len(s) + 1 - 1 = Len(s)
    BY <1>2, <1>3
  <2> DEFINE D == {"?", "#"}
             m == Len(s) + 1
  <2>2. \A k \in 5 .. m - 1 : s[k] \notin D
    BY <1>6, <2>1
  <2>3. m \in 5 .. Len(s) + 1 /\ m = Len(s) + 1
    BY <2>1
  <2> HIDE DEF D, m
  <2>4. Until(s, 5, D) = m
    BY <2>1, <2>2, <2>3, UntilIs
  <2> QED BY <2>4 DEF D, m
<1>10. Until(s, Len(s) + 1, {"#"}) = Len(s) + 1
  <2> DEFINE i == Len(s) + 1
  <2>1. i \in i .. Len(s) + 1 /\ Len(s) \in Nat /\ i \in Nat /\ i .. i - 1 = {} /\ i = Len(s) + 1
    BY <1>2, <1>3
  <2> HIDE DEF i
  <2>2. Until(s, i, {"#"}) = i
    BY <2>1, UntilIs
  <2> QED BY <2>2 DEF i
<1>11. /\ SubSeq(s, 5, 4) = <<>> /\ SubSeq(s, Len(s) + 2, Len(s)) = <<>>
  <2>1. Len(s) + 2 \in Int /\ Len(s) \in Int /\ Len(s) < Len(s) + 2
    BY <1>2, <1>3
  <2> QED BY <2>1, SubSeqEmpty
<1>12. SubSeq(s, 1, 1) = <<"file">>
  <2>1. 1 \in 1 .. Len(s)
    BY <1>2, <1>3
  <2>2. 1 \in 1 .. 1 /\ SubSeq(s, 1 + 1, 1) = <<>>
    BY SubSeqEmpty
  <2>3. SubSeq(s, 1, 1) = <<s[1]>> \o SubSeq(s, 1 + 1, 1)
    BY <1>3, <2>1, SubSeqRecursiveFirst
  <2>4. <<"file">> \o <<>> = <<"file">>
    OBVIOUS
  <2> QED BY <1>5, <2>2, <2>3, <2>4
<1>13. parse(s) = init(SubSeq(s, 1, 1), decode(SubSeq(s, 5, 4)), decode(SubSeq(s, 5, Len(s))),
                       decode(SubSeq(s, Len(s) + 2, Len(s))), decode(SubSeq(s, Len(s) + 2, Len(s))))
  <2>1. /\ 2 > 1 /\ 2 <= Len(s) /\ 2 + 1 = 3 /\ 3 + 1 <= Len(s) /\ 3 + 1 = 4 /\ 3 + 2 = 5
        /\ 2 - 1 = 1 /\ 5 - 1 = 4 /\ Len(s) + 1 - 1 = Len(s) /\ Len(s) + 1 + 1 = Len(s) + 2
    BY <1>2, <1>3
  <2> DEFINE colon     == Until(s, 1, {":", "/", "?", "#"})
             hasScheme == colon > 1 /\ colon <= Len(s) /\ s[colon] = ":"
             a         == IF hasScheme THEN colon + 1 ELSE 1
             hasAuth   == a + 1 <= Len(s) /\ s[a] = "/" /\ s[a + 1] = "/"
             p         == IF hasAuth THEN Until(s, a + 2, {"/", "?", "#"}) ELSE a
             q         == Until(s, p, {"?", "#"})
             f         == Until(s, q, {"#"})
  <2>2. parse(s) = init(IF hasScheme THEN SubSeq(s, 1, colon - 1) ELSE <<>>,
                        IF hasAuth THEN decode(SubSeq(s, a + 2, p - 1)) ELSE <<>>,
                        decode(SubSeq(s, p, q - 1)),
                        decode(SubSeq(s, q + 1, f - 1)),
                        decode(SubSeq(s, f + 1, Len(s))))
    BY Zenon DEF parse
  <2>3. colon = 2
    BY <1>7
  <2> HIDE DEF colon
  <2>4. hasScheme /\ a = 3
    BY <1>5, <2>1, <2>3
  <2> HIDE DEF hasScheme, a
  <2>5. hasAuth /\ p = 5
    <3>1. hasAuth
      BY <1>5, <2>1, <2>4
    <3> HIDE DEF hasAuth
    <3> QED BY <1>8, <2>1, <2>4, <3>1
  <2> HIDE DEF hasAuth, p
  <2>6. q = Len(s) + 1
    BY <1>9, <2>5
  <2> HIDE DEF q
  <2>7. f = Len(s) + 1
    BY <1>10, <2>6
  <2> HIDE DEF f
  <2> QED BY <2>1, <2>2, <2>3, <2>4, <2>5, <2>6, <2>7
<1>14. parse(s) = init(<<"file">>, <<>>, decode(w), <<>>, <<>>)
  <2>1. 4 + 1 = 5
    OBVIOUS
  <2> QED BY <1>4, <1>11, <1>12, <1>13, <2>1, DecodeEmpty
<1> QED BY <1>0, <1>14 DEF fromFile

\* The address of a path as a string.
LEMMA FileAddress ==
  ASSUME NEW p \in Seq(DOMAIN Code), Len(p) > 0, p[1] = "/"
  PROVE  str(fromFile(p)) = Prefix \o p /\ getPath(fromFile(p)) = p
<1>1. p # <<>> /\ Head(p) = "/"
  OBVIOUS
<1> DEFINE q == <<"file">> \o <<":">> \o (<<"/", "/">> \o <<>>)
<1>2. q = Prefix
  <2> DEFINE A == {"file", ":", "/"}
             x == <<"file">>
             y == <<":">>
             z == <<"/", "/">>
  <2>1. /\ x \in Seq(A) /\ y \in Seq(A) /\ z \in Seq(A) /\ Prefix \in Seq(A)
    BY DEF Prefix
  <2>2. /\ Len(x) = 1 /\ Len(y) = 1 /\ Len(z) = 2 /\ Len(Prefix) = 4
        /\ x[1] = "file" /\ y[1] = ":" /\ z[1] = "/" /\ z[2] = "/"
        /\ Prefix[1] = "file" /\ Prefix[2] = ":" /\ Prefix[3] = "/" /\ Prefix[4] = "/"
    BY DEF Prefix
  <2>3. z \o <<>> = z
    BY <2>1, ConcatEmptySeq
  <2> DEFINE u == x \o y
  <2>4. q = u \o z
    BY <2>3
  <2> HIDE DEF A, x, y, z, q
  <2>5. /\ u \in Seq(A) /\ Len(u) = Len(x) + Len(y)
        /\ \A i \in 1 .. Len(x) + Len(y) : u[i] = IF i <= Len(x) THEN x[i] ELSE y[i - Len(x)]
    BY <2>1, ConcatProperties, Zenon
  <2> HIDE DEF u
  <2>6. Len(u) = 2 /\ u[1] = "file" /\ u[2] = ":"
    BY <2>2, <2>5
  <2>7. /\ q \in Seq(A) /\ Len(q) = Len(u) + Len(z)
        /\ \A i \in 1 .. Len(u) + Len(z) : q[i] = IF i <= Len(u) THEN u[i] ELSE z[i - Len(u)]
    <3>1. u \in Seq(A) /\ z \in Seq(A)
      BY <2>1, <2>5
    <3>2. /\ u \o z \in Seq(A) /\ Len(u \o z) = Len(u) + Len(z)
          /\ \A i \in 1 .. Len(u) + Len(z) : (u \o z)[i] = IF i <= Len(u) THEN u[i] ELSE z[i - Len(u)]
      BY <3>1, ConcatProperties, Zenon
    <3> QED BY <2>4, <3>2, Zenon
  <2>8. /\ Len(q) = 4 /\ q[1] = "file" /\ q[2] = ":" /\ q[3] = "/" /\ q[4] = "/"
    BY <2>2, <2>6, <2>7
  <2>9. \A k \in 1 .. 4 : k = 1 \/ k = 2 \/ k = 3 \/ k = 4
    OBVIOUS
  <2>10. \A k \in 1 .. Len(q) : q[k] = Prefix[k]
    BY <2>2, <2>8, <2>9
  <2> QED BY <2>1, <2>2, <2>7, <2>8, <2>10, SeqEqual
<1> HIDE DEF q
<1>3. getPath(fromFile(p)) = p
  BY <1>1, Zenon DEF fromFile, getPath, init
<1>4. <<"file">> # <<>>
  OBVIOUS
<1>5. str(fromFile(p)) = q \o p \o <<>> \o <<>>
  BY <1>1, <1>4, Zenon DEF fromFile, str, init, q
<1> DEFINE R == (DOMAIN Code) \cup {"file", ":", "/"}
<1>6. Prefix \in Seq(R) /\ p \in Seq(R)
  BY DEF Prefix
<1> HIDE DEF R
<1>7. Prefix \o p \in Seq(R)
  BY <1>6, ConcatProperties
<1>8. Prefix \o p \o <<>> = Prefix \o p
  BY <1>7, ConcatEmptySeq
<1> QED BY <1>2, <1>3, <1>5, <1>8

-----------------------------------------------------------------------------
(* One document, one address.                                               *)

\* What has been sent is a spelling of the path, what has been parsed and kept its address.
UriInv ==
  /\ path \in Seq(DOMAIN Code) /\ Len(path) > 0 /\ path[1] = "/"
  /\ wire # Nothing => \E also \in SUBSET (PathChars \ {"/"}) :
                         wire = Prefix \o FlattenSeq(Spelled(path, also))
  /\ uri # Nothing => uri = fromFile(path)
  /\ stored # Nothing => uri # Nothing /\ stored = str(fromFile(path))

\* Paths begin with a slash.
LEMMA PathsAbsolute ==
  ASSUME NEW p \in {<<"/">> \o q : q \in UNION {[1 .. n -> PathChars] : n \in 0 .. MaxPath}}
  PROVE  p \in Seq(DOMAIN Code) /\ Len(p) > 0 /\ p[1] = "/"
<1>0. PICK n \in 0 .. MaxPath : \E q \in [1 .. n -> PathChars] : p = <<"/">> \o q
  OBVIOUS
<1>1. PICK q \in [1 .. n -> PathChars] : p = <<"/">> \o q
  BY <1>0
<1>2. n \in Nat /\ DOMAIN Code = PathChars \cup {"/"}
  BY UriAssumption
<1> DEFINE S == DOMAIN Code
           x == <<"/">>
<1>3. q \in Seq(S)
  <2>1. q \in [1 .. n -> S]
    BY <1>2
  <2> QED BY <1>2, <2>1
<1>4. x \in Seq(S) /\ Len(x) = 1 /\ x[1] = "/" /\ p = x \o q
  BY <1>1, <1>2
<1> HIDE DEF S, x
<1>5. /\ x \o q \in Seq(S) /\ Len(x \o q) = Len(x) + Len(q)
      /\ \A i \in 1 .. Len(x) + Len(q) : (x \o q)[i] = IF i <= Len(x) THEN x[i] ELSE q[i - Len(x)]
  BY <1>3, <1>4, ConcatProperties, Zenon
<1>6. Len(q) \in Nat
  BY <1>3, LenProperties
<1>7. Len(p) > 0 /\ p[1] = "/"
  BY <1>4, <1>5, <1>6
<1> QED BY <1>4, <1>5, <1>7 DEF S

\* URI(string), str, fromFile: for every name of a file, every length of it, and every
\* choice of characters the editor escapes, the address the server parses is the one it
\* makes of the path, and what it writes out is read back as the same document unless the
\* name holds a character that means something in an address.
THEOREM AddressesAgree == UriSpec => []SameDocument
<1>1. UriInit => UriInv
  <2> SUFFICES ASSUME UriInit PROVE UriInv
    OBVIOUS
  <2>1. path \in Seq(DOMAIN Code) /\ Len(path) > 0 /\ path[1] = "/"
    BY PathsAbsolute DEF UriInit
  <2> QED BY <2>1 DEF UriInit, UriInv
<1>2. UriInv /\ [UriNext]_uriVars => UriInv'
  <2> SUFFICES ASSUME UriInv, [UriNext]_uriVars PROVE UriInv'
    OBVIOUS
  <2>0. path \in Seq(DOMAIN Code) /\ Len(path) > 0 /\ path[1] = "/"
    BY DEF UriInv
  <2>1. CASE EditorSends
    <3>1. PICK also \in SUBSET (PathChars \ {"/"}) :
            wire' = <<"file", ":", "/", "/">>
                    \o FlattenSeq([i \in DOMAIN path |->
                         IF path[i] \in {"%", "?", "#"} \cup also THEN <<"%">> \o to_hex(path[i])
                         ELSE <<path[i]>>])
      BY <2>1 DEF EditorSends
    <3>2. wire' = Prefix \o FlattenSeq(Spelled(path, also))
      BY <3>1, Zenon DEF Prefix, Spelled, UriSpelling
    <3>3. path' = path /\ uri' = uri /\ stored' = stored
      BY <2>1 DEF EditorSends
    <3>4. \E x \in SUBSET (PathChars \ {"/"}) : wire' = Prefix \o FlattenSeq(Spelled(path', x))
      BY <3>2, <3>3
    <3> QED BY <3>3, <3>4 DEF UriInv
  <2>2. CASE Receives
    <3>1. /\ wire # Nothing /\ uri = Nothing
          /\ uri' = parse(wire) /\ path' = path /\ wire' = wire /\ stored' = stored
      BY <2>2 DEF Receives
    <3>2. PICK also \in SUBSET (PathChars \ {"/"}) : wire = Prefix \o FlattenSeq(Spelled(path, also))
      BY <3>1 DEF UriInv
    <3>3. PICK w : w = FlattenSeq(Spelled(path, also))
      OBVIOUS
    <3>4. w \in Seq(WireChars) /\ Len(w) > 0 /\ w[1] = "/" /\ decode(w) = path
      BY <2>0, <3>3, SpellingRead
    <3>5. \A k \in 1 .. Len(w) : w[k] # "?" /\ w[k] # "#"
      <4>1. \A k \in 1 .. Len(w) : w[k] \in WireChars
        BY <3>4, ElementOfSeq
      <4> QED BY <4>1 DEF WireChars
    <3>6. parse(Prefix \o w) = fromFile(path)
      BY <3>4, <3>5, ParseFile
    <3>7. uri' = fromFile(path)
      BY <3>1, <3>2, <3>3, <3>6
    <3> QED BY <3>1, <3>7 DEF UriInv
  <2>3. CASE Keeps
    <3>1. uri # Nothing /\ stored' = str(uri) /\ path' = path /\ wire' = wire /\ uri' = uri
      BY <2>3 DEF Keeps
    <3>2. stored' = str(fromFile(path))
      BY <3>1 DEF UriInv
    <3> QED BY <3>1, <3>2 DEF UriInv
  <2>4. CASE UNCHANGED uriVars
    BY <2>4 DEF UriInv, uriVars
  <2> QED BY <2>1, <2>2, <2>3, <2>4 DEF UriNext
<1>3. UriInv => SameDocument
  <2> SUFFICES ASSUME UriInv PROVE SameDocument
    OBVIOUS
  <2>0. path \in Seq(DOMAIN Code) /\ Len(path) > 0 /\ path[1] = "/" /\ DOMAIN path = 1 .. Len(path)
    BY LenProperties DEF UriInv
  <2>1. str(fromFile(path)) = Prefix \o path /\ getPath(fromFile(path)) = path
    BY <2>0, FileAddress
  <2>2. uri # Nothing => uri = fromFile(path) /\ getPath(uri) = path
    BY <2>1 DEF UriInv
  <2>3. ASSUME stored # Nothing, \A i \in DOMAIN path : path[i] \notin {"%", "?", "#"}
        PROVE  parse(stored) = uri
    <3>1. stored = Prefix \o path /\ uri = fromFile(path)
      BY <2>1, <2>3 DEF UriInv
    <3>2. \A k \in 1 .. Len(path) : path[k] # "%" /\ path[k] # "?" /\ path[k] # "#"
      BY <2>0, <2>3
    <3>3. decode(path) = path
      BY <2>0, <3>2, DecodePlain
    <3>4. parse(Prefix \o path) = fromFile(decode(path))
      BY <2>0, <3>2, ParseFile
    <3> QED BY <3>1, <3>3, <3>4
  <2> QED BY <2>2, <2>3 DEF SameDocument
<1> QED BY <1>1, <1>2, <1>3, PTL DEF UriSpec

-----------------------------------------------------------------------------
(* Finding a token.                                                         *)

\* What the search by place needs: the tokens one behind the other, none of them empty.
InOrder(ts) ==
  /\ \A i \in 1 .. Len(ts) : ts[i].start \in Nat /\ ts[i].end \in Nat /\ ts[i].start < ts[i].end
  /\ \A i, j \in 1 .. Len(ts) : i < j => ts[i].end <= ts[j].start

\* ts[k] is the last token that starts at or before loc.
LastBefore(ts, loc, k) ==
  /\ k \in 0 .. Len(ts)
  /\ k >= 1 => ts[k].start <= loc
  /\ \A j \in 1 .. Len(ts) : k < j => loc < ts[j].start

\* The equation that defines the search.
Searches(f, ts, loc) ==
  f = [b \in (1 .. Len(ts)) \X (2 .. Len(ts) + 1) |->
         IF b[1] + 1 >= b[2] THEN b[1]
         ELSE IF ts[Middle(b[1], b[2])].start <= loc THEN f[<<Middle(b[1], b[2]), b[2]>>]
         ELSE f[<<b[1], Middle(b[1], b[2])>>]]

LEMMA MiddleBetween ==
  ASSUME NEW low \in Nat, NEW high \in Nat, ~ (low + 1 >= high)
  PROVE  Middle(low, high) \in Nat /\ low < Middle(low, high) /\ Middle(low, high) < high
<1>1. high - low \in Nat /\ high - low >= 2
  OBVIOUS
<1>2. \A a \in Nat : a >= 2 => a \div 2 \in Nat /\ a \div 2 >= 1 /\ a \div 2 < a
  OBVIOUS
<1>3. /\ (high - low) \div 2 \in Nat /\ (high - low) \div 2 >= 1
      /\ (high - low) \div 2 < high - low
  BY <1>1, <1>2
<1>4. \A m \in Nat : m >= 1 /\ m < high - low => low + m \in Nat /\ low < low + m /\ low + m < high
  OBVIOUS
<1> QED BY <1>3, <1>4 DEF Middle

\* The place where the search of two bounds ends.
Stop(ts, loc, low, high) ==
  CHOOSE k \in low .. high - 1 :
    /\ k = low \/ ts[k].start <= loc
    /\ \A j \in k + 1 .. high - 1 : loc < ts[j].start

\* There is one place like that.
LEMMA StopIs ==
  ASSUME NEW ts, InOrder(ts), Len(ts) \in Nat, NEW loc \in Int,
         NEW low \in 1 .. Len(ts), NEW high \in 2 .. Len(ts) + 1, low < high,
         NEW k \in low .. high - 1, k = low \/ ts[k].start <= loc,
         \A j \in k + 1 .. high - 1 : loc < ts[j].start
  PROVE  Stop(ts, loc, low, high) = k
<1> DEFINE P(i) == /\ i = low \/ ts[i].start <= loc
                   /\ \A j \in i + 1 .. high - 1 : loc < ts[j].start
<1>1. ASSUME NEW i \in low .. high - 1, P(i), NEW l \in low .. high - 1, P(l), i < l PROVE FALSE
  <2>1. l \in i + 1 .. high - 1 /\ l \in 1 .. Len(ts) /\ l # low
    BY <1>1
  <2>2. ts[l].start \in Nat
    BY <2>1 DEF InOrder
  <2> QED BY <1>1, <2>1, <2>2
<1>2. P(k)
  OBVIOUS
<1> DEFINE s == CHOOSE i \in low .. high - 1 : P(i)
<1>3. s \in low .. high - 1 /\ P(s)
  BY <1>2
<1>4. s = Stop(ts, loc, low, high)
  BY DEF Stop
<1> HIDE DEF s, P
<1> QED BY <1>1, <1>2, <1>3, <1>4

\* The search is a function: its equation has a solution.
LEMMA SearchExists ==
  ASSUME NEW ts, InOrder(ts), Len(ts) \in Nat, NEW loc \in Int
  PROVE  \E f : Searches(f, ts, loc)
<1> DEFINE L == 1 .. Len(ts)
           H == 2 .. Len(ts) + 1
           f == [b \in L \X H |-> IF b[1] + 1 >= b[2] THEN b[1] ELSE Stop(ts, loc, b[1], b[2])]
<1>1. ASSUME NEW low \in L, NEW high \in H
      PROVE  f[<<low, high>>] = IF low + 1 >= high THEN low
                                ELSE IF ts[Middle(low, high)].start <= loc THEN f[<<Middle(low, high), high>>]
                                ELSE f[<<low, Middle(low, high)>>]
  <2>0. \A a \in L, b \in H : f[<<a, b>>] = IF a + 1 >= b THEN a ELSE Stop(ts, loc, a, b)
    OBVIOUS
  <2> HIDE DEF f
  <2>1. CASE low + 1 >= high
    BY <2>0, <2>1
  <2>2. CASE ~ (low + 1 >= high)
    <3> DEFINE m == Middle(low, high)
    <3>0. low \in Nat /\ high \in Nat
      OBVIOUS
    <3>a. m \in Nat /\ low < m /\ m < high
      BY <2>2, <3>0, MiddleBetween
    <3>1. m \in Nat /\ low < m /\ m < high /\ m \in L /\ m \in H
      <4> HIDE DEF m
      <4> QED BY <3>0, <3>a
    <3>2. f[<<low, high>>] = Stop(ts, loc, low, high)
      BY <2>0, <2>2
    <3> HIDE DEF m
    <3>3. CASE ts[m].start <= loc
      <4> DEFINE k == Stop(ts, loc, m, high)
                 P(i) == /\ i = m \/ ts[i].start <= loc
                         /\ \A j \in i + 1 .. high - 1 : loc < ts[j].start
      <4>1. \E i \in m .. high - 1 : P(i)
        <5> DEFINE T == {i \in 0 .. high - 1 : m <= i /\ (i = m \/ ts[i].start <= loc)}
        <5>1. m \in T /\ T \in SUBSET (0 .. high - 1) /\ high - 1 \in Nat
          BY <3>1
        <5>2. PICK i \in T : \A l \in T : l <= i
          BY <5>1, Greatest
        <5>3. ASSUME NEW j \in i + 1 .. high - 1 PROVE loc < ts[j].start
          <6>1. j \notin T /\ j \in 1 .. Len(ts) /\ j \in 0 .. high - 1 /\ m <= j
            BY <3>1, <5>2
          <6>2. ts[j].start \in Nat
            BY <6>1 DEF InOrder
          <6> QED BY <6>1, <6>2
        <5> QED BY <5>2, <5>3
      <4>2. PICK i \in m .. high - 1 : P(i)
        BY <4>1
      <4>3. Stop(ts, loc, m, high) = i
        BY <3>1, <4>2, StopIs
      <4>4. i \in low .. high - 1 /\ ts[i].start <= loc
        BY <3>1, <3>3, <4>2
      <4>5. Stop(ts, loc, low, high) = i
        BY <3>1, <4>2, <4>4, StopIs
      <4>6. f[<<m, high>>] = i
        <5>1. CASE m + 1 >= high
          <6>1. i = m
            BY <3>1, <5>1
          <6> QED BY <2>0, <3>1, <5>1, <6>1
        <5>2. CASE ~ (m + 1 >= high)
          BY <2>0, <3>1, <4>3, <5>2
        <5> QED BY <5>1, <5>2
      <4> QED BY <2>2, <3>2, <3>3, <4>5, <4>6 DEF m
    <3>4. CASE ~ (ts[m].start <= loc)
      <4> DEFINE P(i, b) == /\ i = low \/ ts[i].start <= loc
                            /\ \A j \in i + 1 .. b - 1 : loc < ts[j].start
      <4>1. \E i \in low .. m - 1 : P(i, m)
        <5> DEFINE T == {i \in 0 .. m - 1 : low <= i /\ (i = low \/ ts[i].start <= loc)}
        <5>1. low \in T /\ T \in SUBSET (0 .. m - 1) /\ m - 1 \in Nat
          BY <3>1
        <5>2. PICK i \in T : \A l \in T : l <= i
          BY <5>1, Greatest
        <5>3. ASSUME NEW j \in i + 1 .. m - 1 PROVE loc < ts[j].start
          <6>1. j \notin T /\ j \in 1 .. Len(ts) /\ j \in 0 .. m - 1 /\ low <= j
            BY <3>1, <5>2
          <6>2. ts[j].start \in Nat
            BY <6>1 DEF InOrder
          <6> QED BY <6>1, <6>2
        <5> QED BY <5>2, <5>3
      <4>2. PICK i \in low .. m - 1 : P(i, m)
        BY <4>1
      <4>3. Stop(ts, loc, low, m) = i
        BY <3>1, <4>2, StopIs
      <4>4. ASSUME NEW j \in i + 1 .. high - 1 PROVE loc < ts[j].start
        <5>1. j \in 1 .. Len(ts) /\ m \in 1 .. Len(ts) /\ ts[m].start \in Nat /\ loc < ts[m].start
          BY <3>1, <3>4 DEF InOrder
        <5>2. CASE j < m
          <6>1. j \in i + 1 .. m - 1
            BY <3>1, <5>2
          <6> QED BY <4>2, <6>1
        <5>3. CASE j = m
          BY <5>1, <5>3
        <5>4. CASE m < j
          <6>1. ts[m].end <= ts[j].start /\ ts[m].start < ts[m].end /\ ts[m].end \in Nat /\ ts[j].start \in Nat
            BY <5>1, <5>4 DEF InOrder
          <6>2. \A a \in Int, b, c, d \in Nat : a < b /\ b < c /\ c <= d => a < d
            OBVIOUS
          <6> QED BY <5>1, <6>1, <6>2, Zenon
        <5> QED BY <3>1, <5>1, <5>2, <5>3, <5>4
      <4>5. Stop(ts, loc, low, high) = i
        <5>1. i \in low .. high - 1 /\ (i = low \/ ts[i].start <= loc) /\ low < high
          BY <3>1, <4>2
        <5> QED BY <4>4, <5>1, StopIs
      <4>6. f[<<low, m>>] = i
        <5>1. CASE low + 1 >= m
          <6>1. i = low
            BY <3>1, <5>1
          <6> QED BY <2>0, <3>1, <5>1, <6>1
        <5>2. CASE ~ (low + 1 >= m)
          BY <2>0, <3>1, <4>3, <5>2
        <5> QED BY <5>1, <5>2
      <4> QED BY <2>2, <3>2, <3>4, <4>5, <4>6 DEF m
    <3> QED BY <3>3, <3>4
  <2> QED BY <2>1, <2>2
<1>2. ASSUME NEW b \in L \X H
      PROVE  f[b] = IF b[1] + 1 >= b[2] THEN b[1]
                    ELSE IF ts[Middle(b[1], b[2])].start <= loc THEN f[<<Middle(b[1], b[2]), b[2]>>]
                    ELSE f[<<b[1], Middle(b[1], b[2])>>]
  <2> HIDE DEF f
  <2>1. PICK low \in L, high \in H : b = <<low, high>>
    OBVIOUS
  <2>2. b[1] = low /\ b[2] = high
    BY <2>1
  <2> QED BY <1>1, <2>1, <2>2
<1>3. f = [b \in L \X H |-> f[b]]
  OBVIOUS
<1> HIDE DEF f
<1>4. Searches(f, ts, loc)
  BY <1>2, <1>3 DEF Searches
<1> QED BY <1>4

\* From bounds around loc, every solution ends at the last token that starts at or before it.
LEMMA SearchFinds ==
  ASSUME NEW ts, InOrder(ts), Len(ts) \in Nat, NEW loc \in Int, NEW f, Searches(f, ts, loc),
         NEW l0 \in 1 .. Len(ts), NEW h0 \in 2 .. Len(ts) + 1, l0 < h0,
         ts[l0].start <= loc, h0 = Len(ts) + 1 \/ loc < ts[h0].start
  PROVE  LastBefore(ts, loc, f[<<l0, h0>>])
<1> DEFINE L == 1 .. Len(ts)
           H == 2 .. Len(ts) + 1
           Around(low, high) == /\ low < high /\ ts[low].start <= loc
                                /\ high = Len(ts) + 1 \/ loc < ts[high].start
           T == {d \in Nat : \E low \in L, high \in H :
                   d = high - low /\ Around(low, high) /\ ~ LastBefore(ts, loc, f[<<low, high>>])}
<1>1. ASSUME T # {} PROVE FALSE
  <2>1. PICK d \in T : \A e \in T : d <= e
    BY <1>1, Least
  <2>2. PICK low \in L, high \in H :
          d = high - low /\ Around(low, high) /\ ~ LastBefore(ts, loc, f[<<low, high>>])
    OBVIOUS
  <2>3. f[<<low, high>>] = IF low + 1 >= high THEN low
                           ELSE IF ts[Middle(low, high)].start <= loc THEN f[<<Middle(low, high), high>>]
                           ELSE f[<<low, Middle(low, high)>>]
    <3>1. <<low, high>> \in (1 .. Len(ts)) \X (2 .. Len(ts) + 1)
          /\ <<low, high>>[1] = low /\ <<low, high>>[2] = high
      OBVIOUS
    <3> HIDE DEF L, H, Around, T
    <3> QED BY <3>1 DEF Searches
  <2>4. low \in Nat /\ high \in Nat /\ low \in L /\ high \in H /\ Around(low, high)
    BY <2>2
  <2>5. ASSUME NEW a \in L, NEW b \in H, Around(a, b), b - a < d PROVE LastBefore(ts, loc, f[<<a, b>>])
    <3> SUFFICES ASSUME ~ LastBefore(ts, loc, f[<<a, b>>]) PROVE FALSE
      OBVIOUS
    <3>0. b - a \in Nat
      BY <2>5
    <3>1. b - a \in T
      <4> HIDE DEF Around
      <4> QED BY <2>5, <3>0
    <3>2. b - a \in Nat /\ d \in Nat
      BY <3>1
    <3> HIDE DEF T
    <3> QED BY <2>1, <2>5, <3>1, <3>2
  <2>6. CASE low + 1 >= high
    <3>1. high = low + 1 /\ low \in 0 .. Len(ts) /\ ts[low].start <= loc
      BY <2>4, <2>6
    <3>2. ASSUME NEW j \in 1 .. Len(ts), low < j PROVE loc < ts[j].start
      <4>1. high \in 1 .. Len(ts) /\ loc < ts[high].start
        BY <2>4, <3>1, <3>2
      <4>2. ts[high].start \in Nat /\ ts[high].end \in Nat /\ ts[high].start < ts[high].end /\ ts[j].start \in Nat
        BY <3>2, <4>1 DEF InOrder
      <4>3. high # j => ts[high].end <= ts[j].start
        BY <3>1, <3>2, <4>1 DEF InOrder
      <4> QED BY <4>1, <4>2, <4>3
    <3>3. LastBefore(ts, loc, low)
      BY <3>1, <3>2 DEF LastBefore
    <3> QED BY <2>2, <2>3, <2>6, <3>3
  <2>7. CASE ~ (low + 1 >= high)
    <3> DEFINE m == Middle(low, high)
    <3>1. m \in Nat /\ low < m /\ m < high
      BY <2>4, <2>7, MiddleBetween
    <3> HIDE DEF m
    <3>2. m \in L /\ m \in H /\ high - m < d /\ m - low < d
      BY <2>2, <2>4, <3>1
    <3>3. CASE ts[m].start <= loc
      <4>1. Around(m, high)
        BY <2>4, <3>1, <3>3
      <4>2. LastBefore(ts, loc, f[<<m, high>>])
        <5> HIDE DEF Around
        <5> QED BY <2>4, <2>5, <3>2, <4>1
      <4> QED BY <2>2, <2>3, <2>7, <3>3, <4>2 DEF m
    <3>4. CASE ~ (ts[m].start <= loc)
      <4>0. ts[m].start \in Nat
        BY <3>2 DEF InOrder
      <4>1. Around(low, m)
        BY <2>4, <3>1, <3>4, <4>0
      <4>2. LastBefore(ts, loc, f[<<low, m>>])
        <5> HIDE DEF Around
        <5> QED BY <2>4, <2>5, <3>2, <4>1
      <4> QED BY <2>2, <2>3, <2>7, <3>4, <4>2 DEF m
    <3> QED BY <3>3, <3>4
  <2> QED BY <2>6, <2>7
<1>2. SUFFICES ASSUME ~ LastBefore(ts, loc, f[<<l0, h0>>]) PROVE FALSE
  OBVIOUS
<1>3. h0 - l0 \in T
  BY <1>2
<1> QED BY <1>1, <1>3

\* What tokenIndexBefore finds.
LEMMA TokenIndexIs ==
  ASSUME NEW S, NEW ts \in Seq(S), InOrder(ts), NEW loc \in Int
  PROVE  LastBefore(ts, loc, tokenIndexBefore(ts, loc))
<1>1. Len(ts) \in Nat /\ (ts = <<>> <=> Len(ts) = 0)
  BY LenProperties, EmptySeq
<1> DEFINE f == CHOOSE h : Searches(h, ts, loc)
<1>2. Searches(f, ts, loc)
  BY <1>1, SearchExists
<1>3. tokenIndexBefore(ts, loc) =
        IF ts = <<>> \/ loc < ts[1].start THEN 0 ELSE f[<<1, Len(ts) + 1>>]
  BY DEF tokenIndexBefore, Searches
<1> HIDE DEF f
<1>4. CASE ts = <<>>
  BY <1>1, <1>3, <1>4 DEF LastBefore
<1>5. CASE ts # <<>> /\ loc < ts[1].start
  <2>1. 1 \in 1 .. Len(ts)
    BY <1>1, <1>5
  <2>2. ASSUME NEW j \in 1 .. Len(ts), 0 < j PROVE loc < ts[j].start
    <3>1. ts[1].start \in Nat /\ ts[1].end \in Nat /\ ts[1].start < ts[1].end /\ ts[j].start \in Nat
      BY <2>1 DEF InOrder
    <3>2. j # 1 => ts[1].end <= ts[j].start
      BY <2>1 DEF InOrder
    <3> QED BY <1>5, <3>1, <3>2
  <2>3. LastBefore(ts, loc, 0)
    BY <1>1, <2>2 DEF LastBefore
  <2> QED BY <1>3, <1>5, <2>3
<1>6. CASE ts # <<>> /\ ~ (loc < ts[1].start)
  <2>1. 1 \in 1 .. Len(ts) /\ Len(ts) + 1 \in 2 .. Len(ts) + 1 /\ 1 < Len(ts) + 1
    BY <1>1, <1>6
  <2>2. ts[1].start <= loc
    <3>1. ts[1].start \in Nat
      BY <2>1 DEF InOrder
    <3> QED BY <1>6, <3>1
  <2>3. LastBefore(ts, loc, f[<<1, Len(ts) + 1>>])
    BY <1>1, <1>2, <2>1, <2>2, SearchFinds
  <2> QED BY <1>3, <1>6, <2>3
<1> QED BY <1>4, <1>5, <1>6

\* A token around loc is the last that starts at or before it.
LEMMA AroundIsLast ==
  ASSUME NEW ts, InOrder(ts), Len(ts) \in Nat, NEW loc \in Int, NEW k, LastBefore(ts, loc, k),
         NEW i \in 1 .. Len(ts), ts[i].start <= loc, loc < ts[i].end
  PROVE  i = k
<1>1. ts[i].start \in Nat /\ ts[i].end \in Nat
  BY DEF InOrder
<1>2. k \in Nat /\ k <= Len(ts)
  BY DEF LastBefore
<1>3. CASE k < i
  <2>1. loc < ts[i].start
    BY <1>3 DEF LastBefore
  <2> QED BY <1>1, <2>1
<1>4. CASE i < k
  <2>1. k \in 1 .. Len(ts) /\ ts[k].start <= loc
    BY <1>2, <1>4 DEF LastBefore
  <2>2. ts[i].end <= ts[k].start /\ ts[k].start \in Nat
    BY <1>4, <2>1 DEF InOrder
  <2> QED BY <1>1, <2>1, <2>2
<1> QED BY <1>2, <1>3, <1>4

\* The word at loc is the one that looking at every token would find.
LEMMA WordTokenAt ==
  ASSUME NEW S, NEW ts \in Seq(S), InOrder(ts), NEW loc \in Int
  PROVE  \/ /\ getWordTokenAt(ts, loc) = NoToken
            /\ \A i \in 1 .. Len(ts) : ~ (isIdToken(ts[i]) /\ editorContains(ts[i], loc))
         \/ /\ getWordTokenAt(ts, loc) # NoToken
            /\ \E i \in 1 .. Len(ts) : /\ isIdToken(ts[i]) /\ editorContains(ts[i], loc)
                                       /\ getWordTokenAt(ts, loc) = ts[i]
<1> DEFINE k == tokenIndexBefore(ts, loc)
           W == {i \in {k, k - 1} \cap DOMAIN ts : isIdToken(ts[i]) /\ editorContains(ts[i], loc)}
<1>1. Len(ts) \in Nat /\ DOMAIN ts = 1 .. Len(ts)
  BY LenProperties
<1>2. LastBefore(ts, loc, k)
  BY TokenIndexIs
<1>3. getWordTokenAt(ts, loc) = IF W = {} THEN NoToken ELSE ts[Max(W)]
  BY DEF getWordTokenAt
<1> HIDE DEF k
<1>4. ASSUME NEW i \in 1 .. Len(ts), isIdToken(ts[i]), editorContains(ts[i], loc)
      PROVE  i = k /\ i \in W
  <2>1. i = k
    BY <1>1, <1>2, <1>4, AroundIsLast DEF editorContains
  <2> QED BY <1>1, <1>4, <2>1
<1>5. CASE W = {}
  BY <1>3, <1>4, <1>5
<1>6. CASE W # {}
  <2>1. \A i \in W : i \in 1 .. Len(ts) /\ isIdToken(ts[i]) /\ editorContains(ts[i], loc)
    BY <1>1
  <2>2. PICK i \in W : TRUE
    BY <1>6
  <2>3. i \in 1 .. Len(ts) /\ isIdToken(ts[i]) /\ editorContains(ts[i], loc) /\ i = k
    BY <1>4, <2>1
  <2>4. W = {i} /\ i \in Int
    BY <1>4, <2>1, <2>3
  <2>5. Max(W) = i
    <3> HIDE DEF W
    <3> QED BY <2>4 DEF Max
  <2>6. getWordTokenAt(ts, loc) = ts[i]
    BY <1>3, <1>6, <2>5
  <2>7. ts[i].kind # NoToken.kind
    BY <2>3 DEF NoToken, isIdToken
  <2> QED BY <2>3, <2>6, <2>7
<1> QED BY <1>5, <1>6

\* The token before loc is the last that ends at or before it.
LEMMA TokenBefore ==
  ASSUME NEW S, NEW ts \in Seq(S), InOrder(ts), NEW loc \in Nat
  PROVE  \/ /\ getTokenBefore(ts, loc) = NoToken
            /\ \A i \in 1 .. Len(ts) : loc < ts[i].end
         \/ \E j \in 1 .. Len(ts) :
              /\ getTokenBefore(ts, loc) = ts[j] /\ ts[j].end <= loc
              /\ \A i \in 1 .. Len(ts) : j < i => loc < ts[i].end
<1> DEFINE k == tokenIndexBefore(ts, loc)
           E == {0} \cup {i \in 1 .. k : ts[i].start < loc}
           e == Max(E)
<1>1. Len(ts) \in Nat /\ DOMAIN ts = 1 .. Len(ts)
  BY LenProperties
<1>2. LastBefore(ts, loc, k)
  BY TokenIndexIs
<1>3. getTokenBefore(ts, loc) =
        TokenOrNone(ts, IF e >= 1 /\ loc < ts[e].end THEN e - 1 ELSE e)
  BY DEF getTokenBefore
<1> HIDE DEF k
<1>4. k \in Nat /\ k <= Len(ts)
  BY <1>1, <1>2 DEF LastBefore
<1>5. e \in E /\ \A i \in E : i <= e
  <2>1. E \in SUBSET (0 .. k) /\ E # {}
    BY <1>4
  <2> HIDE DEF E
  <2>2. PICK x \in E : \A i \in E : i <= x
    BY <1>4, <2>1, Greatest
  <2>3. \A i \in E : i \in Int
    BY <1>4, <2>1
  <2>4. \E y \in E : \A i \in E : y >= i
    BY <2>2, <2>3
  <2>5. e \in E /\ \A i \in E : e >= i
    BY <2>4 DEF Max
  <2> QED BY <2>3, <2>5
<1> HIDE DEF e
<1>6. e \in Nat /\ e <= k /\ (e >= 1 => e \in 1 .. Len(ts) /\ ts[e].start < loc)
  BY <1>4, <1>5
<1>7. ASSUME NEW i \in 1 .. Len(ts), e < i PROVE loc < ts[i].end
  <2>1. ts[i].start \in Nat /\ ts[i].end \in Nat /\ ts[i].start < ts[i].end
    BY DEF InOrder
  <2>2. CASE k < i
    <3>1. loc < ts[i].start
      BY <2>2, <1>2 DEF LastBefore
    <3> QED BY <2>1, <3>1
  <2>3. CASE ~ (k < i)
    <3>1. i \in 1 .. k /\ i \notin E
      BY <1>4, <1>5, <1>6, <1>7, <2>3
    <3>2. ~ (ts[i].start < loc)
      BY <3>1
    <3> QED BY <2>1, <3>2
  <2> QED BY <2>2, <2>3
<1>8. CASE e >= 1 /\ loc < ts[e].end
  <2>1. e \in 1 .. Len(ts) /\ ts[e].start < loc /\ ts[e].start \in Nat
    BY <1>6, <1>8 DEF InOrder
  <2>2. ASSUME NEW i \in 1 .. Len(ts), e - 1 < i PROVE loc < ts[i].end
    BY <1>6, <1>7, <1>8, <2>2
  <2>3. CASE e = 1
    BY <1>3, <1>8, <2>2, <2>3 DEF TokenOrNone
  <2>4. CASE e # 1
    <3>1. e - 1 \in 1 .. Len(ts) /\ e - 1 < e /\ e - 1 >= 1
      BY <1>6, <2>1, <2>4
    <3>2. ts[e - 1].end <= ts[e].start /\ ts[e - 1].end \in Nat
      BY <2>1, <3>1 DEF InOrder
    <3>3. getTokenBefore(ts, loc) = ts[e - 1]
      BY <1>3, <1>8, <3>1 DEF TokenOrNone
    <3>4. ts[e - 1].end <= loc
      BY <2>1, <3>2
    <3> QED BY <2>2, <3>1, <3>3, <3>4
  <2> QED BY <2>3, <2>4
<1>9. CASE ~ (e >= 1 /\ loc < ts[e].end)
  <2>1. getTokenBefore(ts, loc) = TokenOrNone(ts, e)
    BY <1>3, <1>9
  <2>2. CASE e = 0
    BY <1>7, <2>1, <2>2 DEF TokenOrNone
  <2>3. CASE e # 0
    <3>1. e \in 1 .. Len(ts) /\ e >= 1 /\ ts[e].end \in Nat
      BY <1>6, <2>3 DEF InOrder
    <3>2. ts[e].end <= loc
      BY <1>9, <3>1
    <3> QED BY <1>7, <2>1, <3>1, <3>2 DEF TokenOrNone
  <2> QED BY <2>2, <2>3
<1> QED BY <1>8, <1>9

-----------------------------------------------------------------------------
(* The line and its tokens.                                                 *)

\* Induction up to n.
LEMMA UpTo ==
  ASSUME NEW n \in Nat, NEW T, 0 \in T, \A i \in 1 .. n : i - 1 \in T => i \in T
  PROVE  \A i \in 0 .. n : i \in T
<1> DEFINE U == {i \in 0 .. n : i \notin T}
<1>1. ASSUME U # {} PROVE FALSE
  <2>1. U \in SUBSET Nat
    OBVIOUS
  <2>2. PICK i \in U : \A j \in U : i <= j
    BY <1>1, <2>1, Least
  <2>3. i \in 1 .. n /\ i \notin T
    OBVIOUS
  <2>4. i - 1 \in 0 .. n /\ i - 1 \notin T
    BY <2>3
  <2>5. i - 1 \in U
    BY <2>4
  <2> QED BY <2>2, <2>3, <2>5
<1> QED BY <1>1

\* What is defined from place to place up to n has a value at each.
Recurs(r, a, step, n) == r[0] = a /\ \A i \in 1 .. n : r[i] = step[i][r[i - 1]]

LEMMA Recursion ==
  ASSUME NEW n \in Nat, NEW D, NEW a \in D, NEW step \in [1 .. n -> [D -> D]]
  PROVE  \E r \in [0 .. n -> D] : Recurs(r, a, step, n)
<1> DEFINE T == {m \in 0 .. n : \E r \in [0 .. m -> D] :
                                  r[0] = a /\ \A i \in 1 .. m : r[i] = step[i][r[i - 1]]}
<1>1. 0 \in T
  <2> DEFINE r == [i \in 0 .. 0 |-> a]
  <2>1. r \in [0 .. 0 -> D] /\ r[0] = a /\ 0 \in 0 .. n /\ \A i \in 1 .. 0 : FALSE
    OBVIOUS
  <2> HIDE DEF r
  <2>2. \A i \in 1 .. 0 : r[i] = step[i][r[i - 1]]
    BY <2>1
  <2> QED BY <2>1, <2>2
<1>2. ASSUME NEW m \in 1 .. n, m - 1 \in T PROVE m \in T
  <2>1. PICK q \in [0 .. m - 1 -> D] : q[0] = a /\ \A i \in 1 .. m - 1 : q[i] = step[i][q[i - 1]]
    BY <1>2
  <2>2. m - 1 \in 0 .. m - 1 /\ q[m - 1] \in D /\ step[m] \in [D -> D] /\ step[m][q[m - 1]] \in D
    OBVIOUS
  <2> DEFINE x == step[m][q[m - 1]]
             r == [i \in 0 .. m |-> IF i = m THEN x ELSE q[i]]
  <2> HIDE DEF x
  <2>3. r \in [0 .. m -> D] /\ r[m] = x /\ r[0] = q[0] /\ \A i \in 0 .. m - 1 : r[i] = q[i]
    BY <2>2 DEF x
  <2> HIDE DEF r
  <2>4. ASSUME NEW i \in 1 .. m PROVE r[i] = step[i][r[i - 1]]
    <3>1. CASE i = m
      <4>1. r[m - 1] = q[m - 1]
        BY <2>3
      <4> QED BY <2>3, <3>1, <4>1 DEF x
    <3>2. CASE i # m
      <4>1. i \in 1 .. m - 1 /\ i \in 0 .. m - 1 /\ i - 1 \in 0 .. m - 1
        BY <3>2
      <4> QED BY <2>1, <2>3, <4>1
    <3> QED BY <3>1, <3>2
  <2> QED BY <2>1, <2>3, <2>4
<1> HIDE DEF T
<1>3. \A i \in 0 .. n : i \in T
  BY <1>1, <1>2, UpTo
<1>4. n \in T
  BY <1>3
<1> QED BY <1>4 DEF T, Recurs

\* The pieces put together one by one.
Joins(r, seqs, n) == r[0] = <<>> /\ \A i \in 1 .. n : r[i] = r[i - 1] \o seqs[i]

LEMMA JoinExists ==
  ASSUME NEW S, NEW n \in Nat, NEW seqs, \A i \in 1 .. n : seqs[i] \in Seq(S)
  PROVE  \E r \in [0 .. n -> Seq(S)] : Joins(r, seqs, n)
<1> DEFINE D == Seq(S)
           step == [i \in 1 .. n |-> [s \in D |-> s \o seqs[i]]]
<1>1. <<>> \in D /\ \A i \in 1 .. n : \A s \in D : s \o seqs[i] \in D
  BY EmptySeq, ConcatProperties
<1> HIDE DEF D
<1>2. step \in [1 .. n -> [D -> D]]
  BY <1>1
<1>3. \A i \in 1 .. n : \A s \in D : step[i][s] = s \o seqs[i]
  OBVIOUS
<1> HIDE DEF step
<1>4. PICK a \in D : a = <<>>
  BY <1>1
<1>a. PICK r \in [0 .. n -> D] : Recurs(r, a, step, n)
  BY <1>2, Recursion
<1>5. \A i \in 1 .. n : r[i - 1] \in D
  OBVIOUS
<1>6. Joins(r, seqs, n)
  BY <1>3, <1>4, <1>5, <1>a DEF Joins, Recurs
<1> QED BY <1>6 DEF D

\* FlattenSeq puts the pieces together.
LEMMA FlattenJoins ==
  ASSUME NEW S, NEW n \in Nat, NEW seqs, DOMAIN seqs = 1 .. n, seqs = [i \in 1 .. n |-> seqs[i]],
         \A i \in 1 .. n : seqs[i] \in Seq(S),
         NEW r \in [0 .. n -> Seq(S)], Joins(r, seqs, n)
  PROVE  FlattenSeq(seqs) = r[n]
<1>1. seqs \in Seq(Seq(S)) /\ Len(seqs) = n
  OBVIOUS
<1>2. CASE n = 0
  <2>1. seqs = <<>>
    BY <1>1, <1>2, EmptySeq
  <2> QED BY <1>1, <1>2, <2>1 DEF FlattenSeq, Joins
<1>3. CASE n # 0
  <2> DEFINE f == [i \in 1 .. n |-> r[i]]
  <2>1. \A i \in 1 .. n : f[i] = r[i]
    OBVIOUS
  <2>2. f = [i \in 1 .. n |-> f[i]]
    OBVIOUS
  <2> HIDE DEF f
  <2>3. ASSUME NEW i \in 1 .. n PROVE f[i] = IF i = 1 THEN seqs[i] ELSE f[i - 1] \o seqs[i]
    <3>1. r[i] = r[i - 1] \o seqs[i]
      BY DEF Joins
    <3>2. CASE i = 1
      <4>1. r[i - 1] = <<>>
        BY <3>2 DEF Joins
      <4>2. <<>> \o seqs[i] = seqs[i]
        BY ConcatEmptySeq
      <4> QED BY <2>1, <3>1, <3>2, <4>1, <4>2
    <3>3. CASE i # 1
      <4>1. i - 1 \in 1 .. n
        BY <3>3
      <4> QED BY <2>1, <3>1, <3>3, <4>1
    <3> QED BY <3>2, <3>3
  <2>4. Flattens(f, seqs)
    BY <1>1, <2>2, <2>3 DEF Flattens
  <2>5. FlattenSeq(seqs) = f[n]
    BY <1>1, <1>3, <2>4, FlattenIs
  <2> QED BY <1>3, <2>1, <2>5
<1> QED BY <1>2, <1>3

SourceToken == [kind : STRING, text : Seq(STRING) \ {<<>>}, gap : Seq(STRING)]
PlacedToken == [kind : STRING, text : Seq(STRING) \ {<<>>}, gap : Seq(STRING), start : Nat, end : Nat]

\* e says where each token ends: behind its gap and its text.
Ends(e, ts) ==
  /\ e \in [0 .. Len(ts) -> Nat] /\ e[0] = 0
  /\ \A i \in 1 .. Len(ts) : /\ e[i] = e[i - 1] + Len(ts[i].gap) + Len(ts[i].text)
                             /\ ts[i].start = e[i - 1] + Len(ts[i].gap) /\ ts[i].end = e[i]

EndsOf(e, l) ==
  e = [i \in 0 .. Len(l) |-> IF i = 0 THEN 0 ELSE e[i - 1] + Len(l[i].gap) + Len(l[i].text)]

LEMMA EndsExist ==
  ASSUME NEW l \in Seq(SourceToken)
  PROVE  \E e : EndsOf(e, l)
<1> DEFINE n == Len(l)
           w(i) == Len(l[i].gap) + Len(l[i].text)
           step == [i \in 1 .. n |-> [x \in Nat |-> x + w(i)]]
<1>1. n \in Nat /\ \A i \in 1 .. n : l[i] \in SourceToken
  BY LenProperties, ElementOfSeq
<1>2. \A i \in 1 .. n : Len(l[i].gap) \in Nat /\ Len(l[i].text) \in Nat
  <2> SUFFICES ASSUME NEW i \in 1 .. n PROVE Len(l[i].gap) \in Nat /\ Len(l[i].text) \in Nat
    OBVIOUS
  <2>1. l[i].gap \in Seq(STRING) /\ l[i].text \in Seq(STRING)
    BY <1>1 DEF SourceToken
  <2> QED BY <2>1, LenProperties
<1> HIDE DEF n
<1>3. ASSUME NEW i \in 1 .. n
      PROVE  w(i) \in Nat /\ \A x \in Nat : x + w(i) = x + Len(l[i].gap) + Len(l[i].text)
  <2>1. \A a, b \in Nat : a + b \in Nat /\ \A x \in Nat : x + (a + b) = x + a + b
    OBVIOUS
  <2>2. PICK a \in Nat, b \in Nat : a = Len(l[i].gap) /\ b = Len(l[i].text)
    BY <1>2
  <2> QED BY <2>1, <2>2
<1> HIDE DEF w
<1>5. step \in [1 .. n -> [Nat -> Nat]] /\ \A i \in 1 .. n : \A x \in Nat : step[i][x] = x + w(i)
  <2>1. \A i \in 1 .. n : w(i) \in Nat
    BY <1>3
  <2> QED BY <2>1
<1> HIDE DEF step
<1>6. PICK z \in Nat : z = 0
  OBVIOUS
<1>7. PICK e \in [0 .. n -> Nat] : Recurs(e, z, step, n)
  BY <1>1, <1>5, Recursion
<1>8. ASSUME NEW i \in 0 .. n
      PROVE  e[i] = IF i = 0 THEN 0 ELSE e[i - 1] + Len(l[i].gap) + Len(l[i].text)
  <2>1. CASE i = 0
    BY <1>6, <1>7, <2>1 DEF Recurs
  <2>2. CASE i # 0
    <3>1. i \in 1 .. n /\ i - 1 \in 0 .. n /\ e[i - 1] \in Nat
      BY <2>2, <1>1
    <3>2. e[i] = step[i][e[i - 1]]
      BY <1>7, <3>1 DEF Recurs
    <3> QED BY <1>3, <1>5, <2>2, <3>1, <3>2
  <2> QED BY <2>1, <2>2
<1>9. e = [i \in 0 .. n |-> e[i]]
  OBVIOUS
<1>10. EndsOf(e, l)
  BY <1>8, <1>9 DEF EndsOf, n
<1> QED BY <1>10

\* What Place makes of a line.
LEMMA PlaceIs ==
  ASSUME NEW l \in Seq(SourceToken), NEW ts, ts = Place(l)
  PROVE  /\ ts \in Seq(PlacedToken) /\ Len(ts) = Len(l)
         /\ \A i \in 1 .. Len(l) : ts[i].kind = l[i].kind /\ ts[i].text = l[i].text
         /\ \E e : Ends(e, ts)
<1> DEFINE n == Len(l)
           e == CHOOSE x : EndsOf(x, l)
<1>1. n \in Nat /\ DOMAIN l = 1 .. n /\ \A i \in 1 .. n : l[i] \in SourceToken
  BY LenProperties, ElementOfSeq
<1>2. EndsOf(e, l)
  BY EndsExist
<1>3. ts = [i \in 1 .. n |-> [kind |-> l[i].kind, text |-> l[i].text, gap |-> l[i].gap,
                              start |-> e[i] - Len(l[i].text), end |-> e[i]]]
  BY <1>1 DEF Place, EndsOf
<1> HIDE DEF e, n
<1>4. ASSUME NEW i \in 1 .. n
      PROVE  l[i].gap \in Seq(STRING) /\ l[i].text \in Seq(STRING)
             /\ Len(l[i].gap) \in Nat /\ Len(l[i].text) \in Nat
  <2>1. l[i].gap \in Seq(STRING) /\ l[i].text \in Seq(STRING)
    BY <1>1 DEF SourceToken
  <2> QED BY <2>1, LenProperties
<1>5. /\ e = [i \in 0 .. n |-> e[i]] /\ e[0] = 0
      /\ \A i \in 1 .. n : e[i] = e[i - 1] + Len(l[i].gap) + Len(l[i].text)
  <2>1. \A i \in 0 .. n : e[i] = IF i = 0 THEN 0 ELSE e[i - 1] + Len(l[i].gap) + Len(l[i].text)
    BY <1>2 DEF EndsOf, n
  <2>2. e = [i \in 0 .. n |-> e[i]]
    BY <1>2 DEF EndsOf, n
  <2> QED BY <1>1, <2>1, <2>2
<1>6. \A i \in 0 .. n : e[i] \in Nat
  <2> DEFINE T == {i \in 0 .. n : e[i] \in Nat}
  <2>1. 0 \in T
    BY <1>1, <1>5
  <2>2. ASSUME NEW i \in 1 .. n, i - 1 \in T PROVE i \in T
    <3>1. \A a, b, c \in Nat : a + b + c \in Nat
      OBVIOUS
    <3>2. e[i] = e[i - 1] + Len(l[i].gap) + Len(l[i].text) /\ e[i - 1] \in Nat
      BY <1>5, <2>2
    <3>3. e[i] \in Nat
      BY <1>4, <3>1, <3>2
    <3> QED BY <1>1, <3>3
  <2>3. \A i \in 0 .. n : i \in T
    <3> HIDE DEF T
    <3> QED BY <1>1, <2>1, <2>2, UpTo
  <2> QED BY <2>3
<1>7. ASSUME NEW i \in 1 .. n
      PROVE  /\ ts[i] \in PlacedToken
             /\ ts[i].kind = l[i].kind /\ ts[i].text = l[i].text /\ ts[i].gap = l[i].gap
             /\ ts[i].start = e[i - 1] + Len(ts[i].gap) /\ ts[i].end = e[i]
  <2>1. e[i] \in Nat /\ e[i - 1] \in Nat /\ e[i] - Len(l[i].text) = e[i - 1] + Len(l[i].gap)
    <3>1. i \in 0 .. n /\ i - 1 \in 0 .. n /\ e[i] \in Nat /\ e[i - 1] \in Nat
      BY <1>1, <1>6
    <3>2. \A a, b, c, x \in Nat : x = a + b + c => x - c = a + b
      OBVIOUS
    <3>3. e[i] = e[i - 1] + Len(l[i].gap) + Len(l[i].text)
      BY <1>5
    <3>4. e[i] - Len(l[i].text) = e[i - 1] + Len(l[i].gap)
      BY <1>4, <3>1, <3>2, <3>3
    <3> QED BY <3>1, <3>4
  <2>2. e[i - 1] + Len(l[i].gap) \in Nat
    BY <1>4, <2>1
  <2>3. ts[i] = [kind |-> l[i].kind, text |-> l[i].text, gap |-> l[i].gap,
                 start |-> e[i - 1] + Len(l[i].gap), end |-> e[i]]
    BY <1>3, <2>1
  <2>4. /\ ts[i].kind = l[i].kind /\ ts[i].text = l[i].text /\ ts[i].gap = l[i].gap
        /\ ts[i].start = e[i - 1] + Len(l[i].gap) /\ ts[i].end = e[i]
    BY <2>3
  <2>5. l[i].kind \in STRING /\ l[i].text \in Seq(STRING) \ {<<>>} /\ l[i].gap \in Seq(STRING)
    BY <1>1 DEF SourceToken
  <2>6. ts[i] \in PlacedToken
    BY <2>1, <2>2, <2>3, <2>5 DEF PlacedToken
  <2> QED BY <2>4, <2>6
<1>8. ts \in Seq(PlacedToken) /\ Len(ts) = n
  <2>1. ts = [i \in 1 .. n |-> ts[i]]
    BY <1>3
  <2> QED BY <1>1, <1>7, <2>1
<1>9. Ends(e, ts)
  <2>1. e \in [0 .. Len(ts) -> Nat]
    BY <1>5, <1>6, <1>8
  <2> QED BY <1>5, <1>7, <1>8, <2>1 DEF Ends
<1> QED BY <1>7, <1>8, <1>9 DEF n

\* The tokens of a line are in order.
LEMMA PlacedInOrder ==
  ASSUME NEW ts \in Seq(PlacedToken), NEW e, Ends(e, ts)
  PROVE  InOrder(ts)
<1>1. Len(ts) \in Nat /\ \A i \in 1 .. Len(ts) : ts[i] \in PlacedToken
  BY LenProperties, ElementOfSeq
<1>2. ASSUME NEW i \in 1 .. Len(ts)
      PROVE  /\ Len(ts[i].gap) \in Nat /\ Len(ts[i].text) \in Nat \ {0}
             /\ ts[i].start \in Nat /\ ts[i].end \in Nat
  <2>1. /\ ts[i].gap \in Seq(STRING) /\ ts[i].text \in Seq(STRING) /\ ts[i].text # <<>>
        /\ ts[i].start \in Nat /\ ts[i].end \in Nat
    BY <1>1 DEF PlacedToken
  <2> QED BY <2>1, LenProperties, EmptySeq
<1>3. /\ e[0] = 0 /\ \A i \in 0 .. Len(ts) : e[i] \in Nat
      /\ \A i \in 1 .. Len(ts) : /\ e[i] = e[i - 1] + Len(ts[i].gap) + Len(ts[i].text)
                                 /\ ts[i].start = e[i - 1] + Len(ts[i].gap) /\ ts[i].end = e[i]
  BY DEF Ends
<1>4. ASSUME NEW i \in 1 .. Len(ts) PROVE ts[i].start < ts[i].end
  <2>1. i - 1 \in 0 .. Len(ts) /\ e[i - 1] \in Nat
    BY <1>1, <1>3
  <2>2. \A a, g, t \in Nat : t # 0 => a + g < a + g + t
    OBVIOUS
  <2>3. /\ ts[i].start = e[i - 1] + Len(ts[i].gap)
        /\ ts[i].end = e[i - 1] + Len(ts[i].gap) + Len(ts[i].text)
    BY <1>3
  <2>4. Len(ts[i].gap) \in Nat /\ Len(ts[i].text) \in Nat /\ Len(ts[i].text) # 0
    BY <1>2
  <2> QED BY <2>1, <2>2, <2>3, <2>4, Zenon
<1>5. ASSUME NEW i \in 1 .. Len(ts), NEW j \in 1 .. Len(ts), i < j PROVE ts[i].end <= ts[j].start
  <2> DEFINE T == {m \in 0 .. Len(ts) : i <= m => e[i] <= e[m]}
  <2>0. e[i] \in Nat
    BY <1>1, <1>3
  <2>1. 0 \in T
    BY <1>1
  <2>2. ASSUME NEW m \in 1 .. Len(ts), m - 1 \in T PROVE m \in T
    <3>1. m \in 0 .. Len(ts) /\ m - 1 \in 0 .. Len(ts)
      BY <1>1
    <3>2. CASE i <= m - 1
      <4>1. e[i] <= e[m - 1]
        BY <2>2, <3>2
      <4>2. \A a, b, g, t \in Nat : a <= b => a <= b + g + t
        OBVIOUS
      <4>3. e[i] <= e[m]
        <5>1. e[m] = e[m - 1] + Len(ts[m].gap) + Len(ts[m].text) /\ e[m - 1] \in Nat
          BY <1>3, <3>1
        <5>2. e[i] <= e[m - 1] + Len(ts[m].gap) + Len(ts[m].text)
          BY <1>2, <2>0, <4>1, <4>2, <5>1
        <5> QED BY <5>1, <5>2
      <4> QED BY <3>1, <4>3
    <3>3. CASE ~ (i <= m - 1)
      BY <2>0, <3>1, <3>3
    <3> QED BY <3>2, <3>3
  <2>3. \A m \in 0 .. Len(ts) : m \in T
    <3> HIDE DEF T
    <3> QED BY <1>1, <2>1, <2>2, UpTo
  <2>4. j - 1 \in 0 .. Len(ts) /\ i <= j - 1
    BY <1>1, <1>5
  <2>5. e[i] <= e[j - 1] /\ e[j - 1] \in Nat
    BY <1>3, <2>3, <2>4
  <2>6. \A a, b, g \in Nat : a <= b => a <= b + g
    OBVIOUS
  <2> QED BY <1>2, <1>3, <2>0, <2>5, <2>6
<1> QED BY <1>2, <1>4, <1>5 DEF InOrder

\* The tokens with another text in place of the i-th.
LEMMA Retexted ==
  ASSUME NEW ts \in Seq(PlacedToken), NEW i \in 1 .. Len(ts), NEW I,
         NEW us, us = [ts EXCEPT ![i].text = I]
  PROVE  /\ DOMAIN us = 1 .. Len(ts) /\ us[i].gap = ts[i].gap /\ us[i].text = I
         /\ \A j \in 1 .. Len(ts) : j # i => us[j] = ts[j]
<1>1. DOMAIN ts = 1 .. Len(ts) /\ Len(ts) \in Nat /\ ts[i] \in PlacedToken
  BY LenProperties, ElementOfSeq
<1> DEFINE y == [ts[i] EXCEPT !.text = I]
<1>2. us = [ts EXCEPT ![i] = y]
  OBVIOUS
<1> HIDE DEF y
<1>3. DOMAIN us = 1 .. Len(ts) /\ us[i] = y /\ \A j \in 1 .. Len(ts) : j # i => us[j] = ts[j]
  BY <1>1, <1>2
<1>4. PICK k \in STRING, t \in Seq(STRING), g \in Seq(STRING), s \in Nat, d \in Nat :
        ts[i] = [kind |-> k, text |-> t, gap |-> g, start |-> s, end |-> d]
  BY <1>1 DEF PlacedToken
<1>5. y = [kind |-> k, text |-> I, gap |-> g, start |-> s, end |-> d]
  BY <1>4 DEF y
<1>6. y.gap = ts[i].gap /\ y.text = I
  BY <1>4, <1>5
<1> QED BY <1>3, <1>6

\* c and d go on alike from a and b.
GoOn(S, a, c, b, d) == \E R \in Seq(S) : c = a \o R /\ d = b \o R

LEMMA GoOnMore ==
  ASSUME NEW S, NEW a \in Seq(S), NEW b \in Seq(S), NEW c, NEW d, GoOn(S, a, c, b, d),
         NEW x \in Seq(S)
  PROVE  GoOn(S, a, c \o x, b, d \o x)
<1>1. PICK R \in Seq(S) : c = a \o R /\ d = b \o R
  BY DEF GoOn
<1>2. R \o x \in Seq(S)
  BY ConcatProperties
<1>3. (a \o R) \o x = a \o (R \o x)
  BY ConcatAssociative
<1>4. (b \o R) \o x = b \o (R \o x)
  BY ConcatAssociative
<1> QED BY <1>1, <1>2, <1>3, <1>4 DEF GoOn

\* Where the pieces but one are the same, so is what they make up to it, and behind it.
LEMMA JoinsApart ==
  ASSUME NEW S, NEW n \in Nat, NEW i \in 1 .. n, NEW x, NEW y,
         \A j \in 1 .. n : x[j] \in Seq(S) /\ y[j] \in Seq(S) /\ (j # i => x[j] = y[j]),
         NEW r \in [0 .. n -> Seq(S)], NEW q \in [0 .. n -> Seq(S)], Joins(r, x, n), Joins(q, y, n)
  PROVE  /\ q[i - 1] = r[i - 1]
         /\ GoOn(S, r[i], r[n], q[i], q[n])
<1>1. /\ r[0] = <<>> /\ q[0] = <<>>
      /\ \A j \in 1 .. n : r[j] = r[j - 1] \o x[j] /\ q[j] = q[j - 1] \o y[j]
  BY DEF Joins
<1> DEFINE P(j) == IF j < i THEN q[j] = r[j] ELSE GoOn(S, r[i], r[j], q[i], q[j])
           T == {j \in 0 .. n : P(j)}
<1>2. 0 \in T
  <2>1. P(0)
    BY <1>1
  <2> HIDE DEF P
  <2> QED BY <2>1
<1>3. ASSUME NEW j \in 1 .. n, j - 1 \in T PROVE j \in T
  <2>0. j \in 0 .. n /\ i \in 0 .. n /\ r[i] \in Seq(S) /\ q[i] \in Seq(S) /\ P(j - 1)
    <3>1. j \in 0 .. n /\ i \in 0 .. n
      OBVIOUS
    <3> HIDE DEF P
    <3> QED BY <1>3, <3>1
  <2>1. ASSUME j < i PROVE P(j)
    <3>1. q[j - 1] = r[j - 1] /\ x[j] = y[j]
      BY <2>0, <2>1
    <3>2. q[j] = r[j]
      BY <1>1, <3>1
    <3> QED BY <2>1, <3>2
  <2>2. ASSUME j = i PROVE P(j)
    <3>1. <<>> \in Seq(S) /\ r[i] = r[i] \o <<>> /\ q[i] = q[i] \o <<>>
      BY <2>0, ConcatEmptySeq, EmptySeq
    <3>2. GoOn(S, r[i], r[j], q[i], q[j])
      BY <2>2, <3>1 DEF GoOn
    <3> QED BY <2>2, <3>2
  <2>3. ASSUME i < j PROVE P(j)
    <3>1. GoOn(S, r[i], r[j - 1], q[i], q[j - 1])
      BY <2>0, <2>3
    <3>2. x[j] = y[j] /\ x[j] \in Seq(S)
      BY <2>3
    <3>3. PICK a \in Seq(S), b \in Seq(S) : a = r[i] /\ b = q[i]
      BY <2>0
    <3>4. GoOn(S, a, r[j - 1] \o x[j], b, q[j - 1] \o x[j])
      BY <3>1, <3>2, <3>3, GoOnMore
    <3>5. GoOn(S, r[i], r[j], q[i], q[j])
      BY <1>1, <3>2, <3>3, <3>4
    <3> QED BY <2>3, <3>5
  <2>4. P(j)
    <3> HIDE DEF P
    <3> QED BY <2>1, <2>2, <2>3
  <2> HIDE DEF P
  <2> QED BY <2>0, <2>4
<1>4. \A j \in 0 .. n : j \in T
  <2> HIDE DEF T
  <2> QED BY <1>2, <1>3, UpTo
<1>5. P(i - 1) /\ P(n)
  <2>1. i - 1 \in 0 .. n /\ n \in 0 .. n
    OBVIOUS
  <2> HIDE DEF P
  <2> QED BY <1>4, <2>1
<1>6. i - 1 < i /\ ~ (n < i)
  OBVIOUS
<1> QED BY <1>5, <1>6

\* The texts of a line's tokens, one by one.
Glued(x, r, ts, S) ==
  /\ \A j \in 1 .. Len(ts) : x[j] = ts[j].gap \o ts[j].text
  /\ r \in [0 .. Len(ts) -> Seq(S)] /\ Joins(r, x, Len(ts))
Measured(e, ts, S) == \A x, r : Glued(x, r, ts, S) => \A j \in 0 .. Len(ts) : Len(r[j]) = e[j]

\* The texts of the tokens put together end where the tokens end.
LEMMA JoinEnds ==
  ASSUME NEW ts \in Seq(PlacedToken), NEW e, Ends(e, ts),
         NEW S, STRING \subseteq S
  PROVE  Measured(e, ts, S)
<1> SUFFICES ASSUME NEW x, NEW r, Glued(x, r, ts, S) PROVE \A j \in 0 .. Len(ts) : Len(r[j]) = e[j]
  BY Zenon DEF Measured
<1>0. /\ \A j \in 1 .. Len(ts) : x[j] = ts[j].gap \o ts[j].text
      /\ r \in [0 .. Len(ts) -> Seq(S)] /\ Joins(r, x, Len(ts))
  BY DEF Glued
<1>1. Len(ts) \in Nat /\ \A j \in 1 .. Len(ts) : ts[j] \in PlacedToken
  BY LenProperties, ElementOfSeq
<1>2. ASSUME NEW j \in 1 .. Len(ts) PROVE ts[j].gap \in Seq(S) /\ ts[j].text \in Seq(S)
  <2>1. ts[j].gap \in Seq(STRING) /\ ts[j].text \in Seq(STRING)
    BY <1>1 DEF PlacedToken
  <2> QED BY <2>1, SeqMonotonic
<1> DEFINE T == {j \in 0 .. Len(ts) : Len(r[j]) = e[j]}
<1>3. 0 \in T
  <2>1. r[0] = <<>> /\ Len(r[0]) = 0 /\ e[0] = 0
    BY <1>0, EmptySeq DEF Joins, Ends
  <2> QED BY <1>1, <2>1
<1>4. ASSUME NEW j \in 1 .. Len(ts), j - 1 \in T PROVE j \in T
  <2>1. j \in 0 .. Len(ts) /\ r[j - 1] \in Seq(S) /\ Len(r[j - 1]) = e[j - 1]
    BY <1>0, <1>1, <1>4
  <2>2. r[j] = r[j - 1] \o (ts[j].gap \o ts[j].text)
    BY <1>0 DEF Joins
  <2>3. /\ ts[j].gap \o ts[j].text \in Seq(S)
        /\ Len(ts[j].gap \o ts[j].text) = Len(ts[j].gap) + Len(ts[j].text)
        /\ Len(ts[j].gap) \in Nat /\ Len(ts[j].text) \in Nat
    BY <1>2, ConcatProperties, LenProperties
  <2>4. Len(r[j]) = Len(r[j - 1]) + Len(ts[j].gap \o ts[j].text) /\ Len(r[j - 1]) \in Nat
    <3>1. PICK a \in Seq(S), b \in Seq(S) : a = r[j - 1] /\ b = ts[j].gap \o ts[j].text
      BY <2>1, <2>3
    <3>2. Len(a \o b) = Len(a) + Len(b) /\ Len(a) \in Nat
      BY ConcatProperties, LenProperties
    <3> QED BY <2>2, <3>1, <3>2
  <2>5. \A a, b, c \in Nat : a + (b + c) = a + b + c
    OBVIOUS
  <2>6. e[j] = e[j - 1] + Len(ts[j].gap) + Len(ts[j].text)
    BY DEF Ends
  <2>7. Len(r[j]) = Len(r[j - 1]) + (Len(ts[j].gap) + Len(ts[j].text))
    BY <2>3, <2>4
  <2>8. Len(r[j]) = Len(r[j - 1]) + Len(ts[j].gap) + Len(ts[j].text)
    BY <2>3, <2>4, <2>5, <2>7
  <2>9. Len(r[j]) = e[j]
    BY <2>1, <2>6, <2>8
  <2> QED BY <2>1, <2>9
<1> HIDE DEF T
<1>5. \A j \in 0 .. Len(ts) : j \in T
  BY <1>1, <1>3, <1>4, UpTo
<1> QED BY <1>5 DEF T

\* The text of a line is what its tokens make, one by one.
Spells(x, r, ts, n, S) ==
  /\ \A j \in 1 .. n : x[j] = ts[j].gap \o ts[j].text /\ x[j] \in Seq(S)
  /\ r \in [0 .. n -> Seq(S)] /\ Joins(r, x, n) /\ Spelling(ts) = r[n]

LEMMA SpellingJoins ==
  ASSUME NEW n \in Nat, NEW ts, DOMAIN ts = 1 .. n, NEW S,
         \A j \in 1 .. n : ts[j].gap \in Seq(S) /\ ts[j].text \in Seq(S)
  PROVE  \E x, r : Spells(x, r, ts, n, S)
<1>1. PICK x : x = [j \in 1 .. n |-> ts[j].gap \o ts[j].text]
  OBVIOUS
<1>2. /\ DOMAIN x = 1 .. n /\ x = [j \in 1 .. n |-> x[j]]
      /\ \A j \in 1 .. n : x[j] = ts[j].gap \o ts[j].text
  BY <1>1
<1>3. Spelling(ts) = FlattenSeq(x)
  BY <1>1 DEF Spelling
<1>4. \A j \in 1 .. n : x[j] \in Seq(S)
  BY <1>2, ConcatProperties
<1>5. PICK r \in [0 .. n -> Seq(S)] : Joins(r, x, n)
  BY <1>4, JoinExists
<1>6. FlattenSeq(x) = r[n]
  <2>1. DOMAIN x = 1 .. n /\ x = [j \in 1 .. n |-> x[j]]
    BY <1>2
  <2> QED BY <1>4, <1>5, <2>1, FlattenJoins
<1>7. Spells(x, r, ts, n, S)
  BY <1>2, <1>3, <1>4, <1>5, <1>6 DEF Spells
<1> QED BY <1>7

\* What is cut out of a before and behind t.
Cuts(a, g, I, R, b, s) ==
  SubSeq(s, 1, Len(a) + Len(g)) \o I \o SubSeq(s, Len(b) + 1, Len(s)) = (a \o (g \o I)) \o R

LEMMA CutOut ==
  ASSUME NEW S, NEW a \in Seq(S), NEW g \in Seq(S), NEW t \in Seq(S), NEW I \in Seq(S), NEW R \in Seq(S)
  PROVE  \A b, s : b = a \o (g \o t) /\ s = b \o R => Cuts(a, g, I, R, b, s)
<1>1. (a \o g) \o t = a \o (g \o t)
  BY ConcatAssociative
<1>2. (a \o g) \o I = a \o (g \o I)
  BY ConcatAssociative, SMTT(60)
<1>3. PICK h \in Seq(S) : h = a \o g
  BY ConcatProperties
<1>4. (h \o t) \o R = h \o (t \o R)
  <2> HIDE <1>3
  <2> QED BY ConcatAssociative, SMTT(60)
<1>5. PICK w \in Seq(S) : w = t \o R
  BY ConcatProperties
<1>6. Len(h) = Len(a) + Len(g)
  BY <1>3, ConcatProperties
<1>7. SUFFICES ASSUME NEW b, NEW s, b = a \o (g \o t), s = b \o R
      PROVE  Cuts(a, g, I, R, b, s)
  OBVIOUS
<1>8. b = h \o t
  BY <1>1, <1>3, <1>7
<1>9. b \in Seq(S)
  BY <1>8, ConcatProperties
<1>10. s = h \o w
  BY <1>4, <1>5, <1>7, <1>8
<1>11. SubSeq(s, 1, Len(h)) = h
  BY <1>10, Halves
<1>12. SubSeq(s, Len(b) + 1, Len(s)) = R
  BY <1>7, <1>9, Halves
<1> QED BY <1>2, <1>3, <1>6, <1>11, <1>12 DEF Cuts

Splice(ts, i, I, us) ==
  SubSeq(Spelling(ts), 1, ts[i].start) \o I
    \o SubSeq(Spelling(ts), ts[i].end + 1, Len(Spelling(ts))) = Spelling(us)

\* What stands before a token, what is inserted and what stands behind it make the line
\* with the token's text replaced.
LEMMA Spliced ==
  ASSUME NEW ts \in Seq(PlacedToken), NEW e, Ends(e, ts), NEW i \in 1 .. Len(ts),
         NEW S, STRING \subseteq S, NEW I \in Seq(S), NEW us, us = [ts EXCEPT ![i].text = I]
  PROVE  Splice(ts, i, I, us)
<1>0. Measured(e, ts, S)
  BY JoinEnds
<1> DEFINE n == Len(ts)
<1>1. n \in Nat /\ DOMAIN ts = 1 .. n /\ \A j \in 1 .. n : ts[j] \in PlacedToken
  BY LenProperties, ElementOfSeq
<1>2. /\ DOMAIN us = 1 .. n /\ us[i].gap = ts[i].gap /\ us[i].text = I
      /\ \A j \in 1 .. n : j # i => us[j] = ts[j]
  BY Retexted
<1>3. ASSUME NEW j \in 1 .. n PROVE ts[j].gap \in Seq(S) /\ ts[j].text \in Seq(S)
  <2>1. ts[j].gap \in Seq(STRING) /\ ts[j].text \in Seq(STRING)
    BY <1>1 DEF PlacedToken
  <2> QED BY <2>1, SeqMonotonic
<1>4. PICK x, r : Spells(x, r, ts, n, S)
  BY <1>1, <1>3, SpellingJoins
<1>5. PICK y, q : Spells(y, q, us, n, S)
  <2>1. \A j \in 1 .. n : us[j].gap \in Seq(S) /\ us[j].text \in Seq(S)
    BY <1>2, <1>3
  <2> QED BY <1>1, <1>2, <2>1, SpellingJoins
<1>6. /\ \A j \in 1 .. n : x[j] = ts[j].gap \o ts[j].text /\ x[j] \in Seq(S)
      /\ r \in [0 .. n -> Seq(S)] /\ Joins(r, x, n) /\ Spelling(ts) = r[n]
  BY <1>4 DEF Spells
<1>7. /\ \A j \in 1 .. n : y[j] = us[j].gap \o us[j].text /\ y[j] \in Seq(S)
      /\ q \in [0 .. n -> Seq(S)] /\ Joins(q, y, n) /\ Spelling(us) = q[n]
  BY <1>5 DEF Spells
<1>8. \A j \in 1 .. n : x[j] \in Seq(S) /\ y[j] \in Seq(S) /\ (j # i => x[j] = y[j])
  BY <1>2, <1>6, <1>7
<1>11. q[i - 1] = r[i - 1] /\ GoOn(S, r[i], r[n], q[i], q[n])
  BY <1>1, <1>6, <1>7, <1>8, JoinsApart
<1>12. PICK R \in Seq(S) : r[n] = r[i] \o R /\ q[n] = q[i] \o R
  BY <1>11 DEF GoOn
<1>13. Len(r[i - 1]) = e[i - 1] /\ Len(r[i]) = e[i]
  <2>1. \A j \in 1 .. Len(ts) : x[j] = ts[j].gap \o ts[j].text
    BY <1>6
  <2>2. r \in [0 .. Len(ts) -> Seq(S)] /\ Joins(r, x, Len(ts))
    BY <1>6
  <2>0. Glued(x, r, ts, S)
    BY <2>1, <2>2 DEF Glued
  <2>3. \A j \in 0 .. Len(ts) : Len(r[j]) = e[j]
    BY <1>0, <2>0, Zenon DEF Measured
  <2>4. i - 1 \in 0 .. Len(ts) /\ i \in 0 .. Len(ts)
    BY <1>1
  <2> QED BY <2>3, <2>4
<1>14. PICK a \in Seq(S), g \in Seq(S), t \in Seq(S) : a = r[i - 1] /\ g = ts[i].gap /\ t = ts[i].text
  <2>1. i - 1 \in 0 .. n
    BY <1>1
  <2> QED BY <1>3, <1>6, <2>1
<1>15. r[i] = a \o (g \o t) /\ q[i] = a \o (g \o I)
  <2>1. r[i] = r[i - 1] \o x[i] /\ q[i] = q[i - 1] \o y[i]
    BY <1>6, <1>7 DEF Joins
  <2>2. x[i] = g \o t /\ y[i] = g \o I
    BY <1>2, <1>6, <1>7, <1>14
  <2> QED BY <1>11, <1>14, <2>1, <2>2
<1>16. SubSeq(r[n], 1, Len(a) + Len(g)) \o I \o SubSeq(r[n], Len(r[i]) + 1, Len(r[n])) = (a \o (g \o I)) \o R
  <2>1. \A b, s : b = a \o (g \o t) /\ s = b \o R => Cuts(a, g, I, R, b, s)
    BY CutOut
  <2>2. Cuts(a, g, I, R, r[i], r[n])
    BY <1>12, <1>15, <2>1
  <2> QED BY <2>2 DEF Cuts
<1>17. ts[i].start = Len(a) + Len(g) /\ ts[i].end = Len(r[i])
  BY <1>13, <1>14 DEF Ends
<1> QED BY <1>6, <1>7, <1>12, <1>15, <1>16, <1>17 DEF Splice

\* The word at the cursor is the one that looking at every token would find.
LEMMA WordTouchingIs ==
  ASSUME NEW S, NEW ts \in Seq(S), InOrder(ts), NEW c \in Nat
  PROVE  \/ /\ wordTouching(ts, c) = NoToken
            /\ \A i \in 1 .. Len(ts) : ~ (isIdToken(ts[i]) /\ ts[i].start <= c /\ c <= ts[i].end)
         \/ /\ wordTouching(ts, c) # NoToken
            /\ \E i \in 1 .. Len(ts) : /\ isIdToken(ts[i]) /\ ts[i].start <= c /\ c <= ts[i].end
                                       /\ wordTouching(ts, c) = ts[i]
<1> DEFINE here   == getWordTokenAt(ts, c)
           before == getWordTokenAt(ts, c - 1)
           word   == IF here = NoToken /\ c > 0 THEN before ELSE here
<1>1. wordTouching(ts, c) = IF word # NoToken /\ word.start <= c /\ c <= word.end THEN word ELSE NoToken
  BY DEF wordTouching
<1>2. \/ /\ here = NoToken
         /\ \A i \in 1 .. Len(ts) : ~ (isIdToken(ts[i]) /\ editorContains(ts[i], c))
      \/ /\ here # NoToken
         /\ \E i \in 1 .. Len(ts) : isIdToken(ts[i]) /\ editorContains(ts[i], c) /\ here = ts[i]
  BY WordTokenAt
<1>3. \/ /\ before = NoToken
         /\ \A i \in 1 .. Len(ts) : ~ (isIdToken(ts[i]) /\ editorContains(ts[i], c - 1))
      \/ /\ before # NoToken
         /\ \E i \in 1 .. Len(ts) : isIdToken(ts[i]) /\ editorContains(ts[i], c - 1) /\ before = ts[i]
  BY WordTokenAt
<1> HIDE DEF here, before
<1>4. \A i \in 1 .. Len(ts) : ts[i].start \in Nat /\ ts[i].end \in Nat /\ ts[i].start < ts[i].end
  BY DEF InOrder
<1>5. CASE here # NoToken
  <2>1. PICK i \in 1 .. Len(ts) : isIdToken(ts[i]) /\ editorContains(ts[i], c) /\ here = ts[i]
    BY <1>2, <1>5
  <2>2. ts[i].start <= c /\ c <= ts[i].end
    BY <1>4, <2>1 DEF editorContains
  <2>3. wordTouching(ts, c) = ts[i]
    BY <1>1, <1>5, <2>1, <2>2
  <2> QED BY <1>5, <2>1, <2>2, <2>3
<1>6. CASE here = NoToken /\ c > 0 /\ before # NoToken
  <2>1. PICK i \in 1 .. Len(ts) : isIdToken(ts[i]) /\ editorContains(ts[i], c - 1) /\ before = ts[i]
    BY <1>3, <1>6
  <2>2. ts[i].start <= c /\ c <= ts[i].end
    BY <1>4, <2>1 DEF editorContains
  <2>3. wordTouching(ts, c) = ts[i]
    BY <1>1, <1>6, <2>1, <2>2
  <2> QED BY <1>6, <2>1, <2>2, <2>3
<1>7. CASE here = NoToken /\ ~ (c > 0 /\ before # NoToken)
  <2>1. wordTouching(ts, c) = NoToken
    BY <1>1, <1>7
  <2>2. ASSUME NEW i \in 1 .. Len(ts), isIdToken(ts[i]), ts[i].start <= c, c <= ts[i].end PROVE FALSE
    <3>1. ~ editorContains(ts[i], c)
      BY <1>2, <1>7, <2>2
    <3>2. c = ts[i].end /\ c > 0 /\ before = NoToken
      BY <1>4, <1>7, <2>2, <3>1 DEF editorContains
    <3>3. ~ editorContains(ts[i], c - 1)
      BY <1>3, <2>2, <3>2
    <3> QED BY <1>4, <3>2, <3>3 DEF editorContains
  <2> QED BY <2>1, <2>2
<1> QED BY <1>5, <1>6, <1>7

\* The tokens the cursor is in or at the end of that a completion replaces.
Touching(ts, c) ==
  {i \in DOMAIN ts : ts[i].start <= c /\ c <= ts[i].end
     /\ (isIdToken(ts[i]) \/ (ts[i].kind \in {"Dollar", "Tick"} /\ ts[i].end = c))}

Target(ts, c) == targetToken(wordTouching(ts, c), getTokenBefore(ts, c), c)

\* The site has one of them, or there is none.
LEMMA TargetIs ==
  ASSUME NEW ts \in Seq(PlacedToken), InOrder(ts), NEW c \in Nat,
         \A i \in 1 .. Len(ts) : ts[i].text = <<"tick">> <=> ts[i].kind = "Tick"
  PROVE  IF Target(ts, c) = NoToken THEN Touching(ts, c) = {}
         ELSE \E i \in Touching(ts, c) : Target(ts, c) = ts[i]
<1> DEFINE word   == wordTouching(ts, c)
           marker == getTokenBefore(ts, c)
<1>0. DOMAIN ts = 1 .. Len(ts)
  BY LenProperties
<1>1. \/ /\ word = NoToken
         /\ \A i \in 1 .. Len(ts) : ~ (isIdToken(ts[i]) /\ ts[i].start <= c /\ c <= ts[i].end)
      \/ /\ word # NoToken
         /\ \E i \in 1 .. Len(ts) : isIdToken(ts[i]) /\ ts[i].start <= c /\ c <= ts[i].end /\ word = ts[i]
  BY WordTouchingIs
<1>2. \/ marker = NoToken /\ \A i \in 1 .. Len(ts) : c < ts[i].end
      \/ \E j \in 1 .. Len(ts) : /\ marker = ts[j] /\ ts[j].end <= c
                                 /\ \A i \in 1 .. Len(ts) : j < i => c < ts[i].end
  BY TokenBefore
<1>3. Target(ts, c) = IF word = NoToken /\ marker.end = c /\ (marker.kind = "Dollar" \/ marker.text = <<"tick">>)
                      THEN marker ELSE word
  BY DEF Target, targetToken
<1> HIDE DEF word, marker
<1>4. \A i \in 1 .. Len(ts) : ts[i].start \in Nat /\ ts[i].end \in Nat /\ ts[i].start < ts[i].end
  BY DEF InOrder
<1>5. CASE word # NoToken
  <2>1. PICK i \in 1 .. Len(ts) : isIdToken(ts[i]) /\ ts[i].start <= c /\ c <= ts[i].end /\ word = ts[i]
    BY <1>1, <1>5
  <2>2. i \in Touching(ts, c)
    BY <1>0, <2>1 DEF Touching
  <2> QED BY <1>3, <1>5, <2>1, <2>2
<1>6. CASE word = NoToken /\ marker.end = c /\ (marker.kind = "Dollar" \/ marker.text = <<"tick">>)
  <2>1. NoToken.end # c
    BY DEF NoToken
  <2>2. PICK j \in 1 .. Len(ts) : marker = ts[j]
    BY <1>2, <1>6, <2>1
  <2>3. ts[j].end = c /\ ts[j].start <= c /\ ts[j].kind \in {"Dollar", "Tick"}
    BY <1>4, <1>6, <2>2
  <2>4. j \in Touching(ts, c)
    BY <1>0, <1>4, <2>3 DEF Touching
  <2> QED BY <1>3, <1>6, <2>1, <2>2, <2>4
<1>7. CASE word = NoToken /\ ~ (marker.end = c /\ (marker.kind = "Dollar" \/ marker.text = <<"tick">>))
  <2>1. Target(ts, c) = NoToken
    BY <1>3, <1>7
  <2>2. ASSUME NEW i \in Touching(ts, c) PROVE FALSE
    <3>1. i \in 1 .. Len(ts) /\ ts[i].start <= c /\ ts[i].end = c /\ ts[i].kind \in {"Dollar", "Tick"}
      BY <1>0, <1>1, <1>7 DEF Touching
    <3>2. PICK j \in 1 .. Len(ts) : /\ marker = ts[j] /\ ts[j].end <= c
                                    /\ \A k \in 1 .. Len(ts) : j < k => c < ts[k].end
      <4>1. ~ (c < ts[i].end)
        BY <3>1
      <4> QED BY <1>2, <3>1, <4>1, Zenon
    <3>3. ~ (j < i)
      BY <1>4, <3>1, <3>2
    <3>4. CASE i = j
      BY <1>7, <3>1, <3>2, <3>4
    <3>5. CASE i < j
      <4>1. ts[i].end <= ts[j].start
        BY <3>1, <3>5 DEF InOrder
      <4> QED BY <1>4, <3>1, <3>2, <4>1
    <3> QED BY <3>1, <3>2, <3>3, <3>4, <3>5
  <2> QED BY <2>1, <2>2
<1> QED BY <1>5, <1>6, <1>7

\* The places a query replaces.
LEMMA QueryPlaces ==
  ASSUME NEW ts, NEW c
  PROVE  /\ Target(ts, c) = NoToken => fromLocation(ts, c).start = c /\ fromLocation(ts, c).end = c
         /\ Target(ts, c) # NoToken => /\ fromLocation(ts, c).start = Target(ts, c).start
                                       /\ fromLocation(ts, c).end = Target(ts, c).end
<1> DEFINE t == Target(ts, c)
           site == getCompletionSite(ts, c)
<1>1. fromLocation(ts, c).start = site.start /\ fromLocation(ts, c).end = site.end
  BY DEF fromLocation, classify, CompletionQuery
<1>2. site = siteOf(ts, c, t)
  BY DEF getCompletionSite, Target
<1> HIDE DEF t, site
<1>3. CASE t = NoToken
  <2>1. site.start = c /\ site.end = c
    BY <1>2, <1>3 DEF siteOf, CompletionSite
  <2> QED BY <1>1, <1>3, <2>1 DEF t
<1>4. CASE t # NoToken
  <2>1. site.start = t.start /\ site.end = t.end
    BY <1>2, <1>4 DEF siteOf, CompletionSite
  <2> QED BY <1>1, <1>4, <2>1 DEF t
<1> QED BY <1>3, <1>4

\* The document after the item was accepted.
Accepted(ts, c, I) ==
  SubSeq(Spelling(ts), 1, fromLocation(ts, c).start) \o I
    \o SubSeq(Spelling(ts), fromLocation(ts, c).end + 1, Len(Spelling(ts)))

Replaced(ts, c, I, d) ==
  IF Touching(ts, c) = {}
  THEN d = SubSeq(Spelling(ts), 1, c) \o I \o SubSeq(Spelling(ts), c + 1, Len(Spelling(ts)))
  ELSE \E i \in Touching(ts, c) : d = Spelling([ts EXCEPT ![i].text = I])

LEMMA WordReplaced ==
  ASSUME NEW ts \in Seq(PlacedToken), NEW e, Ends(e, ts), NEW c \in Nat,
         \A i \in 1 .. Len(ts) : ts[i].text = <<"tick">> <=> ts[i].kind = "Tick",
         NEW S, STRING \subseteq S, NEW I \in Seq(S)
  PROVE  Replaced(ts, c, I, Accepted(ts, c, I))
<1>1. InOrder(ts)
  BY PlacedInOrder
<1>2. IF Target(ts, c) = NoToken THEN Touching(ts, c) = {}
      ELSE \E i \in Touching(ts, c) : Target(ts, c) = ts[i]
  BY <1>1, TargetIs
<1>3. CASE Target(ts, c) = NoToken
  <2>1. Touching(ts, c) = {} /\ fromLocation(ts, c).start = c /\ fromLocation(ts, c).end = c
    BY <1>2, <1>3, QueryPlaces
  <2> QED BY <2>1 DEF Replaced, Accepted
<1>4. CASE Target(ts, c) # NoToken
  <2>1. PICK i \in Touching(ts, c) : Target(ts, c) = ts[i]
    BY <1>2, <1>4
  <2>2. i \in 1 .. Len(ts)
    BY LenProperties DEF Touching
  <2>3. fromLocation(ts, c).start = ts[i].start /\ fromLocation(ts, c).end = ts[i].end
    BY <1>4, <2>1, QueryPlaces
  <2>4. PICK us : us = [ts EXCEPT ![i].text = I]
    OBVIOUS
  <2>5. Splice(ts, i, I, us)
    BY <2>2, <2>4, Spliced
  <2>6. Accepted(ts, c, I) = Spelling([ts EXCEPT ![i].text = I])
    BY <2>3, <2>4, <2>5 DEF Accepted, Splice
  <2> QED BY <2>1, <2>6 DEF Replaced
<1> QED BY <1>3, <1>4

-----------------------------------------------------------------------------
(* What is inserted is a text.                                              *)

\* The characters. Those the providers write are named, as no prover knows a literal to
\* be in STRING.
Literals == {"$", "{", "}", ":", "\\", "(", ")", ",", ".", ";", " ", "#", "0", "a", "d", "l",
             "tick", "quote", "dformat"}
Chr == STRING \cup {ToString(n) : n \in Int} \cup Literals
Txt == Seq(Chr)
Snip == [value : Txt, tabstop : Int]

LEMMA LiteralsAreChr ==
  Literals \subseteq Chr /\ STRING \subseteq Chr /\ \A n \in Int : ToString(n) \in Chr
BY DEF Chr

LEMMA TxtFacts ==
  /\ <<>> \in Txt /\ \A a, b \in Txt : a \o b \in Txt
  /\ \A c \in Chr : <<c>> \in Txt /\ \A t \in Txt : Append(t, c) \in Txt
  /\ \A t \in Seq(STRING) : t \in Txt
<1>1. <<>> \in Txt /\ \A a, b \in Txt : a \o b \in Txt
  BY EmptySeq, ConcatProperties DEF Txt
<1>2. \A c \in Chr : <<c>> \in Txt /\ \A t \in Txt : Append(t, c) \in Txt
  BY DEF Txt
<1>3. \A t \in Seq(STRING) : t \in Txt
  <2>1. STRING \subseteq Chr
    BY LiteralsAreChr
  <2> QED BY <2>1, SeqMonotonic DEF Txt
<1> QED BY <1>1, <1>2, <1>3

LEMMA EscapeTyped ==
  ASSUME NEW t \in Txt
  PROVE  escape(t) \in Txt
<1>1. Len(t) \in Nat /\ DOMAIN t = 1 .. Len(t) /\ \A i \in 1 .. Len(t) : t[i] \in Chr
  BY LenProperties, ElementOfSeq DEF Txt
<1>2. PICK x : x = [i \in 1 .. Len(t) |-> IF t[i] \in {"$", "}", "\\"} THEN <<"\\", t[i]>> ELSE <<t[i]>>]
  OBVIOUS
<1>3. escape(t) = FlattenSeq(x)
  BY <1>1, <1>2 DEF escape
<1>4. DOMAIN x = 1 .. Len(t) /\ x = [i \in 1 .. Len(t) |-> x[i]]
  BY <1>2
<1>5. ASSUME NEW i \in 1 .. Len(t) PROVE x[i] \in Seq(Chr)
  <2>1. "\\" \in Chr /\ t[i] \in Chr
    BY <1>1, LiteralsAreChr DEF Literals
  <2>2. <<"\\", t[i]>> \in Seq(Chr) /\ <<t[i]>> \in Seq(Chr)
    BY <2>1
  <2>3. x[i] = <<"\\", t[i]>> \/ x[i] = <<t[i]>>
    BY <1>2
  <2> QED BY <2>2, <2>3
<1>6. PICK r \in [0 .. Len(t) -> Seq(Chr)] : Joins(r, x, Len(t))
  BY <1>1, <1>5, JoinExists
<1>7. FlattenSeq(x) = r[Len(t)]
  BY <1>1, <1>4, <1>5, <1>6, FlattenJoins
<1>8. r[Len(t)] \in Seq(Chr)
  BY <1>1
<1> QED BY <1>3, <1>7, <1>8 DEF Txt

LEMMA SnippetsTyped ==
  /\ \A t \in Txt : snippet(t) \in Snip
  /\ \A s \in Snip, t \in Txt : appendText(s, t) \in Snip /\ appendPlaceholder(s, t) \in Snip
  /\ \A s \in Snip, n \in Int : appendTabstop(s, n) \in Snip
  /\ \A s \in Snip : s.value \in Txt
<1>1. \A t \in Txt : snippet(t) \in Snip
  BY DEF snippet, Snip
<1>2. ASSUME NEW s \in Snip PROVE s.value \in Txt /\ s.tabstop \in Int /\ ToString(s.tabstop) \in Chr
  <2>1. s.value \in Txt /\ s.tabstop \in Int
    BY DEF Snip
  <2> QED BY <2>1, LiteralsAreChr
<1>3. ASSUME NEW s \in Snip, NEW t \in Txt PROVE appendText(s, t) \in Snip
  <2>1. PICK v \in Txt, n \in Int : s = [value |-> v, tabstop |-> n]
    BY DEF Snip
  <2>2. PICK w \in Txt : w = v \o escape(t)
    BY EscapeTyped, TxtFacts
  <2>3. appendText(s, t) = [s EXCEPT !.value = w]
    BY <2>1, <2>2 DEF appendText
  <2>4. appendText(s, t) = [value |-> w, tabstop |-> n]
    BY <2>1, <2>3
  <2> QED BY <2>4 DEF Snip
<1>4. ASSUME NEW s \in Snip, NEW t \in Txt PROVE appendPlaceholder(s, t) \in Snip
  <2>1. <<"$", "{", ToString(s.tabstop), ":">> \in Txt /\ <<"}">> \in Txt
    <3>1. PICK c \in Chr, d \in Chr, x \in Chr, e \in Chr, f \in Chr :
            c = "$" /\ d = "{" /\ x = ToString(s.tabstop) /\ e = ":" /\ f = "}"
      BY <1>2, LiteralsAreChr DEF Literals
    <3>2. <<c, d, x, e>> \in Txt /\ <<f>> \in Txt
      BY DEF Txt
    <3> QED BY <3>1, <3>2
  <2>2. s.value \o <<"$", "{", ToString(s.tabstop), ":">> \o escape(t) \o <<"}">> \in Txt
    BY <1>2, <2>1, EscapeTyped, TxtFacts
  <2>3. PICK w \in Txt : w = s.value \o <<"$", "{", ToString(s.tabstop), ":">> \o escape(t) \o <<"}">>
    BY <2>2, Zenon
  <2>n. PICK n \in Int : n = s.tabstop + 1
    BY <1>2
  <2>4. appendPlaceholder(s, t) = [value |-> w, tabstop |-> n]
    BY <2>3, <2>n DEF appendPlaceholder
  <2> QED BY <2>4 DEF Snip
<1>5. ASSUME NEW s \in Snip, NEW n \in Int PROVE appendTabstop(s, n) \in Snip
  <2>1. <<"$", ToString(n)>> \in Txt
    <3>1. PICK c \in Chr, d \in Chr : c = "$" /\ d = ToString(n)
      BY LiteralsAreChr DEF Literals
    <3>2. <<c, d>> \in Txt
      BY DEF Txt
    <3> QED BY <3>1, <3>2
  <2>2. s.value \o <<"$", ToString(n)>> \in Txt
    BY <1>2, <2>1, TxtFacts
  <2> QED BY <1>2, <2>2 DEF appendTabstop, Snip
<1> QED BY <1>1, <1>2, <1>3, <1>4, <1>5

\* What the editor has read of a snippet.
Reading == [mode : {"text", "quoted", "dollar", "open"}, text : Txt, stops : Txt, inside : BOOLEAN]

LEMMA ExpandStepTyped ==
  ASSUME NEW r \in Reading, NEW c \in Chr
  PROVE  ExpandStep(r, c) \in Reading
<1>1. PICK m \in {"text", "quoted", "dollar", "open"}, t \in Txt, s \in Txt, b \in BOOLEAN :
        r = [mode |-> m, text |-> t, stops |-> s, inside |-> b]
  BY DEF Reading
<1>2. PICK t1 \in Txt, s1 \in Txt : t1 = Append(t, c) /\ s1 = Append(s, c)
  BY TxtFacts
<1>3. \A m1 \in {"text", "quoted", "dollar", "open"}, t2 \in Txt, s2 \in Txt, b1 \in BOOLEAN :
        [mode |-> m1, text |-> t2, stops |-> s2, inside |-> b1] \in Reading
  BY DEF Reading
<1>4. ASSUME NEW e, e = [r EXCEPT !.text = Append(@, c), !.mode = "text"] PROVE e \in Reading
  <2>1. e = [mode |-> "text", text |-> t1, stops |-> s, inside |-> b]
    BY <1>1, <1>2, <1>4
  <2> QED BY <1>3, <2>1
<1>5. ASSUME NEW e, e = [r EXCEPT !.stops = Append(@, c), !.mode = "text"] PROVE e \in Reading
  <2>1. e = [mode |-> "text", text |-> t, stops |-> s1, inside |-> b]
    BY <1>1, <1>2, <1>5
  <2> QED BY <1>3, <2>1
<1>6. ASSUME NEW e, e = [r EXCEPT !.mode = "open"] PROVE e \in Reading
  <2>1. e = [mode |-> "open", text |-> t, stops |-> s, inside |-> b]
    BY <1>1, <1>2, <1>6
  <2> QED BY <1>3, <2>1
<1>7. ASSUME NEW e, e = [r EXCEPT !.stops = Append(@, c)] PROVE e \in Reading
  <2>1. e = [mode |-> m, text |-> t, stops |-> s1, inside |-> b]
    BY <1>1, <1>2, <1>7
  <2> QED BY <1>3, <2>1
<1>8. ASSUME NEW e, e = [r EXCEPT !.mode = "text", !.inside = TRUE] PROVE e \in Reading
  <2>1. e = [mode |-> "text", text |-> t, stops |-> s, inside |-> TRUE]
    BY <1>1, <1>2, <1>8
  <2> QED BY <1>3, <2>1
<1>9. ASSUME NEW e, e = [r EXCEPT !.mode = "quoted"] PROVE e \in Reading
  <2>1. e = [mode |-> "quoted", text |-> t, stops |-> s, inside |-> b]
    BY <1>1, <1>2, <1>9
  <2> QED BY <1>3, <2>1
<1>10. ASSUME NEW e, e = [r EXCEPT !.mode = "dollar"] PROVE e \in Reading
  <2>1. e = [mode |-> "dollar", text |-> t, stops |-> s, inside |-> b]
    BY <1>1, <1>2, <1>10
  <2> QED BY <1>3, <2>1
<1>11. ASSUME NEW e, e = [r EXCEPT !.inside = FALSE] PROVE e \in Reading
  <2>1. e = [mode |-> m, text |-> t, stops |-> s, inside |-> FALSE]
    BY <1>1, <1>2, <1>11
  <2> QED BY <1>3, <2>1
<1>12. ASSUME NEW e, e = [r EXCEPT !.text = Append(@, c)] PROVE e \in Reading
  <2>1. e = [mode |-> m, text |-> t1, stops |-> s, inside |-> b]
    BY <1>1, <1>2, <1>12
  <2> QED BY <1>3, <2>1
<1>13. PICK e : e = ExpandStep(r, c)
  OBVIOUS
<1>14. e \in Reading
  BY <1>4, <1>5, <1>6, <1>7, <1>8, <1>9, <1>10, <1>11, <1>12, <1>13, Zenon DEF ExpandStep
<1> QED BY <1>13, <1>14

ReadsIn(f, v) ==
  f = [i \in 0 .. Len(v) |->
         IF i = 0 THEN [mode |-> "text", text |-> <<>>, stops |-> <<>>, inside |-> FALSE]
         ELSE ExpandStep(f[i - 1], v[i])]

LEMMA ReadsExist ==
  ASSUME NEW v \in Txt
  PROVE  \E f : ReadsIn(f, v)
<1> DEFINE n == Len(v)
           step == [i \in 1 .. n |-> [x \in Reading |-> ExpandStep(x, v[i])]]
<1>1. n \in Nat /\ \A i \in 1 .. n : v[i] \in Chr
  BY LenProperties, ElementOfSeq DEF Txt
<1> HIDE DEF n
<1>2. \A i \in 1 .. n : \A x \in Reading : ExpandStep(x, v[i]) \in Reading
  BY <1>1, ExpandStepTyped
<1>3. step \in [1 .. n -> [Reading -> Reading]]
      /\ \A i \in 1 .. n : \A x \in Reading : step[i][x] = ExpandStep(x, v[i])
  BY <1>2
<1> HIDE DEF step
<1>4. PICK a \in Reading : a = [mode |-> "text", text |-> <<>>, stops |-> <<>>, inside |-> FALSE]
  BY TxtFacts DEF Reading
<1>5. PICK f \in [0 .. n -> Reading] : Recurs(f, a, step, n)
  BY <1>1, <1>3, Recursion
<1>6. ASSUME NEW i \in 0 .. n PROVE f[i] = IF i = 0 THEN a ELSE ExpandStep(f[i - 1], v[i])
  <2>1. CASE i = 0
    BY <1>5, <2>1 DEF Recurs
  <2>2. CASE i # 0
    <3>1. i \in 1 .. n /\ i - 1 \in 0 .. n /\ f[i - 1] \in Reading
      BY <1>1, <2>2
    <3>2. f[i] = step[i][f[i - 1]]
      BY <1>5, <3>1 DEF Recurs
    <3> QED BY <1>3, <2>2, <3>1, <3>2
  <2> QED BY <2>1, <2>2
<1>7. f = [i \in 0 .. n |-> f[i]]
  OBVIOUS
<1>8. ReadsIn(f, v)
  BY <1>4, <1>6, <1>7 DEF ReadsIn, n
<1> QED BY <1>8

LEMMA ReadsTyped ==
  ASSUME NEW v \in Txt, NEW f, ReadsIn(f, v)
  PROVE  \A i \in 0 .. Len(v) : f[i] \in Reading
<1>1. Len(v) \in Nat /\ \A i \in 1 .. Len(v) : v[i] \in Chr
  BY LenProperties, ElementOfSeq DEF Txt
<1>2. \A i \in 0 .. Len(v) :
        f[i] = IF i = 0 THEN [mode |-> "text", text |-> <<>>, stops |-> <<>>, inside |-> FALSE]
               ELSE ExpandStep(f[i - 1], v[i])
  BY DEF ReadsIn
<1> DEFINE T == {i \in 0 .. Len(v) : f[i] \in Reading}
<1>3. 0 \in T
  <2>1. [mode |-> "text", text |-> <<>>, stops |-> <<>>, inside |-> FALSE] \in Reading
    BY TxtFacts DEF Reading
  <2>2. 0 \in 0 .. Len(v) /\ f[0] \in Reading
    BY <1>1, <1>2, <2>1
  <2> QED BY <2>2
<1>4. ASSUME NEW i \in 1 .. Len(v), i - 1 \in T PROVE i \in T
  <2>1. i \in 0 .. Len(v) /\ i # 0 /\ f[i - 1] \in Reading /\ v[i] \in Chr
    BY <1>1, <1>4
  <2>2. f[i] \in Reading
    BY <1>2, <2>1, ExpandStepTyped
  <2> QED BY <2>1, <2>2
<1> HIDE DEF T
<1>5. \A i \in 0 .. Len(v) : i \in T
  BY <1>1, <1>3, <1>4, UpTo
<1> QED BY <1>5 DEF T

LEMMA ExpandTyped ==
  ASSUME NEW v \in Txt
  PROVE  Expand(v) \in Reading /\ Expand(v).text \in Txt
<1> DEFINE f == CHOOSE g : ReadsIn(g, v)
<1>1. ReadsIn(f, v)
  BY ReadsExist
<1>2. Expand(v) = f[Len(v)]
  BY DEF Expand, ReadsIn
<1> HIDE DEF f
<1>3. Len(v) \in 0 .. Len(v)
  <2>1. Len(v) \in Nat
    BY LenProperties DEF Txt
  <2> QED BY <2>1
<1>4. Expand(v) \in Reading
  BY <1>1, <1>2, <1>3, ReadsTyped
<1> QED BY <1>4 DEF Reading

\* appendEach, argument by argument.
EachIn(f, s, names, before, after) ==
  f = [i \in 0 .. Len(names) |->
         IF i = 0 THEN s
         ELSE appendText(appendPlaceholder(appendText(f[i - 1], before[i]), names[i]),
                         IF i < Len(names) THEN after \o <<",">> ELSE after)]

LEMMA EachStep ==
  ASSUME NEW x \in Snip, NEW b \in Txt, NEW m \in Txt, NEW after \in Txt, NEW more
  PROVE  appendText(appendPlaceholder(appendText(x, b), m),
                    IF more THEN after \o <<",">> ELSE after) \in Snip
<1>1. PICK y : y = IF more THEN after \o <<",">> ELSE after
  OBVIOUS
<1>2. <<",">> \in Txt
  BY TxtFacts, LiteralsAreChr DEF Literals
<1>3. after \o <<",">> \in Txt
  BY <1>2, TxtFacts
<1>4. y \in Txt
  BY <1>1, <1>3
<1>5. PICK z \in Snip : z = appendPlaceholder(appendText(x, b), m)
  BY SnippetsTyped
<1>6. appendText(z, y) \in Snip
  BY <1>4, SnippetsTyped
<1> QED BY <1>1, <1>5, <1>6

LEMMA EachExists ==
  ASSUME NEW s \in Snip, NEW names \in Seq(Txt), NEW before,
         \A i \in 1 .. Len(names) : before[i] \in Txt, NEW after \in Txt
  PROVE  \E f : EachIn(f, s, names, before, after)
<1> DEFINE n == Len(names)
           F(i, x) == appendText(appendPlaceholder(appendText(x, before[i]), names[i]),
                                 IF i < Len(names) THEN after \o <<",">> ELSE after)
           step == [i \in 1 .. n |-> [x \in Snip |-> F(i, x)]]
<1>1. n \in Nat /\ \A i \in 1 .. n : names[i] \in Txt
  BY LenProperties, ElementOfSeq
<1>2. ASSUME NEW i \in 1 .. n, NEW x \in Snip PROVE F(i, x) \in Snip
  <2>1. names[i] \in Txt /\ before[i] \in Txt
    BY <1>1
  <2> QED BY <2>1, EachStep
<1>f. \A x, i : F(i, x) = appendText(appendPlaceholder(appendText(x, before[i]), names[i]),
                                 IF i < Len(names) THEN after \o <<",">> ELSE after)
  OBVIOUS
<1> HIDE DEF n, F
<1>3. step \in [1 .. n -> [Snip -> Snip]] /\ \A i \in 1 .. n : \A x \in Snip : step[i][x] = F(i, x)
  BY <1>2
<1> HIDE DEF step
<1>5. PICK f \in [0 .. n -> Snip] : Recurs(f, s, step, n)
  BY <1>1, <1>3, Recursion
<1>6. ASSUME NEW i \in 0 .. n PROVE f[i] = IF i = 0 THEN s ELSE F(i, f[i - 1])
  <2>1. CASE i = 0
    BY <1>5, <2>1 DEF Recurs
  <2>2. CASE i # 0
    <3>1. i \in 1 .. n /\ i - 1 \in 0 .. n /\ f[i - 1] \in Snip
      BY <1>1, <2>2
    <3>2. f[i] = step[i][f[i - 1]]
      BY <1>5, <3>1 DEF Recurs
    <3> QED BY <1>3, <2>2, <3>1, <3>2
  <2> QED BY <2>1, <2>2
<1>7. f = [i \in 0 .. n |-> IF i = 0 THEN s ELSE F(i, f[i - 1])]
  BY <1>6
<1>8. EachIn(f, s, names, before, after)
  BY <1>7 DEF EachIn, n, F
<1> QED BY <1>8

LEMMA EachTyped ==
  ASSUME NEW s \in Snip, NEW names \in Seq(Txt), NEW before,
         \A i \in 1 .. Len(names) : before[i] \in Txt, NEW after \in Txt
  PROVE  appendEach(s, names, before, after) \in Snip
<1> DEFINE f == CHOOSE g : EachIn(g, s, names, before, after)
           n == Len(names)
           T == {i \in 0 .. n : f[i] \in Snip}
<1>1. n \in Nat /\ \A i \in 1 .. n : names[i] \in Txt
  BY LenProperties, ElementOfSeq
<1>2. EachIn(f, s, names, before, after)
  BY EachExists
<1>3. appendEach(s, names, before, after) = f[n]
  BY DEF appendEach, EachIn
<1> HIDE DEF f, n
<1>4. /\ f[0] = s
      /\ \A i \in 1 .. n : f[i] = appendText(appendPlaceholder(appendText(f[i - 1], before[i]), names[i]),
                                             IF i < n THEN after \o <<",">> ELSE after)
  <2>1. \A i \in 0 .. n : f[i] = IF i = 0 THEN s
         ELSE appendText(appendPlaceholder(appendText(f[i - 1], before[i]), names[i]),
                         IF i < n THEN after \o <<",">> ELSE after)
    BY <1>2 DEF EachIn, n
  <2>2. ASSUME NEW i \in 1 .. n
        PROVE  f[i] = appendText(appendPlaceholder(appendText(f[i - 1], before[i]), names[i]),
                                 IF i < n THEN after \o <<",">> ELSE after)
    <3>1. i \in 0 .. n /\ i # 0
      BY <1>1
    <3> QED BY <2>1, <3>1, Zenon
  <2>3. f[0] = s
    <3>1. 0 \in 0 .. n
      BY <1>1
    <3> QED BY <2>1, <3>1, Zenon
  <2> QED BY <2>2, <2>3
<1>5. 0 \in T
  <2>a. 0 \in 0 .. n
    BY <1>1
  <2>b. f[0] = s
    BY <1>4, Zenon
  <2>1. 0 \in 0 .. n /\ f[0] \in Snip
    BY <2>a, <2>b
  <2> QED BY <2>1, Zenon
<1>6. ASSUME NEW i \in 1 .. n, i - 1 \in T PROVE i \in T
  <2>1. i \in 0 .. n /\ f[i - 1] \in Snip /\ names[i] \in Txt /\ before[i] \in Txt
    BY <1>1, <1>6 DEF n
  <2>2. PICK more : more = (i < n)
    OBVIOUS
  <2>3. PICK x \in Snip, b \in Txt, m \in Txt : x = f[i - 1] /\ b = before[i] /\ m = names[i]
    BY <2>1
  <2>4. appendText(appendPlaceholder(appendText(x, b), m), IF more THEN after \o <<",">> ELSE after) \in Snip
    BY EachStep
  <2>5. f[i] = appendText(appendPlaceholder(appendText(x, b), m), IF more THEN after \o <<",">> ELSE after)
    BY <1>4, <2>2, <2>3
  <2> QED BY <2>1, <2>4, <2>5
<1> HIDE DEF T
<1>7. n \in T
  <2>1. \A i \in 0 .. n : i \in T
    BY <1>1, <1>5, <1>6, UpTo
  <2> QED BY <1>1, <2>1
<1> QED BY <1>3, <1>7 DEF T

LEMMA InParensTyped ==
  ASSUME NEW s \in Snip, NEW names \in Seq(Txt)
  PROVE  inParens(s, names) \in Snip
<1> DEFINE before == [i \in DOMAIN names |-> <<>>]
<1>1. \A i \in 1 .. Len(names) : before[i] \in Txt
  BY LenProperties, TxtFacts
<1>2. <<>> \in Txt /\ <<"(">> \in Txt /\ <<")">> \in Txt
  BY TxtFacts, LiteralsAreChr DEF Literals
<1>3. inParens(s, names) = appendText(appendEach(appendText(s, <<"(">>), names, before, <<>>), <<")">>)
  BY DEF inParens
<1> HIDE DEF before
<1>4. PICK z \in Snip : z = appendText(s, <<"(">>)
  BY <1>2, SnippetsTyped
<1>5. PICK y \in Snip : y = appendEach(z, names, before, <<>>)
  BY <1>1, <1>2, EachTyped
<1> QED BY <1>2, <1>3, <1>4, <1>5, SnippetsTyped

\* What the list of a system subroutine's arguments has come to.
Listing == [s : Snip, comma : BOOLEAN, skipped : BOOLEAN, final : BOOLEAN]

LEMMA WithCommaTyped ==
  ASSUME NEW r \in Listing
  PROVE  withComma(r) \in Snip
<1>1. r.s \in Snip
  BY DEF Listing
<1>2. <<",">> \in Txt
  BY TxtFacts, LiteralsAreChr DEF Literals
<1>3. appendText(r.s, <<",">>) \in Snip
  BY <1>1, <1>2, SnippetsTyped
<1> QED BY <1>1, <1>3 DEF withComma

LEMMA AppendArgTyped ==
  ASSUME NEW r \in Listing, NEW a \in STRING
  PROVE  appendArg(r, a) \in Listing
<1>1. PICK s \in Snip, c \in BOOLEAN, k \in BOOLEAN, f \in BOOLEAN :
        r = [s |-> s, comma |-> c, skipped |-> k, final |-> f]
  BY DEF Listing
<1>2. PICK w \in Snip : w = withComma(r)
  BY WithCommaTyped
<1>3. <<"quote">> \in Txt /\ <<"dformat">> \in Txt /\ <<a>> \in Txt
  BY TxtFacts, LiteralsAreChr DEF Literals
<1>4. PICK quoted \in Snip :
        quoted = appendText(appendPlaceholder(appendText(w, <<"quote">>), <<"dformat">>), <<"quote">>)
  BY <1>3, SnippetsTyped
<1>5. PICK stop \in Snip, shown \in Snip : stop = appendTabstop(w, 0) /\ shown = appendPlaceholder(w, <<a>>)
  BY <1>3, SnippetsTyped
<1>6. PICK x \in Snip : x = CASE a = "..."     -> stop
                              [] a = "dformat" -> quoted
                              [] OTHER         -> shown
  BY Zenon
<1>7. PICK k1 \in BOOLEAN, f1 \in BOOLEAN : k1 = (k \/ a # "...") /\ f1 = (f \/ a = "...")
  OBVIOUS
<1>8. ASSUME NEW e, e = [r EXCEPT !.skipped = @ \/ a # "..."] PROVE e \in Listing
  <2>1. e = [s |-> s, comma |-> c, skipped |-> k1, final |-> f]
    BY <1>1, <1>7, <1>8
  <2> QED BY <2>1 DEF Listing
<1>9. ASSUME NEW e, e = [r EXCEPT !.comma = TRUE, !.final = @ \/ a = "...", !.s = x] PROVE e \in Listing
  <2>1. e = [s |-> x, comma |-> TRUE, skipped |-> k, final |-> f1]
    BY <1>1, <1>7, <1>9
  <2> QED BY <2>1 DEF Listing
<1>10. PICK e : e = appendArg(r, a)
  OBVIOUS
<1>11. e = r \/ e = [r EXCEPT !.skipped = @ \/ a # "..."]
       \/ e = [r EXCEPT !.comma = TRUE, !.final = @ \/ a = "...", !.s = x]
  BY <1>2, <1>4, <1>5, <1>6, <1>10, Zenon DEF appendArg
<1> QED BY <1>8, <1>9, <1>10, <1>11, Zenon

ListingIn(f, s, signature) ==
  f = [i \in 0 .. Len(signature) |->
         IF i = 0 THEN [s |-> appendText(s, <<"(">>), comma |-> FALSE, skipped |-> FALSE, final |-> FALSE]
         ELSE appendArg(f[i - 1], signature[i])]

LEMMA ListingExists ==
  ASSUME NEW s \in Snip, NEW signature \in Seq(STRING)
  PROVE  \E f \in [0 .. Len(signature) -> Listing] : ListingIn(f, s, signature)
<1> DEFINE n == Len(signature)
           step == [i \in 1 .. n |-> [x \in Listing |-> appendArg(x, signature[i])]]
<1>1. n \in Nat /\ \A i \in 1 .. n : signature[i] \in STRING
  BY LenProperties, ElementOfSeq
<1> HIDE DEF n
<1>2. \A i \in 1 .. n : \A x \in Listing : appendArg(x, signature[i]) \in Listing
  BY <1>1, AppendArgTyped
<1>3. step \in [1 .. n -> [Listing -> Listing]]
      /\ \A i \in 1 .. n : \A x \in Listing : step[i][x] = appendArg(x, signature[i])
  BY <1>2
<1> HIDE DEF step
<1>4. PICK a \in Listing : a = [s |-> appendText(s, <<"(">>), comma |-> FALSE, skipped |-> FALSE, final |-> FALSE]
  <2>1. <<"(">> \in Txt
    BY TxtFacts, LiteralsAreChr DEF Literals
  <2>2. appendText(s, <<"(">>) \in Snip
    BY <2>1, SnippetsTyped
  <2> QED BY <2>2 DEF Listing
<1>5. PICK f \in [0 .. n -> Listing] : Recurs(f, a, step, n)
  BY <1>1, <1>3, Recursion
<1>6. ASSUME NEW i \in 0 .. n PROVE f[i] = IF i = 0 THEN a ELSE appendArg(f[i - 1], signature[i])
  <2>1. CASE i = 0
    BY <1>5, <2>1 DEF Recurs
  <2>2. CASE i # 0
    <3>1. i \in 1 .. n /\ i - 1 \in 0 .. n /\ f[i - 1] \in Listing
      BY <1>1, <2>2
    <3>2. f[i] = step[i][f[i - 1]]
      BY <1>5, <3>1 DEF Recurs
    <3> QED BY <1>3, <2>2, <3>1, <3>2
  <2> QED BY <2>1, <2>2
<1>7. f = [i \in 0 .. n |-> IF i = 0 THEN a ELSE appendArg(f[i - 1], signature[i])]
  BY <1>6
<1>8. ListingIn(f, s, signature)
  BY <1>4, <1>7 DEF ListingIn, n
<1> QED BY <1>8 DEF n

LEMMA ListingTyped ==
  ASSUME NEW s \in Snip, NEW signature \in Seq(STRING), NEW f, ListingIn(f, s, signature)
  PROVE  f[Len(signature)] \in Listing
<1> DEFINE n == Len(signature)
           a == [s |-> appendText(s, <<"(">>), comma |-> FALSE, skipped |-> FALSE, final |-> FALSE]
           T == {i \in 0 .. n : f[i] \in Listing}
<1>1. n \in Nat /\ \A i \in 1 .. n : signature[i] \in STRING
  BY LenProperties, ElementOfSeq
<1>2. \A i \in 0 .. n : f[i] = IF i = 0 THEN a ELSE appendArg(f[i - 1], signature[i])
  BY DEF ListingIn
<1>3. a \in Listing
  <2>1. <<"(">> \in Txt
    BY TxtFacts, LiteralsAreChr DEF Literals
  <2>2. appendText(s, <<"(">>) \in Snip
    BY <2>1, SnippetsTyped
  <2> QED BY <2>2 DEF Listing
<1> HIDE DEF a, n
<1>5. 0 \in T
  <2>1. 0 \in 0 .. n
    BY <1>1
  <2>2. f[0] = a
    BY <1>2, <2>1
  <2> QED BY <1>3, <2>1, <2>2
<1>6. ASSUME NEW i \in 1 .. n, i - 1 \in T PROVE i \in T
  <2>1. i \in 0 .. n /\ i # 0 /\ f[i - 1] \in Listing /\ signature[i] \in STRING
    BY <1>1, <1>6
  <2>2. f[i] = appendArg(f[i - 1], signature[i])
    BY <1>2, <2>1
  <2>3. f[i] \in Listing
    BY <2>1, <2>2, AppendArgTyped
  <2> QED BY <2>1, <2>3
<1> HIDE DEF T
<1>7. n \in T
  <2>1. \A i \in 0 .. n : i \in T
    BY <1>1, <1>5, <1>6, UpTo
  <2> QED BY <1>1, <2>1
<1> QED BY <1>7 DEF T, n

LEMMA BuildTyped ==
  ASSUME NEW s \in Snip, NEW signature \in Seq(STRING)
  PROVE  buildSnippetFromArgs(s, signature) \in Snip
<1> DEFINE f == CHOOSE g : ListingIn(g, s, signature)
           done == f[Len(signature)]
           more == done.comma /\ "..." \in ToSet(signature) /\ ~ done.final
<1>1. ListingIn(f, s, signature)
  BY ListingExists
<1>2. done \in Listing
  <2> HIDE DEF f
  <2> QED BY <1>1, ListingTyped
<1>3. buildSnippetFromArgs(s, signature)
        = appendText(IF more THEN appendTabstop(withComma(done), 0) ELSE done.s, <<")">>)
  BY DEF buildSnippetFromArgs, ListingIn
<1> HIDE DEF done, more
<1>4. PICK x \in Snip, y \in Snip : x = appendTabstop(withComma(done), 0) /\ y = done.s
  <2>1. done.s \in Snip
    BY <1>2 DEF Listing
  <2>2. withComma(done) \in Snip
    BY <1>2, WithCommaTyped
  <2>3. appendTabstop(withComma(done), 0) \in Snip
    <3>1. 0 \in Int
      OBVIOUS
    <3> QED BY <2>2, <3>1, SnippetsTyped, Zenon
  <2> QED BY <2>1, <2>3, Zenon
<1>5. PICK z \in Snip : z = IF more THEN appendTabstop(withComma(done), 0) ELSE done.s
  BY <1>4
<1>6. <<")">> \in Txt
  BY TxtFacts, LiteralsAreChr DEF Literals
<1>7. appendText(z, <<")">>) \in Snip
  BY <1>6, SnippetsTyped
<1> QED BY <1>3, <1>5, <1>7

\* The declarations a scope offers are among those it has.
ListedStep(x, d, types) ==
  IF \/ types /\ d.kind # "TypeAlias"
     \/ d.kind = "Variable" /\ x # <<>> /\ Last(x).name = d.name
  THEN x ELSE Append(x, d)

ListedIn(f, ds, types) ==
  f = [i \in 0 .. Len(ds) |->
         IF i = 0 THEN <<>>
         ELSE IF \/ types /\ ds[i].kind # "TypeAlias"
                 \/ /\ ds[i].kind = "Variable" /\ f[i - 1] # <<>>
                    /\ Last(f[i - 1]).name = ds[i].name
         THEN f[i - 1] ELSE Append(f[i - 1], ds[i])]

LEMMA ListedStepTyped ==
  ASSUME NEW D, NEW x \in Seq(D), NEW d \in D, NEW types
  PROVE  ListedStep(x, d, types) \in Seq(D)
<1>1. Append(x, d) \in Seq(D)
  BY AppendProperties
<1>2. ListedStep(x, d, types) = x \/ ListedStep(x, d, types) = Append(x, d)
  BY Zenon DEF ListedStep
<1> QED BY <1>1, <1>2

LEMMA ListedInSteps ==
  ASSUME NEW ds, NEW types, NEW f
  PROVE  ListedIn(f, ds, types)
           <=> f = [i \in 0 .. Len(ds) |-> IF i = 0 THEN <<>> ELSE ListedStep(f[i - 1], ds[i], types)]
<1> DEFINE g == [i \in 0 .. Len(ds) |->
         IF i = 0 THEN <<>>
         ELSE IF \/ types /\ ds[i].kind # "TypeAlias"
                 \/ /\ ds[i].kind = "Variable" /\ f[i - 1] # <<>>
                    /\ Last(f[i - 1]).name = ds[i].name
         THEN f[i - 1] ELSE Append(f[i - 1], ds[i])]
           h == [i \in 0 .. Len(ds) |-> IF i = 0 THEN <<>> ELSE ListedStep(f[i - 1], ds[i], types)]
<1>1. g = h
  BY Zenon DEF ListedStep
<1> QED BY <1>1, Zenon DEF ListedIn

LEMMA ListedExists ==
  ASSUME NEW D, NEW ds \in Seq(D), NEW types
  PROVE  \E f : ListedIn(f, ds, types)
<1> DEFINE n == Len(ds)
           Q == Seq(D)
           F(i, x) == ListedStep(x, ds[i], types)
           step == [i \in 1 .. n |-> [x \in Q |-> F(i, x)]]
<1>1. n \in Nat /\ \A i \in 1 .. n : ds[i] \in D
  BY LenProperties, ElementOfSeq
<1>2. ASSUME NEW i \in 1 .. n, NEW x \in Q PROVE F(i, x) \in Q
  <2>1. ds[i] \in D
    BY <1>1
  <2> QED BY <2>1, ListedStepTyped
<1>4. <<>> \in Q
  BY EmptySeq
<1> HIDE DEF n, Q, F
<1>3. step \in [1 .. n -> [Q -> Q]] /\ \A i \in 1 .. n : \A x \in Q : step[i][x] = F(i, x)
  BY <1>2
<1> HIDE DEF step
<1>5. PICK f \in [0 .. n -> Q] : Recurs(f, <<>>, step, n)
  BY <1>1, <1>3, <1>4, Recursion
<1>6. ASSUME NEW i \in 0 .. n PROVE f[i] = IF i = 0 THEN <<>> ELSE F(i, f[i - 1])
  <2>1. CASE i = 0
    BY <1>5, <2>1 DEF Recurs
  <2>2. CASE i # 0
    <3>1. i \in 1 .. n /\ i - 1 \in 0 .. n /\ f[i - 1] \in Q
      BY <1>1, <2>2
    <3>2. f[i] = step[i][f[i - 1]]
      BY <1>5, <3>1 DEF Recurs
    <3> QED BY <1>3, <2>2, <3>1, <3>2
  <2> QED BY <2>1, <2>2
<1>7. f = [i \in 0 .. n |-> IF i = 0 THEN <<>> ELSE F(i, f[i - 1])]
  BY <1>6
<1>8. ListedIn(f, ds, types)
  <2>1. f = [i \in 0 .. Len(ds) |-> IF i = 0 THEN <<>> ELSE ListedStep(f[i - 1], ds[i], types)]
    BY <1>7 DEF n, F
  <2> QED BY <2>1, ListedInSteps, Zenon
<1> QED BY <1>8

LEMMA ListedTyped ==
  ASSUME NEW D, NEW ds \in Seq(D), NEW types, NEW f, ListedIn(f, ds, types)
  PROVE  f[Len(ds)] \in Seq(D)
<1> DEFINE n == Len(ds)
           T == {i \in 0 .. n : f[i] \in Seq(D)}
<1>1. n \in Nat /\ \A i \in 1 .. n : ds[i] \in D
  BY LenProperties, ElementOfSeq
<1>2. f = [i \in 0 .. n |-> IF i = 0 THEN <<>> ELSE ListedStep(f[i - 1], ds[i], types)]
  BY ListedInSteps, Zenon
<1> HIDE DEF n
<1>3. \A i \in 0 .. n : f[i] = IF i = 0 THEN <<>> ELSE ListedStep(f[i - 1], ds[i], types)
  BY <1>2, Zenon
<1>5. 0 \in T
  <2>1. 0 \in 0 .. n
    BY <1>1
  <2>2. f[0] = <<>>
    BY <1>3, <2>1
  <2> QED BY <2>1, <2>2, EmptySeq
<1>6. ASSUME NEW i \in 1 .. n, i - 1 \in T PROVE i \in T
  <2>1. i \in 0 .. n /\ i # 0 /\ f[i - 1] \in Seq(D) /\ ds[i] \in D
    BY <1>1, <1>6
  <2>2. f[i] = ListedStep(f[i - 1], ds[i], types)
    BY <1>3, <2>1
  <2>3. f[i] \in Seq(D)
    BY <2>1, <2>2, ListedStepTyped
  <2> QED BY <2>1, <2>3
<1> HIDE DEF T
<1>7. n \in T
  <2>1. \A i \in 0 .. n : i \in T
    BY <1>1, <1>5, <1>6, UpTo
  <2> QED BY <1>1, <2>1
<1> QED BY <1>7 DEF T, n

LEMMA ScopeMembersTyped ==
  ASSUME NEW D, NEW scope, scope.members \in Seq(D), scope.imported \in Seq(D), NEW types
  PROVE  ScopeMembers(scope, types) \subseteq D
<1> DEFINE f(ds) == CHOOSE g : ListedIn(g, ds, types)
           listed(ds) == f(ds)[Len(ds)]
<1>1. ScopeMembers(scope, types) = ToSet(listed(scope.members)) \cup ToSet(listed(scope.imported))
  BY DEF ScopeMembers, ListedIn
<1>2. ASSUME NEW ds \in Seq(D) PROVE listed(ds) \in Seq(D)
  <2>1. ListedIn(f(ds), ds, types)
    BY ListedExists
  <2> HIDE DEF f
  <2> QED BY <2>1, ListedTyped
<1> HIDE DEF listed
<1>3. ASSUME NEW s \in Seq(D) PROVE ToSet(s) \subseteq D
  BY DEF ToSet
<1>4. listed(scope.members) \in Seq(D) /\ listed(scope.imported) \in Seq(D)
  BY <1>2
<1> QED BY <1>1, <1>3, <1>4

-----------------------------------------------------------------------------
(* The texts of an item.                                                    *)

Record(l, k, t, p, n, d, m, o) ==
  [label |-> l, kind |-> k, insertText |-> t, plain |-> p, newText |-> n,
   data |-> d, documented |-> m, of |-> o]

IsItem(it) ==
  \E l \in Txt, t \in Txt, n \in Txt : \E k, p, d, m, o : it = Record(l, k, t, p, n, d, m, o)

LEMMA RecordIsItem ==
  ASSUME NEW l \in Txt, NEW t \in Txt, NEW n \in Txt, NEW k, NEW p, NEW d, NEW m, NEW o
  PROVE  IsItem(Record(l, k, t, p, n, d, m, o))
BY Zenon DEF IsItem

LEMMA ItemTexts ==
  ASSUME NEW it, IsItem(it)
  PROVE  it.label \in Txt /\ it.insertText \in Txt /\ it.newText \in Txt
<1>1. PICK l \in Txt, t \in Txt, n \in Txt : \E k, p, d, m, o : it = Record(l, k, t, p, n, d, m, o)
  BY DEF IsItem
<1>2. PICK k, p, d, m, o : it = Record(l, k, t, p, n, d, m, o)
  BY <1>1
<1> QED BY <1>2 DEF Record

\* One field of an item is changed.
LEMMA ItemChange ==
  ASSUME NEW it, IsItem(it), NEW x \in Txt, NEW y
  PROVE  /\ IsItem([it EXCEPT !.insertText = x])
         /\ IsItem([it EXCEPT !.newText = x])
         /\ IsItem([it EXCEPT !.plain = y])
         /\ IsItem([it EXCEPT !.data = y])
         /\ IsItem([it EXCEPT !.documented = y])
         /\ IsItem([it EXCEPT !.of = y])
<1>1. PICK l \in Txt, t \in Txt, n \in Txt : \E k, p, d, m, o : it = Record(l, k, t, p, n, d, m, o)
  BY DEF IsItem
<1>2. PICK k, p, d, m, o : it = Record(l, k, t, p, n, d, m, o)
  BY <1>1
<1>3. IsItem([it EXCEPT !.insertText = x])
  <2>1. [it EXCEPT !.insertText = x] = Record(l, k, x, p, n, d, m, o)
    BY <1>2 DEF Record
  <2> QED BY <2>1, RecordIsItem
<1>4. IsItem([it EXCEPT !.newText = x])
  <2>1. [it EXCEPT !.newText = x] = Record(l, k, t, p, x, d, m, o)
    BY <1>2 DEF Record
  <2> QED BY <2>1, RecordIsItem
<1>5. IsItem([it EXCEPT !.plain = y])
  <2>1. [it EXCEPT !.plain = y] = Record(l, k, t, y, n, d, m, o)
    BY <1>2 DEF Record
  <2> QED BY <2>1, RecordIsItem
<1>6. IsItem([it EXCEPT !.data = y])
  <2>1. [it EXCEPT !.data = y] = Record(l, k, t, p, n, y, m, o)
    BY <1>2 DEF Record
  <2> QED BY <2>1, RecordIsItem
<1>7. IsItem([it EXCEPT !.documented = y])
  <2>1. [it EXCEPT !.documented = y] = Record(l, k, t, p, n, d, y, o)
    BY <1>2 DEF Record
  <2> QED BY <2>1, RecordIsItem
<1>8. IsItem([it EXCEPT !.of = y])
  <2>1. [it EXCEPT !.of = y] = Record(l, k, t, p, n, d, m, y)
    BY <1>2 DEF Record
  <2> QED BY <2>1, RecordIsItem
<1> QED BY <1>3, <1>4, <1>5, <1>6, <1>7, <1>8

\* Several fields are.
LEMMA ItemChanges ==
  ASSUME NEW it, IsItem(it), NEW x \in Txt, NEW y, NEW z
  PROVE  /\ IsItem([it EXCEPT !.insertText = x, !.plain = y])
         /\ IsItem([it EXCEPT !.of = y, !.data = z])
         /\ IsItem([it EXCEPT !.data = y, !.documented = z])
         /\ IsItem([it EXCEPT !.documented = y, !.data = z])
         /\ IsItem([it EXCEPT !.documented = y, !.insertText = x, !.plain = z])
<1>1. IsItem([it EXCEPT !.insertText = x, !.plain = y])
  <2>1. PICK r1 : r1 = [it EXCEPT !.insertText = x]
    OBVIOUS
  <2>2. IsItem(r1)
    BY <2>1, ItemChange
  <2>3. [it EXCEPT !.insertText = x, !.plain = y] = [r1 EXCEPT !.plain = y]
    BY <2>1
  <2> QED BY <2>2, <2>3, ItemChange
<1>2. IsItem([it EXCEPT !.of = y, !.data = z])
  <2>1. PICK r1 : r1 = [it EXCEPT !.of = y]
    OBVIOUS
  <2>2. IsItem(r1)
    BY <2>1, ItemChange
  <2>3. [it EXCEPT !.of = y, !.data = z] = [r1 EXCEPT !.data = z]
    BY <2>1
  <2> QED BY <2>2, <2>3, ItemChange
<1>3. IsItem([it EXCEPT !.data = y, !.documented = z])
  <2>1. PICK r1 : r1 = [it EXCEPT !.data = y]
    OBVIOUS
  <2>2. IsItem(r1)
    BY <2>1, ItemChange
  <2>3. [it EXCEPT !.data = y, !.documented = z] = [r1 EXCEPT !.documented = z]
    BY <2>1
  <2> QED BY <2>2, <2>3, ItemChange
<1>4. IsItem([it EXCEPT !.documented = y, !.data = z])
  <2>1. PICK r1 : r1 = [it EXCEPT !.documented = y]
    OBVIOUS
  <2>2. IsItem(r1)
    BY <2>1, ItemChange
  <2>3. [it EXCEPT !.documented = y, !.data = z] = [r1 EXCEPT !.data = z]
    BY <2>1
  <2> QED BY <2>2, <2>3, ItemChange
<1>5. IsItem([it EXCEPT !.documented = y, !.insertText = x, !.plain = z])
  <2>1. PICK r1 : r1 = [it EXCEPT !.documented = y]
    OBVIOUS
  <2>2. IsItem(r1)
    BY <2>1, ItemChange
  <2>3. PICK r2 : r2 = [r1 EXCEPT !.insertText = x]
    OBVIOUS
  <2>4. IsItem(r2)
    BY <2>2, <2>3, ItemChange
  <2>5. [it EXCEPT !.documented = y, !.insertText = x, !.plain = z] = [r2 EXCEPT !.plain = z]
    BY <2>1, <2>3
  <2> QED BY <2>4, <2>5, ItemChange
<1> QED BY <1>1, <1>2, <1>3, <1>4, <1>5

LEMMA NewItem ==
  ASSUME NEW label \in Txt, NEW kind
  PROVE  IsItem(Item(label, kind))
<1>1. Item(label, kind) = Record(label, kind, <<>>, TRUE, <<>>, NoData, FALSE, None)
  BY Zenon DEF Item, Record, NoText
<1>2. <<>> \in Txt
  BY TxtFacts
<1> QED BY <1>1, <1>2, RecordIsItem, Zenon

LEMMA WithSnippetTyped ==
  ASSUME NEW it, IsItem(it), NEW s \in Snip
  PROVE  IsItem(WithSnippet(it, s))
<1>1. PICK x \in Txt : x = s.value
  BY DEF Snip
<1>2. PICK b : b = FALSE
  OBVIOUS
<1>3. IsItem([it EXCEPT !.insertText = x, !.plain = b])
  BY ItemChanges, Zenon
<1> QED BY <1>1, <1>2, <1>3, Zenon DEF WithSnippet

LEMMA NamesTyped ==
  Name \subseteq Txt /\ \A s \in Seq(Seq(STRING)) : s \in Seq(Txt)
<1>1. Seq(STRING) \subseteq Txt
  BY TxtFacts
<1>2. Name \subseteq Txt
  BY <1>1 DEF Name
<1>3. \A s \in Seq(Seq(STRING)) : s \in Seq(Txt)
  BY <1>1, SeqMonotonic
<1> QED BY <1>2, <1>3

LEMMA ResolveMacroTyped ==
  ASSUME NEW it, IsItem(it), NEW args, args # None => args \in Seq(Seq(STRING))
  PROVE  IsItem(resolveMacro(it, args))
<1>1. PICK done, yes : yes = TRUE /\ done = [it EXCEPT !.documented = yes]
  OBVIOUS
<1>2. IsItem(done)
  BY <1>1, ItemChange, TxtFacts
<1>3. PICK name \in Snip : name = appendText(snippet(<<>>), it.label)
  <2>1. it.label \in Txt /\ <<>> \in Txt
    BY ItemTexts, TxtFacts
  <2> QED BY <2>1, SnippetsTyped
<1>4. PICK whole : whole = IF args = None THEN name ELSE inParens(name, args)
  OBVIOUS
<1>5. whole \in Snip
  <2>1. CASE args = None
    BY <1>4, <2>1
  <2>2. CASE args # None
    <3>1. args \in Seq(Txt)
      BY <2>2, NamesTyped
    <3>2. inParens(name, args) \in Snip
      BY <3>1, InParensTyped
    <3> QED BY <1>4, <2>2, <3>2
  <2> QED BY <2>1, <2>2
<1>6. IsItem(WithSnippet(done, whole))
  BY <1>2, <1>5, WithSnippetTyped
<1>7. PICK r : r = resolveMacro(it, args)
  OBVIOUS
<1>8. r = done \/ r = WithSnippet(done, whole)
  BY <1>1, <1>3, <1>4, <1>7, Zenon DEF resolveMacro
<1> QED BY <1>2, <1>6, <1>7, <1>8, Zenon

LEMMA ConnectTyped ==
  ASSUME NEW s \in Snip, NEW names \in Seq(Seq(STRING))
  PROVE  appendText(appendEach(appendText(s, <<"(">>), names,
                               [i \in DOMAIN names |-> <<".">> \o names[i] \o <<"(">>], <<")">>), <<")">>) \in Snip
<1> DEFINE before == [i \in DOMAIN names |-> <<".">> \o names[i] \o <<"(">>]
<1>1. names \in Seq(Txt) /\ DOMAIN names = 1 .. Len(names) /\ \A i \in 1 .. Len(names) : names[i] \in Txt
  <2>1. names \in Seq(Txt)
    BY NamesTyped
  <2> QED BY <2>1, LenProperties, ElementOfSeq
<1>2. <<"(">> \in Txt /\ <<")">> \in Txt /\ <<".">> \in Txt
  BY TxtFacts, LiteralsAreChr DEF Literals
<1>3. ASSUME NEW i \in 1 .. Len(names) PROVE before[i] \in Txt
  <2>1. <<".">> \o names[i] \o <<"(">> \in Txt
    BY <1>1, <1>2, TxtFacts
  <2> QED BY <1>1, <2>1
<1> HIDE DEF before
<1>4. PICK x \in Snip : x = appendText(s, <<"(">>)
  BY <1>2, SnippetsTyped
<1>5. PICK y \in Snip : y = appendEach(x, names, before, <<")">>)
  BY <1>1, <1>2, <1>3, EachTyped
<1>6. appendText(y, <<")">>) \in Snip
  BY <1>2, SnippetsTyped
<1> QED BY <1>4, <1>5, <1>6 DEF before

LEMMA ResolveInstanceTyped ==
  ASSUME NEW it, IsItem(it), NEW u, u.name \in Txt,
         u.params \in Seq(Seq(STRING)), u.ports \in Seq(Seq(STRING)), NEW excludeName
  PROVE  IsItem(resolveModuleInstance(it, u, excludeName))
<1> DEFINE connect(s, names) ==
        appendText(appendEach(appendText(s, <<"(">>), names,
                              [i \in DOMAIN names |-> <<".">> \o names[i] \o <<"(">>], <<")">>), <<")">>)
           name   == IF excludeName THEN snippet(<<>>) ELSE appendText(snippet(<<>>), u.name)
           params == IF u.params = <<>> THEN name
                     ELSE connect(IF excludeName THEN name ELSE appendText(name, <<" ", "#">>), u.params)
           inst   == appendText(appendPlaceholder(appendText(params, <<" ">>), u.name), <<" ">>)
           whole   == appendText(connect(inst, u.ports), <<";">>)
           done   == [it EXCEPT !.documented = TRUE]
<1>1. resolveModuleInstance(it, u, excludeName) = IF it.insertText # NoText THEN done ELSE WithSnippet(done, whole)
  BY DEF resolveModuleInstance
<1>2. IsItem(done)
  <2>1. PICK yes : yes = TRUE
    OBVIOUS
  <2>2. IsItem([it EXCEPT !.documented = yes])
    BY ItemChange, TxtFacts
  <2> QED BY <2>1, <2>2
<1>3. \A s \in Snip, names \in Seq(Seq(STRING)) : connect(s, names) \in Snip
  BY ConnectTyped
<1> HIDE DEF connect, done
<1>4. <<>> \in Txt /\ <<" ">> \in Txt /\ <<" ", "#">> \in Txt /\ <<";">> \in Txt
  <2>1. PICK a \in Chr, b \in Chr, c \in Chr : a = " " /\ b = "#" /\ c = ";"
    BY LiteralsAreChr DEF Literals
  <2>2. <<>> \in Txt /\ <<a>> \in Txt /\ <<a, b>> \in Txt /\ <<c>> \in Txt
    BY DEF Txt
  <2> QED BY <2>1, <2>2
<1>5. name \in Snip
  <2>1. snippet(<<>>) \in Snip
    BY <1>4, SnippetsTyped
  <2>2. appendText(snippet(<<>>), u.name) \in Snip
    BY <2>1, SnippetsTyped
  <2> QED BY <2>1, <2>2
<1> HIDE DEF name
<1>6. params \in Snip
  <2>1. appendText(name, <<" ", "#">>) \in Snip
    BY <1>4, <1>5, SnippetsTyped
  <2>2. PICK x \in Snip : x = IF excludeName THEN name ELSE appendText(name, <<" ", "#">>)
    BY <1>5, <2>1
  <2>3. connect(x, u.params) \in Snip
    BY <1>3
  <2> QED BY <1>5, <2>2, <2>3
<1> HIDE DEF params
<1>7. inst \in Snip
  <2>1. PICK x \in Snip : x = appendText(params, <<" ">>)
    BY <1>4, <1>6, SnippetsTyped
  <2>2. PICK y \in Snip : y = appendPlaceholder(x, u.name)
    BY SnippetsTyped
  <2>3. appendText(y, <<" ">>) \in Snip
    BY <1>4, SnippetsTyped
  <2> QED BY <2>1, <2>2, <2>3
<1> HIDE DEF inst
<1>8. whole \in Snip
  <2>1. connect(inst, u.ports) \in Snip
    BY <1>3, <1>7
  <2> QED BY <1>4, <2>1, SnippetsTyped
<1> HIDE DEF whole
<1>9. IsItem(WithSnippet(done, whole))
  BY <1>2, <1>8, WithSnippetTyped
<1> QED BY <1>1, <1>2, <1>9

LEMMA ResolveUnitTyped ==
  ASSUME NEW it, IsItem(it), NEW u, u.name \in Txt,
         u.params \in Seq(Seq(STRING)), u.ports \in Seq(Seq(STRING)),
         u.kind \in {"Module", "Interface", "Package", "Class"}, NEW excludeName
  PROVE  IsItem(resolveUnit(it, u, excludeName))
<1>1. IsItem(resolveModuleInstance(it, u, excludeName))
  BY ResolveInstanceTyped
<1>2. IsItem([it EXCEPT !.documented = TRUE, !.insertText = u.name, !.plain = TRUE])
  <2>1. PICK yes : yes = TRUE
    OBVIOUS
  <2>n. PICK n \in Txt : n = u.name
    OBVIOUS
  <2>2. IsItem([it EXCEPT !.documented = yes, !.insertText = n, !.plain = yes])
    BY ItemChanges
  <2> QED BY <2>1, <2>2, <2>n
<1>3. PICK r : r = resolveUnit(it, u, excludeName)
  OBVIOUS
<1>4. r = resolveModuleInstance(it, u, excludeName)
      \/ r = [it EXCEPT !.documented = TRUE, !.insertText = u.name, !.plain = TRUE] \/ r = it
  BY <1>3, Zenon DEF resolveUnit
<1> QED BY <1>1, <1>2, <1>3, <1>4, Zenon

LEMMA DeclarationTyped ==
  ASSUME NEW d \in Declarations
  PROVE  d.name \in Txt /\ d.args \in Seq(Txt)
BY NamesTyped DEF Declarations

LEMMA SubroutineTyped ==
  ASSUME NEW it, IsItem(it), NEW d \in Declarations
  PROVE  IsItem(setSubroutineCompletionEdit(it, d))
<1>1. PICK s \in Snip : s = snippet(d.name)
  BY DeclarationTyped, SnippetsTyped
<1>2. PICK v \in Snip : v = inParens(s, d.args)
  BY DeclarationTyped, InParensTyped
<1> QED BY <1>1, <1>2, WithSnippetTyped DEF setSubroutineCompletionEdit

LEMMA GetCompletionTyped ==
  ASSUME NEW d \in Declarations, NEW labelOnly, NEW defer
  PROVE  IsItem(getCompletion(d, labelOnly, defer))
<1> DEFINE place == [place |-> <<version, d.offset>>, kind |-> d.kind, path |-> d.path, labelOnly |-> labelOnly]
           it == [Item(d.name, getCompletionKind(d)) EXCEPT !.of = d, !.data = place]
           call == IF d.kind = "Subroutine" /\ (~ defer \/ d.offset = 0)
                   THEN setSubroutineCompletionEdit(it, d) ELSE it
<1>1. getCompletion(d, labelOnly, defer)
        = IF d.offset = 0 THEN [call EXCEPT !.data = NoData, !.documented = TRUE] ELSE call
  BY DEF getCompletion
<1> HIDE DEF place
<1>2. IsItem(it)
  <2>1. PICK new : new = Item(d.name, getCompletionKind(d))
    OBVIOUS
  <2>2. IsItem(new)
    BY <2>1, DeclarationTyped, NewItem
  <2> QED BY <2>1, <2>2, ItemChanges, TxtFacts
<1> HIDE DEF it
<1>3. IsItem(call)
  <2>1. IsItem(setSubroutineCompletionEdit(it, d))
    BY <1>2, SubroutineTyped
  <2> QED BY <1>2, <2>1
<1> HIDE DEF call
<1>4. IsItem([call EXCEPT !.data = NoData, !.documented = TRUE])
  <2>1. PICK yes : yes = TRUE
    OBVIOUS
  <2>2. IsItem([call EXCEPT !.data = NoData, !.documented = yes])
    BY <1>3, ItemChanges, TxtFacts
  <2> QED BY <2>1, <2>2
<1> QED BY <1>1, <1>3, <1>4

LEMMA KeywordItemsTyped ==
  \A it \in KeywordItems : IsItem(it)
<1>1. <<"l">> \in Txt /\ <<"a">> \in Txt /\ <<"a", " ">> \in Txt
  <2>1. PICK l \in Chr, a \in Chr, b \in Chr : l = "l" /\ a = "a" /\ b = " "
    BY LiteralsAreChr DEF Literals
  <2>2. <<l>> \in Txt /\ <<a>> \in Txt /\ <<a, b>> \in Txt
    BY DEF Txt
  <2> QED BY <2>1, <2>2
<1>2. IsItem(Item(<<"l">>, "Keyword")) /\ IsItem(Item(<<"a">>, "Snippet"))
  BY <1>1, NewItem
<1>3. snippet(<<"a", " ">>) \in Snip
  BY <1>1, SnippetsTyped
<1>4. appendTabstop(snippet(<<"a", " ">>), 0) \in Snip
  <2>1. 0 \in Int
    OBVIOUS
  <2> QED BY <1>3, <2>1, SnippetsTyped, Zenon
<1>5. IsItem(WithSnippet(Item(<<"a">>, "Snippet"), appendTabstop(snippet(<<"a", " ">>), 0)))
  BY <1>2, <1>4, WithSnippetTyped
<1> QED BY <1>2, <1>5 DEF KeywordItems

\* What the declarations are made of.
LEMMA WorldIs ==
  ASSUME NEW w \in Worlds
  PROVE  /\ \A m \in w.docMacros \cup w.idxMacros :
              m.name \in Txt /\ (m.args # None => m.args \in Seq(Seq(STRING)))
         /\ \A u \in w.units :
              /\ u.name \in Txt /\ u.params \in Seq(Seq(STRING)) /\ u.ports \in Seq(Seq(STRING))
              /\ u.kind \in {"Module", "Interface", "Package", "Class"}
         /\ \A i \in DOMAIN w.scopes : /\ w.scopes[i].members \in Seq(Declarations)
                                       /\ w.scopes[i].imported \in Seq(Declarations)
         /\ 1 \in DOMAIN w.scopes
         /\ DeclaredIn(w) \subseteq Declarations
         /\ w.signature \in Seq(STRING)
<1> DEFINE Scope == [members : Seq(Declarations), imported : Seq(Declarations)]
<1>1. \A m \in w.docMacros \cup w.idxMacros :
        m.name \in Txt /\ (m.args # None => m.args \in Seq(Seq(STRING)))
  BY CompAssumption, NamesTyped
<1>2. \A u \in w.units :
        /\ u.name \in Txt /\ u.params \in Seq(Seq(STRING)) /\ u.ports \in Seq(Seq(STRING))
        /\ u.kind \in {"Module", "Interface", "Package", "Class"}
  BY CompAssumption, NamesTyped
<1>3. w.scopes # <<>> /\ w.scopes \in Seq(Scope) /\ w.signature \in Seq(STRING)
  BY CompAssumption
<1>4. DOMAIN w.scopes = 1 .. Len(w.scopes) /\ \A i \in 1 .. Len(w.scopes) : w.scopes[i] \in Scope
  <2> HIDE DEF Scope
  <2> QED BY <1>3, LenProperties, ElementOfSeq
<1>5. \A i \in DOMAIN w.scopes : /\ w.scopes[i].members \in Seq(Declarations)
                                 /\ w.scopes[i].imported \in Seq(Declarations)
  BY <1>4
<1>6. 1 \in DOMAIN w.scopes
  <2> HIDE DEF Scope
  <2>1. Len(w.scopes) \in Nat /\ Len(w.scopes) # 0
    BY <1>3, LenProperties, EmptySeq
  <2> QED BY <1>4, <2>1
<1>7. ASSUME NEW s \in Seq(Declarations) PROVE ToSet(s) \subseteq Declarations
  BY DEF ToSet
<1>8. DeclaredIn(w) \subseteq Declarations
  BY <1>5, <1>7, Zenon DEF DeclaredIn
<1> QED BY <1>1, <1>2, <1>3, <1>5, <1>6, <1>8, Zenon

LEMMA SystemItemsTyped ==
  ASSUME world \in Worlds
  PROVE  \A it \in SystemItems : IsItem(it)
<1>1. <<"$", "d">> \in Txt /\ <<"d">> \in Txt /\ <<"\\", "$">> \in Txt /\ <<>> \in Txt
  <2>1. PICK b \in Chr, c \in Chr, d \in Chr : b = "\\" /\ c = "$" /\ d = "d"
    BY LiteralsAreChr DEF Literals
  <2>2. <<c, d>> \in Txt /\ <<d>> \in Txt /\ <<b, c>> \in Txt /\ <<>> \in Txt
    BY DEF Txt
  <2> QED BY <2>1, <2>2
<1>2. PICK s \in Snip : s = buildSnippetFromArgs(appendText(snippet(<<>>), <<"d">>), world.signature)
  <2>1. appendText(snippet(<<>>), <<"d">>) \in Snip
    <3>1. snippet(<<>>) \in Snip
      BY <1>1, SnippetsTyped
    <3> QED BY <1>1, <3>1, SnippetsTyped
  <2>2. world.signature \in Seq(STRING)
    BY WorldIs
  <2> QED BY <2>1, <2>2, BuildTyped
<1>3. [s EXCEPT !.value = <<"\\", "$">> \o @] \in Snip
  <2>1. PICK v \in Txt, n \in Int : s = [value |-> v, tabstop |-> n]
    BY DEF Snip
  <2>2. PICK w \in Txt : w = <<"\\", "$">> \o v
    BY <1>1, TxtFacts
  <2>3. [s EXCEPT !.value = <<"\\", "$">> \o @] = [value |-> w, tabstop |-> n]
    <3>1. s.value = v /\ [s EXCEPT !.value = w] = [value |-> w, tabstop |-> n]
      BY <2>1
    <3> QED BY <2>2, <3>1, Zenon
  <2> QED BY <2>3 DEF Snip
<1>4. PICK it : it = WithSnippet(Item(<<"$", "d">>, "Function"), [s EXCEPT !.value = <<"\\", "$">> \o @])
  OBVIOUS
<1>5. IsItem(it)
  <2>1. IsItem(Item(<<"$", "d">>, "Function"))
    BY <1>1, NewItem
  <2> QED BY <1>3, <1>4, <2>1, WithSnippetTyped
<1>6. IsItem([it EXCEPT !.documented = TRUE])
  <2>1. PICK yes : yes = TRUE
    OBVIOUS
  <2>2. IsItem([it EXCEPT !.documented = yes])
    BY <1>5, ItemChange, TxtFacts
  <2> QED BY <2>1, <2>2
<1>7. SystemItems = {[it EXCEPT !.documented = TRUE]}
  BY <1>2, <1>4, Zenon DEF SystemItems
<1> QED BY <1>6, <1>7

LEMMA MacroItemsTyped ==
  ASSUME world \in Worlds, NEW prefix
  PROVE  \A it \in MacroItems(prefix) : IsItem(it)
<1>1. <<"tick">> \in Txt
  BY TxtFacts, LiteralsAreChr DEF Literals
<1>2. ASSUME NEW m \in world.docMacros \cup world.idxMacros
      PROVE  /\ IsItem(Item(<<"tick">> \o m.name, "Constant"))
             /\ IsItem(resolveMacro(Item(<<"tick">> \o m.name, "Constant"), m.args))
  <2>1. m.name \in Txt /\ (m.args # None => m.args \in Seq(Seq(STRING)))
    BY WorldIs
  <2>2. <<"tick">> \o m.name \in Txt
    BY <1>1, <2>1, TxtFacts
  <2>3. IsItem(Item(<<"tick">> \o m.name, "Constant"))
    BY <2>2, NewItem
  <2> QED BY <2>1, <2>3, ResolveMacroTyped
<1>3. ASSUME NEW it \in MacroItems(prefix)
      PROVE  \E m \in world.docMacros \cup world.idxMacros :
               \/ it = Item(<<"tick">> \o m.name, "Constant")
               \/ it = resolveMacro(Item(<<"tick">> \o m.name, "Constant"), m.args)
  BY <1>3, Zenon DEF MacroItems
<1> QED BY <1>2, <1>3, Zenon

LEMMA UnitItemsTyped ==
  ASSUME world \in Worlds, NEW context
  PROVE  \A it \in UnitItems(context) : IsItem(it)
<1>1. ASSUME NEW u \in world.units
      PROVE  IsItem(Item(u.name, "Module")) /\ IsItem([Item(u.name, "Module") EXCEPT !.insertText = u.name])
  <2>1. PICK n \in Txt : n = u.name
    BY WorldIs
  <2>2. PICK it : it = Item(n, "Module")
    OBVIOUS
  <2>3. IsItem(it)
    BY <2>2, NewItem
  <2>4. IsItem([it EXCEPT !.insertText = n])
    BY <2>3, ItemChange
  <2> QED BY <2>1, <2>2, <2>3, <2>4
<1>2. ASSUME NEW it \in UnitItems(context)
      PROVE  \E u \in world.units : \/ it = Item(u.name, "Module")
                                    \/ it = [Item(u.name, "Module") EXCEPT !.insertText = u.name]
  BY <1>2, Zenon DEF UnitItems
<1> QED BY <1>1, <1>2, Zenon

LEMMA SuffixItemsTyped ==
  ASSUME world \in Worlds, NEW receiver
  PROVE  \A it \in SuffixItems(receiver) : IsItem(it)
<1>1. ASSUME NEW u \in world.units
      PROVE  IsItem(resolveUnit(Item(u.name, "Module"), u, TRUE))
  <2>1. /\ u.name \in Txt /\ u.params \in Seq(Seq(STRING)) /\ u.ports \in Seq(Seq(STRING))
        /\ u.kind \in {"Module", "Interface", "Package", "Class"}
    BY WorldIs
  <2>2. IsItem(Item(u.name, "Module"))
    BY <2>1, NewItem
  <2>3. PICK yes : yes = TRUE
    OBVIOUS
  <2>4. IsItem(resolveUnit(Item(u.name, "Module"), u, yes))
    BY <2>1, <2>2, ResolveUnitTyped
  <2> QED BY <2>3, <2>4
<1> QED BY <1>1 DEF SuffixItems

LEMMA MemberItemsTyped ==
  ASSUME world \in Worlds, NEW context, NEW labelOnly
  PROVE  \A it \in MemberItems(world.scopes, context, labelOnly) : IsItem(it)
<1> DEFINE types == context \in {"ModuleMember", "PortList"}
           offered == UNION {ScopeMembers(world.scopes[i], types) : i \in DOMAIN world.scopes}
<1>1. offered \subseteq Declarations
  <2>1. ASSUME NEW i \in DOMAIN world.scopes PROVE ScopeMembers(world.scopes[i], types) \subseteq Declarations
    <3>1. world.scopes[i].members \in Seq(Declarations) /\ world.scopes[i].imported \in Seq(Declarations)
      BY WorldIs
    <3> HIDE DEF types
    <3> QED BY <3>1, ScopeMembersTyped
  <2> QED BY <2>1, Zenon
<1>2. ASSUME NEW it \in MemberItems(world.scopes, context, labelOnly)
      PROVE  it \in KeywordItems \/ \E d \in offered : it = getCompletion(d, labelOnly, resolves)
  BY <1>2, Zenon DEF MemberItems
<1>3. \A d \in offered : IsItem(getCompletion(d, labelOnly, resolves))
  BY <1>1, GetCompletionTyped, Zenon
<1> QED BY <1>2, <1>3, KeywordItemsTyped, Zenon

LEMMA AccessItemsTyped ==
  ASSUME world \in Worlds, NEW receiver, NEW labelOnly
  PROVE  \A it \in AccessItems(receiver, labelOnly) : IsItem(it)
<1>1. ASSUME NEW u \in world.units
      PROVE  IsItem([Item(u.name, "Field") EXCEPT !.documented = TRUE])
  <2>1. PICK it, yes : yes = TRUE /\ it = Item(u.name, "Field")
    OBVIOUS
  <2>2. IsItem(it)
    BY <2>1, WorldIs, NewItem
  <2>3. IsItem([it EXCEPT !.documented = yes])
    BY <2>2, ItemChange, TxtFacts
  <2> QED BY <2>1, <2>3
<1>2. \A d \in Labelled(Head(world.scopes).members) : IsItem(getCompletion(d, labelOnly, resolves))
  <2>1. Head(world.scopes) = world.scopes[1]
    OBVIOUS
  <2>2. Head(world.scopes).members \in Seq(Declarations)
    BY <2>1, WorldIs
  <2>3. Labelled(Head(world.scopes).members) \subseteq Declarations
    BY <2>2 DEF Labelled
  <2> QED BY <2>3, GetCompletionTyped, Zenon
<1>3. PICK items : items = AccessItems(receiver, labelOnly)
  OBVIOUS
<1>4. \/ items = {}
      \/ \A it \in items : \E u \in world.units : it = [Item(u.name, "Field") EXCEPT !.documented = TRUE]
      \/ \A it \in items : \E d \in Labelled(Head(world.scopes).members) : it = getCompletion(d, labelOnly, resolves)
  BY <1>3, Zenon DEF AccessItems
<1>5. ASSUME NEW it \in items PROVE IsItem(it)
  <2>1. \/ \E u \in world.units : it = [Item(u.name, "Field") EXCEPT !.documented = TRUE]
        \/ \E d \in Labelled(Head(world.scopes).members) : it = getCompletion(d, labelOnly, resolves)
    BY <1>4, <1>5, Zenon
  <2>2. ASSUME NEW u \in world.units, it = [Item(u.name, "Field") EXCEPT !.documented = TRUE] PROVE IsItem(it)
    BY <1>1, <2>2
  <2> QED BY <1>2, <2>1, <2>2, Zenon
<1> QED BY <1>3, <1>5, Zenon

LEMMA EditTyped ==
  ASSUME NEW it, IsItem(it), NEW q
  PROVE  IsItem(setCompletionEdit(it, q))
<1> DEFINE shaped == (q.call /\ it.kind = "Constant") \/ (q.inst /\ it.kind = "Module")
           named  == IF shaped THEN [it EXCEPT !.insertText = it.label, !.plain = TRUE] ELSE it
           body   == IF named.insertText = NoText THEN named.label ELSE named.insertText
           edit   == IF q.call /\ ~ named.plain THEN escape(named.label) ELSE body
<1>1. setCompletionEdit(it, q) = [named EXCEPT !.newText = edit]
  BY Zenon DEF setCompletionEdit
<1>2. IsItem(named)
  <2>1. PICK l \in Txt, yes \in BOOLEAN : l = it.label /\ yes = TRUE
    BY ItemTexts
  <2>2. IsItem([it EXCEPT !.insertText = l, !.plain = yes])
    BY ItemChanges
  <2>3. [it EXCEPT !.insertText = it.label, !.plain = TRUE] = [it EXCEPT !.insertText = l, !.plain = yes]
    BY <2>1
  <2> HIDE DEF shaped
  <2> QED BY <2>2, <2>3, Zenon
<1> HIDE DEF named
<1>3. edit \in Txt
  <2>1. named.label \in Txt /\ named.insertText \in Txt
    BY <1>2, ItemTexts
  <2>2. escape(named.label) \in Txt
    BY <2>1, EscapeTyped
  <2> QED BY <2>1, <2>2
<1> HIDE DEF edit
<1>4. PICK z \in Txt : z = edit
  BY <1>3
<1>5. IsItem([named EXCEPT !.newText = z])
  BY <1>2, ItemChange
<1> QED BY <1>1, <1>4, <1>5

LEMMA QueryKind ==
  ASSUME NEW ts, NEW c
  PROVE  fromLocation(ts, c).kind \in {"SystemSubroutine", "Macro", "ScopedAccess", "MemberAccess",
                                       "InstantiationSuffix", "Lexical"}
<1>1. PICK site : site = getCompletionSite(ts, c)
  OBVIOUS
<1>2. PICK k : k = CompletionQueryKind(site)
  OBVIOUS
<1>3. fromLocation(ts, c).kind = k
  BY <1>1, <1>2 DEF fromLocation, classify, CompletionQuery
<1>4. k \in {"SystemSubroutine", "Macro", "ScopedAccess", "MemberAccess", "InstantiationSuffix", "Lexical"}
  BY <1>2 DEF CompletionQueryKind
<1> QED BY <1>3, <1>4

LEMMA CompletionsTyped ==
  ASSUME world \in Worlds, NEW ts, NEW c, NEW context
  PROVE  \A it \in getCompletions(fromLocation(ts, c), context) : IsItem(it)
<1>1. PICK q : q = fromLocation(ts, c)
  OBVIOUS
<1> DEFINE made == CASE q.kind = "SystemSubroutine"    -> SystemItems
                     [] q.kind = "Macro"               -> MacroItems(q.prefix)
                     [] q.kind = "InstantiationSuffix" -> SuffixItems(q.receiver)
                     [] q.kind = "MemberAccess"        -> AccessItems(q.receiver, q.call)
                     [] q.kind = "ScopedAccess"        -> IF q.receiver = NoToken THEN {}
                                                          ELSE MemberItems(world.scopes, "Expression", q.call)
                     [] q.kind = "Lexical"             -> UnitItems(context)
                                                          \cup MemberItems(world.scopes, context, q.call)
<1>2. getCompletions(q, context) = {setCompletionEdit(it, q) : it \in made}
  BY Zenon DEF getCompletions
<1>3. q.kind \in {"SystemSubroutine", "Macro", "ScopedAccess", "MemberAccess", "InstantiationSuffix", "Lexical"}
  BY <1>1, QueryKind
<1>4. PICK m : m = made
  OBVIOUS
<1>5. \/ m = SystemItems
      \/ m = MacroItems(q.prefix)
      \/ m = SuffixItems(q.receiver)
      \/ m = AccessItems(q.receiver, q.call)
      \/ m = {}
      \/ m = MemberItems(world.scopes, "Expression", q.call)
      \/ m = UnitItems(context) \cup MemberItems(world.scopes, context, q.call)
  BY <1>3, <1>4, Zenon
<1>6. \A it \in m : IsItem(it)
  <2>1. \A it \in SystemItems : IsItem(it)
    BY SystemItemsTyped
  <2>2. \A it \in MacroItems(q.prefix) : IsItem(it)
    BY MacroItemsTyped
  <2>3. \A it \in SuffixItems(q.receiver) : IsItem(it)
    BY SuffixItemsTyped
  <2>4. \A it \in AccessItems(q.receiver, q.call) : IsItem(it)
    BY AccessItemsTyped
  <2>5. \A it \in MemberItems(world.scopes, "Expression", q.call) : IsItem(it)
    BY MemberItemsTyped
  <2>6. \A it \in MemberItems(world.scopes, context, q.call) : IsItem(it)
    BY MemberItemsTyped
  <2>7. \A it \in UnitItems(context) : IsItem(it)
    BY UnitItemsTyped
  <2> QED BY <1>5, <2>1, <2>2, <2>3, <2>4, <2>5, <2>6, <2>7, Zenon
<1> HIDE DEF made
<1>7. \A it \in m : IsItem(setCompletionEdit(it, q))
  BY <1>6, EditTyped, Zenon
<1> QED BY <1>1, <1>2, <1>4, <1>7, Zenon

LEMMA UpdateTyped ==
  ASSUME NEW it, IsItem(it)
  PROVE  IsItem(updateCompletionEditText(it))
<1>1. PICK t \in Txt : t = it.insertText
  BY ItemTexts
<1>2. IsItem([it EXCEPT !.newText = t])
  BY ItemChange
<1>3. IsItem([it EXCEPT !.newText = it.insertText])
  BY <1>1, <1>2
<1> QED BY <1>3, Zenon DEF updateCompletionEditText

LEMMA ResolveTyped ==
  ASSUME world \in Worlds, NEW it, IsItem(it)
  PROVE  \A r \in getCompletionItemResolve(it) : IsItem(r)
<1>1. \A r \in ResolvedMacros(it) : IsItem(r)
  <2>1. ASSUME NEW m \in world.idxMacros PROVE IsItem(updateCompletionEditText(resolveMacro(it, m.args)))
    <3>1. m.args # None => m.args \in Seq(Seq(STRING))
      BY WorldIs
    <3> QED BY <3>1, ResolveMacroTyped, UpdateTyped
  <2>2. ASSUME NEW r \in ResolvedMacros(it)
        PROVE  r = it \/ \E m \in world.idxMacros : r = updateCompletionEditText(resolveMacro(it, m.args))
    BY <2>2, Zenon DEF ResolvedMacros
  <2> QED BY <2>1, <2>2, Zenon
<1>2. \A r \in ResolvedUnits(it) : IsItem(r)
  <2>1. ASSUME NEW u \in world.units PROVE IsItem(updateCompletionEditText(resolveUnit(it, u, FALSE)))
    <3>1. /\ u.name \in Txt /\ u.params \in Seq(Seq(STRING)) /\ u.ports \in Seq(Seq(STRING))
          /\ u.kind \in {"Module", "Interface", "Package", "Class"}
      BY WorldIs
    <3>2. PICK no : no = FALSE
      OBVIOUS
    <3>3. IsItem(resolveUnit(it, u, no))
      BY <3>1, ResolveUnitTyped
    <3>4. IsItem(updateCompletionEditText(resolveUnit(it, u, no)))
      BY <3>3, UpdateTyped
    <3> QED BY <3>2, <3>4
  <2>2. ASSUME NEW r \in ResolvedUnits(it)
        PROVE  r = it \/ \E u \in world.units : r = updateCompletionEditText(resolveUnit(it, u, FALSE))
    BY <2>2, Zenon DEF ResolvedUnits
  <2> QED BY <2>1, <2>2, Zenon
<1>3. \A r \in ResolvedMembers(it) : IsItem(r)
  <2> DEFINE bare == [it EXCEPT !.data = NoData]
             filled(d) == IF d.kind = "Subroutine" /\ resolves
                          THEN setSubroutineCompletionEdit(bare, d) ELSE bare
             edited(d) == IF it.data.labelOnly THEN filled(d) ELSE updateCompletionEditText(filled(d))
  <2>1. ASSUME NEW r \in ResolvedMembers(it)
        PROVE  r = it \/ r = bare \/ \E d \in Found(it) : r = [edited(d) EXCEPT !.documented = TRUE]
    BY <2>1, Zenon DEF ResolvedMembers
  <2>2. IsItem(bare)
    BY ItemChange, TxtFacts
  <2> HIDE DEF bare
  <2>3. Found(it) \subseteq Declarations
    <3>1. Declared \subseteq Declarations
      BY WorldIs, Zenon DEF Declared
    <3>2. Found(it) \subseteq Declared
      BY Zenon DEF Found
    <3> QED BY <3>1, <3>2
  <2>4. ASSUME NEW d \in Found(it) PROVE IsItem([edited(d) EXCEPT !.documented = TRUE])
    <3>1. IsItem(filled(d))
      <4>1. IsItem(setSubroutineCompletionEdit(bare, d))
        BY <2>2, <2>3, <2>4, SubroutineTyped
      <4> QED BY <2>2, <4>1
    <3> HIDE DEF filled
    <3>2. IsItem(updateCompletionEditText(filled(d)))
      BY <3>1, UpdateTyped
    <3>3. IsItem(edited(d))
      BY <3>1, <3>2
    <3> HIDE DEF edited
    <3>4. PICK yes : yes = TRUE
      OBVIOUS
    <3>5. IsItem([edited(d) EXCEPT !.documented = yes])
      BY <3>3, ItemChange, TxtFacts
    <3> QED BY <3>4, <3>5
  <2> HIDE DEF edited
  <2> QED BY <2>1, <2>2, <2>4, Zenon
<1>4. ASSUME NEW r \in getCompletionItemResolve(it)
      PROVE  r = it \/ r \in ResolvedMacros(it) \/ r \in ResolvedUnits(it) \/ r \in ResolvedMembers(it)
  BY <1>4, Zenon DEF getCompletionItemResolve
<1> QED BY <1>1, <1>2, <1>3, <1>4, Zenon

\* A line of source with the places of its tokens, an item with its texts, and what the
\* user's accepting it leaves.
WordInv ==
  /\ \E l \in Lines : line = Place(l)
  /\ cursor \in Nat
  /\ world \in Worlds
  /\ item # None => IsItem(item)
  /\ WholeWordReplaced

LEMMA InsertedTyped ==
  ASSUME IsItem(item)
  PROVE  Inserted \in Txt
<1>1. item.newText \in Txt
  BY ItemTexts
<1>2. Expand(item.newText).text \in Txt
  BY <1>1, ExpandTyped
<1> QED BY <1>1, <1>2 DEF Inserted

LEMMA AcceptReplaces ==
  ASSUME NEW l \in Lines, line = Place(l), cursor \in Nat, IsItem(item)
  PROVE  Replaced(line, cursor, Inserted, Accepted(line, cursor, Inserted))
<1>1. l \in Seq(SourceToken) /\ \A i \in DOMAIN l : (l[i].text = <<"tick">>) = (l[i].kind = "Tick")
  BY CompAssumption, Zenon DEF SourceToken
<1>2. /\ line \in Seq(PlacedToken) /\ Len(line) = Len(l)
      /\ \A i \in 1 .. Len(l) : line[i].kind = l[i].kind /\ line[i].text = l[i].text
      /\ \E e : Ends(e, line)
  BY <1>1, PlaceIs
<1>3. PICK e : Ends(e, line)
  BY <1>2
<1>4. \A i \in 1 .. Len(line) : line[i].text = <<"tick">> <=> line[i].kind = "Tick"
  <2>1. DOMAIN l = 1 .. Len(l)
    BY <1>1, LenProperties
  <2> QED BY <1>1, <1>2, <2>1, Zenon
<1>5. STRING \subseteq Chr
  BY LiteralsAreChr
<1>6. PICK I \in Seq(Chr) : I = Inserted
  BY InsertedTyped DEF Txt
<1>7. Replaced(line, cursor, I, Accepted(line, cursor, I))
  BY <1>2, <1>3, <1>4, <1>5, WordReplaced
<1> QED BY <1>6, <1>7

\* The line, the cursor and the declarations are there from the first state, and every
\* item has its texts.
LEMMA WordInit == CompInit => WordInv
<1> SUFFICES ASSUME CompInit PROVE WordInv
  OBVIOUS
<1>1. \E l \in Lines : line = Place(l)
  BY DEF CompInit
<1>2. cursor \in Nat /\ world \in Worlds /\ item = None /\ document = None
  BY DEF CompInit
<1>3. WholeWordReplaced
  BY <1>2 DEF WholeWordReplaced
<1> QED BY <1>1, <1>2, <1>3 DEF WordInv

\* A step that makes no document keeps what is said of it.
LEMMA WordNext == WordInv /\ [CompNext]_compVars => WordInv'
<1> SUFFICES ASSUME WordInv, [CompNext]_compVars PROVE WordInv'
  OBVIOUS
<1>0. PICK l \in Lines : line = Place(l)
  BY DEF WordInv
<1>1. CASE GetDocCompletion
  <2>1. IsItem(item')
    <3>1. \A it \in getCompletions(Query, contextKind(chain)) : IsItem(it)
      BY CompletionsTyped DEF WordInv, Query
    <3> QED BY <1>1, <3>1 DEF GetDocCompletion
  <2>2. /\ document' = None /\ line' = line /\ cursor' = cursor /\ world' = world
    BY <1>1 DEF GetDocCompletion
  <2>3. WholeWordReplaced'
    BY <2>2 DEF WholeWordReplaced
  <2>4. (\E k \in Lines : line = Place(k))'
    BY <1>0, <2>2
  <2> QED BY <2>1, <2>2, <2>3, <2>4 DEF WordInv
<1>2. CASE ChangeDeclarations
  <2>1. /\ document' = None /\ line' = line /\ cursor' = cursor /\ world' \in Worlds /\ item' = item
    BY <1>2 DEF ChangeDeclarations
  <2>2. WholeWordReplaced'
    BY <2>1 DEF WholeWordReplaced
  <2>3. (\E k \in Lines : line = Place(k))'
    BY <1>0, <2>1
  <2> QED BY <2>1, <2>2, <2>3 DEF WordInv
<1>3. CASE CompletionResolve
  <2>1. IsItem(item')
    <3>1. IsItem(item)
      BY <1>3 DEF WordInv, CompletionResolve
    <3>2. PICK r \in getCompletionItemResolve(item) :
            item' = IF resolves THEN r ELSE [item EXCEPT !.documented = r.documented, !.data = r.data]
      BY <1>3 DEF CompletionResolve
    <3>3. IsItem(r)
      BY <3>1, <3>2, ResolveTyped DEF WordInv
    <3>4. IsItem([item EXCEPT !.documented = r.documented, !.data = r.data])
      BY <3>1, ItemChanges, TxtFacts
    <3> QED BY <3>2, <3>3, <3>4
  <2>2. /\ document' = None /\ line' = line /\ cursor' = cursor /\ world' = world
    BY <1>3 DEF CompletionResolve
  <2>3. WholeWordReplaced'
    BY <2>2 DEF WholeWordReplaced
  <2>4. (\E k \in Lines : line = Place(k))'
    BY <1>0, <2>2
  <2> QED BY <2>1, <2>2, <2>3, <2>4 DEF WordInv
<1>4. CASE Accept
  <2>1. IsItem(item) /\ cursor \in Nat
    BY <1>4 DEF WordInv, Accept
  <2>2. Replaced(line, cursor, Inserted, Accepted(line, cursor, Inserted))
    BY <1>0, <2>1, AcceptReplaces
  <2>3. document' = Accepted(line, cursor, Inserted)
    BY <1>4 DEF Accept, Accepted, Query
  <2>4. Replaced(line, cursor, Inserted, document')
    BY <2>2, <2>3
  <2>5. line' = line /\ cursor' = cursor /\ item' = item /\ world' = world
    BY <1>4 DEF Accept
  <2>6. Inserted' = Inserted
    BY <2>5 DEF Inserted
  <2>7. WholeWordReplaced'
    BY <2>4, <2>5, <2>6, Zenon DEF WholeWordReplaced, Replaced, Touching
  <2>8. (\E k \in Lines : line = Place(k))'
    BY <1>0, <2>5
  <2> QED BY <2>1, <2>5, <2>7, <2>8 DEF WordInv
<1>5. CASE UNCHANGED compVars
  <2>1. line' = line /\ cursor' = cursor /\ item' = item /\ world' = world /\ document' = document
    BY <1>5 DEF compVars
  <2>2. Inserted' = Inserted
    BY <2>1 DEF Inserted
  <2>3. WholeWordReplaced'
    BY <2>1, <2>2, Zenon DEF WholeWordReplaced, WordInv
  <2> QED BY <1>0, <2>1, <2>3 DEF WordInv
<1> QED BY <1>1, <1>2, <1>3, <1>4, <1>5 DEF CompNext

\* Whatever the line, the cursor, the declarations around it and what became of them
\* since the list: accepting an item replaces the whole word the cursor touches, or the
\* marker before it, and nothing else.
THEOREM CompletionsReplaceWords == CompSpec => []WholeWordReplaced
<1>1. CompInit => WordInv
  BY WordInit
<1>2. WordInv /\ [CompNext]_compVars => WordInv'
  BY WordNext
<1>3. WordInv => WholeWordReplaced
  BY DEF WordInv
<1> QED BY <1>1, <1>2, <1>3, PTL DEF CompSpec

-----------------------------------------------------------------------------
(* What is drawn over the document (Annotations).                           *)

Lined == [indent : Nat, blank : BOOLEAN]
CodeLines(ls) == {i \in DOMAIN ls : i > 1 /\ ~ ls[i].blank}

LEMMA MinIndentIs ==
  ASSUME NEW ls \in Seq(Lined)
  PROVE  /\ minIndent(ls) \in Nat
         /\ \A i \in CodeLines(ls) : minIndent(ls) <= ls[i].indent
         /\ CodeLines(ls) # {} => \E i \in CodeLines(ls) : ls[i].indent = minIndent(ls)
<1> DEFINE is == {ls[i].indent : i \in CodeLines(ls)}
<1>1. minIndent(ls) = IF is = {} THEN 0 ELSE Min(is)
  BY Zenon DEF minIndent, CodeLines
<1>2. is \in SUBSET Nat
  <2>1. \A i \in DOMAIN ls : ls[i] \in Lined
    BY LenProperties, ElementOfSeq
  <2> QED BY <2>1 DEF Lined, CodeLines
<1>3. \A i \in CodeLines(ls) : ls[i].indent \in is
  OBVIOUS
<1>4. \A n \in is : \E i \in CodeLines(ls) : ls[i].indent = n
  OBVIOUS
<1> HIDE DEF is
<1>5. CASE is = {}
  BY <1>1, <1>3, <1>5
<1>6. CASE is # {}
  <2>1. PICK n \in is : \A m \in is : n <= m
    BY <1>2, <1>6, Least
  <2>2. Min(is) \in is /\ \A m \in is : Min(is) <= m
    BY <2>1 DEF Min
  <2>3. minIndent(ls) = Min(is)
    BY <1>1, <1>6
  <2> QED BY <1>2, <1>3, <1>4, <2>2, <2>3
<1> QED BY <1>5, <1>6

\* Reindenting moves every line of code after the first by the same distance.
Reindented(ls, column, new) ==
  /\ Len(new) = Len(ls) /\ new[1] = ls[1]
  /\ \A i \in CodeLines(ls) : new[i].indent = column + (ls[i].indent - minIndent(ls))

LEMMA ReindentIs ==
  ASSUME NEW ls \in Seq(Lined), ls # <<>>, NEW column \in Nat
  PROVE  Reindented(ls, column, reindent(ls, column))
<1>1. Len(ls) \in Nat /\ DOMAIN ls = 1 .. Len(ls) /\ \A i \in 1 .. Len(ls) : ls[i] \in Lined
  BY LenProperties, ElementOfSeq
<1>2. 1 \in 1 .. Len(ls)
  <2>1. Len(ls) # 0
    BY EmptySeq
  <2> QED BY <1>1, <2>1
<1> DEFINE new == reindent(ls, column)
<1>3. new = [i \in 1 .. Len(ls) |->
               IF i = 1 THEN ls[1]
               ELSE [ls[i] EXCEPT !.indent = column + IF ls[i].blank THEN 0 ELSE @ - minIndent(ls)]]
  BY <1>1 DEF reindent
<1> HIDE DEF new
<1>4. Len(new) = Len(ls)
  <2>1. DOMAIN new = 1 .. Len(ls)
    BY <1>3
  <2> QED BY <1>1, <2>1
<1>5. new[1] = ls[1]
  BY <1>2, <1>3
<1>6. ASSUME NEW i \in CodeLines(ls) PROVE new[i].indent = column + (ls[i].indent - minIndent(ls))
  <2>1. i \in 1 .. Len(ls) /\ i # 1 /\ ~ ls[i].blank
    BY <1>1 DEF CodeLines
  <2>2. new[i] = [ls[i] EXCEPT !.indent = column + IF ls[i].blank THEN 0 ELSE @ - minIndent(ls)]
    BY <1>3, <2>1, Zenon
  <2>3. ls[i] \in Lined
    BY <1>1, <2>1
  <2>4. PICK n \in Nat, b \in BOOLEAN : ls[i] = [indent |-> n, blank |-> b]
    BY <2>3 DEF Lined
  <2>5. PICK m \in Nat : m = minIndent(ls)
    BY MinIndentIs
  <2>6. [ls[i] EXCEPT !.indent = column + (ls[i].indent - m)].indent = column + (ls[i].indent - m)
    BY <2>4
  <2> QED BY <2>1, <2>2, <2>5, <2>6
<1> QED BY <1>4, <1>5, <1>6 DEF Reindented, new

LEMMA ExpansionShaped ==
  ASSUME sheet \in Expansions, drawn = [what |-> "expanded", lines |-> reindent(sheet.lines, sheet.column)]
  PROVE  ShapeOfExpansion
<1> DEFINE old == sheet.lines
           new == drawn.lines
<1>1. old \in Seq(Lined) /\ old # <<>> /\ sheet.column \in Nat
  BY AnnAssumption, Zenon DEF Lined
<1>2. new = reindent(old, sheet.column)
  OBVIOUS
<1> HIDE DEF old, new
<1>3. Reindented(old, sheet.column, new)
  BY <1>1, <1>2, ReindentIs
<1>4. \A i \in CodeLines(old) : old[i].indent \in Nat
  <2>1. \A i \in DOMAIN old : old[i] \in Lined
    BY <1>1, LenProperties, ElementOfSeq
  <2> QED BY <2>1 DEF Lined, CodeLines
<1>0. PICK m \in Nat : m = minIndent(old)
  BY <1>1, MinIndentIs
<1>5. /\ \A i \in CodeLines(old) : m <= old[i].indent
      /\ CodeLines(old) # {} => \E i \in CodeLines(old) : old[i].indent = m
      /\ m = minIndent(old)
  BY <1>0, <1>1, MinIndentIs
<1>6. \A i \in CodeLines(old) : new[i].indent = sheet.column + (old[i].indent - m)
  BY <1>3, <1>5 DEF Reindented
<1>7. Len(new) = Len(old) /\ new[1] = old[1]
  BY <1>3 DEF Reindented
<1>8. \A i, j \in CodeLines(old) : new[i].indent - new[j].indent = old[i].indent - old[j].indent
  <2> SUFFICES ASSUME NEW i \in CodeLines(old), NEW j \in CodeLines(old)
               PROVE  new[i].indent - new[j].indent = old[i].indent - old[j].indent
    OBVIOUS
  <2>1. PICK a \in Nat, b \in Nat, c \in Nat : a = old[i].indent /\ b = old[j].indent /\ c = sheet.column
    BY <1>1, <1>4
  <2>2. new[i].indent = c + (a - m) /\ new[j].indent = c + (b - m)
    BY <1>6, <2>1
  <2>3. (c + (a - m)) - (c + (b - m)) = a - b
    OBVIOUS
  <2> QED BY <2>1, <2>2, <2>3
<1>9. \A i \in CodeLines(old) : new[i].indent >= sheet.column
  BY <1>1, <1>4, <1>5, <1>6
<1>10. CodeLines(old) # {} => \E i \in CodeLines(old) : new[i].indent = sheet.column
  BY <1>1, <1>4, <1>5, <1>6
<1> QED BY <1>7, <1>8, <1>9, <1>10, Zenon DEF ShapeOfExpansion, CodeLines, old, new

\* A hint names what the language binds its argument to.
Binds(as, ports, h) ==
  CASE as[h.arg].form = "ordered" ->
         h.label = <<h.arg>> \/ \E j \in 1 .. h.arg - 1 : as[j].form = "empty"
    [] as[h.arg].form = "named"   -> h.label = <<as[h.arg].formal>>
    [] OTHER -> h.label = [p \in 1 .. ports |-> p]

LEMMA OrderedHintsBind ==
  ASSUME NEW as, ArgumentList(as), NEW ks \in SUBSET DOMAIN as, NEW i, NEW formals, NEW ports,
         NEW h \in OrderedHints(i, as, ks, formals)
  PROVE  h.inst = i /\ Binds(as, ports, h)
<1>1. PICK k \in ks : as[k].form = "ordered" /\ h = Hint(i, k, <<OrderedBefore(as, k) + 1>>)
  BY DEF OrderedHints
<1>2. k \in 1 .. Len(as) /\ k \in DOMAIN as
  BY DEF ArgumentList
<1>3. h.inst = i /\ h.arg = k /\ h.label = <<OrderedBefore(as, k) + 1>>
  BY <1>1 DEF Hint
<1>4. ASSUME ~ \E j \in 1 .. k - 1 : as[j].form = "empty" PROVE h.label = <<k>>
  <2>1. \A j \in 1 .. k - 1 : as[j].form = "ordered"
    BY <1>1, <1>2, <1>4 DEF ArgumentList
  <2>2. {j \in 1 .. k - 1 : as[j].form = "ordered"} = 1 .. k - 1
    BY <2>1
  <2>3. Cardinality(1 .. k - 1) = k - 1
    <3>1. 1 \in Int /\ k - 1 \in Int /\ (IF 1 > k - 1 THEN 0 ELSE k - 1 - 1 + 1) = k - 1
      BY <1>2
    <3> QED BY <3>1, FS_Interval
  <2>4. OrderedBefore(as, k) + 1 = k
    <3>1. OrderedBefore(as, k) = k - 1
      BY <2>2, <2>3, Zenon DEF OrderedBefore
    <3>2. k \in Nat
      BY <1>2
    <3> QED BY <3>1, <3>2
  <2> QED BY <1>3, <2>4
<1>5. h.label = <<k>> \/ \E j \in 1 .. k - 1 : as[j].form = "empty"
  BY <1>4
<1> QED BY <1>1, <1>3, <1>5 DEF Binds

LEMMA PortHintsBind ==
  ASSUME NEW i, NEW conns, ArgumentList(conns), NEW ports, NEW h \in PortHints(i, conns, ports)
  PROVE  h.inst = i /\ Binds(conns, ports, h)
<1> DEFINE seen == {k \in DOMAIN conns : \A j \in Crowded(conns, ports) : k < j}
           all  == [p \in 1 .. ports |-> p]
<1>0. seen \in SUBSET DOMAIN conns
  OBVIOUS
<1>1. \/ h \in OrderedHints(i, conns, seen, ports)
      \/ \E k \in seen : conns[k].form = "wild" /\ h = Hint(i, k, all)
      \/ \E k \in NamedAt(conns, ports) : h = Hint(i, k, <<conns[k].formal>>)
  BY Zenon DEF PortHints
<1> HIDE DEF seen
<1>2. CASE h \in OrderedHints(i, conns, seen, ports)
  BY <1>0, <1>2, OrderedHintsBind
<1>3. ASSUME NEW k \in seen, conns[k].form = "wild", h = Hint(i, k, all) PROVE h.inst = i /\ Binds(conns, ports, h)
  <2>1. h.inst = i /\ h.arg = k /\ h.label = all
    BY <1>3 DEF Hint
  <2> QED BY <1>3, <2>1 DEF Binds
<1>4. ASSUME NEW k \in NamedAt(conns, ports), h = Hint(i, k, <<conns[k].formal>>)
      PROVE  h.inst = i /\ Binds(conns, ports, h)
  <2>1. h.inst = i /\ h.arg = k /\ h.label = <<conns[k].formal>>
    BY <1>4 DEF Hint
  <2>2. conns[k].form = "named"
    BY DEF NamedAt
  <2> QED BY <2>1, <2>2 DEF Binds
<1> QED BY <1>1, <1>2, <1>3, <1>4

LEMMA NodeHintsBind ==
  ASSUME NEW n, n.kind \in {"inst", "macro", "call", "class"}, ArgumentList(n.args),
         n.kind = "macro" => \A k \in DOMAIN n.args : n.args[k].form = "ordered",
         n.kind = "inst" => /\ DOMAIN n.insts = 1 .. Len(n.insts)
                            /\ \A j \in DOMAIN n.insts : ArgumentList(n.insts[j]),
         NEW h \in handleNode(n)
  PROVE  Binds(ArgumentsAt(n, h.inst), n.ports, h)
<1>o. /\ n.own /\ n.kind = "inst" => h \in handleInstantiation(n)
      /\ n.own /\ n.kind = "macro" => h \in handleMacroUsage(n)
      /\ n.own /\ n.kind = "call" => h \in handleInvocation(n)
      /\ n.own /\ n.kind = "class" => h \in handleClassName(n)
  BY DEF handleNode
<1>n. n.own
  BY DEF handleNode
<1>1. CASE n.kind = "inst"
  <2> DEFINE seen == {i \in DOMAIN n.insts : \A j \in 1 .. i - 1 : Crowded(n.insts[j], n.ports) = {}}
             ks == {k \in DOMAIN n.args : k <= n.formals}
  <2>0. ks \in SUBSET DOMAIN n.args
    OBVIOUS
  <2>1. h \in handleInstantiation(n)
    BY <1>1, <1>o, <1>n
  <2>2. \/ h \in OrderedHints(0, n.args, ks, n.formals)
        \/ \E i \in seen : h \in PortHints(i, n.insts[i], n.ports)
    BY <2>1, Zenon DEF handleInstantiation
  <2>3. \A i \in seen : i \in DOMAIN n.insts /\ i # 0
    BY <1>1
  <2> HIDE DEF seen, ks
  <2>4. CASE h \in OrderedHints(0, n.args, ks, n.formals)
    <3>1. h.inst = 0 /\ Binds(n.args, n.ports, h)
      BY <2>0, <2>4, OrderedHintsBind
    <3> QED BY <3>1 DEF ArgumentsAt
  <2>5. ASSUME NEW i \in seen, h \in PortHints(i, n.insts[i], n.ports) PROVE Binds(ArgumentsAt(n, h.inst), n.ports, h)
    <3>1. ArgumentList(n.insts[i]) /\ i # 0
      BY <1>1, <2>3
    <3>2. h.inst = i /\ Binds(n.insts[i], n.ports, h)
      BY <2>5, <3>1, PortHintsBind
    <3> QED BY <3>1, <3>2 DEF ArgumentsAt
  <2> QED BY <2>2, <2>4, <2>5
<1>2. CASE n.kind = "macro"
  <2>1. h \in handleMacroUsage(n)
    BY <1>2, <1>o, <1>n
  <2>2. PICK k \in DOMAIN n.args : h = Hint(0, k, <<k>>)
    BY <2>1, Zenon DEF handleMacroUsage
  <2>3. h.inst = 0 /\ h.arg = k /\ h.label = <<k>>
    BY <2>2 DEF Hint
  <2> QED BY <1>2, <2>3 DEF Binds, ArgumentsAt
<1>3. CASE n.kind = "call"
  <2>1. h \in handleInvocation(n)
    BY <1>3, <1>o, <1>n
  <2>2. PICK k \in NamedFormals(n) : h = Hint(0, k, <<k>>)
    BY <2>1, Zenon DEF handleInvocation
  <2>3. h.inst = 0 /\ h.arg = k /\ h.label = <<k>>
    BY <2>2 DEF Hint
  <2>4. n.args[k].form = "ordered"
    BY DEF NamedFormals, ArgumentList
  <2> QED BY <2>3, <2>4 DEF Binds, ArgumentsAt
<1>4. CASE n.kind = "class"
  <2>1. h \in OrderedHints(0, n.args, DOMAIN n.args, n.formals)
    BY <1>4, <1>o, <1>n, Zenon DEF handleClassName
  <2>2. h.inst = 0 /\ Binds(n.args, n.ports, h)
    BY <2>1, OrderedHintsBind
  <2> QED BY <2>2 DEF ArgumentsAt
<1> QED BY <1>1, <1>2, <1>3, <1>4

\* The nodes of a range.
LEMMA NodesInRange ==
  ASSUME NEW s \in Sheets, NEW a \in Nat, NEW b \in Nat, a <= b
  PROVE  /\ \A i \in collectedHints(s) : a <= s[i].from /\ s[i].from <= b => i \in NodesIn(s, a, b)
         /\ \A i \in NodesIn(s, a, b) : /\ i \in DOMAIN s
                                        /\ s[i].own => s[i].from <= b /\ s[i].to > a
         /\ \A i \in collectedHints(s) :
              /\ s[i].from <= b /\ s[i].to > a
              /\ ~ \E j \in DOMAIN s : j # i /\ s[j].from > s[i].from /\ s[j].from < s[i].to
              => i \in NodesIn(s, a, b)
<1>1. /\ DOMAIN s = 1 .. Len(s)
      /\ \A i \in DOMAIN s : s[i].from \in Nat /\ s[i].to \in Nat
                            /\ (s[i].own => s[i].from < s[i].to)
  BY AnnAssumption, Zenon
<1>2. \A i \in collectedHints(s) : i \in DOMAIN s /\ \A j \in 1 .. i - 1 : s[j].from # s[i].from
  BY DEF collectedHints
<1>3. \A i, j \in collectedHints(s) : s[i].from = s[j].from => i = j
  <2> SUFFICES ASSUME NEW i \in collectedHints(s), NEW j \in collectedHints(s), s[i].from = s[j].from PROVE i = j
    OBVIOUS
  <2>1. i \in 1 .. Len(s) /\ j \in 1 .. Len(s)
    BY <1>1, <1>2
  <2>2. ~ (i < j)
    BY <1>2, <2>1
  <2>3. ~ (j < i)
    BY <1>2, <2>1
  <2> QED BY <2>1, <2>2, <2>3
<1> DEFINE K == collectedHints(s)
           before == {i \in K : s[i].from < a}
           ended  == {i \in before : s[i].to <= a}
<1>4. NodesIn(s, a, b) = {i \in K : s[i].from >= a /\ s[i].from <= b}
                           \cup {i \in before : \A j \in ended : s[j].from < s[i].from}
  BY DEF NodesIn
<1> HIDE DEF K
<1>5. \A i \in K : i \in DOMAIN s /\ s[i].from \in Nat /\ s[i].to \in Nat
                            /\ (s[i].own => s[i].from < s[i].to)
  BY <1>1, <1>2 DEF K
<1>6. \A i \in K : a <= s[i].from /\ s[i].from <= b => i \in NodesIn(s, a, b)
  BY <1>4, <1>5
<1>7. ASSUME NEW i \in NodesIn(s, a, b) PROVE i \in DOMAIN s /\ (s[i].own => s[i].from <= b /\ s[i].to > a)
  BY <1>4, <1>5, <1>7
<1>8. ASSUME NEW i \in K, s[i].from <= b, s[i].to > a,
             ~ \E j \in DOMAIN s : j # i /\ s[j].from > s[i].from /\ s[j].from < s[i].to
      PROVE  i \in NodesIn(s, a, b)
  <2>1. CASE s[i].from >= a
    BY <1>4, <1>8, <2>1
  <2>2. CASE s[i].from < a
    <3>1. ASSUME NEW j \in ended PROVE s[j].from < s[i].from
      <4>1. j \in K /\ s[j].from < a /\ s[j].to <= a /\ j \in DOMAIN s
        BY <1>5
      <4>2. s[i].from # s[j].from
        <5>1. i # j
          BY <1>5, <1>8, <4>1
        <5> QED BY <1>3, <4>1, <5>1 DEF K
      <4>3. ~ (s[j].from > s[i].from)
        <5>1. s[j].from < s[i].to
          BY <1>5, <1>8, <4>1
        <5>2. j # i
          BY <4>2
        <5> QED BY <1>8, <4>1, <5>1, <5>2
      <4> QED BY <1>5, <4>1, <4>2, <4>3
    <3>2. i \in before
      BY <2>2
    <3> QED BY <1>4, <3>1, <3>2
  <2> QED BY <1>5, <2>1, <2>2
<1> QED BY <1>6, <1>7, <1>8 DEF K

\* An answer is the one of its question, on the sheet the document has.
HintsDrawn(a, b) ==
  [what |-> "hints", start |-> a, end |-> b,
   hints |-> [i \in NodesIn(sheet, a, b) |-> handleNode(sheet[i])]]

AnnInv ==
  /\ \/ view = "expansion" /\ sheet \in Expansions
     \/ view = "hints" /\ sheet \in Sheets
  /\ \/ drawn.what = "none"
     \/ /\ view = "expansion"
        /\ drawn = [what |-> "expanded", lines |-> reindent(sheet.lines, sheet.column)]
     \/ /\ view = "hints"
        /\ \E a, b \in Nat : a <= b /\ drawn = HintsDrawn(a, b)

\* What is drawn belongs to the document's sheet, and a range is one the editor may ask for.
THEOREM AnnotationsOnSheet == AnnSpec => []AnnInv
<1>1. AnnInit => AnnInv
  BY DEF AnnInit, AnnInv
<1>2. ASSUME AnnInv, [AnnNext]_annVars PROVE AnnInv'
  <2>1. CASE UNCHANGED annVars
    BY <1>2, <2>1 DEF AnnInv, annVars, HintsDrawn
  <2>2. CASE AnnNext
    <3>1. view' = view /\ sheet' = sheet
      BY <2>2 DEF AnnNext
    <3>2. CASE ExpandMacro
      <4>1. view' = "expansion" /\ sheet' \in Expansions
        BY <1>2, <3>1, <3>2 DEF AnnInv, ExpandMacro
      <4>2. drawn' = [what |-> "expanded", lines |-> reindent(sheet'.lines, sheet'.column)]
        BY <3>1, <3>2, Zenon DEF ExpandMacro
      <4> QED BY <4>1, <4>2, Zenon DEF AnnInv
    <3>3. ASSUME view = "hints", NEW last, NEW a \in 0 .. last, NEW b \in a .. last, collectHints(a, b) PROVE AnnInv'
      <4>1. view' = "hints" /\ sheet' \in Sheets
        BY <1>2, <3>1, <3>3 DEF AnnInv
      <4>2. a \in Nat /\ b \in Nat /\ a <= b
        OBVIOUS
      <4>3. drawn' = HintsDrawn(a, b)'
        BY <3>1, <3>3, Zenon DEF collectHints, HintsDrawn
      <4> QED BY <4>1, <4>2, <4>3, Zenon DEF AnnInv
    <3>4. ExpandMacro \/ \E last : view = "hints" /\ \E a \in 0 .. last : \E b \in a .. last : collectHints(a, b)
      BY <2>2, Zenon DEF AnnNext
    <3> QED BY <3>2, <3>3, <3>4
  <2> QED BY <1>2, <2>1, <2>2
<1> QED BY <1>1, <1>2, PTL DEF AnnSpec

\* What the invariant says of each answer.
LEMMA ExpandedMeans ==
  ASSUME AnnInv, Drew("expanded")
  PROVE  sheet \in Expansions /\ drawn = [what |-> "expanded", lines |-> reindent(sheet.lines, sheet.column)]
<1>1. drawn.what = "expanded"
  BY DEF Drew
<1>2. ~ \E a, b \in Nat : drawn = HintsDrawn(a, b)
  BY <1>1 DEF HintsDrawn
<1> QED BY <1>1, <1>2 DEF AnnInv

LEMMA HintsMean ==
  ASSUME AnnInv, Drew("hints")
  PROVE  /\ sheet \in Sheets
         /\ \E a, b \in Nat : a <= b /\ drawn = HintsDrawn(a, b)
<1>1. drawn.what = "hints"
  BY DEF Drew
<1>2. drawn # [what |-> "expanded", lines |-> reindent(sheet.lines, sheet.column)]
  BY <1>1
<1> QED BY <1>1, <1>2 DEF AnnInv

\* Expanding a macro keeps the shape of its text (the code action of
\* ExpandMacro.cpp): every line of code after the first moves by the same distance, and the
\* leftmost starts in the column of the usage.
THEOREM ExpansionsKeepShape == AnnSpec => []ShapeOfExpansion
<1>1. AnnInv => ShapeOfExpansion
  <2>1. CASE Drew("expanded")
    BY <2>1, ExpandedMeans, ExpansionShaped
  <2>2. CASE ~ Drew("expanded")
    BY <2>2 DEF ShapeOfExpansion
  <2> QED BY <2>1, <2>2
<1> QED BY <1>1, AnnotationsOnSheet, PTL

\* A hint names the formal the language binds its argument to, whatever the node, the
\* configuration and the range asked for (InlayHintCollector.cpp), except behind an empty
\* connection or a local parameter.
THEOREM HintsAreOfTheirFormals == AnnSpec => []HintsNameFormals
<1>1. ASSUME AnnInv, Drew("hints") PROVE HintsNameFormals
  <2>1. PICK a \in Nat, b \in Nat : a <= b /\ drawn = HintsDrawn(a, b)
    BY <1>1, HintsMean
  <2>2. sheet \in Sheets
    BY <1>1, HintsMean
  <2>3. drawn.hints = [i \in NodesIn(sheet, a, b) |-> handleNode(sheet[i])]
    BY <2>1 DEF HintsDrawn
  <2>4. ASSUME NEW i \in DOMAIN drawn.hints, NEW h \in drawn.hints[i]
        PROVE  Binds(ArgumentsAt(sheet[i], h.inst), sheet[i].ports, h)
    <3>1. i \in NodesIn(sheet, a, b) /\ h \in handleNode(sheet[i])
      BY <2>3, <2>4, Zenon
    <3>2. i \in DOMAIN sheet
      BY <2>1, <2>2, <3>1, NodesInRange
    <3>3. /\ sheet[i].kind \in {"inst", "macro", "call", "class"}
          /\ ArgumentList(sheet[i].args)
          /\ sheet[i].kind = "macro" => \A k \in DOMAIN sheet[i].args : sheet[i].args[k].form = "ordered"
          /\ sheet[i].kind = "inst" => /\ DOMAIN sheet[i].insts = 1 .. Len(sheet[i].insts)
                                      /\ \A j \in DOMAIN sheet[i].insts : ArgumentList(sheet[i].insts[j])
      BY <2>2, <3>2, AnnAssumption, Zenon
    <3> QED BY <3>1, <3>3, NodeHintsBind
  <2>5. \A i \in DOMAIN drawn.hints : \A h \in drawn.hints[i] :
          LET as == ArgumentsAt(sheet[i], h.inst)
          IN Binds(as, sheet[i].ports, h)
    BY <2>4, Zenon
  <2> QED BY <2>5, Zenon DEF HintsNameFormals, Binds
<1>2. AnnInv => HintsNameFormals
  <2>1. CASE ~ Drew("hints")
    BY <2>1 DEF HintsNameFormals
  <2> QED BY <1>1, <2>1
<1> QED BY <1>2, AnnotationsOnSheet, PTL

\* The hints of a request are those of the document's own nodes that reach into its
\* range, with the two exceptions HintsOfRange states: a node at the offset of one
\* visited earlier, and one that starts before the range and has another inside; nodes
\* of included files and macro bodies count for both, by the offsets they have in their
\* own texts, and show nothing.
THEOREM HintsAreOfTheRange == AnnSpec => []HintsOfRange
<1>1. ASSUME AnnInv, Drew("hints") PROVE HintsOfRange
  <2>1. PICK a \in Nat, b \in Nat : a <= b /\ drawn = HintsDrawn(a, b)
    BY <1>1, HintsMean
  <2>2. sheet \in Sheets
    BY <1>1, HintsMean
  <2>3. /\ drawn.start = a /\ drawn.end = b
        /\ drawn.hints = [i \in NodesIn(sheet, a, b) |-> handleNode(sheet[i])]
        /\ DOMAIN drawn.hints = NodesIn(sheet, a, b)
    BY <2>1 DEF HintsDrawn
  <2> DEFINE kept == {i \in DOMAIN sheet : sheet[i].own /\ \A j \in 1 .. i - 1 : sheet[j].from # sheet[i].from}
             inside(i) == \E j \in DOMAIN sheet : j # i /\ sheet[j].from > sheet[i].from /\ sheet[j].from < sheet[i].to
  <2>4. \A i \in kept : i \in collectedHints(sheet) /\ sheet[i].own
    BY DEF collectedHints
  <2>5. /\ \A i \in collectedHints(sheet) :
             a <= sheet[i].from /\ sheet[i].from <= b => i \in NodesIn(sheet, a, b)
        /\ \A i \in NodesIn(sheet, a, b) : sheet[i].own => sheet[i].from <= b /\ sheet[i].to > a
        /\ \A i \in collectedHints(sheet) :
             sheet[i].from <= b /\ sheet[i].to > a /\ ~ inside(i) => i \in NodesIn(sheet, a, b)
    BY <2>1, <2>2, NodesInRange
  <2> HIDE DEF kept, inside
  <2>6. \A i \in kept : drawn.start <= sheet[i].from /\ sheet[i].from <= drawn.end => i \in Got
    BY <2>3, <2>4, <2>5, Zenon DEF Got
  <2>7. \A i \in Got : Reaches(i)
    BY <2>3, <2>5, Zenon DEF Got, Reaches
  <2>8. \A i \in DOMAIN drawn.hints \ Got : drawn.hints[i] = {}
    <3>1. ASSUME NEW i \in DOMAIN drawn.hints \ Got PROVE handleNode(sheet[i]) = {}
      <4>1. ~ sheet[i].own
        BY DEF Got
      <4> QED BY <4>1 DEF handleNode
    <3> QED BY <2>3, <3>1
  <2>9. \A i \in kept : Reaches(i) /\ ~ inside(i) => i \in Got
    BY <2>3, <2>4, <2>5, Zenon DEF Got, Reaches
  <2> QED BY <2>6, <2>7, <2>8, <2>9, Zenon DEF HintsOfRange, kept, inside
<1>2. AnnInv => HintsOfRange
  <2>1. CASE ~ Drew("hints")
    BY <2>1 DEF HintsOfRange
  <2> QED BY <1>1, <2>1
<1> QED BY <1>2, AnnotationsOnSheet, PTL
=============================================================================
