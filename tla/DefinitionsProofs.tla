--------------------------- MODULE DefinitionsProofs ---------------------------
(***************************************************************************)
(* Theorems about going to a definition, for any number of files, any texts *)
(* that were written in them and any history of changes, saves and          *)
(* requests: whatever the caches of the documents hold, an answer is of the *)
(* latest texts and shows every definition, and a diagnosis has every unit. *)
(* A cached tree is never trusted for what it says: it is honest, that is,  *)
(* right if all its buffers are the latest.  The loops of the code are      *)
(* recursive functions; induction is by the least counterexample.           *)
(***************************************************************************)
EXTENDS Definitions, SequenceTheorems, FiniteSetTheorems, WellFoundedInduction, TLAPS

\* What a tree says of the latest texts: its buffers were the latest once, and if they
\* still are, it is what the parser makes of its file now.
Honest(ds, t) ==
  /\ t.file \in DOMAIN t.bufs /\ DOMAIN t.bufs \subseteq Sources
  /\ \A g \in DOMAIN t.bufs : t.bufs[g] \in Nat /\ t.bufs[g] <= ds[g].rev
  /\ (\A g \in DOMAIN t.bufs : t.bufs[g] = ds[g].rev) => t = fromBuffer(ds, t.file)

\* A document of file f, its tree and its analysis apart.
DocTyped(d, f) ==
  /\ d = [text |-> d.text, rev |-> d.rev, tree |-> d.tree, deps |-> d.deps, analysis |-> d.analysis]
  /\ d.text \in Range(Written[f]) /\ d.rev \in Nat /\ d.deps \in Seq(Sources)

\* The trees of an analysis of file f.
AnalysisHonest(ds, a, f) ==
  /\ a \in Seq(Range(a)) /\ a # <<>> /\ a[1].file = f
  /\ \A i \in DOMAIN a : Honest(ds, a[i])

\* The documents: what each keeps is honest.
DocsInv(ds) ==
  /\ ds = [f \in Sources |-> ds[f]]
  /\ \A f \in Sources :
       /\ DocTyped(ds[f], f)
       /\ ds[f].tree = Nil \/ (Honest(ds, ds[f].tree) /\ ds[f].tree.file = f)
       /\ ds[f].analysis = Nil \/ AnalysisHonest(ds, ds[f].analysis, f)

\* The index has an entry for every file, in some order.
OrderInv == order \in Seq(Sources) /\ Range(order) = Sources

\* The inductive invariant.
DefInv == DocsInv(docs) /\ OrderInv

\* Two states of the documents have the same texts.
Same(ds, es) == \A f \in Sources : es[f].text = ds[f].text /\ es[f].rev = ds[f].rev

-----------------------------------------------------------------------------
(* Trees.                                                                   *)

\* A set of numbers that is not empty has a least one.
LEMMA Smallest ==
  ASSUME NEW T \in SUBSET Nat, T # {}
  PROVE  \E n \in T : \A m \in T : n <= m
<1>1. \E n \in T : \A m \in T : <<m, n>> \notin OpToRel(<, Nat)
  BY WFMin, NatLessThanWellFounded, Zenon
<1>2. ASSUME NEW n \in T, NEW m \in T, <<m, n>> \notin OpToRel(<, Nat)
      PROVE  n <= m
  BY <1>2 DEF OpToRel
<1> QED BY <1>1, <1>2

\* What the documents' texts are like.
LEMMA TextFacts ==
  ASSUME NEW ds, DocsInv(ds), NEW f \in Sources
  PROVE  /\ ds[f].text.incl \subseteq Sources /\ ds[f].rev \in Nat
         /\ ds[f].text.refs \in Seq(Range(ds[f].text.refs))
         /\ ds[f].text.units \subseteq [name : STRING, kind : Kinds]
<1>1. ds[f].text \in Range(Written[f]) /\ ds[f].rev \in Nat
  BY DEF DocsInv, DocTyped
<1>2. f \in Range(Paths)
  BY DEF Sources
<1> QED BY <1>1, <1>2, DefAssumption DEF Sources

\* The parser makes an honest tree.
LEMMA ParsedTree ==
  ASSUME NEW ds, DocsInv(ds), NEW f \in Sources, NEW t, t = fromBuffer(ds, f)
  PROVE  /\ t.file = f /\ t.units = ds[f].text.units /\ t.refs = ds[f].text.refs
         /\ DOMAIN t.bufs = {f} \cup ds[f].text.incl
         /\ \A g \in DOMAIN t.bufs : t.bufs[g] = ds[g].rev
         /\ Honest(ds, t)
<1> DEFINE fs == {f} \cup ds[f].text.incl
           bufs == [g \in fs |-> ds[g].rev]
           of == [g \in fs |-> ds[g].text.macros]
<1>1. t = TreeOf(f, ds[f].text, bufs, of)
  BY DEF fromBuffer
<1> HIDE DEF bufs, of
<1>2. t.file = f /\ t.bufs = bufs /\ t.units = ds[f].text.units /\ t.refs = ds[f].text.refs
  BY <1>1 DEF TreeOf
<1>3. DOMAIN bufs = fs /\ \A g \in fs : bufs[g] = ds[g].rev
  BY DEF bufs
<1>4. fs \subseteq Sources /\ f \in fs
  BY TextFacts
<1> HIDE DEF fs
<1>5. \A g \in fs : ds[g].rev \in Nat /\ ds[g].rev <= ds[g].rev
  BY <1>4, TextFacts
<1>6. Honest(ds, t)
  BY <1>2, <1>3, <1>4, <1>5 DEF Honest
<1> QED BY <1>2, <1>3, <1>6 DEF fs

\* Where a tree has its macros.
LEMMA ParsedMacros ==
  ASSUME NEW ds, DocsInv(ds), NEW f \in Sources, NEW t, t = fromBuffer(ds, f), NEW n
  PROVE  /\ n \in DOMAIN t.macros => /\ t.macros[n] \in {f} \cup ds[f].text.incl
                                     /\ n \in ds[t.macros[n]].text.macros
         /\ n \in ds[f].text.macros => n \in DOMAIN t.macros /\ t.macros[n] = f
<1> DEFINE fs == {f} \cup ds[f].text.incl
           bufs == [g \in fs |-> ds[g].rev]
           of == [g \in fs |-> ds[g].text.macros]
           where == [m \in UNION Range(of) |-> IF m \in ds[f].text.macros THEN f
                                               ELSE CHOOSE g \in DOMAIN of : m \in of[g]]
<1>1. t = TreeOf(f, ds[f].text, bufs, of)
  BY DEF fromBuffer
<1> HIDE DEF bufs
<1>2. DOMAIN of = fs /\ f \in fs /\ \A g \in fs : of[g] = ds[g].text.macros
  OBVIOUS
<1> HIDE DEF of, fs
<1>3. t.macros = where
  BY <1>1 DEF TreeOf
<1>4. \A m : m \in UNION Range(of) <=> \E g \in fs : m \in of[g]
  BY <1>2 DEF Range
<1>5. DOMAIN where = UNION Range(of)
  OBVIOUS
<1>6. ASSUME NEW m \in UNION Range(of)
      PROVE  where[m] = IF m \in ds[f].text.macros THEN f ELSE CHOOSE g \in DOMAIN of : m \in of[g]
  OBVIOUS
<1> HIDE DEF where
<1>7. ASSUME n \in DOMAIN where PROVE where[n] \in fs /\ n \in ds[where[n]].text.macros
  <2>1. CASE n \in ds[f].text.macros
    BY <1>2, <1>5, <1>6, <1>7, <2>1
  <2>2. CASE n \notin ds[f].text.macros
    <3>1. where[n] = CHOOSE g \in DOMAIN of : n \in of[g]
      BY <1>5, <1>6, <1>7, <2>2
    <3>2. \E g \in DOMAIN of : n \in of[g]
      BY <1>2, <1>4, <1>5, <1>7
    <3>3. where[n] \in DOMAIN of /\ n \in of[where[n]]
      BY <3>1, <3>2
    <3> QED BY <1>2, <3>3
  <2> QED BY <2>1, <2>2
<1>8. ASSUME n \in ds[f].text.macros PROVE n \in DOMAIN where /\ where[n] = f
  BY <1>2, <1>4, <1>5, <1>6, <1>8
<1> QED BY <1>3, <1>7, <1>8 DEF fs

\* A tree of a document that is used is the parser's, whether it was cached or not.
LEMMA TreeCurrent ==
  ASSUME NEW ds, DocsInv(ds), NEW f \in Sources
  PROVE  getSyntaxTree(ds, f) = fromBuffer(ds, f)
<1>1. CASE hasValidBuffers(ds, ds[f].tree)
  <2>1. Honest(ds, ds[f].tree) /\ ds[f].tree.file = f
    BY <1>1 DEF DocsInv, hasValidBuffers
  <2>2. ds[f].tree = fromBuffer(ds, f)
    BY <1>1, <2>1 DEF Honest, hasValidBuffers
  <2> QED BY <1>1, <2>2 DEF getSyntaxTree
<1> QED BY <1>1 DEF getSyntaxTree

\* The parser looks at texts only.
LEMMA ParsedSame ==
  ASSUME NEW ds, NEW es, NEW f, es[f].text = ds[f].text,
         \A g \in {f} \cup ds[f].text.incl : es[g].text = ds[g].text /\ es[g].rev = ds[g].rev
  PROVE  fromBuffer(es, f) = fromBuffer(ds, f)
<1> DEFINE fs == {f} \cup ds[f].text.incl
<1>1. [g \in fs |-> es[g].rev] = [g \in fs |-> ds[g].rev]
  OBVIOUS
<1>2. [g \in fs |-> es[g].text.macros] = [g \in fs |-> ds[g].text.macros]
  OBVIOUS
<1>3. fs = {f} \cup es[f].text.incl
  OBVIOUS
<1> HIDE DEF fs
<1>4. fromBuffer(ds, f) = TreeOf(f, ds[f].text, [g \in fs |-> ds[g].rev], [g \in fs |-> ds[g].text.macros])
  BY DEF fromBuffer, fs
<1>5. fromBuffer(es, f) = TreeOf(f, es[f].text, [g \in fs |-> es[g].rev], [g \in fs |-> es[g].text.macros])
  BY <1>3 DEF fromBuffer
<1> QED BY <1>1, <1>2, <1>4, <1>5

\* A tree stays honest as long as the texts stay, and when a text of which it has an
\* older revision, or none, is replaced.
LEMMA HonestKept ==
  ASSUME NEW ds, NEW es, DocsInv(ds), NEW t, Honest(ds, t),
         \A g \in Sources : es[g].rev \in Nat /\ ds[g].rev <= es[g].rev,
         \A g \in Sources : es[g].rev = ds[g].rev => es[g].text = ds[g].text
  PROVE  Honest(es, t)
<1>1. DOMAIN t.bufs \subseteq Sources /\ t.file \in DOMAIN t.bufs
  BY DEF Honest
<1>2. \A g \in DOMAIN t.bufs : t.bufs[g] \in Nat /\ t.bufs[g] <= ds[g].rev
  BY DEF Honest
<1>3. \A g \in Sources : ds[g].rev \in Nat
  BY TextFacts
<1>4. ASSUME NEW g \in DOMAIN t.bufs PROVE t.bufs[g] <= es[g].rev /\ (t.bufs[g] = es[g].rev => ds[g].rev = es[g].rev)
  BY <1>1, <1>2, <1>3
<1>5. ASSUME \A g \in DOMAIN t.bufs : t.bufs[g] = es[g].rev PROVE t = fromBuffer(es, t.file)
  <2>1. \A g \in DOMAIN t.bufs : es[g].rev = ds[g].rev /\ es[g].text = ds[g].text
    BY <1>1, <1>4, <1>5
  <2>2. t = fromBuffer(ds, t.file)
    BY <1>5, <2>1 DEF Honest
  <2>3. DOMAIN t.bufs = {t.file} \cup ds[t.file].text.incl
    BY <1>1, <2>2, ParsedTree
  <2>4. fromBuffer(es, t.file) = fromBuffer(ds, t.file)
    BY <1>1, <2>1, <2>3, ParsedSame
  <2> QED BY <2>2, <2>4
<1> QED BY <1>1, <1>2, <1>4, <1>5 DEF Honest

-----------------------------------------------------------------------------
(* Loops.                                                                   *)

\* Induction up to a bound, over a set in place of a predicate.
LEMMA UpTo ==
  ASSUME NEW n \in Nat, NEW G, 0 \in G, \A i \in 1 .. n : i - 1 \in G => i \in G
  PROVE  \A i \in 0 .. n : i \in G
<1> DEFINE T == {i \in 0 .. n : i \notin G}
<1>1. ASSUME T # {} PROVE FALSE
  <2>1. T \in SUBSET Nat
    OBVIOUS
  <2>2. PICK i \in T : \A j \in T : i <= j
    BY <1>1, <2>1, Smallest
  <2>3. i \in 1 .. n /\ i - 1 \in 0 .. n /\ ~ (i <= i - 1)
    OBVIOUS
  <2>4. i - 1 \in G
    BY <2>2, <2>3
  <2> QED BY <2>3, <2>4
<1> QED BY <1>1

\* A value put at the end is all that is new.
LEMMA RangeAppend ==
  ASSUME NEW S, NEW s \in Seq(S), NEW e
  PROVE  /\ Range(Append(s, e)) = Range(s) \cup {e}
         /\ Len(Append(s, e)) = Len(s) + 1 /\ Len(s) \in Nat
         /\ Append(s, e)[Len(s) + 1] = e /\ \A i \in 1 .. Len(s) : Append(s, e)[i] = s[i]
         /\ DOMAIN Append(s, e) = 1 .. Len(s) + 1 /\ DOMAIN s = 1 .. Len(s)
<1> DEFINE B == S \cup {e}
           a == Append(s, e)
<1>1. s \in Seq(B) /\ e \in B
  BY SeqMonotonic
<1>2. /\ a \in Seq(B) /\ Len(a) = Len(s) + 1
      /\ a[Len(s) + 1] = e /\ \A i \in 1 .. Len(s) : a[i] = s[i]
  BY <1>1, AppendProperties
<1>3. Len(s) \in Nat /\ DOMAIN s = 1 .. Len(s) /\ DOMAIN a = 1 .. Len(s) + 1
  BY <1>1, <1>2, LenProperties
<1> HIDE DEF a
<1>4. Range(a) = Range(s) \cup {e}
  <2>1. \A i \in 1 .. Len(s) + 1 : i \in 1 .. Len(s) \/ i = Len(s) + 1
    BY <1>3
  <2>2. \A i \in 1 .. Len(s) : i \in 1 .. Len(s) + 1
    BY <1>3
  <2>3. Len(s) + 1 \in 1 .. Len(s) + 1
    BY <1>3
  <2>4. ASSUME NEW x \in Range(a) PROVE x \in Range(s) \cup {e}
    <3>1. PICK i \in 1 .. Len(s) + 1 : x = a[i]
      BY <1>3, <2>4 DEF Range
    <3> QED BY <1>2, <1>3, <2>1, <3>1 DEF Range
  <2>5. ASSUME NEW x \in Range(s) PROVE x \in Range(a)
    <3>1. PICK i \in 1 .. Len(s) : x = s[i]
      BY <1>3, <2>5 DEF Range
    <3>2. x = a[i] /\ i \in DOMAIN a
      BY <1>2, <1>3, <2>2, <3>1
    <3> QED BY <3>2 DEF Range
  <2>6. e \in Range(a)
    BY <1>2, <1>3, <2>3 DEF Range
  <2> QED BY <2>4, <2>5, <2>6
<1> QED BY <1>2, <1>3, <1>4 DEF a

\* What Head leaves and takes.
LEMMA RangeTail ==
  ASSUME NEW S, NEW s \in Seq(S), s # <<>>
  PROVE  /\ Tail(s) \in Seq(S) /\ Len(s) = Len(Tail(s)) + 1 /\ Len(Tail(s)) \in Nat
         /\ Head(s) \in S /\ \A x \in Range(s) : x = Head(s) \/ x \in Range(Tail(s))
<1>1. /\ Head(s) \in S /\ Tail(s) \in Seq(S) /\ Len(Tail(s)) = Len(s) - 1
      /\ \A i \in 1 .. Len(Tail(s)) : Tail(s)[i] = s[i + 1]
  BY HeadTailProperties
<1>2. Len(s) \in Nat /\ Len(s) # 0 /\ Head(s) = s[1] /\ DOMAIN s = 1 .. Len(s)
  BY EmptySeq, LenProperties
<1>3. Len(Tail(s)) \in Nat /\ DOMAIN Tail(s) = 1 .. Len(Tail(s))
  BY <1>1, LenProperties
<1>4. ASSUME NEW x \in Range(s), x # Head(s) PROVE x \in Range(Tail(s))
  <2>1. PICK i \in 1 .. Len(s) : x = s[i]
    BY <1>2 DEF Range
  <2>2. i - 1 \in 1 .. Len(Tail(s)) /\ (i - 1) + 1 = i
    BY <1>1, <1>2, <1>4, <2>1
  <2>3. Tail(s)[i - 1] = x
    BY <1>1, <2>1, <2>2
  <2> QED BY <1>3, <2>2, <2>3 DEF Range
<1> QED BY <1>1, <1>2, <1>3, <1>4

\* A list of files without repetition is no longer than the list of all files.
LEMMA FewFiles ==
  ASSUME NEW s \in Seq(Sources), \A i, j \in DOMAIN s : s[i] = s[j] => i = j
  PROVE  Len(s) <= Len(Paths) /\ Len(Paths) \in Nat
<1>1. /\ Len(s) \in Nat /\ DOMAIN s = 1 .. Len(s) /\ \A i \in 1 .. Len(s) : s[i] \in Sources
      /\ Len(Paths) \in Nat /\ DOMAIN Paths = 1 .. Len(Paths)
  BY DefAssumption, LenProperties, ElementOfSeq
<1> DEFINE at == [i \in 1 .. Len(s) |-> CHOOSE k \in 1 .. Len(Paths) : Paths[k] = s[i]]
<1>2. ASSUME NEW i \in 1 .. Len(s) PROVE at[i] \in 1 .. Len(Paths) /\ Paths[at[i]] = s[i]
  BY <1>1 DEF Sources, Range
<1>3. at \in Injection(1 .. Len(s), 1 .. Len(Paths))
  <2>1. at \in [1 .. Len(s) -> 1 .. Len(Paths)]
    BY <1>2
  <2> HIDE DEF at
  <2>2. \A i, j \in 1 .. Len(s) : at[i] = at[j] => i = j
    BY <1>1, <1>2
  <2> QED BY <2>1, <2>2, Zenon DEF Injection, IsInjective
<1> HIDE DEF at
<1>4. /\ IsFiniteSet(1 .. Len(s)) /\ Cardinality(1 .. Len(s)) = Len(s)
      /\ IsFiniteSet(1 .. Len(Paths)) /\ Cardinality(1 .. Len(Paths)) = Len(Paths)
  <2>1. \A n \in Nat : IsFiniteSet(1 .. n) /\ Cardinality(1 .. n) = n
    <3>1. ASSUME NEW n \in Nat PROVE IsFiniteSet(1 .. n) /\ Cardinality(1 .. n) = n
      <4>1. Cardinality(1 .. n) = IF 1 > n THEN 0 ELSE n - 1 + 1
        BY FS_Interval
      <4> QED BY <4>1, FS_Interval
    <3> QED BY <3>1
  <2> QED BY <1>1, <2>1
<1> QED BY <1>1, <1>3, <1>4, FS_Injection

-----------------------------------------------------------------------------
(* The documents a tree depends on.                                         *)

\* The trees that are looked into: the document's and its packages' and interfaces'.
Followed(ds, t, result) ==
  {t} \cup {y \in {fromBuffer(ds, g) : g \in Range(result)} : Enters(y)}

\* Nothing is left to do for a name: a unit of the name is there, or there is none, or
\* the file the index has for it was loaded.
Settled(ds, t, result, n) ==
  \/ Named(t.units, n) # {}
  \/ \E g \in Range(result) : Named(ds[g].text.units, n) # {}
  \/ FilesForSymbol(n) = {}
  \/ getFirstSymbolLoc(n) \in Range(result)

AllKnown(y, known) == \A j \in 1 .. Len(y.refs) : y.refs[j].name \in known

\* The state of the search: no file was loaded twice, a known name is settled, and a
\* tree that is looked into is in the queue, is being processed (a member of X), or has
\* only known names.
Worked(ds, t, s, X) ==
  /\ s = [queue |-> s.queue, known |-> s.known, result |-> s.result]
  /\ s.result \in Seq(Sources) /\ \A i, j \in DOMAIN s.result : s.result[i] = s.result[j] => i = j
  /\ s.queue \in Seq(Followed(ds, t, s.result))
  /\ \A n \in s.known : Settled(ds, t, s.result, n)
  /\ \A y \in Followed(ds, t, s.result) : y \in Range(s.queue) \/ y \in X \/ AllKnown(y, s.known)

\* The first file of a symbol is one of its files.
LEMMA FirstLoc ==
  ASSUME OrderInv, NEW n, FilesForSymbol(n) # {}
  PROVE  getFirstSymbolLoc(n) \in FilesForSymbol(n) /\ getFirstSymbolLoc(n) \in Sources
<1> DEFINE T == {i \in DOMAIN order : order[i] \in FilesForSymbol(n)}
<1>1. FilesForSymbol(n) \subseteq Sources
  BY DEF FilesForSymbol
<1>2. DOMAIN order = 1 .. Len(order) /\ Len(order) \in Nat
  BY LenProperties DEF OrderInv
<1>3. T # {} /\ T \in SUBSET Nat
  BY <1>1, <1>2 DEF OrderInv, Range
<1>4. \E i \in T : \A j \in T : i <= j
  BY <1>3, Smallest
<1> HIDE DEF T
<1>5. Min(T) \in T
  BY <1>4 DEF Min
<1>6. getFirstSymbolLoc(n) = order[Min(T)]
  BY DEF getFirstSymbolLoc, T
<1> QED BY <1>1, <1>5, <1>6 DEF T

\* Loading more leaves settled what was.
LEMMA SettledKept ==
  ASSUME NEW ds, NEW t, NEW a, NEW b, Range(a) \subseteq Range(b), NEW n, Settled(ds, t, a, n)
  PROVE  Settled(ds, t, b, n)
BY DEF Settled

\* One name: afterwards it is known, and at most as many trees as files are new.
LEMMA LoadDependency ==
  ASSUME NEW ds, DocsInv(ds), OrderInv, NEW t, NEW s, NEW X, Worked(ds, t, s, X), NEW n,
         NEW r, r = loadDependency(ds, s, n)
  PROVE  /\ Worked(ds, t, r, X) /\ n \in r.known /\ s.known \subseteq r.known
         /\ Range(s.result) \subseteq Range(r.result)
         /\ Len(r.queue) + Len(s.result) <= Len(s.queue) + Len(r.result)
<1> DEFINE file == getFirstSymbolLoc(n)
           y1 == getSyntaxTree(ds, file)
           tried == [s EXCEPT !.known = @ \cup {n}]
           next == [tried EXCEPT !.result = Append(@, file), !.queue = IF Enters(y1) THEN Append(@, y1) ELSE @]
<1>1. r = IF n \in s.known \/ FilesForSymbol(n) = {} \/ file \in Range(s.result) THEN tried ELSE next
  BY DEF loadDependency
<1>2. /\ s.result \in Seq(Sources) /\ \A i, j \in DOMAIN s.result : s.result[i] = s.result[j] => i = j
      /\ s.queue \in Seq(Followed(ds, t, s.result)) /\ \A m \in s.known : Settled(ds, t, s.result, m)
      /\ \A y \in Followed(ds, t, s.result) : y \in Range(s.queue) \/ y \in X \/ AllKnown(y, s.known)
  BY DEF Worked
<1>3. s = [queue |-> s.queue, known |-> s.known, result |-> s.result]
  BY DEF Worked
<1>4. Len(s.queue) \in Nat /\ Len(s.result) \in Nat
  BY <1>2, LenProperties
<1>5. tried.queue = s.queue /\ tried.result = s.result /\ tried.known = s.known \cup {n}
      /\ tried = [queue |-> s.queue, known |-> s.known \cup {n}, result |-> s.result]
  BY <1>3
<1>6. next = [queue |-> IF Enters(y1) THEN Append(s.queue, y1) ELSE s.queue,
              known |-> s.known \cup {n}, result |-> Append(s.result, file)]
  <2> HIDE DEF tried, file, y1
  <2> DEFINE queue == IF Enters(y1) THEN Append(s.queue, y1) ELSE s.queue
             result == Append(s.result, file)
  <2>1. next = [tried EXCEPT !.result = result, !.queue = queue]
    BY <1>5
  <2> HIDE DEF queue, result, next
  <2>2. next = [queue |-> queue, known |-> s.known \cup {n}, result |-> result]
    BY <1>5, <2>1
  <2> QED BY <2>2 DEF queue, result
<1> HIDE DEF tried, next, file, y1
<1>7. CASE n \in s.known \/ FilesForSymbol(n) = {} \/ file \in Range(s.result)
  <2>1. r = tried
    BY <1>1, <1>7
  <2>2. Settled(ds, t, s.result, n)
    BY <1>2, <1>7 DEF Settled, file
  <2>3. \A y : AllKnown(y, s.known) => AllKnown(y, s.known \cup {n})
    BY DEF AllKnown
  <2>4. Worked(ds, t, tried, X)
    BY <1>2, <1>5, <2>2, <2>3 DEF Worked
  <2> QED BY <1>4, <1>5, <2>1, <2>4
<1>8. CASE ~ (n \in s.known \/ FilesForSymbol(n) = {} \/ file \in Range(s.result))
  <2> DEFINE result == Append(s.result, file)
             queue == IF Enters(y1) THEN Append(s.queue, y1) ELSE s.queue
             known == s.known \cup {n}
  <2>1. r = [queue |-> queue, known |-> known, result |-> result]
    BY <1>1, <1>6, <1>8
  <2>2. file \in Sources
    BY <1>8, FirstLoc DEF file
  <2>3. y1 = fromBuffer(ds, file)
    BY <2>2, TreeCurrent DEF y1
  <2>4. /\ Range(result) = Range(s.result) \cup {file} /\ Len(result) = Len(s.result) + 1
        /\ result[Len(s.result) + 1] = file /\ \A i \in 1 .. Len(s.result) : result[i] = s.result[i]
        /\ DOMAIN result = 1 .. Len(s.result) + 1 /\ DOMAIN s.result = 1 .. Len(s.result)
    BY <1>2, RangeAppend
  <2>5. result \in Seq(Sources)
    BY <1>2, <2>2, AppendProperties
  <2> HIDE DEF result
  <2>6. \A i, j \in DOMAIN result : result[i] = result[j] => i = j
    <3>1. \A i \in 1 .. Len(s.result) : s.result[i] # file
      BY <1>8, <2>4 DEF Range
    <3>2. \A i \in DOMAIN result : i \in 1 .. Len(s.result) \/ i = Len(s.result) + 1
      BY <1>4, <2>4
    <3> QED BY <1>2, <2>4, <3>1, <3>2
  <2>7. Followed(ds, t, s.result) \subseteq Followed(ds, t, result)
    BY <2>4 DEF Followed
  <2>8. \A y \in Followed(ds, t, result) : y \in Followed(ds, t, s.result) \/ (y = y1 /\ Enters(y1))
    BY <2>3, <2>4 DEF Followed
  <2>9. Enters(y1) => y1 \in Followed(ds, t, result)
    BY <2>3, <2>4 DEF Followed
  <2>10. s.queue \in Seq(Followed(ds, t, result))
    BY <1>2, <2>7, SeqMonotonic
  <2>11. Enters(y1) => /\ Append(s.queue, y1) \in Seq(Followed(ds, t, result))
                       /\ Range(Append(s.queue, y1)) = Range(s.queue) \cup {y1}
                       /\ Len(Append(s.queue, y1)) = Len(s.queue) + 1
    BY <2>9, <2>10, AppendProperties, RangeAppend
  <2>12. /\ queue \in Seq(Followed(ds, t, result)) /\ Range(s.queue) \subseteq Range(queue)
         /\ Enters(y1) => y1 \in Range(queue)
         /\ Len(queue) <= Len(s.queue) + 1
    BY <1>4, <2>10, <2>11
  <2> HIDE DEF queue
  <2>13. \A m \in known : Settled(ds, t, result, m)
    <3>1. Settled(ds, t, result, n)
      BY <2>4 DEF Settled, file
    <3>2. ASSUME NEW m \in s.known PROVE Settled(ds, t, result, m)
      BY <1>2, <2>4, SettledKept
    <3> QED BY <3>1, <3>2
  <2>14. \A y : AllKnown(y, s.known) => AllKnown(y, known)
    BY DEF AllKnown
  <2> HIDE DEF known
  <2>15. \A y \in Followed(ds, t, result) : y \in Range(queue) \/ y \in X \/ AllKnown(y, known)
    BY <1>2, <2>8, <2>12, <2>14
  <2>16. r.queue = queue /\ r.known = known /\ r.result = result
    BY <2>1
  <2>17. Worked(ds, t, r, X)
    BY <2>1, <2>5, <2>6, <2>12, <2>13, <2>15, <2>16 DEF Worked
  <2>18. Len(queue) \in Nat
    BY <2>12, LenProperties
  <2> QED BY <1>4, <2>4, <2>12, <2>16, <2>17, <2>18 DEF known
<1> QED BY <1>7, <1>8

\* The equation that defines the names tried by ProcessTree, up to the n-th.
Tries(h, ds, start, refs, n) ==
  h = [i \in 0 .. n |-> IF i = 0 THEN start ELSE loadDependency(ds, h[i - 1], refs[i].name)]

\* The equation has a solution.
LEMMA TriesExist ==
  ASSUME NEW ds, NEW start, NEW refs, NEW N \in Nat
  PROVE  \E h : Tries(h, ds, start, refs, N)
<1> DEFINE G == {n \in 0 .. N : \E h : Tries(h, ds, start, refs, n)}
<1>1. 0 \in G
  <2> DEFINE h == [i \in 0 .. 0 |-> start]
  <2>1. h = [i \in 0 .. 0 |-> IF i = 0 THEN start ELSE loadDependency(ds, h[i - 1], refs[i].name)]
    OBVIOUS
  <2> HIDE DEF h
  <2>2. Tries(h, ds, start, refs, 0)
    BY <2>1 DEF Tries
  <2> QED BY <2>2
<1>2. ASSUME NEW n \in 1 .. N, n - 1 \in G PROVE n \in G
  <2>1. PICK f : Tries(f, ds, start, refs, n - 1)
    BY <1>2
  <2> DEFINE last == loadDependency(ds, f[n - 1], refs[n].name)
             h == [i \in 0 .. n |-> IF i = n THEN last ELSE f[i]]
  <2>2. \A i \in 0 .. n - 1 : f[i] = IF i = 0 THEN start ELSE loadDependency(ds, f[i - 1], refs[i].name)
    BY <2>1 DEF Tries
  <2>3. h[n] = last /\ \A i \in 0 .. n - 1 : h[i] = f[i]
    OBVIOUS
  <2>4. h = [i \in 0 .. n |-> h[i]]
    OBVIOUS
  <2> HIDE DEF h
  <2>5. ASSUME NEW i \in 0 .. n
        PROVE  h[i] = IF i = 0 THEN start ELSE loadDependency(ds, h[i - 1], refs[i].name)
    <3>1. CASE i = 0
      BY <2>2, <2>3, <3>1
    <3>2. CASE i \in 1 .. n - 1
      <4>1. i \in 0 .. n - 1 /\ i - 1 \in 0 .. n - 1 /\ i # 0
        BY <3>2
      <4> QED BY <2>2, <2>3, <4>1
    <3>3. CASE i = n
      <4>1. n - 1 \in 0 .. n - 1 /\ n # 0
        OBVIOUS
      <4> QED BY <2>3, <3>3, <4>1
    <3> QED BY <3>1, <3>2, <3>3
  <2>6. Tries(h, ds, start, refs, n)
    BY <2>4, <2>5 DEF Tries
  <2> QED BY <2>6
<1> HIDE DEF G
<1>3. N \in G
  BY <1>1, <1>2, UpTo
<1> QED BY <1>3 DEF G

\* The state in which a tree's names are tried.
Started(s) == [s EXCEPT !.queue = Tail(@), !.known = @ \cup {u.name : u \in Head(s.queue).units}]

\* ProcessTree is the last value of a solution.
LEMMA ProcessTreeIs ==
  ASSUME NEW ds, NEW s, NEW refs, refs = Head(s.queue).refs, Len(refs) \in Nat
  PROVE  \E h : Tries(h, ds, Started(s), refs, Len(refs)) /\ ProcessTree(ds, s) = h[Len(refs)]
<1> DEFINE g == CHOOSE h : Tries(h, ds, Started(s), refs, Len(refs))
<1>1. Tries(g, ds, Started(s), refs, Len(refs))
  BY TriesExist
<1>2. ProcessTree(ds, s) = g[Len(refs)]
  BY DEF ProcessTree, Tries, Started
<1> HIDE DEF g
<1> QED BY <1>1, <1>2

\* The trees that are looked into are the parser's.
LEMMA FollowedTree ==
  ASSUME NEW ds, DocsInv(ds), NEW f \in Sources, NEW t, t = fromBuffer(ds, f),
         NEW result \in Seq(Sources), NEW y \in Followed(ds, t, result)
  PROVE  /\ y.refs \in Seq(Range(y.refs)) /\ Len(y.refs) \in Nat
         /\ \A u \in y.units : Settled(ds, t, result, u.name)
<1>1. PICK g \in Sources : y = fromBuffer(ds, g) /\ (y = t \/ g \in Range(result))
  <2>1. Range(result) \subseteq Sources
    BY LenProperties, ElementOfSeq DEF Range
  <2> QED BY <2>1 DEF Followed
<1>2. y.refs = ds[g].text.refs /\ y.units = ds[g].text.units
  BY <1>1, ParsedTree
<1>3. y.refs \in Seq(Range(y.refs))
  BY <1>2, TextFacts
<1>4. Len(y.refs) \in Nat
  BY <1>3, LenProperties
<1>5. ASSUME NEW u \in y.units PROVE Settled(ds, t, result, u.name)
  BY <1>1, <1>2 DEF Settled, Named
<1> QED BY <1>3, <1>4, <1>5

\* The state q after the first i names of tree x, when s was the state before x.
TriedUpTo(ds, t, s, x, q, i) ==
  /\ Worked(ds, t, q, {x})
  /\ \A j \in 1 .. i : x.refs[j].name \in q.known
  /\ Len(q.queue) + 1 + Len(s.result) <= Len(s.queue) + Len(q.result)

\* One tree: its names get known, and it leaves the queue.
LEMMA ProcessTreeWorks ==
  ASSUME NEW ds, DocsInv(ds), OrderInv, NEW f \in Sources, NEW t, t = fromBuffer(ds, f),
         NEW s, Worked(ds, t, s, {}), s.queue # <<>>, NEW r, r = ProcessTree(ds, s)
  PROVE  /\ Worked(ds, t, r, {})
         /\ Len(r.queue) + 1 + Len(s.result) <= Len(s.queue) + Len(r.result)
<1> DEFINE x == Head(s.queue)
           n == Len(x.refs)
           start == Started(s)
           names == {u.name : u \in x.units}
<1>1. /\ s.result \in Seq(Sources) /\ \A i, j \in DOMAIN s.result : s.result[i] = s.result[j] => i = j
      /\ s.queue \in Seq(Followed(ds, t, s.result)) /\ \A m \in s.known : Settled(ds, t, s.result, m)
      /\ \A y \in Followed(ds, t, s.result) : y \in Range(s.queue) \/ AllKnown(y, s.known)
      /\ s = [queue |-> s.queue, known |-> s.known, result |-> s.result]
  BY DEF Worked
<1>2. /\ Tail(s.queue) \in Seq(Followed(ds, t, s.result)) /\ Len(s.queue) = Len(Tail(s.queue)) + 1
      /\ Len(Tail(s.queue)) \in Nat /\ x \in Followed(ds, t, s.result)
      /\ \A y \in Range(s.queue) : y = x \/ y \in Range(Tail(s.queue))
  BY <1>1, RangeTail
<1>3. n \in Nat /\ \A u \in x.units : Settled(ds, t, s.result, u.name)
  BY <1>1, <1>2, FollowedTree
<1>4. PICK h : Tries(h, ds, start, x.refs, n) /\ r = h[n]
  BY <1>3, ProcessTreeIs
<1>5. start = [queue |-> Tail(s.queue), known |-> s.known \cup names, result |-> s.result]
  <2>1. start = [s EXCEPT !.queue = Tail(@), !.known = @ \cup names]
    BY DEF Started
  <2> HIDE DEF start, names
  <2> QED BY <1>1, <2>1
<1>6. Worked(ds, t, start, {x})
  <2> HIDE DEF start, x
  <2>1. start.queue = Tail(s.queue) /\ start.known = s.known \cup names /\ start.result = s.result
    BY <1>5
  <2>2. \A m \in start.known : Settled(ds, t, s.result, m)
    BY <1>1, <1>3, <2>1
  <2>3. \A y : AllKnown(y, s.known) => AllKnown(y, start.known)
    BY <2>1 DEF AllKnown
  <2> HIDE DEF names
  <2>4. \A y \in Followed(ds, t, s.result) : y \in Range(start.queue) \/ y \in {x} \/ AllKnown(y, start.known)
    BY <1>1, <1>2, <2>1, <2>3
  <2> QED BY <1>1, <1>2, <1>5, <2>1, <2>2, <2>4 DEF Worked
<1>7. h[0] = start /\ \A i \in 1 .. n : h[i] = loadDependency(ds, h[i - 1], x.refs[i].name)
  <2>1. \A i \in 0 .. n : h[i] = IF i = 0 THEN start ELSE loadDependency(ds, h[i - 1], x.refs[i].name)
    BY <1>4 DEF Tries
  <2>2. 0 \in 0 .. n /\ \A i \in 1 .. n : i \in 0 .. n /\ i # 0
    BY <1>3
  <2> QED BY <2>1, <2>2
<1> HIDE DEF start, n, x
<1> DEFINE G == {i \in 0 .. n : TriedUpTo(ds, t, s, x, h[i], i)}
<1>8. 0 \in G
  <2>1. Len(start.queue) + 1 + Len(s.result) <= Len(s.queue) + Len(start.result)
    <3>1. Len(s.result) \in Nat
      BY <1>1, LenProperties
    <3>2. start.queue = Tail(s.queue) /\ start.result = s.result
      BY <1>5
    <3> QED BY <1>2, <3>1, <3>2
  <2>2. \A j \in 1 .. 0 : x.refs[j].name \in start.known
    OBVIOUS
  <2>3. TriedUpTo(ds, t, s, x, h[0], 0)
    BY <1>6, <1>7, <2>1, <2>2 DEF TriedUpTo
  <2>4. 0 \in 0 .. n
    BY <1>3
  <2> QED BY <2>3, <2>4
<1>9. ASSUME NEW i \in 1 .. n, i - 1 \in G PROVE i \in G
  <2> DEFINE p == h[i - 1]
             q == h[i]
             m == x.refs[i].name
  <2>1. TriedUpTo(ds, t, s, x, p, i - 1)
    BY <1>9
  <2>2. q = loadDependency(ds, p, m)
    BY <1>7
  <2> HIDE DEF p, q, m
  <2>3. /\ Worked(ds, t, p, {x}) /\ \A j \in 1 .. i - 1 : x.refs[j].name \in p.known
        /\ Len(p.queue) + 1 + Len(s.result) <= Len(s.queue) + Len(p.result)
    BY <2>1 DEF TriedUpTo
  <2>4. /\ Worked(ds, t, q, {x}) /\ m \in q.known /\ p.known \subseteq q.known
        /\ Len(q.queue) + Len(p.result) <= Len(p.queue) + Len(q.result)
    BY <2>2, <2>3, LoadDependency
  <2>5. \A j \in 1 .. i : j = i \/ j \in 1 .. i - 1
    BY <1>3
  <2>6. \A j \in 1 .. i : x.refs[j].name \in q.known
    BY <2>3, <2>4, <2>5 DEF m
  <2>7. /\ Len(q.queue) \in Nat /\ Len(p.result) \in Nat /\ Len(p.queue) \in Nat
        /\ Len(q.result) \in Nat /\ Len(s.queue) \in Nat /\ Len(s.result) \in Nat
    BY <1>1, <2>3, <2>4, LenProperties DEF Worked
  <2>8. Len(q.queue) + 1 + Len(s.result) <= Len(s.queue) + Len(q.result)
    <3>1. \A a, b, c, d, e, g \in Nat : a + b <= c + d /\ c + 1 + e <= g + b => a + 1 + e <= g + d
      OBVIOUS
    <3> QED BY <2>3, <2>4, <2>7, <3>1, Zenon
  <2>9. TriedUpTo(ds, t, s, x, q, i)
    BY <2>4, <2>6, <2>8 DEF TriedUpTo
  <2>10. i \in 0 .. n
    BY <1>3
  <2> QED BY <2>9, <2>10 DEF q
<1> HIDE DEF G
<1>10. n \in G
  <2>1. \A i \in 0 .. n : i \in G
    BY <1>3, <1>8, <1>9, UpTo
  <2> QED BY <1>3, <2>1
<1>11. TriedUpTo(ds, t, s, x, h[n], n)
  BY <1>10 DEF G
<1>12. AllKnown(x, h[n].known)
  BY <1>11 DEF AllKnown, TriedUpTo, n
<1>13. Worked(ds, t, h[n], {})
  <2>1. Worked(ds, t, h[n], {x})
    BY <1>11 DEF TriedUpTo
  <2> QED BY <1>12, <2>1 DEF Worked
<1> QED BY <1>4, <1>11, <1>13 DEF TriedUpTo

\* The search before its first pass, and one pass.
Unsearched(t) == [queue |-> <<t>>, known |-> {}, result |-> <<>>]
Pass(ds, s)   == IF s.queue = <<>> THEN s ELSE ProcessTree(ds, s)

\* The equation that defines the passes of getDependentDocs, up to the n-th.
Passes(h, ds, t, n) == h = [k \in 0 .. n |-> IF k = 0 THEN Unsearched(t) ELSE Pass(ds, h[k - 1])]

\* The equation has a solution.
LEMMA PassesExist ==
  ASSUME NEW ds, NEW t, NEW N \in Nat
  PROVE  \E h : Passes(h, ds, t, N)
<1> DEFINE G == {n \in 0 .. N : \E h : Passes(h, ds, t, n)}
<1>1. 0 \in G
  <2> DEFINE h == [k \in 0 .. 0 |-> Unsearched(t)]
  <2>1. h = [k \in 0 .. 0 |-> IF k = 0 THEN Unsearched(t) ELSE Pass(ds, h[k - 1])]
    OBVIOUS
  <2> HIDE DEF h
  <2>2. Passes(h, ds, t, 0)
    BY <2>1 DEF Passes
  <2> QED BY <2>2
<1>2. ASSUME NEW n \in 1 .. N, n - 1 \in G PROVE n \in G
  <2>1. PICK f : Passes(f, ds, t, n - 1)
    BY <1>2
  <2> DEFINE last == Pass(ds, f[n - 1])
             h == [k \in 0 .. n |-> IF k = n THEN last ELSE f[k]]
  <2>2. \A k \in 0 .. n - 1 : f[k] = IF k = 0 THEN Unsearched(t) ELSE Pass(ds, f[k - 1])
    BY <2>1 DEF Passes
  <2>3. h[n] = last /\ \A k \in 0 .. n - 1 : h[k] = f[k]
    OBVIOUS
  <2>4. h = [k \in 0 .. n |-> h[k]]
    OBVIOUS
  <2> HIDE DEF h
  <2>5. ASSUME NEW k \in 0 .. n
        PROVE  h[k] = IF k = 0 THEN Unsearched(t) ELSE Pass(ds, h[k - 1])
    <3>1. CASE k = 0
      BY <2>2, <2>3, <3>1
    <3>2. CASE k \in 1 .. n - 1
      <4>1. k \in 0 .. n - 1 /\ k - 1 \in 0 .. n - 1 /\ k # 0
        BY <3>2
      <4> QED BY <2>2, <2>3, <4>1
    <3>3. CASE k = n
      <4>1. n - 1 \in 0 .. n - 1 /\ n # 0
        OBVIOUS
      <4> QED BY <2>3, <3>3, <4>1
    <3> QED BY <3>1, <3>2, <3>3
  <2>6. Passes(h, ds, t, n)
    BY <2>4, <2>5 DEF Passes
  <2> QED BY <2>6
<1> HIDE DEF G
<1>3. N \in G
  BY <1>1, <1>2, UpTo
<1> QED BY <1>3 DEF G

\* getDependentDocs is what the last pass of a solution found.
LEMMA DependentDocsIs ==
  ASSUME NEW ds, NEW t, Len(Paths) \in Nat
  PROVE  \E h : /\ Passes(h, ds, t, Len(Paths) + 1)
                /\ getDependentDocs(ds, t) = h[Len(Paths) + 1].result
<1> DEFINE g == CHOOSE h : Passes(h, ds, t, Len(Paths) + 1)
<1>1. Passes(g, ds, t, Len(Paths) + 1)
  BY PassesExist
<1>2. getDependentDocs(ds, t) = g[Len(Paths) + 1].result
  BY DEF getDependentDocs, Passes, Pass, Unsearched
<1> HIDE DEF g
<1> QED BY <1>1, <1>2

\* The state of the search after k passes: every pass took a tree.
PassedTo(ds, t, s, k) ==
  Worked(ds, t, s, {}) /\ (s.queue = <<>> \/ k + Len(s.queue) <= 1 + Len(s.result))

\* The search ends, with files of the system, and every name of the trees that are
\* looked into settled.
LEMMA DependentDocs ==
  ASSUME NEW ds, DocsInv(ds), OrderInv, NEW f \in Sources, NEW t, t = fromBuffer(ds, f),
         NEW deps, deps = getDependentDocs(ds, t)
  PROVE  /\ deps \in Seq(Sources)
         /\ \A y \in Followed(ds, t, deps) : \A r \in Range(y.refs) : Settled(ds, t, deps, r.name)
<1> DEFINE N == Len(Paths) + 1
<1>1. Len(Paths) \in Nat
  BY DefAssumption, LenProperties
<1>2. PICK h : Passes(h, ds, t, N) /\ deps = h[N].result
  BY <1>1, DependentDocsIs
<1>3. h[0] = Unsearched(t) /\ \A k \in 1 .. N : h[k] = Pass(ds, h[k - 1])
  <2>1. \A k \in 0 .. N : h[k] = IF k = 0 THEN Unsearched(t) ELSE Pass(ds, h[k - 1])
    BY <1>2 DEF Passes
  <2>2. 0 \in 0 .. N /\ \A k \in 1 .. N : k \in 0 .. N /\ k # 0
    BY <1>1
  <2> QED BY <2>1, <2>2
<1>4. N \in Nat
  BY <1>1
<1> HIDE DEF N
<1> DEFINE G == {k \in 0 .. N : PassedTo(ds, t, h[k], k)}
<1>5. 0 \in G
  <2> DEFINE s == Unsearched(t)
  <2>1. s.queue = <<t>> /\ s.known = {} /\ s.result = <<>>
    BY DEF Unsearched
  <2>2. Range(<<>>) = {} /\ <<>> \in Seq(Sources) /\ Len(<<>>) = 0
    BY DEF Range
  <2>3. Followed(ds, t, <<>>) = {t}
    BY <2>2 DEF Followed
  <2>4. <<t>> \in Seq({t}) /\ Range(<<t>>) = {t} /\ Len(<<t>>) = 1
    BY DEF Range
  <2>5. s = [queue |-> s.queue, known |-> s.known, result |-> s.result]
    BY DEF Unsearched
  <2> HIDE DEF s
  <2>6. Worked(ds, t, s, {})
    BY <2>1, <2>2, <2>3, <2>4, <2>5 DEF Worked
  <2>7. 0 + Len(s.queue) <= 1 + Len(s.result)
    BY <2>1, <2>2, <2>4
  <2>8. PassedTo(ds, t, s, 0)
    BY <2>6, <2>7 DEF PassedTo
  <2>9. 0 \in 0 .. N
    BY <1>4
  <2> QED BY <1>3, <2>8, <2>9 DEF s
<1>6. ASSUME NEW k \in 1 .. N, k - 1 \in G PROVE k \in G
  <2> DEFINE s == h[k - 1]
             r == h[k]
  <2>1. PassedTo(ds, t, s, k - 1) /\ r = Pass(ds, s)
    BY <1>3, <1>6
  <2> HIDE DEF s, r
  <2>2. Worked(ds, t, s, {}) /\ (s.queue = <<>> \/ (k - 1) + Len(s.queue) <= 1 + Len(s.result))
    BY <2>1 DEF PassedTo
  <2>3. PassedTo(ds, t, r, k)
    <3>1. CASE s.queue = <<>>
      <4>1. r = s
        BY <2>1, <3>1 DEF Pass
      <4> QED BY <2>2, <3>1, <4>1 DEF PassedTo
    <3>2. CASE s.queue # <<>>
      <4>1. r = ProcessTree(ds, s)
        BY <2>1, <3>2 DEF Pass
      <4>2. Worked(ds, t, r, {}) /\ Len(r.queue) + 1 + Len(s.result) <= Len(s.queue) + Len(r.result)
        BY <2>2, <3>2, <4>1, ProcessTreeWorks
      <4>3. /\ Len(r.queue) \in Nat /\ Len(s.result) \in Nat /\ Len(s.queue) \in Nat
            /\ Len(r.result) \in Nat /\ k \in Nat
        BY <1>4, <2>2, <4>2, LenProperties DEF Worked
      <4>4. \A a, b, c, d, i \in Nat :
              (i - 1) + c <= 1 + b /\ a + 1 + b <= c + d => i + a <= 1 + d
        OBVIOUS
      <4>5. k + Len(r.queue) <= 1 + Len(r.result)
        BY <2>2, <3>2, <4>2, <4>3, <4>4, Zenon
      <4> QED BY <4>2, <4>5 DEF PassedTo
    <3> QED BY <3>1, <3>2
  <2>4. k \in 0 .. N
    BY <1>4
  <2> QED BY <2>3, <2>4 DEF r
<1> HIDE DEF G
<1>7. PassedTo(ds, t, h[N], N)
  <2>1. \A k \in 0 .. N : k \in G
    BY <1>4, <1>5, <1>6, UpTo
  <2>2. N \in G
    BY <1>4, <2>1
  <2> QED BY <2>2 DEF G
<1> DEFINE s == h[N]
<1>8. /\ Worked(ds, t, s, {}) /\ s.result = deps
      /\ s.queue = <<>> \/ N + Len(s.queue) <= 1 + Len(s.result)
  BY <1>2, <1>7 DEF PassedTo
<1> HIDE DEF s
<1>9. /\ s.result \in Seq(Sources) /\ \A i, j \in DOMAIN s.result : s.result[i] = s.result[j] => i = j
      /\ s.queue \in Seq(Followed(ds, t, s.result)) /\ \A m \in s.known : Settled(ds, t, s.result, m)
      /\ \A y \in Followed(ds, t, s.result) : y \in Range(s.queue) \/ AllKnown(y, s.known)
  BY <1>8 DEF Worked
<1>10. s.queue = <<>>
  <2> SUFFICES ASSUME s.queue # <<>> PROVE FALSE
    OBVIOUS
  <2>1. Len(s.queue) \in Nat /\ Len(s.queue) # 0
    BY <1>9, LenProperties, EmptySeq
  <2>2. Len(s.result) \in Nat /\ Len(s.result) <= Len(Paths)
    BY <1>9, FewFiles, LenProperties
  <2>3. Len(Paths) + 1 + Len(s.queue) <= 1 + Len(s.result)
    BY <1>8 DEF N
  <2>4. \A a, b, c \in Nat : a # 0 /\ b <= c => ~ (c + 1 + a <= 1 + b)
    OBVIOUS
  <2> QED BY <1>1, <2>1, <2>2, <2>3, <2>4, Zenon
<1>11. ASSUME NEW y \in Followed(ds, t, deps), NEW r \in Range(y.refs)
       PROVE  Settled(ds, t, deps, r.name)
  <2>1. Range(s.queue) = {}
    BY <1>10 DEF Range
  <2>2. AllKnown(y, s.known)
    BY <1>8, <1>9, <2>1
  <2>3. y.refs \in Seq(Range(y.refs))
    BY <1>8, <1>9, FollowedTree
  <2>4. DOMAIN y.refs = 1 .. Len(y.refs)
    BY <2>3, LenProperties
  <2>5. PICK j \in 1 .. Len(y.refs) : r = y.refs[j]
    BY <2>4 DEF Range
  <2>6. r.name \in s.known
    BY <2>2, <2>5 DEF AllKnown
  <2> QED BY <1>8, <1>9, <2>6
<1> QED BY <1>8, <1>9, <1>11

-----------------------------------------------------------------------------
(* The analysis of a document.                                              *)

\* An analysis made from the latest texts.
AnalysisCurrent(ds, a, f) ==
  /\ a \in Seq(Range(a)) /\ a # <<>> /\ a[1].file = f
  /\ \A i \in DOMAIN a : a[i].file \in Sources /\ a[i] = fromBuffer(ds, a[i].file)

\* The trees getAnalysis compiles.
Compiled(ds, own, deps) == <<own>> \o [i \in DOMAIN deps |-> getSyntaxTree(ds, deps[i])]

LEMMA CompiledTrees ==
  ASSUME NEW ds, DocsInv(ds), NEW f \in Sources, NEW deps \in Seq(Sources),
         NEW a, a = Compiled(ds, fromBuffer(ds, f), deps)
  PROVE  /\ AnalysisCurrent(ds, a, f) /\ AnalysisHonest(ds, a, f)
         /\ a[1] = fromBuffer(ds, f) /\ 1 \in DOMAIN a
         /\ \A i \in DOMAIN a : i = 1 \/ \E g \in Range(deps) : a[i] = fromBuffer(ds, g)
         /\ \A g \in Range(deps) : \E i \in DOMAIN a : a[i] = fromBuffer(ds, g)
<1> DEFINE own == fromBuffer(ds, f)
           rest == [i \in DOMAIN deps |-> getSyntaxTree(ds, deps[i])]
           S == {fromBuffer(ds, g) : g \in Sources}
           n == Len(deps)
<1>1. n \in Nat /\ DOMAIN deps = 1 .. n /\ \A i \in 1 .. n : deps[i] \in Sources
  BY LenProperties, ElementOfSeq
<1>2. \A i \in 1 .. n : rest[i] = fromBuffer(ds, deps[i])
  BY <1>1, TreeCurrent
<1>3. rest = [i \in 1 .. n |-> rest[i]]
  BY <1>1
<1> HIDE DEF rest, n
<1>4. rest \in Seq(S) /\ Len(rest) = n
  <2>1. \A i \in 1 .. n : rest[i] \in S
    BY <1>1, <1>2
  <2> HIDE DEF S
  <2>2. rest \in [1 .. n -> S]
    BY <1>3, <2>1
  <2> QED BY <1>1, <2>2, LenProperties
<1>5. <<own>> \in Seq(S) /\ Len(<<own>>) = 1 /\ <<own>>[1] = own
  <2>1. own \in S
    OBVIOUS
  <2> HIDE DEF own, S
  <2> QED BY <2>1
<1>6. a = <<own>> \o rest
  BY DEF Compiled, rest
<1> HIDE DEF S, own
<1>7. /\ a \in Seq(S) /\ Len(a) = 1 + n
      /\ \A i \in 1 .. Len(a) : a[i] = IF i <= 1 THEN <<own>>[i] ELSE rest[i - 1]
  BY <1>4, <1>5, <1>6, ConcatProperties
<1>8. DOMAIN a = 1 .. n + 1 /\ a # <<>>
  BY <1>1, <1>7, LenProperties, EmptySeq
<1>9. a[1] = own /\ 1 \in DOMAIN a
  <2>1. 1 \in 1 .. Len(a) /\ 1 <= 1
    BY <1>1, <1>7
  <2> QED BY <1>1, <1>5, <1>7, <1>8, <2>1
<1>10. ASSUME NEW i \in 1 .. n PROVE i + 1 \in DOMAIN a /\ a[i + 1] = fromBuffer(ds, deps[i])
  <2>1. i + 1 \in 1 .. Len(a) /\ ~ (i + 1 <= 1) /\ (i + 1) - 1 = i
    BY <1>1, <1>7
  <2>2. a[i + 1] = rest[i]
    BY <1>7, <2>1
  <2> QED BY <1>1, <1>2, <1>7, <1>8, <2>1, <2>2
<1>11. ASSUME NEW i \in DOMAIN a, i # 1 PROVE i - 1 \in 1 .. n /\ a[i] = fromBuffer(ds, deps[i - 1])
  <2>1. i - 1 \in 1 .. n /\ (i - 1) + 1 = i
    BY <1>1, <1>8, <1>11
  <2> QED BY <1>10, <2>1
<1>12. \A i \in DOMAIN a : i = 1 \/ \E g \in Range(deps) : a[i] = fromBuffer(ds, g)
  BY <1>1, <1>11 DEF Range
<1>13. \A g \in Range(deps) : \E i \in DOMAIN a : a[i] = fromBuffer(ds, g)
  BY <1>1, <1>10 DEF Range
<1>14. \A i \in DOMAIN a : \E g \in Sources : a[i] = fromBuffer(ds, g)
  <2>1. Range(deps) \subseteq Sources
    BY <1>1 DEF Range
  <2> QED BY <1>9, <1>12, <2>1 DEF own
<1>15. a \in Seq(Range(a))
  <2>1. \A i \in DOMAIN a : a[i] \in Range(a)
    BY DEF Range
  <2>2. a \in [1 .. n + 1 -> Range(a)]
    BY <1>7, <1>8, <2>1, LenProperties
  <2> QED BY <1>1, <2>2
<1>16. \A i \in DOMAIN a : a[i].file \in Sources /\ a[i] = fromBuffer(ds, a[i].file) /\ Honest(ds, a[i])
  BY <1>14, ParsedTree
<1>17. a[1].file = f
  BY <1>9, ParsedTree DEF own
<1> QED BY <1>8, <1>9, <1>12, <1>13, <1>15, <1>16, <1>17 DEF AnalysisCurrent, AnalysisHonest, own

\* Texts that stay keep what the documents have honest and current.
LEMMA KeptSame ==
  ASSUME NEW ds, DocsInv(ds), NEW es, Same(ds, es)
  PROVE  /\ \A t : Honest(ds, t) => Honest(es, t)
         /\ \A a, f : AnalysisHonest(ds, a, f) => AnalysisHonest(es, a, f)
         /\ \A f \in Sources : fromBuffer(es, f) = fromBuffer(ds, f)
         /\ \A a, f : AnalysisCurrent(ds, a, f) => AnalysisCurrent(es, a, f)
<1>1. \A g \in Sources : es[g].rev = ds[g].rev /\ es[g].text = ds[g].text /\ ds[g].rev \in Nat
  BY TextFacts DEF Same
<1>2. ASSUME NEW t, Honest(ds, t) PROVE Honest(es, t)
  <2>1. \A g \in Sources : es[g].rev \in Nat /\ ds[g].rev <= es[g].rev
    BY <1>1
  <2> QED BY <1>1, <1>2, <2>1, HonestKept
<1>3. ASSUME NEW f \in Sources PROVE fromBuffer(es, f) = fromBuffer(ds, f)
  BY <1>1, TextFacts, ParsedSame
<1>4. \A a, f : AnalysisHonest(ds, a, f) => AnalysisHonest(es, a, f)
  BY <1>2 DEF AnalysisHonest
<1>5. \A a, f : AnalysisCurrent(ds, a, f) => AnalysisCurrent(es, a, f)
  BY <1>3 DEF AnalysisCurrent
<1> QED BY <1>2, <1>3, <1>4, <1>5

\* The dependencies getAnalysis compiles.
DepsFor(ds, f, refresh) ==
  IF ds[f].deps = <<>> \/ refresh THEN getDependentDocs(ds, getSyntaxTree(ds, f)) ELSE ds[f].deps

\* The documents after an analysis that was made anew.
Analysed(ds, f, deps) ==
  [g \in Sources |->
     IF g = f THEN [ds[f] EXCEPT !.tree = getSyntaxTree(ds, f), !.deps = deps,
                                 !.analysis = Compiled(ds, getSyntaxTree(ds, f), deps)]
     ELSE IF g \in Range(deps) THEN [ds[g] EXCEPT !.tree = getSyntaxTree(ds, g)]
     ELSE ds[g]]

LEMMA GetAnalysisIs ==
  ASSUME NEW ds, NEW f, NEW refresh
  PROVE  getAnalysis(ds, f, refresh) =
           IF analysisValid(ds, ds[f].analysis) /\ ~ refresh THEN ds
           ELSE Analysed(ds, f, DepsFor(ds, f, refresh))
BY DEF getAnalysis, Analysed, Compiled, DepsFor

\* An analysis made anew is of the latest texts, and so are the trees it had parsed.
LEMMA AnalysedKeeps ==
  ASSUME NEW ds, DocsInv(ds), NEW f \in Sources, NEW deps \in Seq(Sources),
         NEW es, es = Analysed(ds, f, deps)
  PROVE  /\ DocsInv(es) /\ Same(ds, es)
         /\ es[f].analysis = Compiled(ds, fromBuffer(ds, f), deps) /\ es[f].tree = fromBuffer(ds, f)
         /\ AnalysisCurrent(es, es[f].analysis, f)
         /\ \A g \in Sources : g # f => es[g].analysis = ds[g].analysis
<1> DEFINE a == Compiled(ds, fromBuffer(ds, f), deps)
           own == fromBuffer(ds, f)
<1>1. \A g \in Sources : DocTyped(ds[g], g) /\ getSyntaxTree(ds, g) = fromBuffer(ds, g)
  BY TreeCurrent DEF DocsInv
<1>2. AnalysisCurrent(ds, a, f) /\ AnalysisHonest(ds, a, f)
  BY CompiledTrees
<1>3. es = [g \in Sources |-> es[g]]
  BY DEF Analysed
<1>4. es[f] = [ds[f] EXCEPT !.tree = own, !.deps = deps, !.analysis = a]
  BY <1>1 DEF Analysed
<1>5. ASSUME NEW g \in Sources, g # f
      PROVE  es[g] = ds[g] \/ es[g] = [ds[g] EXCEPT !.tree = fromBuffer(ds, g)]
  BY <1>1, <1>5 DEF Analysed
<1> HIDE DEF a, own
<1>6. /\ es[f].text = ds[f].text /\ es[f].rev = ds[f].rev /\ es[f].tree = own /\ es[f].deps = deps
      /\ es[f].analysis = a /\ DocTyped(es[f], f)
  <2>1. ds[f] = [text |-> ds[f].text, rev |-> ds[f].rev, tree |-> ds[f].tree, deps |-> ds[f].deps,
                 analysis |-> ds[f].analysis]
    BY <1>1 DEF DocTyped
  <2>2. es[f] = [text |-> ds[f].text, rev |-> ds[f].rev, tree |-> own, deps |-> deps, analysis |-> a]
    BY <1>4, <2>1
  <2>3. /\ es[f].text = ds[f].text /\ es[f].rev = ds[f].rev /\ es[f].tree = own /\ es[f].deps = deps
        /\ es[f].analysis = a
    BY <2>2
  <2> QED BY <1>1, <2>2, <2>3 DEF DocTyped
<1>7. ASSUME NEW g \in Sources, g # f
      PROVE  /\ es[g].text = ds[g].text /\ es[g].rev = ds[g].rev /\ es[g].analysis = ds[g].analysis
             /\ es[g].tree = ds[g].tree \/ es[g].tree = fromBuffer(ds, g)
             /\ DocTyped(es[g], g)
  <2>1. CASE es[g] = ds[g]
    BY <1>1, <2>1
  <2>2. CASE es[g] = [ds[g] EXCEPT !.tree = fromBuffer(ds, g)]
    <3>1. PICK y : y = fromBuffer(ds, g)
      OBVIOUS
    <3>2. ds[g] = [text |-> ds[g].text, rev |-> ds[g].rev, tree |-> ds[g].tree, deps |-> ds[g].deps,
                   analysis |-> ds[g].analysis]
      BY <1>1 DEF DocTyped
    <3>3. es[g] = [text |-> ds[g].text, rev |-> ds[g].rev, tree |-> y, deps |-> ds[g].deps,
                   analysis |-> ds[g].analysis]
      BY <2>2, <3>1, <3>2
    <3>4. /\ es[g].text = ds[g].text /\ es[g].rev = ds[g].rev /\ es[g].analysis = ds[g].analysis
          /\ es[g].tree = y /\ es[g].deps = ds[g].deps
      BY <3>3
    <3> QED BY <1>1, <3>1, <3>3, <3>4 DEF DocTyped
  <2> QED BY <1>5, <1>7, <2>1, <2>2
<1>8. Same(ds, es)
  BY <1>6, <1>7 DEF Same
<1>9. /\ \A t : Honest(ds, t) => Honest(es, t)
      /\ AnalysisHonest(es, a, f) /\ AnalysisCurrent(es, a, f)
      /\ \A b, g : AnalysisHonest(ds, b, g) => AnalysisHonest(es, b, g)
  BY <1>2, <1>8, KeptSame
<1>10. \A g \in Sources : Honest(es, fromBuffer(ds, g)) /\ fromBuffer(ds, g).file = g
  BY <1>9, ParsedTree
<1>11. ASSUME NEW g \in Sources
       PROVE  /\ DocTyped(es[g], g)
              /\ es[g].tree = Nil \/ (Honest(es, es[g].tree) /\ es[g].tree.file = g)
              /\ es[g].analysis = Nil \/ AnalysisHonest(es, es[g].analysis, g)
  <2>1. /\ ds[g].tree = Nil \/ (Honest(ds, ds[g].tree) /\ ds[g].tree.file = g)
        /\ ds[g].analysis = Nil \/ AnalysisHonest(ds, ds[g].analysis, g)
    BY DEF DocsInv
  <2>2. CASE g = f
    BY <1>6, <1>9, <1>10, <2>2 DEF own
  <2>3. CASE g # f
    BY <1>7, <1>9, <1>10, <2>1, <2>3
  <2> QED BY <2>2, <2>3
<1>12. DocsInv(es)
  BY <1>3, <1>11 DEF DocsInv
<1> QED BY <1>6, <1>7, <1>8, <1>9, <1>12 DEF a, own

\* getAnalysis changes no text, and the analysis it leaves is of the latest texts.
LEMMA GetAnalysis ==
  ASSUME NEW ds, DocsInv(ds), OrderInv, NEW f \in Sources, NEW refresh,
         NEW es, es = getAnalysis(ds, f, refresh)
  PROVE  /\ DocsInv(es) /\ Same(ds, es) /\ AnalysisCurrent(es, es[f].analysis, f)
         /\ \A g \in Sources : g # f => es[g].analysis = ds[g].analysis
<1>1. CASE analysisValid(ds, ds[f].analysis) /\ ~ refresh
  <2> DEFINE a == ds[f].analysis
  <2>1. es = ds
    BY <1>1, GetAnalysisIs
  <2>2. AnalysisHonest(ds, a, f) /\ \A i \in DOMAIN a : hasValidBuffers(ds, a[i])
    BY <1>1 DEF DocsInv, analysisValid
  <2> HIDE DEF a
  <2>3. ASSUME NEW i \in DOMAIN a PROVE a[i].file \in Sources /\ a[i] = fromBuffer(ds, a[i].file)
    <3>1. Honest(ds, a[i]) /\ hasValidBuffers(ds, a[i])
      BY <2>2 DEF AnalysisHonest
    <3> QED BY <3>1 DEF Honest, hasValidBuffers
  <2>4. AnalysisCurrent(ds, a, f)
    BY <2>2, <2>3 DEF AnalysisCurrent, AnalysisHonest
  <2> QED BY <2>1, <2>4 DEF Same, a
<1>2. CASE ~ (analysisValid(ds, ds[f].analysis) /\ ~ refresh)
  <2>1. es = Analysed(ds, f, DepsFor(ds, f, refresh))
    BY <1>2, GetAnalysisIs
  <2>2. DepsFor(ds, f, refresh) \in Seq(Sources)
    <3>1. ds[f].deps \in Seq(Sources)
      BY DEF DocsInv, DocTyped
    <3>2. getDependentDocs(ds, getSyntaxTree(ds, f)) \in Seq(Sources)
      BY TreeCurrent, DependentDocs
    <3> QED BY <3>1, <3>2 DEF DepsFor
  <2> QED BY <2>1, <2>2, AnalysedKeeps
<1> QED BY <1>1, <1>2

\* One file of the search, and the equation that defines the search, up to the n-th file.
Visit(ds, paths, f) == IF f \in paths THEN getAnalysis(ds, f, FALSE) ELSE ds

Visits(h, ds, paths, n) ==
  h = [i \in 0 .. n |-> IF i = 0 THEN ds ELSE Visit(h[i - 1], paths, Paths[i])]

\* The equation has a solution.
LEMMA VisitsExist ==
  ASSUME NEW ds, NEW paths, NEW N \in Nat
  PROVE  \E h : Visits(h, ds, paths, N)
<1> DEFINE G == {n \in 0 .. N : \E h : Visits(h, ds, paths, n)}
<1>1. 0 \in G
  <2> DEFINE h == [i \in 0 .. 0 |-> ds]
  <2>1. h = [i \in 0 .. 0 |-> IF i = 0 THEN ds ELSE Visit(h[i - 1], paths, Paths[i])]
    OBVIOUS
  <2> HIDE DEF h
  <2>2. Visits(h, ds, paths, 0)
    BY <2>1 DEF Visits
  <2> QED BY <2>2
<1>2. ASSUME NEW n \in 1 .. N, n - 1 \in G PROVE n \in G
  <2>1. PICK f : Visits(f, ds, paths, n - 1)
    BY <1>2
  <2> DEFINE last == Visit(f[n - 1], paths, Paths[n])
             h == [i \in 0 .. n |-> IF i = n THEN last ELSE f[i]]
  <2>2. \A i \in 0 .. n - 1 : f[i] = IF i = 0 THEN ds ELSE Visit(f[i - 1], paths, Paths[i])
    BY <2>1 DEF Visits
  <2>3. h[n] = last /\ \A i \in 0 .. n - 1 : h[i] = f[i]
    OBVIOUS
  <2>4. h = [i \in 0 .. n |-> h[i]]
    OBVIOUS
  <2> HIDE DEF h
  <2>5. ASSUME NEW i \in 0 .. n
        PROVE  h[i] = IF i = 0 THEN ds ELSE Visit(h[i - 1], paths, Paths[i])
    <3>1. CASE i = 0
      BY <2>2, <2>3, <3>1
    <3>2. CASE i \in 1 .. n - 1
      <4>1. i \in 0 .. n - 1 /\ i - 1 \in 0 .. n - 1 /\ i # 0
        BY <3>2
      <4> QED BY <2>2, <2>3, <4>1
    <3>3. CASE i = n
      <4>1. n - 1 \in 0 .. n - 1 /\ n # 0
        OBVIOUS
      <4> QED BY <2>3, <3>3, <4>1
    <3> QED BY <3>1, <3>2, <3>3
  <2>6. Visits(h, ds, paths, n)
    BY <2>4, <2>5 DEF Visits
  <2> QED BY <2>6
<1> HIDE DEF G
<1>3. N \in G
  BY <1>1, <1>2, UpTo
<1> QED BY <1>3 DEF G

LEMMA SearchFilesIs ==
  ASSUME NEW ds, NEW paths, Len(Paths) \in Nat
  PROVE  \E h : Visits(h, ds, paths, Len(Paths)) /\ SearchFiles(ds, paths) = h[Len(Paths)]
<1> DEFINE g == CHOOSE h : Visits(h, ds, paths, Len(Paths))
<1>1. Visits(g, ds, paths, Len(Paths))
  BY VisitsExist
<1>2. SearchFiles(ds, paths) = g[Len(Paths)]
  BY DEF SearchFiles, Visits, Visit
<1> HIDE DEF g
<1> QED BY <1>1, <1>2

\* The documents es after the first i files: what was current is, and so are the files
\* of paths among them.
VisitedTo(ds, paths, es, i) ==
  /\ DocsInv(es) /\ Same(ds, es)
  /\ \A g \in Sources :
       AnalysisCurrent(ds, ds[g].analysis, g) \/ (g \in paths /\ \E j \in 1 .. i : g = Paths[j])
       => AnalysisCurrent(es, es[g].analysis, g)

\* A search changes no text, and leaves the analyses of its files current.
LEMMA SearchedFiles ==
  ASSUME NEW ds, DocsInv(ds), OrderInv, NEW paths, NEW es, es = SearchFiles(ds, paths)
  PROVE  /\ DocsInv(es) /\ Same(ds, es)
         /\ \A g \in Sources : AnalysisCurrent(ds, ds[g].analysis, g) \/ g \in paths
                               => AnalysisCurrent(es, es[g].analysis, g)
<1> DEFINE N == Len(Paths)
<1>1. N \in Nat /\ DOMAIN Paths = 1 .. N /\ \A i \in 1 .. N : Paths[i] \in Sources
  BY DefAssumption, LenProperties, ElementOfSeq DEF Sources
<1>2. PICK h : Visits(h, ds, paths, N) /\ es = h[N]
  BY <1>1, SearchFilesIs
<1> HIDE DEF N
<1>3. h[0] = ds /\ \A i \in 1 .. N : h[i] = Visit(h[i - 1], paths, Paths[i])
  <2>1. \A i \in 0 .. N : h[i] = IF i = 0 THEN ds ELSE Visit(h[i - 1], paths, Paths[i])
    BY <1>2 DEF Visits
  <2>2. 0 \in 0 .. N /\ \A i \in 1 .. N : i \in 0 .. N /\ i # 0
    BY <1>1
  <2> QED BY <2>1, <2>2
<1> DEFINE G == {i \in 0 .. N : VisitedTo(ds, paths, h[i], i)}
<1>4. 0 \in G
  <2>1. 0 \in 0 .. N /\ ~ \E j \in 1 .. 0 : TRUE
    BY <1>1
  <2>2. VisitedTo(ds, paths, ds, 0)
    BY <2>1 DEF VisitedTo, Same
  <2> QED BY <1>3, <2>1, <2>2
<1>5. ASSUME NEW i \in 1 .. N, i - 1 \in G PROVE i \in G
  <2> DEFINE p == h[i - 1]
             q == h[i]
             f == Paths[i]
  <2>1. VisitedTo(ds, paths, p, i - 1) /\ q = Visit(p, paths, f) /\ f \in Sources
    BY <1>1, <1>3, <1>5
  <2> HIDE DEF p, q
  <2>2. \A j \in 1 .. i : j = i \/ j \in 1 .. i - 1
    BY <1>1
  <2>3. /\ DocsInv(p) /\ Same(ds, p)
        /\ \A g \in Sources :
             AnalysisCurrent(ds, ds[g].analysis, g) \/ (g \in paths /\ \E j \in 1 .. i - 1 : g = Paths[j])
             => AnalysisCurrent(p, p[g].analysis, g)
    BY <2>1 DEF VisitedTo
  <2>4. VisitedTo(ds, paths, q, i)
    <3>1. CASE f \notin paths
      <4>1. q = p
        BY <2>1, <3>1 DEF Visit
      <4>2. \A g \in Sources : (g \in paths /\ \E j \in 1 .. i : g = Paths[j])
                               => (g \in paths /\ \E j \in 1 .. i - 1 : g = Paths[j])
        BY <2>2, <3>1
      <4> QED BY <2>3, <4>1, <4>2 DEF VisitedTo
    <3>2. CASE f \in paths
      <4>1. q = getAnalysis(p, f, FALSE)
        BY <2>1, <3>2 DEF Visit
      <4>2. /\ DocsInv(q) /\ Same(p, q) /\ AnalysisCurrent(q, q[f].analysis, f)
            /\ \A g \in Sources : g # f => q[g].analysis = p[g].analysis
        <5> DEFINE refresh == FALSE
        <5>1. q = getAnalysis(p, f, refresh)
          BY <4>1
        <5> HIDE DEF refresh, f
        <5> QED BY <2>1, <2>3, <5>1, GetAnalysis
      <4>3. \A a, g : AnalysisCurrent(p, a, g) => AnalysisCurrent(q, a, g)
        BY <2>3, <4>2, KeptSame
      <4>4. Same(ds, q)
        BY <2>3, <4>2 DEF Same
      <4>5. ASSUME NEW g \in Sources,
                   AnalysisCurrent(ds, ds[g].analysis, g) \/ (g \in paths /\ \E j \in 1 .. i : g = Paths[j])
            PROVE  AnalysisCurrent(q, q[g].analysis, g)
        <5>1. CASE g = f
          BY <4>2, <5>1
        <5>2. CASE g # f
          <6>1. AnalysisCurrent(p, p[g].analysis, g)
            BY <2>2, <2>3, <4>5, <5>2
          <6> QED BY <4>2, <4>3, <5>2, <6>1
        <5> QED BY <5>1, <5>2
      <4> QED BY <4>2, <4>4, <4>5 DEF VisitedTo
    <3> QED BY <3>1, <3>2
  <2>5. i \in 0 .. N
    BY <1>1
  <2> QED BY <2>4, <2>5 DEF q
<1> HIDE DEF G
<1>6. N \in G
  <2>1. \A i \in 0 .. N : i \in G
    BY <1>1, <1>4, <1>5, UpTo
  <2> QED BY <1>1, <2>1
<1>7. VisitedTo(ds, paths, es, N)
  BY <1>2, <1>6 DEF G
<1>8. \A g \in Sources : \E j \in 1 .. N : g = Paths[j]
  BY <1>1 DEF Sources, Range
<1> QED BY <1>7, <1>8 DEF VisitedTo

-----------------------------------------------------------------------------
(* The answers.                                                             *)

\* LocationsCurrent and AllDefinitions of an answer at, with documents ds.
DeclaresIn(ds, f, n, k) ==
  IF k = "macro" THEN n \in ds[f].text.macros ELSE [name |-> n, kind |-> k] \in ds[f].text.units

AllCurrent(ds, at, n) == \A l \in at : l.rev = ds[l.file].rev /\ DeclaresIn(ds, l.file, n, l.kind)

\* The kind k is one the answer is about, and the index knows that file f has the name.
Expected(what, f, k, n) ==
  /\ (k = "macro") = (what = "macro")
  /\ IF k = "macro" THEN n \in indexed[f].macros ELSE Named(indexed[f].units, n) # {}

AllShown(ds, at, doc, what, n) ==
  \/ \E l \in at : l.file = doc \/ (l.kind = "macro" /\ l.file \in ds[doc].text.incl)
  \/ \A f \in Sources, k \in Kinds \cup {"macro"} :
       DeclaresIn(ds, f, n, k) /\ Expected(what, f, k, n)
       => at # {} /\ ((\E l \in at : l.kind = k) => \E l \in at : l.kind = k /\ l.file = f)

\* What was answered has the properties if the answer has.
LEMMA AnswerHas ==
  ASSUME NEW at, NEW f, NEW what \in {"unit", "macro"}, NEW n,
         reply' = [what |-> what, doc |-> f, name |-> n, at |-> at], UNCHANGED indexed,
         AllCurrent(docs', at, n), AllShown(docs', at, f, what, n)
  PROVE  LocationsCurrent' /\ AllDefinitions' /\ DiagnosisComplete'
<1>1. /\ reply'.what = what /\ reply'.doc = f /\ reply'.name = n /\ reply'.at = at
      /\ what # "diagnosed"
  OBVIOUS
<1>2. LocationsCurrent'
  BY <1>1 DEF LocationsCurrent, AllCurrent, DeclaresIn, Declares
<1>3. AllDefinitions'
  <2>1. CASE \E l \in at : l.file = f \/ (l.kind = "macro" /\ l.file \in docs'[f].text.incl)
    BY <1>1, <2>1 DEF AllDefinitions
  <2>2. CASE \A g \in Sources, k \in Kinds \cup {"macro"} :
               DeclaresIn(docs', g, n, k) /\ Expected(what, g, k, n)
               => at # {} /\ ((\E l \in at : l.kind = k) => \E l \in at : l.kind = k /\ l.file = g)
    <3>1. \A g \in Sources, k \in {"module", "interface", "package", "macro"} :
            /\ (k = "macro") = (what = "macro")
            /\ DeclaresIn(docs', g, n, k)
            /\ IF k = "macro" THEN n \in indexed[g].macros ELSE Named(indexed[g].units, n) # {}
            => at # {} /\ ((\E l \in at : l.kind = k) => \E l \in at : l.kind = k /\ l.file = g)
      BY <2>2 DEF Expected, Kinds
    <3> QED BY <1>1, <3>1 DEF AllDefinitions, DeclaresIn, Declares
  <2> QED BY <2>1, <2>2 DEF AllShown
<1>4. DiagnosisComplete'
  BY <1>1 DEF DiagnosisComplete, Answered
<1> QED BY <1>2, <1>3, <1>4

\* What a current analysis declares is in the texts.
LEMMA DeclaredCurrent ==
  ASSUME NEW ds, DocsInv(ds), NEW a, NEW f, AnalysisCurrent(ds, a, f), NEW n, NEW l \in Declared(a, n)
  PROVE  /\ l.file \in Sources /\ l.rev = ds[l.file].rev /\ l.kind \in Kinds
         /\ [name |-> n, kind |-> l.kind] \in ds[l.file].text.units
<1>1. PICK i \in DOMAIN a : \E u \in Named(a[i].units, n) : l = Location(a[i], u)
  BY DEF Declared
<1>2. PICK u \in Named(a[i].units, n) : l = Location(a[i], u)
  BY <1>1
<1>3. PICK g \in Sources : g = a[i].file /\ a[i] = fromBuffer(ds, g)
  BY DEF AnalysisCurrent
<1>4. /\ a[i].units = ds[g].text.units /\ g \in DOMAIN a[i].bufs
      /\ \A b \in DOMAIN a[i].bufs : a[i].bufs[b] = ds[b].rev
  BY <1>3, ParsedTree
<1>5. l.file = g /\ l.rev = ds[g].rev /\ l.kind = u.kind
  BY <1>2, <1>3, <1>4 DEF Location
<1>6. u \in ds[g].text.units /\ u.name = n
  BY <1>2, <1>4 DEF Named
<1>7. u \in [name : STRING, kind : Kinds]
  BY <1>6, TextFacts
<1>8. u = [name |-> n, kind |-> u.kind] /\ u.kind \in Kinds
  BY <1>6, <1>7
<1> QED BY <1>5, <1>6, <1>8

\* What the text of a file declares, a current analysis of the file declares.
LEMMA DeclaredAll ==
  ASSUME NEW ds, DocsInv(ds), NEW a, NEW f \in Sources, AnalysisCurrent(ds, a, f), NEW n, NEW k,
         [name |-> n, kind |-> k] \in ds[f].text.units
  PROVE  \E l \in Declared(a, n) : l.file = f /\ l.kind = k
<1> DEFINE u == [name |-> n, kind |-> k]
           l == Location(a[1], u)
<1>1. a[1].file = f /\ 1 \in DOMAIN a
  <2>1. a \in Seq(Range(a)) /\ a # <<>> /\ a[1].file = f
    BY DEF AnalysisCurrent
  <2>2. Len(a) \in Nat /\ Len(a) # 0 /\ DOMAIN a = 1 .. Len(a)
    BY <2>1, LenProperties, EmptySeq
  <2> QED BY <2>1, <2>2
<1>2. a[1] = fromBuffer(ds, f)
  BY <1>1 DEF AnalysisCurrent
<1>3. a[1].units = ds[f].text.units
  BY <1>2, ParsedTree
<1>4. u \in Named(a[1].units, n)
  BY <1>3 DEF Named
<1>5. l \in Declared(a, n)
  BY <1>1, <1>4 DEF Declared
<1>6. l.file = f /\ l.kind = k
  BY <1>1 DEF Location
<1> QED BY <1>5, <1>6

\* Where a tree has a macro is in the texts, and its own file comes first.
LEMMA MacroCurrent ==
  ASSUME NEW ds, DocsInv(ds), NEW f \in Sources, NEW t, t = fromBuffer(ds, f), NEW n,
         n \in DOMAIN t.macros, NEW l, l = MacroAt(t, n)
  PROVE  /\ l.rev = ds[l.file].rev /\ l.kind = "macro" /\ n \in ds[l.file].text.macros
         /\ l.file \in {f} \cup ds[f].text.incl
         /\ n \in ds[f].text.macros => l.file = f
<1>1. /\ t.macros[n] \in {f} \cup ds[f].text.incl /\ n \in ds[t.macros[n]].text.macros
      /\ n \in ds[f].text.macros => t.macros[n] = f
  BY ParsedMacros
<1>2. t.bufs[t.macros[n]] = ds[t.macros[n]].rev
  BY <1>1, ParsedTree
<1>3. l.file = t.macros[n] /\ l.rev = t.bufs[t.macros[n]] /\ l.kind = "macro"
  BY DEF MacroAt
<1> QED BY <1>1, <1>2, <1>3

\* A goto on a reference to a unit, when the document's analysis is current in the
\* documents es after the search, and so are those of the files searched.
LEMMA UnitAnswer ==
  ASSUME NEW es, DocsInv(es), NEW f \in Sources, NEW r, NEW a, AnalysisCurrent(es, a, f),
         NEW locals \in Lookups(a, r), NEW paths \in SUBSET Sources,
         searchIndex(f, locals) => paths = FilesForSymbol(r.name),
         \A g \in paths : AnalysisCurrent(es, es[g].analysis, g),
         NEW at, at = locals \cup UNION {Candidates(es, g, r.name, locals) : g \in paths}
  PROVE  AllCurrent(es, at, r.name) /\ AllShown(es, at, f, "unit", r.name)
<1> DEFINE n == r.name
<1>1. locals \subseteq Declared(a, n) /\ \A l, m \in locals : l = m
  <2>1. locals = {} \/ \E l \in Declared(a, n) : locals = {l}
    BY DEF Lookups
  <2> QED BY <2>1
<1>2. ASSUME NEW l \in at
      PROVE  l \in locals \/ \E g \in paths : l \in Candidates(es, g, n, locals)
  BY <1>2
<1>3. ASSUME NEW l \in at PROVE l.file \in Sources /\ l.rev = es[l.file].rev /\ l.kind \in Kinds
                               /\ [name |-> n, kind |-> l.kind] \in es[l.file].text.units
  <2>1. CASE l \in locals
    <3>1. l \in Declared(a, n)
      BY <1>1, <2>1
    <3> HIDE DEF n
    <3> QED BY <3>1, DeclaredCurrent
  <2>2. CASE \E g \in paths : l \in Candidates(es, g, n, locals)
    <3>1. PICK g \in paths : l \in Declared(es[g].analysis, n)
      BY <2>2 DEF Candidates
    <3> HIDE DEF n
    <3> QED BY <3>1, DeclaredCurrent
  <2> QED BY <1>2, <2>1, <2>2
<1>4. "macro" \notin Kinds
  BY DEF Kinds
<1>5. AllCurrent(es, at, n)
  BY <1>3, <1>4 DEF AllCurrent, DeclaresIn
<1>6. CASE ~ searchIndex(f, locals)
  <2>1. \E l \in at : l.file = f
    BY <1>6 DEF searchIndex
  <2> QED BY <1>5, <2>1 DEF AllShown
<1>7. CASE searchIndex(f, locals)
  <2>1. ASSUME NEW g \in Sources, NEW k \in Kinds \cup {"macro"},
               DeclaresIn(es, g, n, k), Expected("unit", g, k, n)
        PROVE  at # {} /\ ((\E l \in at : l.kind = k) => \E l \in at : l.kind = k /\ l.file = g)
    <3>1. k \in Kinds /\ k # "macro" /\ g \in FilesForSymbol(n) /\ [name |-> n, kind |-> k] \in es[g].text.units
      BY <2>1 DEF Expected, DeclaresIn, FilesForSymbol
    <3>2. g \in paths /\ AnalysisCurrent(es, es[g].analysis, g)
      BY <1>7, <3>1
    <3>3. PICK l \in Declared(es[g].analysis, n) : l.file = g /\ l.kind = k
      <4> HIDE DEF n
      <4> QED BY <3>1, <3>2, DeclaredAll
    <3>4. locals = {} \/ (\E m \in locals : m.kind = k) => l \in at
      BY <3>2, <3>3 DEF Candidates
    <3>5. at # {}
      BY <3>4
    <3>6. ASSUME NEW p \in at, p.kind = k PROVE \E m \in at : m.kind = k /\ m.file = g
      <4>1. locals = {} \/ \E m \in locals : m.kind = k
        <5>1. CASE p \in locals
          BY <3>6, <5>1
        <5>2. CASE \E h \in paths : p \in Candidates(es, h, n, locals)
          <6>1. locals = {} \/ \E m \in locals : m.kind = p.kind
            BY <5>2 DEF Candidates
          <6> QED BY <3>6, <6>1
        <5> QED BY <1>2, <5>1, <5>2
      <4> QED BY <3>3, <3>4, <4>1
    <3> QED BY <3>5, <3>6
  <2>2. AllShown(es, at, f, "unit", n)
    BY <2>1 DEF AllShown
  <2> QED BY <1>5, <2>2
<1> QED BY <1>6, <1>7

\* The answer to a macro, likewise.
LEMMA MacroAnswer ==
  ASSUME NEW es, DocsInv(es), NEW f \in Sources, NEW n, NEW own, own = fromBuffer(es, f),
         NEW paths, paths = IF n \in DOMAIN own.macros THEN {} ELSE FilesForMacro(n),
         NEW trees, trees = {es[g].analysis[1] : g \in IF paths = {} THEN {f} ELSE paths},
         AnalysisCurrent(es, es[f].analysis, f),
         \A g \in paths : AnalysisCurrent(es, es[g].analysis, g),
         NEW at, at = {MacroAt(t, n) : t \in {t \in trees : n \in DOMAIN t.macros}}
  PROVE  AllCurrent(es, at, n) /\ AllShown(es, at, f, "macro", n)
<1>1. ASSUME NEW a, NEW g, AnalysisCurrent(es, a, g) PROVE g \in Sources /\ a[1] = fromBuffer(es, g)
  <2>1. a \in Seq(Range(a)) /\ a # <<>> /\ a[1].file = g
    BY <1>1 DEF AnalysisCurrent
  <2>2. 1 \in DOMAIN a
    <3>1. Len(a) \in Nat /\ Len(a) # 0 /\ DOMAIN a = 1 .. Len(a)
      BY <2>1, LenProperties, EmptySeq
    <3> QED BY <3>1
  <2> QED BY <1>1, <2>1, <2>2 DEF AnalysisCurrent
<1>2. \A t \in trees : \E g \in Sources : t = fromBuffer(es, g) /\ (paths = {} => g = f)
  BY <1>1
<1>3. \A g \in paths : fromBuffer(es, g) \in trees
  BY <1>1
<1>4. paths = {} => own \in trees
  BY <1>1
<1>5. ASSUME NEW l \in at
      PROVE  /\ l.rev = es[l.file].rev /\ l.kind = "macro" /\ n \in es[l.file].text.macros
             /\ paths = {} => l.file = f \/ l.file \in es[f].text.incl
  <2>1. PICK t \in trees : n \in DOMAIN t.macros /\ l = MacroAt(t, n)
    OBVIOUS
  <2>2. PICK g \in Sources : t = fromBuffer(es, g) /\ (paths = {} => g = f)
    BY <1>2
  <2>3. /\ l.rev = es[l.file].rev /\ l.kind = "macro" /\ n \in es[l.file].text.macros
        /\ l.file \in {g} \cup es[g].text.incl
    BY <2>1, <2>2, MacroCurrent
  <2> QED BY <2>2, <2>3
<1>6. AllCurrent(es, at, n)
  BY <1>5 DEF AllCurrent, DeclaresIn
<1>7. CASE n \in DOMAIN own.macros
  <2>1. paths = {} /\ own \in trees
    BY <1>4, <1>7
  <2>2. MacroAt(own, n) \in at
    BY <1>7, <2>1
  <2>3. \E l \in at : l.file = f \/ (l.kind = "macro" /\ l.file \in es[f].text.incl)
    BY <1>5, <2>1, <2>2
  <2> QED BY <1>6, <2>3 DEF AllShown
<1>8. CASE n \notin DOMAIN own.macros
  <2>1. ASSUME NEW g \in Sources, NEW k \in Kinds \cup {"macro"},
               DeclaresIn(es, g, n, k), Expected("macro", g, k, n)
        PROVE  at # {} /\ ((\E l \in at : l.kind = k) => \E l \in at : l.kind = k /\ l.file = g)
    <3>1. k = "macro" /\ n \in indexed[g].macros /\ n \in es[g].text.macros
      BY <2>1 DEF Expected, DeclaresIn
    <3>2. g \in paths
      BY <1>8, <3>1 DEF FilesForMacro
    <3> DEFINE t == fromBuffer(es, g)
    <3>3. t \in trees
      BY <1>3, <3>2
    <3>4. n \in DOMAIN t.macros
      BY <3>1, ParsedMacros
    <3>5. MacroAt(t, n) \in at
      BY <3>3, <3>4
    <3>6. MacroAt(t, n).file = g /\ MacroAt(t, n).kind = "macro"
      BY <3>1, <3>4, MacroCurrent
    <3> QED BY <3>1, <3>5, <3>6
  <2>2. AllShown(es, at, f, "macro", n)
    BY <2>1 DEF AllShown
  <2> QED BY <1>6, <2>2
<1> QED BY <1>7, <1>8

-----------------------------------------------------------------------------
(* Diagnosing a document.                                                   *)

\* DiagnosisComplete of documents ds, when the index is current.
AllUnitsThere(ds, f) ==
  \A i \in DOMAIN ds[f].analysis :
    (i = 1 \/ Enters(ds[f].analysis[i])) =>
      \A r \in Range(ds[f].analysis[i].refs) :
        (\E g \in Sources : Named(ds[g].text.units, r.name) # {}) => Declared(ds[f].analysis, r.name) # {}

IndexCurrent(ds) == \A g \in Sources : indexed[g].units = ds[g].text.units

\* A tree of an analysis that has a unit of a name declares the name.
LEMMA DeclaredBy ==
  ASSUME NEW a, NEW i \in DOMAIN a, NEW n, Named(a[i].units, n) # {}
  PROVE  Declared(a, n) # {}
<1>1. PICK u \in Named(a[i].units, n) : TRUE
  OBVIOUS
<1>2. Location(a[i], u) \in Declared(a, n)
  BY <1>1 DEF Declared
<1> QED BY <1>2

\* The analysis of what the search found has every unit the index has.
LEMMA UnitsThere ==
  ASSUME NEW ds, DocsInv(ds), OrderInv, IndexCurrent(ds), NEW f \in Sources,
         NEW t, t = fromBuffer(ds, f), NEW deps, deps = getDependentDocs(ds, t),
         NEW a, a = Compiled(ds, t, deps),
         NEW i \in DOMAIN a, i = 1 \/ Enters(a[i]), NEW r \in Range(a[i].refs),
         \E g \in Sources : Named(ds[g].text.units, r.name) # {}
  PROVE  Declared(a, r.name) # {}
<1> DEFINE n == r.name
<1>1. /\ deps \in Seq(Sources)
      /\ \A y \in Followed(ds, t, deps) : \A q \in Range(y.refs) : Settled(ds, t, deps, q.name)
  BY DependentDocs
<1>2. /\ a[1] = t /\ 1 \in DOMAIN a
      /\ \A j \in DOMAIN a : j = 1 \/ \E g \in Range(deps) : a[j] = fromBuffer(ds, g)
      /\ \A g \in Range(deps) : \E j \in DOMAIN a : a[j] = fromBuffer(ds, g)
  BY <1>1, CompiledTrees
<1>3. a[i] \in Followed(ds, t, deps)
  BY <1>2 DEF Followed
<1>4. Settled(ds, t, deps, n)
  BY <1>1, <1>3
<1>5. FilesForSymbol(n) # {}
  BY DEF FilesForSymbol, IndexCurrent
<1>6. ASSUME NEW g \in Range(deps), Named(ds[g].text.units, n) # {} PROVE Declared(a, n) # {}
  <2>1. g \in Sources
    BY <1>1, LenProperties, ElementOfSeq DEF Range
  <2>2. PICK j \in DOMAIN a : a[j] = fromBuffer(ds, g)
    BY <1>2
  <2>3. Named(a[j].units, n) # {}
    BY <1>6, <2>1, <2>2, ParsedTree
  <2> QED BY <2>3, DeclaredBy
<1>7. CASE Named(t.units, n) # {}
  <2>1. Named(a[1].units, n) # {}
    BY <1>2, <1>7
  <2> QED BY <1>2, <2>1, DeclaredBy
<1>8. CASE getFirstSymbolLoc(n) \in Range(deps)
  <2>1. getFirstSymbolLoc(n) \in FilesForSymbol(n) /\ getFirstSymbolLoc(n) \in Sources
    BY <1>5, FirstLoc
  <2>2. Named(ds[getFirstSymbolLoc(n)].text.units, n) # {}
    BY <2>1 DEF FilesForSymbol, IndexCurrent
  <2> QED BY <1>6, <1>8, <2>2
<1> QED BY <1>4, <1>5, <1>6, <1>7, <1>8 DEF Settled

\* updateDoc keeps the documents honest, and leaves an analysis with every unit.
LEMMA UpdateDoc ==
  ASSUME NEW ds, DocsInv(ds), OrderInv, NEW f \in Sources, NEW es, es = updateDoc(ds, f)
  PROVE  /\ DocsInv(es) /\ Same(ds, es)
         /\ IndexCurrent(ds) => AllUnitsThere(es, f)
<1> DEFINE own == fromBuffer(ds, f)
           d1 == [ds EXCEPT ![f].tree = own]
           refresh == TRUE
<1>1. es = getAnalysis(d1, f, refresh)
  BY TreeCurrent DEF updateDoc
<1>2. /\ d1 = [g \in Sources |-> d1[g]] /\ d1[f] = [ds[f] EXCEPT !.tree = own]
      /\ \A g \in Sources : g # f => d1[g] = ds[g]
  BY DEF DocsInv
<1> HIDE DEF d1
<1>3. PICK y : y = own
  OBVIOUS
<1>4. /\ d1[f].text = ds[f].text /\ d1[f].rev = ds[f].rev /\ d1[f].tree = y /\ d1[f].deps = ds[f].deps
      /\ d1[f].analysis = ds[f].analysis /\ DocTyped(d1[f], f)
  <2>1. /\ ds[f] = [text |-> ds[f].text, rev |-> ds[f].rev, tree |-> ds[f].tree, deps |-> ds[f].deps,
                    analysis |-> ds[f].analysis]
        /\ DocTyped(ds[f], f)
    BY DEF DocTyped, DocsInv
  <2>2. d1[f] = [text |-> ds[f].text, rev |-> ds[f].rev, tree |-> y, deps |-> ds[f].deps,
                 analysis |-> ds[f].analysis]
    BY <1>2, <1>3, <2>1
  <2>3. /\ d1[f].text = ds[f].text /\ d1[f].rev = ds[f].rev /\ d1[f].tree = y
        /\ d1[f].deps = ds[f].deps /\ d1[f].analysis = ds[f].analysis
    BY <2>2
  <2> QED BY <2>1, <2>2, <2>3 DEF DocTyped
<1>5. Same(ds, d1)
  BY <1>2, <1>4 DEF Same
<1>6. /\ \A t : Honest(ds, t) => Honest(d1, t)
      /\ \A a, g : AnalysisHonest(ds, a, g) => AnalysisHonest(d1, a, g)
      /\ \A g \in Sources : fromBuffer(d1, g) = fromBuffer(ds, g)
  BY <1>5, KeptSame
<1>7. Honest(d1, own) /\ own.file = f
  BY <1>6, ParsedTree
<1> HIDE DEF own
<1>8. DocsInv(d1)
  <2>1. ASSUME NEW g \in Sources
        PROVE  /\ DocTyped(d1[g], g)
               /\ d1[g].tree = Nil \/ (Honest(d1, d1[g].tree) /\ d1[g].tree.file = g)
               /\ d1[g].analysis = Nil \/ AnalysisHonest(d1, d1[g].analysis, g)
    <3>1. /\ DocTyped(ds[g], g)
          /\ ds[g].tree = Nil \/ (Honest(ds, ds[g].tree) /\ ds[g].tree.file = g)
          /\ ds[g].analysis = Nil \/ AnalysisHonest(ds, ds[g].analysis, g)
      BY DEF DocsInv
    <3>2. CASE g = f
      BY <1>3, <1>4, <1>6, <1>7, <3>1, <3>2
    <3>3. CASE g # f
      BY <1>2, <1>6, <3>1, <3>3
    <3> QED BY <3>2, <3>3
  <2> QED BY <1>2, <2>1 DEF DocsInv
<1> DEFINE deps == DepsFor(d1, f, refresh)
<1>9. es = Analysed(d1, f, deps)
  BY <1>1, GetAnalysisIs
<1>10. deps = getDependentDocs(d1, fromBuffer(d1, f))
  BY <1>8, TreeCurrent DEF DepsFor
<1> HIDE DEF deps, refresh
<1>11. deps \in Seq(Sources)
  BY <1>8, <1>10, DependentDocs
<1>12. DocsInv(es) /\ Same(d1, es) /\ es[f].analysis = Compiled(d1, fromBuffer(d1, f), deps)
  BY <1>8, <1>9, <1>11, AnalysedKeeps
<1>13. Same(ds, es)
  BY <1>5, <1>12 DEF Same
<1>14. ASSUME IndexCurrent(ds) PROVE AllUnitsThere(es, f)
  <2>1. IndexCurrent(d1)
    BY <1>5, <1>14 DEF IndexCurrent, Same
  <2>2. ASSUME NEW n, \E g \in Sources : Named(es[g].text.units, n) # {}
        PROVE  \E g \in Sources : Named(d1[g].text.units, n) # {}
    BY <1>12, <2>2 DEF Same
  <2> DEFINE a == es[f].analysis
             t == fromBuffer(d1, f)
  <2>3. a = Compiled(d1, t, deps) /\ deps = getDependentDocs(d1, t)
    BY <1>10, <1>12
  <2>4. ASSUME NEW i \in DOMAIN a, i = 1 \/ Enters(a[i]), NEW r \in Range(a[i].refs),
               \E g \in Sources : Named(es[g].text.units, r.name) # {}
        PROVE  Declared(a, r.name) # {}
    <3>1. \E g \in Sources : Named(d1[g].text.units, r.name) # {}
      BY <2>2, <2>4
    <3>2. t = fromBuffer(d1, f)
      OBVIOUS
    <3> HIDE DEF a, t
    <3> QED BY <1>8, <2>1, <2>3, <2>4, <3>1, <3>2, UnitsThere
  <2> QED BY <2>4 DEF AllUnitsThere
<1> QED BY <1>12, <1>13, <1>14

-----------------------------------------------------------------------------
(* Steps.                                                                   *)

\* Moving the entries of a file to the end loses no file.
LEMMA MovedToEnd ==
  ASSUME NEW s \in Seq(Sources), Range(s) = Sources, NEW f \in Sources,
         NEW e, e = Append(RemoveFirst(s, f), f)
  PROVE  e \in Seq(Sources) /\ Range(e) = Sources
<1> DEFINE T == {i \in 1 .. Len(s) : s[i] = f}
<1>1. /\ Len(s) \in Nat /\ DOMAIN s = 1 .. Len(s)
      /\ \A i \in 1 .. Len(s) : s[i] \in Sources
  BY LenProperties, ElementOfSeq
<1>2. T # {} /\ T \in SUBSET Nat
  BY <1>1 DEF Range
<1>3. \E i \in T : \A j \in T : i <= j
  BY <1>2, Smallest
<1>4. RemoveFirst(s, f) = RemoveAt(s, Min(T))
  BY <1>2 DEF RemoveFirst, SelectInSeq
<1> HIDE DEF T
<1>5. Min(T) \in T
  BY <1>3 DEF Min
<1>6. PICK k \in 1 .. Len(s) : s[k] = f /\ k = Min(T)
  BY <1>5 DEF T
<1> DEFINE a == SubSeq(s, 1, k - 1)
           b == SubSeq(s, k + 1, Len(s))
<1>7. e = Append(a \o b, f)
  BY <1>4, <1>6 DEF RemoveAt
<1>8. /\ a \in Seq(Sources) /\ Len(a) = k - 1 /\ \A i \in 1 .. k - 1 : a[i] = s[i]
      /\ b \in Seq(Sources) /\ Len(b) = Len(s) - k
      /\ \A i \in 1 .. Len(s) - k : b[i] = s[k + i]
  <2>1. /\ a \in Seq(Sources) /\ Len(a) = k - 1 /\ \A i \in 1 .. k - 1 : a[i] = s[i]
    <3>1. 1 \in Int /\ k - 1 \in Int /\ \A i \in 1 .. k - 1 : s[i] \in Sources
      BY <1>1
    <3>2. /\ a \in Seq(Sources) /\ Len(a) = (IF 1 <= k - 1 THEN (k - 1) - 1 + 1 ELSE 0)
          /\ \A i \in 1 .. (k - 1) - 1 + 1 : a[i] = s[1 + i - 1]
      BY <3>1, SubSeqProperties
    <3>3. (IF 1 <= k - 1 THEN (k - 1) - 1 + 1 ELSE 0) = k - 1 /\ (k - 1) - 1 + 1 = k - 1
      BY <1>1
    <3>4. \A i \in 1 .. k - 1 : 1 + i - 1 = i
      BY <1>1
    <3> HIDE DEF a
    <3> QED BY <3>2, <3>3, <3>4
  <2>2. /\ b \in Seq(Sources) /\ Len(b) = Len(s) - k
        /\ \A i \in 1 .. Len(s) - k : b[i] = s[k + i]
    <3>1. k + 1 \in Int /\ Len(s) \in Int /\ \A i \in k + 1 .. Len(s) : s[i] \in Sources
      BY <1>1
    <3>2. /\ b \in Seq(Sources) /\ Len(b) = (IF k + 1 <= Len(s) THEN Len(s) - (k + 1) + 1 ELSE 0)
          /\ \A i \in 1 .. Len(s) - (k + 1) + 1 : b[i] = s[(k + 1) + i - 1]
      BY <3>1, SubSeqProperties
    <3>3. (IF k + 1 <= Len(s) THEN Len(s) - (k + 1) + 1 ELSE 0) = Len(s) - k /\ Len(s) - (k + 1) + 1 = Len(s) - k
      <4>1. \A n \in Nat : \A j \in 1 .. n : /\ (IF j + 1 <= n THEN n - (j + 1) + 1 ELSE 0) = n - j
                                          /\ n - (j + 1) + 1 = n - j
        OBVIOUS
      <4> QED BY <1>1, <4>1
    <3>4. \A i \in 1 .. Len(s) - k : (k + 1) + i - 1 = k + i
      BY <1>1
    <3> HIDE DEF b
    <3> QED BY <3>2, <3>3, <3>4
  <2> QED BY <2>1, <2>2
<1> HIDE DEF a, b
<1> DEFINE c == a \o b
<1>9. /\ c \in Seq(Sources) /\ Len(c) = Len(a) + Len(b)
      /\ \A i \in 1 .. Len(c) : c[i] = IF i <= Len(a) THEN a[i] ELSE b[i - Len(a)]
  <2>1. a \in Seq(Sources) /\ b \in Seq(Sources)
    BY <1>8
  <2>2. /\ a \o b \in Seq(Sources) /\ Len(a \o b) = Len(a) + Len(b)
        /\ \A i \in 1 .. Len(a) + Len(b) : (a \o b)[i] = IF i <= Len(a) THEN a[i] ELSE b[i - Len(a)]
    BY <2>1, ConcatProperties
  <2> QED BY <2>2
<1> HIDE DEF c
<1>10. /\ Append(c, f) \in Seq(Sources) /\ Range(Append(c, f)) = Range(c) \cup {f}
  BY <1>9, AppendProperties, RangeAppend
<1>11. DOMAIN c = 1 .. Len(s) - 1 /\ Len(c) = Len(s) - 1
  BY <1>1, <1>8, <1>9, LenProperties
<1>12. ASSUME NEW g \in Sources, g # f PROVE g \in Range(c)
  <2>1. PICK i \in 1 .. Len(s) : g = s[i]
    BY <1>1 DEF Range
  <2>2. CASE i < k
    <3>1. i \in 1 .. Len(c) /\ i <= Len(a) /\ i \in 1 .. k - 1
      BY <1>1, <1>8, <1>11, <2>2
    <3>2. c[i] = g
      BY <1>8, <1>9, <2>1, <3>1
    <3> QED BY <1>11, <3>1, <3>2 DEF Range
  <2>3. CASE i > k
    <3>1. i - 1 \in 1 .. Len(c) /\ ~ (i - 1 <= Len(a)) /\ (i - 1) - Len(a) = i - k /\ i - k \in 1 .. Len(s) - k
      BY <1>1, <1>8, <1>11, <2>3
    <3>2. c[i - 1] = b[i - k]
      <4>1. c[i - 1] = b[(i - 1) - Len(a)]
        BY <1>9, <3>1
      <4> QED BY <3>1, <4>1
    <3>3. k + (i - k) = i
      BY <1>1
    <3>4. c[i - 1] = g
      BY <1>8, <2>1, <3>1, <3>2, <3>3
    <3> QED BY <1>11, <3>1, <3>4 DEF Range
  <2>4. i # k
    BY <1>6, <1>12, <2>1
  <2> QED BY <1>1, <2>2, <2>3, <2>4
<1>13. Range(c) \subseteq Sources
  BY <1>9, LenProperties, ElementOfSeq DEF Range
<1>14. Range(Append(c, f)) = Sources
  BY <1>10, <1>12, <1>13
<1> QED BY <1>7, <1>10, <1>14 DEF c

LEMMA OrderKept ==
  ASSUME OrderInv, NEW f \in Sources, order' = Append(RemoveFirst(order, f), f)
  PROVE  OrderInv'
<1>1. PICK s, e : s = order /\ e = order'
  OBVIOUS
<1>2. e \in Seq(Sources) /\ Range(e) = Sources
  BY <1>1, MovedToEnd DEF OrderInv
<1> QED BY <1>1, <1>2 DEF OrderInv

\* A request for a unit.
LEMMA GotoUnitStep ==
  ASSUME DefInv, NEW f \in Sources, NEW r, GotoUnit(f, r)
  PROVE  DefInv' /\ LocationsCurrent' /\ AllDefinitions' /\ DiagnosisComplete'
<1> DEFINE refresh == FALSE
           d1 == getAnalysis(docs, f, refresh)
<1>1. PICK locals \in Lookups(d1[f].analysis, r) :
        LET paths == IF searchIndex(f, locals) THEN FilesForSymbol(r.name) ELSE {}
            all   == SearchFiles(d1, paths)
        IN /\ docs' = all
           /\ reply' = [what |-> "unit", doc |-> f, name |-> r.name,
                        at |-> locals \cup UNION {Candidates(all, g, r.name, locals) : g \in paths}]
           /\ UNCHANGED <<order, indexed, saves>>
  BY DEF GotoUnit
<1> DEFINE paths == IF searchIndex(f, locals) THEN FilesForSymbol(r.name) ELSE {}
           es == SearchFiles(d1, paths)
           at == locals \cup UNION {Candidates(es, g, r.name, locals) : g \in paths}
<1>2. /\ docs' = es
      /\ reply' = [what |-> "unit", doc |-> f, name |-> r.name, at |-> at]
      /\ UNCHANGED <<order, indexed>>
  BY <1>1
<1> HIDE DEF refresh
<1>3. /\ DocsInv(d1) /\ AnalysisCurrent(d1, d1[f].analysis, f)
  BY GetAnalysis DEF DefInv
<1> HIDE DEF d1
<1>4. paths \in SUBSET Sources /\ (searchIndex(f, locals) => paths = FilesForSymbol(r.name))
  BY DEF FilesForSymbol
<1> HIDE DEF paths
<1>5. /\ DocsInv(es) /\ Same(d1, es) /\ \A g \in paths : AnalysisCurrent(es, es[g].analysis, g)
  BY <1>3, <1>4, SearchedFiles DEF DefInv
<1> HIDE DEF es
<1>6. AnalysisCurrent(es, d1[f].analysis, f)
  BY <1>3, <1>5, KeptSame
<1>7. AllCurrent(es, at, r.name) /\ AllShown(es, at, f, "unit", r.name)
  BY <1>4, <1>5, <1>6, UnitAnswer
<1> HIDE DEF at
<1>8. LocationsCurrent' /\ AllDefinitions' /\ DiagnosisComplete'
  BY <1>2, <1>7, AnswerHas
<1>9. DefInv'
  BY <1>2, <1>5 DEF DefInv, OrderInv
<1> QED BY <1>8, <1>9

\* A request for a macro.
LEMMA MacroStep ==
  ASSUME DefInv, NEW f \in Sources, NEW n, getMacroDefinitionInfo(f, n)
  PROVE  DefInv' /\ LocationsCurrent' /\ AllDefinitions' /\ DiagnosisComplete'
<1> DEFINE refresh == FALSE
           d1 == getAnalysis(docs, f, refresh)
           own == d1[f].analysis[1]
           paths == IF n \in DOMAIN own.macros THEN {} ELSE FilesForMacro(n)
           es == SearchFiles(d1, paths)
           trees == {es[g].analysis[1] : g \in IF paths = {} THEN {f} ELSE paths}
           at == {MacroAt(t, n) : t \in {t \in trees : n \in DOMAIN t.macros}}
<1>1. /\ docs' = es
      /\ reply' = [what |-> "macro", doc |-> f, name |-> n, at |-> at]
      /\ UNCHANGED <<order, indexed>>
  BY DEF getMacroDefinitionInfo
<1> HIDE DEF refresh
<1>2. /\ DocsInv(d1) /\ AnalysisCurrent(d1, d1[f].analysis, f)
  BY GetAnalysis DEF DefInv
<1> HIDE DEF d1
<1>3. own = fromBuffer(d1, f)
  <2> DEFINE a == d1[f].analysis
  <2>1. a \in Seq(Range(a)) /\ a # <<>> /\ a[1].file = f
    BY <1>2 DEF AnalysisCurrent
  <2>2. Len(a) \in Nat /\ Len(a) # 0 /\ DOMAIN a = 1 .. Len(a)
    BY <2>1, LenProperties, EmptySeq
  <2>3. 1 \in DOMAIN a
    BY <2>2
  <2> QED BY <1>2, <2>1, <2>3 DEF AnalysisCurrent
<1>4. paths = IF n \in DOMAIN own.macros THEN {} ELSE FilesForMacro(n)
  OBVIOUS
<1> HIDE DEF paths, own
<1>5. /\ DocsInv(es) /\ Same(d1, es)
      /\ \A g \in Sources : AnalysisCurrent(d1, d1[g].analysis, g) \/ g \in paths
                            => AnalysisCurrent(es, es[g].analysis, g)
  BY <1>2, SearchedFiles DEF DefInv
<1>6. paths \subseteq Sources
  BY <1>4 DEF FilesForMacro
<1> HIDE DEF es
<1>7. own = fromBuffer(es, f)
  BY <1>2, <1>3, <1>5, KeptSame
<1>8. AllCurrent(es, at, n) /\ AllShown(es, at, f, "macro", n)
  BY <1>2, <1>4, <1>5, <1>6, <1>7, MacroAnswer
<1> HIDE DEF at
<1>9. LocationsCurrent' /\ AllDefinitions' /\ DiagnosisComplete'
  BY <1>1, <1>8, AnswerHas
<1>10. DefInv'
  BY <1>1, <1>5 DEF DefInv, OrderInv
<1> QED BY <1>9, <1>10

\* What a diagnosis says, when the analysis has every unit the index knew.
LEMMA DiagnosedHas ==
  ASSUME NEW ds, NEW f, reply' = Diagnosed(ds, f), IndexCurrent(ds) => AllUnitsThere(docs', f)
  PROVE  LocationsCurrent' /\ AllDefinitions' /\ DiagnosisComplete'
<1>1. PICK c : c = IndexCurrent(ds)
  OBVIOUS
<1>2. reply' = [what |-> "diagnosed", doc |-> f, current |-> c]
  BY <1>1 DEF Diagnosed, IndexCurrent
<1>3. reply'.what = "diagnosed" /\ reply'.doc = f /\ reply'.current = c
  BY <1>2
<1>4. LocationsCurrent' /\ AllDefinitions'
  BY <1>3 DEF LocationsCurrent, AllDefinitions, Answered
<1>5. CASE IndexCurrent(ds)
  <2>1. AllUnitsThere(docs', f)
    BY <1>5
  <2>2. DiagnosisComplete'
    BY <1>3, <2>1 DEF DiagnosisComplete, AllUnitsThere, Enters
  <2> QED BY <1>4, <2>2
<1>6. CASE ~ IndexCurrent(ds)
  <2>1. c = FALSE
    BY <1>1, <1>6 DEF IndexCurrent
  <2>2. reply'.current = FALSE
    BY <1>3, <2>1
  <2>3. DiagnosisComplete'
    BY <2>2 DEF DiagnosisComplete
  <2> QED BY <1>4, <2>3
<1> QED BY <1>5, <1>6

\* A new text: the trees that had the old one are honest still.
LEMMA ChangeTextStep ==
  ASSUME DefInv, NEW f \in Sources, NEW t \in Range(Written[f]), ChangeText(f, t)
  PROVE  DefInv' /\ LocationsCurrent' /\ AllDefinitions' /\ DiagnosisComplete'
<1> DEFINE ds == [docs EXCEPT ![f].text = t, ![f].rev = @ + 1, ![f].tree = Nil, ![f].analysis = Nil]
<1>1. /\ docs' = updateDoc(ds, f) /\ reply' = Diagnosed(ds, f) /\ UNCHANGED order
  BY DEF ChangeText
<1>2. /\ docs = [g \in Sources |-> docs[g]] /\ \A g \in Sources : DocTyped(docs[g], g)
  BY DEF DefInv, DocsInv
<1> DEFINE d == [text |-> t, rev |-> docs[f].rev + 1, tree |-> Nil, deps |-> docs[f].deps, analysis |-> Nil]
<1>3. /\ ds = [g \in Sources |-> ds[g]] /\ ds[f] = d
      /\ \A g \in Sources : g # f => ds[g] = docs[g]
  <2>1. docs[f] = [text |-> docs[f].text, rev |-> docs[f].rev, tree |-> docs[f].tree,
                   deps |-> docs[f].deps, analysis |-> docs[f].analysis]
    BY <1>2 DEF DocTyped
  <2>2. PICK x1, x2, x3, x4, x5 :
          x1 = docs[f].text /\ x2 = docs[f].rev /\ x3 = docs[f].tree /\ x4 = docs[f].deps /\ x5 = docs[f].analysis
    OBVIOUS
  <2>3. docs[f] = [text |-> x1, rev |-> x2, tree |-> x3, deps |-> x4, analysis |-> x5]
    BY <2>1, <2>2
  <2>4. PICK d0 : d0 = [docs[f] EXCEPT !.text = t, !.rev = @ + 1, !.tree = Nil, !.analysis = Nil]
    OBVIOUS
  <2>5. ds = [docs EXCEPT ![f] = d0]
    BY <1>2, <2>4
  <2>6. d0 = [text |-> t, rev |-> x2 + 1, tree |-> Nil, deps |-> x4, analysis |-> Nil]
    <3>1. PICK y : y = docs[f]
      OBVIOUS
    <3>2. d0 = [y EXCEPT !.text = t, !.rev = @ + 1, !.tree = Nil, !.analysis = Nil]
      BY <2>4, <3>1
    <3>3. y = [text |-> x1, rev |-> x2, tree |-> x3, deps |-> x4, analysis |-> x5]
      BY <2>3, <3>1
    <3> HIDE DEF ds, d
    <3> QED BY <3>2, <3>3
  <2>7. d0 = d
    BY <2>2, <2>6
  <2> HIDE DEF ds, d
  <2> QED BY <1>2, <2>5, <2>7
<1> HIDE DEF ds
<1>4. ds[f].text = t /\ ds[f].rev = docs[f].rev + 1 /\ ds[f].tree = Nil /\ ds[f].deps = docs[f].deps
      /\ ds[f].analysis = Nil
  BY <1>3
<1>5. DocTyped(ds[f], f)
  BY <1>2, <1>3, <1>4 DEF DocTyped
<1> HIDE DEF d
<1>6. /\ \A g \in Sources : ds[g].rev \in Nat /\ docs[g].rev <= ds[g].rev
      /\ \A g \in Sources : ds[g].rev = docs[g].rev => ds[g].text = docs[g].text
  <2>1. ASSUME NEW g \in Sources
        PROVE  ds[g].rev \in Nat /\ docs[g].rev <= ds[g].rev /\ (ds[g].rev = docs[g].rev => ds[g].text = docs[g].text)
    <3>1. docs[g].rev \in Nat
      BY <1>2 DEF DocTyped
    <3>2. CASE g = f
      BY <1>4, <3>1, <3>2
    <3>3. CASE g # f
      BY <1>3, <3>1, <3>3
    <3> QED BY <3>2, <3>3
  <2> QED BY <2>1
<1>7. \A y : Honest(docs, y) => Honest(ds, y)
  BY <1>6, HonestKept DEF DefInv
<1>8. DocsInv(ds)
  <2>1. ASSUME NEW g \in Sources
        PROVE  /\ DocTyped(ds[g], g)
               /\ ds[g].tree = Nil \/ (Honest(ds, ds[g].tree) /\ ds[g].tree.file = g)
               /\ ds[g].analysis = Nil \/ AnalysisHonest(ds, ds[g].analysis, g)
    <3>1. CASE g = f
      BY <1>4, <1>5, <3>1
    <3>2. CASE g # f
      <4>1. /\ DocTyped(docs[g], g)
            /\ docs[g].tree = Nil \/ (Honest(docs, docs[g].tree) /\ docs[g].tree.file = g)
            /\ docs[g].analysis = Nil \/ AnalysisHonest(docs, docs[g].analysis, g)
        BY DEF DefInv, DocsInv
      <4>2. AnalysisHonest(docs, docs[g].analysis, g) => AnalysisHonest(ds, docs[g].analysis, g)
        BY <1>7 DEF AnalysisHonest
      <4>3. ds[g] = docs[g]
        BY <1>3, <3>2
      <4> QED BY <1>7, <4>1, <4>2, <4>3
    <3> QED BY <3>1, <3>2
  <2> QED BY <1>3, <2>1 DEF DocsInv
<1>9. PICK es : es = updateDoc(ds, f)
  OBVIOUS
<1>10. DocsInv(es) /\ (IndexCurrent(ds) => AllUnitsThere(es, f))
  BY <1>8, <1>9, UpdateDoc DEF DefInv
<1>11. LocationsCurrent' /\ AllDefinitions' /\ DiagnosisComplete'
  BY <1>1, <1>9, <1>10, DiagnosedHas
<1>12. DefInv'
  BY <1>1, <1>9, <1>10 DEF DefInv, OrderInv
<1> QED BY <1>11, <1>12

\* A save.
LEMMA SaveDocStep ==
  ASSUME DefInv, NEW f \in Sources, SaveDoc(f)
  PROVE  DefInv' /\ LocationsCurrent' /\ AllDefinitions' /\ DiagnosisComplete'
<1>1. PICK es : es = updateDoc(docs, f)
  OBVIOUS
<1>2. docs' = es /\ reply' = Diagnosed(docs, f) /\ order' = Append(RemoveFirst(order, f), f)
  BY <1>1 DEF SaveDoc
<1>3. DocsInv(es) /\ (IndexCurrent(docs) => AllUnitsThere(es, f))
  BY <1>1, UpdateDoc DEF DefInv
<1>4. LocationsCurrent' /\ AllDefinitions' /\ DiagnosisComplete'
  BY <1>2, <1>3, DiagnosedHas
<1>5. OrderInv'
  BY <1>2, OrderKept DEF DefInv
<1>6. DocsInv(docs')
  BY <1>2, <1>3
<1> QED BY <1>4, <1>5, <1>6 DEF DefInv

\* At the start nothing is cached, and nothing was answered.
LEMMA DefInitInv ==
  ASSUME DefInit
  PROVE  DefInv /\ LocationsCurrent /\ AllDefinitions /\ DiagnosisComplete
<1>1. ASSUME NEW f \in Sources
      PROVE  /\ DocTyped(docs[f], f) /\ docs[f].tree = Nil /\ docs[f].analysis = Nil
  <2>1. docs[f] = [text |-> Written[f][1], rev |-> 0, tree |-> Nil, deps |-> <<>>, analysis |-> Nil]
    BY DEF DefInit
  <2>2. PICK x : x = Written[f][1]
    OBVIOUS
  <2>3. docs[f] = [text |-> x, rev |-> 0, tree |-> Nil, deps |-> <<>>, analysis |-> Nil]
    BY <2>1, <2>2
  <2>4. Written[f] # <<>> /\ Written[f] \in Seq(Range(Written[f]))
    BY DefAssumption DEF Sources
  <2>5. x \in Range(Written[f])
    <3>1. Len(Written[f]) \in Nat /\ Len(Written[f]) # 0 /\ DOMAIN Written[f] = 1 .. Len(Written[f])
      BY <2>4, LenProperties, EmptySeq
    <3>2. 1 \in DOMAIN Written[f]
      BY <3>1
    <3> QED BY <2>2, <3>2 DEF Range
  <2>6. <<>> \in Seq(Sources)
    BY EmptySeq
  <2> QED BY <2>3, <2>5, <2>6 DEF DocTyped
<1>2. docs = [f \in Sources |-> docs[f]]
  BY DEF DefInit
<1>3. DocsInv(docs)
  BY <1>1, <1>2 DEF DocsInv
<1>4. OrderInv
  BY DefAssumption DEF DefInit, OrderInv, Sources
<1>5. LocationsCurrent /\ AllDefinitions /\ DiagnosisComplete
  BY DEF DefInit, LocationsCurrent, AllDefinitions, DiagnosisComplete, Answered
<1> QED BY <1>3, <1>4, <1>5 DEF DefInv

\* A step that changes nothing changes none of it.
LEMMA NothingNew ==
  ASSUME LocationsCurrent, AllDefinitions, DiagnosisComplete, UNCHANGED <<docs, indexed, reply>>
  PROVE  LocationsCurrent' /\ AllDefinitions' /\ DiagnosisComplete'
<1>1. LocationsCurrent'
  BY DEF LocationsCurrent, Answered, Declares
<1>2. AllDefinitions'
  BY DEF AllDefinitions, Answered, Declares
<1>3. DiagnosisComplete'
  BY DEF DiagnosisComplete, Answered
<1> QED BY <1>1, <1>2, <1>3

\* The inductive invariant and what it is for.
Sound == DefInv /\ LocationsCurrent /\ AllDefinitions /\ DiagnosisComplete

LEMMA SoundStep == Sound /\ [DefNext]_defVars => Sound'
<1> SUFFICES ASSUME Sound, [DefNext]_defVars PROVE Sound'
  OBVIOUS
<1> USE DEF Sound
<1>1. ASSUME NEW f \in Sources, NEW t \in Range(Written[f]), ChangeText(f, t) PROVE Sound'
  BY <1>1, ChangeTextStep
<1>2. ASSUME NEW f \in Sources, SaveDoc(f) PROVE Sound'
  BY <1>2, SaveDocStep
<1>3. ASSUME NEW f \in Sources, getDefinitionInfoAt(f) PROVE Sound'
  <2>1. ASSUME NEW r, GotoUnit(f, r) PROVE Sound'
    BY <2>1, GotoUnitStep
  <2>2. ASSUME NEW n, getMacroDefinitionInfo(f, n) PROVE Sound'
    BY <2>2, MacroStep
  <2> QED BY <1>3, <2>1, <2>2 DEF getDefinitionInfoAt
<1>4. CASE UNCHANGED defVars
  <2>1. UNCHANGED <<docs, order, indexed, reply>>
    BY <1>4 DEF defVars
  <2>2. DefInv'
    BY <2>1 DEF DefInv, OrderInv
  <2>3. LocationsCurrent' /\ AllDefinitions' /\ DiagnosisComplete'
    BY <2>1, NothingNew
  <2> QED BY <2>2, <2>3
<1> QED BY <1>1, <1>2, <1>3, <1>4 DEF DefNext

LEMMA SoundAlways == DefSpec => []Sound
<1>1. DefInit => Sound
  BY DefInitInv DEF Sound
<1> QED BY <1>1, SoundStep, PTL DEF DefSpec

\* Where a goto leads is in the latest text of its file and declares the name as the kind
\* shown, after any history: getDefinitionInfoAt never shows what a cached tree only
\* remembers, nor what the index still says of a text that is gone.
THEOREM LocationsAreCurrent == DefSpec => []LocationsCurrent
<1>1. Sound => LocationsCurrent
  BY DEF Sound
<1> QED BY <1>1, SoundAlways, PTL

\* A goto from a document that does not declare the name shows every indexed file that
\* declares it: the lookup that stops when a cached analysis resolved the name loses none.
THEOREM AllDefinitionsAreShown == DefSpec => []AllDefinitions
<1>1. Sound => AllDefinitions
  BY DEF Sound
<1> QED BY <1>1, SoundAlways, PTL

\* A diagnosed document has a unit in its compilation for every name that it, or a package
\* or an interface that was loaded, refers to, if the index was current: the worklist of
\* getDependentDocs ends with every name it met settled, within one pass per file.
THEOREM DiagnosesAreComplete == DefSpec => []DiagnosisComplete
<1>1. Sound => DiagnosisComplete
  BY DEF Sound
<1> QED BY <1>1, SoundAlways, PTL
=============================================================================
