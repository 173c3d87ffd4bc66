--------------------------- MODULE SyntaxIndexer ---------------------------
(***************************************************************************)
(* The walk of SyntaxIndexer over the tokens of a parsed file, one token    *)
(* with the trivia before it at a time: which tokens stand in the file,     *)
(* which of them are disabled, and what each macro expanded to.             *)
(*                                                                          *)
(* A token is [kind, text, buffer, of, start, end, trivia], `of' being the  *)
(* macro usage it comes from; a trivia is [kind, tokens, id]: a directive,  *)
(* a macro usage, a conditional with the tokens it disables, or tokens the  *)
(* parser skipped.                                                          *)
(***************************************************************************)
EXTENDS Tokens, SequencesExt

CONSTANTS MaxItems,   \* bound: items of a file
          MaxExpand   \* bound: tokens a macro or an include stands for

VARIABLES file,       \* the items of the file
          at,         \* how many of its tokens the walk has visited
          walk        \* what it has collected

indexVars == <<file, at, walk>>

Item == [op : {"word", "skipped"}, n : {1}]
          \cup [op : {"macro", "include", "includeMacro", "skippedMacro"}, n : 0 .. MaxExpand]
          \cup [op : {"ifdef"}, n : 0 .. 1]
----------------------------------------------------------------------------
(* What the preprocessor and the parser of slang make of the items. *)

Tk(kind, buffer, of, start, trivia) ==
  [kind |-> kind, text |-> <<>>, buffer |-> buffer, of |-> of, start |-> start,
   end |-> IF buffer = "file" THEN start + 2 ELSE start, trivia |-> trivia]
InFile(kind, start, trivia) == Tk(kind, "file", 0, start, trivia)

\* n tokens from elsewhere; the first has the trivia.
Brought(n, buffer, of, trivia) ==
  [i \in 1 .. n |-> Tk("Identifier", buffer, of, 0, IF i = 1 THEN trivia ELSE <<>>)]

Trivia(kind, id, tokens) == [kind |-> kind, id |-> id, tokens |-> tokens]

\* Tokens so far, trivia that wait for the next token, the next place.
Parse(p, item) ==
  LET o      == p.offset
      id     == o + 1
      usage  == Trivia("usage", id, <<InFile("MacroUsage", o, <<>>)>>)
      theirs == Trivia("directive", id, <<Tk("MacroUsage", "include", 0, 0, <<>>)>>)
      incl   == Trivia("directive", id, <<InFile("Directive", o, <<>>), InFile("String", o + 3, <<>>)>>)
      branch == Trivia("branch", id, <<InFile("Directive", o, <<>>), InFile("Identifier", o + 3, <<>>)>>
                                       \o [i \in 1 .. item.n |-> InFile("Identifier", o + 3 + 3 * i, <<>>)])
      emit(ts, rest, width) == [tokens |-> p.tokens \o ts, trivia |-> rest, offset |-> o + width]
      bring(buffer, before, width) ==
        emit(Brought(item.n, buffer, id, before), IF item.n = 0 THEN before ELSE <<>>, width)
  IN CASE item.op = "word"    -> emit(<<InFile("Identifier", o, p.trivia)>>, <<>>, 3)
       [] item.op = "macro"   -> bring("macro", Append(p.trivia, usage), 3)
       [] item.op = "include" -> bring("include", Append(p.trivia, incl), 6)
       [] item.op = "includeMacro" -> bring("include", p.trivia \o <<incl, theirs>>, 6)
       [] item.op = "ifdef"   -> emit(<<>>, Append(p.trivia, branch), 6 + 3 * item.n)
       [] item.op = "skipped" ->
            emit(<<>>, <<Trivia("skipped", id, <<InFile("Identifier", o, p.trivia)>>)>>, 3)
       [] item.op = "skippedMacro" ->
            emit(<<>>, <<Trivia("skipped", id, Brought(item.n, "macro", id, Append(p.trivia, usage))
                                                \o <<InFile(";", o + 3,
                                                     IF item.n = 0 THEN Append(p.trivia, usage) ELSE <<>>)>>)>>, 6)

Parsed == FoldLeft(Parse, [tokens |-> <<>>, trivia |-> <<>>, offset |-> 0], file)
Stream == Parsed.tokens \o <<InFile("EndOfFile", Parsed.offset, Parsed.trivia)>>
----------------------------------------------------------------------------
Nothing == [collected |-> <<>>, disabled |-> {}, expansions |-> {}, current |-> 0, tokens |-> <<>>]

\* Mutant: the tokens of the last macro are not taken away with it.
flushMacroExpansionKeeps(w) ==
  [w EXCEPT !.expansions = IF w.current # 0 /\ w.tokens # <<>>
                           THEN @ \cup {[id |-> w.current, tokens |-> w.tokens]} ELSE @,
            !.current = 0]

flushMacroExpansion(w) ==
  LET some == w.current # 0 /\ w.tokens # <<>>
  IN [w EXCEPT !.expansions = IF some THEN @ \cup {[id |-> w.current, tokens |-> w.tokens]} ELSE @,
               !.tokens = IF some THEN <<>> ELSE @,
               !.current = 0]

Collect(w, t) == IF t.buffer = "file" THEN [w EXCEPT !.collected = Append(@, t)] ELSE w

\* The end of visit for a token, its trivia done.
visitToken(w, t) ==
  IF w.current # 0 /\ t.buffer # "file" THEN [w EXCEPT !.tokens = Append(@, t)]
  ELSE Collect(IF w.current # 0 THEN flushMacroExpansion(w) ELSE w, t)

RECURSIVE processTrivia(_, _)

skippedTokens(w, ts) == FoldLeft(LAMBDA v, t : Collect(processTrivia(v, t.trivia), t), w, ts)

processTrivia(w, trivias) ==
  LET directive(v, x) == FoldLeft(visitToken, v, x.tokens)
      begin(v, x) == [flushMacroExpansion(v) EXCEPT !.current = x.id]
      one(v, x) ==
        CASE x.kind = "skipped"   -> skippedTokens(v, x.tokens)
          [] x.kind = "usage"     -> begin(directive(v, x), x)
          [] x.kind = "branch"    -> [directive(v, x) EXCEPT !.disabled =
                                        @ \cup {t.start : t \in ToSet(SubSeq(x.tokens, 3, Len(x.tokens)))}]
          [] OTHER                -> directive(v, x)
  IN FoldLeft(one, w, trivias)

IndexInit == file \in SeqOf(Item, MaxItems) /\ at = 0 /\ walk = Nothing

\* The constructor flushes once more when the walk is over.
Visit ==
  /\ at < Len(Stream)
  /\ at' = at + 1
  /\ LET w == visitToken(processTrivia(walk, Stream[at'].trivia), Stream[at'])
     IN walk' = IF at' = Len(Stream) THEN flushMacroExpansion(w) ELSE w
  /\ UNCHANGED file
----------------------------------------------------------------------------
\* The places of the file's own tokens.
Places(item, o) ==
  CASE item.op \in {"word", "macro", "skipped"} -> {o}
    [] item.op \in {"include", "includeMacro", "skippedMacro"} -> {o, o + 3}
    [] item.op = "ifdef" -> {o + 3 * i : i \in 0 .. item.n + 1}

Width(item) == CASE item.op \in {"word", "macro", "skipped"} -> 3
                 [] item.op \in {"include", "includeMacro", "skippedMacro"} -> 6
                 [] item.op = "ifdef" -> 6 + 3 * item.n

Offset(i) == FoldLeft(LAMBDA o, k : o + Width(file[k]), 0, [k \in 1 .. i - 1 |-> k])

\* Every token of the file is collected once and in order, wherever it hides: in a
\* directive, disabled, or skipped by the parser; nothing from a macro or an include.
CollectedInOrder ==
  /\ \A i \in 1 .. Len(walk.collected) - 1 : walk.collected[i].start < walk.collected[i + 1].start
  /\ at = Len(Stream) =>
       {t.start : t \in ToSet(walk.collected)} =
         UNION {Places(file[i], Offset(i)) : i \in DOMAIN file} \cup {Offset(Len(file) + 1)}
  /\ at = Len(Stream) =>
       walk.disabled = UNION {{Offset(i) + 3 + 3 * k : k \in 1 .. file[i].n} :
                                i \in {j \in DOMAIN file : file[j].op = "ifdef"}}

\* What a macro of the file expanded to is its own tokens, all of them and no other's:
\* also when macros follow each other, expand to nothing, or stand before an include.
ExpansionsOwn ==
  /\ \A e \in walk.expansions : \A t \in ToSet(e.tokens) : t.buffer = "macro" /\ t.of = e.id
  /\ at = Len(Stream) =>
       \A i \in DOMAIN file : file[i].op = "macro" /\ file[i].n > 0 =>
         \E e \in walk.expansions : e.id = Offset(i) + 1 /\ Len(e.tokens) = file[i].n

\* The tokens of the file are collected completely and in order, as the binary search
\* needs them, and the search by place finds what looking at every token would: the token
\* around a place, the last that ends at or before it, the first that starts at or after it.
LookupsExact ==
  /\ CollectedInOrder
  /\ at = Len(Stream) =>
       LET ts == walk.collected
           pick(S, best(_)) == IF S = {} THEN NoToken ELSE ts[best(S)]
       IN \A loc \in 0 .. Offset(Len(file) + 1) + 3 :
            LET around == {i \in DOMAIN ts : ts[i].start <= loc /\ loc < ts[i].end}
            IN /\ getTokenAt(ts, loc) = pick(around, Max)
               /\ getWordTokenAt(ts, loc) = pick({i \in around : isIdToken(ts[i])}, Max)
               /\ getTokenBefore(ts, loc) = pick({i \in DOMAIN ts : ts[i].end <= loc}, Max)
               /\ getTokenAfter(ts, loc) = pick({i \in DOMAIN ts : ts[i].start >= loc}, Min)
=============================================================================
