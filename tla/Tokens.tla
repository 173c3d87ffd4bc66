------------------------------- MODULE Tokens -------------------------------
(***************************************************************************)
(* Finding a token by its place: the lookups of SyntaxIndexer over the      *)
(* tokens it collected. A token is a record with its kind and its range,    *)
(* start included, end excluded; ts is `collected`, and index 0 is "none".  *)
(***************************************************************************)
EXTENDS Integers, Sequences, FiniteSetsExt

NoToken == [kind |-> "none", text |-> <<>>, start |-> -1, end |-> -1]

Middle(low, high) == low + (high - low) \div 2

\* Mutant: the search stops one step early.
tokenIndexBeforeShort(ts, loc) ==
  LET search[b \in (1 .. Len(ts)) \X (2 .. Len(ts) + 1)] ==
        LET mid == Middle(b[1], b[2])
        IN IF b[1] + 2 >= b[2] THEN b[1]
           ELSE IF ts[mid].start <= loc THEN search[<<mid, b[2]>>] ELSE search[<<b[1], mid>>]
  IN IF ts = <<>> \/ loc < ts[1].start THEN 0 ELSE search[<<1, Len(ts) + 1>>]

\* b is [low, high]. Invariant of the search: ts[low] starts at or before loc, ts[high]
\* after it.
tokenIndexBefore(ts, loc) ==
  LET search[b \in (1 .. Len(ts)) \X (2 .. Len(ts) + 1)] ==
        LET mid == Middle(b[1], b[2])
        IN IF b[1] + 1 >= b[2] THEN b[1]
           ELSE IF ts[mid].start <= loc THEN search[<<mid, b[2]>>] ELSE search[<<b[1], mid>>]
  IN IF ts = <<>> \/ loc < ts[1].start THEN 0 ELSE search[<<1, Len(ts) + 1>>]

editorContains(t, loc) == t.start <= loc /\ loc < t.end

isIdToken(t) == t.kind \in {"Identifier", "SystemIdentifier", "Directive", "MacroUsage"}

TokenOrNone(ts, i) == IF i >= 1 THEN ts[i] ELSE NoToken

\* The token at loc, or the one before it: the first place of "::" in p::x is
\* still p for an editor.
getWordTokenAt(ts, loc) ==
  LET at   == tokenIndexBefore(ts, loc)
      word == {i \in {at, at - 1} \cap DOMAIN ts : isIdToken(ts[i]) /\ editorContains(ts[i], loc)}
  IN IF word = {} THEN NoToken ELSE ts[Max(word)]

getTokenAt(ts, loc) ==
  LET t == TokenOrNone(ts, tokenIndexBefore(ts, loc))
  IN IF editorContains(t, loc) THEN t ELSE NoToken

getTokenBefore(ts, loc) ==
  LET at      == tokenIndexBefore(ts, loc)
      earlier == Max({0} \cup {i \in 1 .. at : ts[i].start < loc})
  IN TokenOrNone(ts, IF earlier >= 1 /\ loc < ts[earlier].end THEN earlier - 1 ELSE earlier)

\* lower_bound
getTokenAfter(ts, loc) ==
  LET later == {i \in DOMAIN ts : ts[i].start >= loc}
  IN IF later = {} THEN NoToken ELSE ts[Min(later)]

\* The innermost node around loc. parents gives each token its chain of nodes from
\* the root down; between two tokens it is the last node both chains share.
getSyntaxAt(ts, parents, loc) ==
  LET at     == tokenIndexBefore(ts, loc)
      shared == {n \in 1 .. Min({Len(parents[at]), Len(parents[at + 1])}) :
                   SubSeq(parents[at], 1, n) = SubSeq(parents[at + 1], 1, n)}
  IN CASE at = 0                              -> <<>>
       [] at > 0 /\ loc < ts[at].end          -> parents[at]
       [] at = Len(ts) /\ loc >= ts[at].end   -> <<>>
       [] OTHER -> SubSeq(parents[at], 1, Max({0} \cup shared))
=============================================================================
