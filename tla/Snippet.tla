------------------------------ MODULE Snippet -------------------------------
(***************************************************************************)
(* SnippetString: text with tab stops for the editor, and what an editor    *)
(* makes of it. A text is a sequence of one-character strings.              *)
(***************************************************************************)
EXTENDS Integers, Sequences, SequencesExt

Digits == {ToString(n) : n \in 0 .. 9}

escape(t) ==
  FlattenSeq([i \in DOMAIN t |-> IF t[i] \in {"$", "}", "\\"} THEN <<"\\", t[i]>> ELSE <<t[i]>>])

\* A snippet that starts with a value taken as it is.
snippet(t) == [value |-> t, tabstop |-> 1]

appendText(s, t) == [s EXCEPT !.value = @ \o escape(t)]

appendPlaceholder(s, t) ==
  [value   |-> s.value \o <<"$", "{", ToString(s.tabstop), ":">> \o escape(t) \o <<"}">>,
   tabstop |-> s.tabstop + 1]

\* A stop with a number of its own keeps the counter ahead of it.
appendTabstop(s, n) ==
  [value   |-> s.value \o <<"$", ToString(n)>>,
   tabstop |-> IF s.tabstop > n THEN s.tabstop ELSE n + 1]

\* The editor: "\" quotes the next character, "$n" and "${n:default}" are stops, and
\* any other "$" starts the name of a variable, of which the name remains.
ExpandStep(r, c) ==
  CASE r.mode = "quoted" -> [r EXCEPT !.text = Append(@, c), !.mode = "text"]
    [] r.mode = "dollar" /\ c \in Digits ->
         [r EXCEPT !.stops = Append(@, c), !.mode = "text"]
    [] r.mode = "dollar" /\ c = "{"      -> [r EXCEPT !.mode = "open"]
    [] r.mode = "dollar" /\ c \notin Digits \cup {"{"} ->
         [r EXCEPT !.text = Append(@, c), !.mode = "text"]
    [] r.mode = "open" /\ c # ":" -> [r EXCEPT !.stops = Append(@, c)]
    [] r.mode = "open" /\ c = ":" -> [r EXCEPT !.mode = "text", !.inside = TRUE]
    [] r.mode = "text" /\ c = "\\" -> [r EXCEPT !.mode = "quoted"]
    [] r.mode = "text" /\ c = "$"  -> [r EXCEPT !.mode = "dollar"]
    [] r.mode = "text" /\ c = "}" /\ r.inside -> [r EXCEPT !.inside = FALSE]
    [] OTHER -> [r EXCEPT !.text = Append(@, c)]

Expand(value) ==
  LET read[i \in 0 .. Len(value)] ==
        IF i = 0 THEN [mode |-> "text", text |-> <<>>, stops |-> <<>>, inside |-> FALSE]
        ELSE ExpandStep(read[i - 1], value[i])
  IN read[Len(value)]

\* A text in which nothing means anything to an editor that expands it.
Verbatim(t) == \A i \in DOMAIN t : t[i] \notin {"$", "}", "\\"}
=============================================================================
