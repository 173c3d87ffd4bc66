------------------------------ MODULE TextSync ------------------------------
(***************************************************************************)
(* The text of one open document, at the editor and in SlangDoc's buffer.   *)
(* The editor counts UTF-16 code units, the buffer is a sequence of bytes   *)
(* that ends with NUL. A character is a member of Chars: "n" is a newline,  *)
(* "u" takes one unit and two bytes, any other takes one of each.           *)
(***************************************************************************)
EXTENDS Integers, Sequences, FiniteSets, SequencesExt

CONSTANTS Chars,      \* the characters the user types
          MaxLength,  \* bound on the editor's text
          MaxBatch,   \* bound on the changes of one notification
          MaxBuffer,  \* bound on a buffer that has diverged
          MaxReloads  \* bound on the times the file is re-read from disk

NUL == "0"

\* Nobody types NUL.
ASSUME TextAssumption ==
  /\ NUL \notin Chars
  /\ MaxLength \in Nat /\ MaxBatch \in Nat /\ MaxBuffer \in Nat /\ MaxReloads \in Nat

VARIABLES text,       \* what the editor shows
          pending,    \* changes made since the last didChange
          buffer,     \* m_buffer: what the server has
          reloads,    \* times the buffer was re-read
          diverged    \* history: the last re-read left the two different

textVars == <<text, pending, buffer, reloads, diverged>>

Encode(c)  == IF c = "u" THEN <<"u1", "u2">> ELSE <<c>>
Bytes(t)   == FlattenSeq([i \in DOMAIN t |-> Encode(t[i])])
Texts      == UNION {[1 .. n -> Chars] : n \in 0 .. MaxLength}

\* ensureNullTerminated
Terminated(b) == IF b = <<>> \/ Last(b) # NUL THEN Append(b, NUL) ELSE b

(* ------------------------------ the editor ------------------------------ *)

\* The position of the i-th gap of a text, in lines and code units.
Position(t, i) ==
  LET newlines == {k \in 1 .. i : t[k] = "n"}
      lastLine == IF newlines = {} THEN 0 ELSE CHOOSE k \in newlines : \A l \in newlines : l <= k
  IN [line |-> Cardinality(newlines), character |-> i - lastLine]

Partial(start, end, t) == [whole |-> FALSE, start |-> start, end |-> end, text |-> Bytes(t)]
Whole(t)               == [whole |-> TRUE, text |-> Bytes(t)]

(* ------------------------------ SlangDoc -------------------------------- *)

\* SourceManager::computeLineOffsets (slang), for one line.
LineCount(view)    == 1 + Cardinality({i \in DOMAIN view : view[i] = "n"})
LineOffset(view, l) ==
  IF l = 0 THEN 0
  ELSE CHOOSE i \in DOMAIN view : /\ view[i] = "n"
                                  /\ Cardinality({k \in 1 .. i : view[k] = "n"}) = l

LinesKnown(view, c) == c.start.line < LineCount(view) /\ c.end.line < LineCount(view)

getOffsets(view, c) ==
  [first  |-> LineOffset(view, c.start.line) + c.start.character,
   second |-> LineOffset(view, c.end.line) + c.end.character]

\* Only the lines are checked; an offset past the end has no defined effect.
InView(view, c) == getOffsets(view, c).first <= Len(view) /\ getOffsets(view, c).second <= Len(view)

\* The first change is assembled from three pieces.
FirstChange(view, c) ==
  LET o == getOffsets(view, c)
  IN Terminated(SubSeq(view, 1, o.first) \o c.text \o SubSeq(view, o.second + 1, Len(view)))

\* Mutant: the replaced stretch is not erased.
LaterChangeInserting(view, c) ==
  LET o == getOffsets(view, c)
  IN SubSeq(view, 1, o.first) \o c.text \o SubSeq(view, o.first + 1, Len(view))

\* A later one erases and inserts in the buffer the earlier ones made.
LaterChange(view, c) ==
  LET o      == getOffsets(view, c)
      erased == IF o.second > o.first
                THEN SubSeq(view, 1, o.first) \o SubSeq(view, o.second + 1, Len(view))
                ELSE view
  IN SubSeq(erased, 1, o.first) \o c.text \o SubSeq(erased, o.first + 1, Len(erased))

ChangeOne(r, c, later) ==
  IF r.status # "done" THEN r
  ELSE IF c.whole THEN [status |-> "done", view |-> Terminated(c.text)]
  ELSE IF ~ LinesKnown(r.view, c) THEN [r EXCEPT !.status = "throws"]
  ELSE IF ~ InView(r.view, c) THEN [r EXCEPT !.status = "undefined"]
  ELSE [r EXCEPT !.view = IF later THEN LaterChange(@, c) ELSE FirstChange(@, c)]

\* SlangDoc::onChange, change by change.
onChange(view, changes) ==
  LET applied[i \in 0 .. Len(changes)] ==
        IF i = 0 THEN [status |-> "done", view |-> view]
        ELSE ChangeOne(applied[i - 1], changes[i], i > 1)
  IN applied[Len(changes)]

textMatches(b, t) == b = Bytes(t) \o <<NUL>>

(* ------------------------------- actions -------------------------------- *)

TextInit == /\ text \in Texts
            /\ pending = <<>>
            /\ buffer = Terminated(Bytes(text))
            /\ reloads = 0
            /\ diverged = FALSE

\* The user replaces a stretch of the text; the change waits to be sent.
Type == \E i \in 0 .. Len(text) : \E j \in i .. Len(text), t \in {<<>>} \cup {<<c>> : c \in Chars} :
  /\ Len(pending) < MaxBatch
  /\ Len(text) - (j - i) + Len(t) <= MaxLength
  /\ Len(buffer) <= MaxBuffer
  /\ text' = SubSeq(text, 1, i) \o t \o SubSeq(text, j + 1, Len(text))
  /\ pending' = Append(pending, Partial(Position(text, i), Position(text, j), t))
  /\ UNCHANGED <<buffer, reloads, diverged>>

\* A formatter or a revert sends the whole document.
ReplaceDocument == \E t \in Texts :
  /\ Len(pending) < MaxBatch
  /\ text' = t
  /\ pending' = Append(pending, Whole(t))
  /\ UNCHANGED <<buffer, reloads, diverged>>

\* onDocDidChange: an exception leaves the buffer as it was.
DidChange ==
  LET r == onChange(buffer, pending)
  IN /\ pending # <<>>
     /\ pending' = <<>>
     /\ CASE r.status = "done"      -> buffer' = r.view
          [] r.status = "throws"    -> UNCHANGED buffer
          [] r.status = "undefined" -> buffer' \in {buffer, <<NUL>>}
     /\ UNCHANGED <<text, reloads, diverged>>

\* onDocDidSave with the text: the buffer is overwritten when it is not the same.
DidSave == /\ pending = <<>>
           /\ buffer' = IF textMatches(buffer, text) THEN buffer ELSE Terminated(Bytes(text))
           /\ diverged' = FALSE
           /\ UNCHANGED <<text, pending, reloads>>

\* reloadBuffer: the file on disk changed under the open document.
Reload == \E t \in Texts :
  /\ reloads < MaxReloads
  /\ reloads' = reloads + 1
  /\ buffer' = Terminated(Bytes(t))
  /\ diverged' = (t # text \/ pending # <<>>)
  /\ UNCHANGED <<text, pending>>

\* While nobody re-read the file from disk (and again from the next save on), the
\* buffer is the editor's text as soon as the editor's changes are in: every range
\* of every change of a batch was found in the text it was computed for.
Mirrored == ~ diverged /\ pending = <<>> => buffer = Bytes(text) \o <<NUL>>

TextNext == Type \/ ReplaceDocument \/ DidChange \/ DidSave \/ Reload

TextSpec == TextInit /\ [][TextNext]_textVars
=============================================================================
