-------------------------- MODULE DriverSyncProofs --------------------------
(***************************************************************************)
(* Theorems about ServerDriver that need more than the shape of a driver:  *)
(* how old the displayed diagnostics are, whether m_openDocs and the       *)
(* buffers follow the editor across the messages in flight, and what a     *)
(* save repairs.                                                           *)
(***************************************************************************)
EXTENDS ServerDriverProofs

-----------------------------------------------------------------------------
(* The invariants.                                                          *)

\* No tool deletes files. What a handler reads is then there, so none is cut
\* short; with deletions the properties below do fail (the buffer of a change whose
\* search for dependencies throws is newer than what is displayed).
FilesStay == "delete" \notin Fault

\* A message that reports no deletion.
Harmless(msg) == msg.m = "watchedFiles" => \A e \in msg.changes : e.type # "Deleted"

FilesPresent ==
  /\ \A u \in Uri : disk[u] # None
  /\ \A e \in watch : e.type # "Deleted"
  /\ \A i \in 1..Len(inbox) : Harmless(inbox[i])

\* Every diagnostic of the list was computed from buffer b.
AllOf(list, b) == \A i \in DOMAIN list : list[i].of = b

\* What the driver collected and what is displayed was computed from the buffers it
\* has, except for the documents of S.
Fresh(d, view, S) ==
  \A v \in Uri \ S : AllOf(d.dc.diags[v], d.docs[v]) /\ AllOf(view[v], d.docs[v])

\* The documents whose buffers were re-read and not analysed yet.
Awaiting == IF Current("updateDocs") THEN Head(plan).uris ELSE {}

FreshInv ==
  /\ \A i \in 2..Len(plan) : plan[i].op # "updateDocs"
  /\ IF Current("adopt") THEN Fresh(new, published, {}) ELSE Fresh(drv, published, Awaiting)

\* A driver under construction has no design yet and is for the selected build file.
DesignInv ==
  IF Current("adopt") THEN ~HasDesign(new) /\ Head(plan).build = m_buildfile
  ELSE HasDesign(drv) => m_buildfile # None \/ m_topFile # None

\* What a message says about the editor's documents, v being their texts before it,
\* and when an editor in state v may send it.
Played(v, msg) ==
  IF msg.m \notin {"didOpen", "didChange", "didClose"} THEN v
  ELSE [v EXCEPT ![msg.uri] = CASE msg.m = "didOpen"   -> msg.text
                                [] msg.m = "didChange" -> msg.to
                                [] OTHER               -> None]

Sensible(v, msg) ==
  /\ msg.m = "didOpen"   => v[msg.uri] = None
  /\ msg.m = "didChange" => v[msg.uri] = msg.from
  /\ msg.m = "didSave"   => v[msg.uri] = msg.text
  /\ msg.m = "didClose"  => v[msg.uri] # None

\* h[i] is what the editor showed when it had sent the first i messages in flight.
History(h, msgs, last) ==
  /\ h \in [0..Len(msgs) -> [Uri -> Text \cup {None}]]
  /\ h[Len(msgs)] = last
  /\ \A i \in 1..Len(msgs) : Sensible(h[i-1], msgs[i]) /\ h[i] = Played(h[i-1], msgs[i])

\* m_openDocs is what was open in the editor before the messages in flight.
OpenInv ==
  /\ \E h : History(h, inbox, editor) /\ \A u \in Uri : u \in drv.open <=> h[0][u] # None
  /\ Current("adopt") => new.open \cup adopt = drv.open

\* Files change only through the editor's messages and behind the watcher's back,
\* and the driver is not replaced.
NoReread == WatchKind = {} /\ "config" \notin Fault /\ "setBuildFile" \notin Cmd

\* A message that makes no handler read files or replace the driver.
Direct(msg) == msg.m \notin {"watchedFiles", "reload", "setBuildFile"}

\* The buffers are what the editor showed before the messages in flight.
MirrorInv ==
  /\ watch = {} /\ reloadDue = FALSE
  /\ \A i \in 1..Len(inbox) : Direct(inbox[i])
  /\ \E h : /\ History(h, inbox, editor)
            /\ \A u \in Uri : h[0][u] # None => drv.docs[u] = h[0][u]
            /\ plan # <<>> => \A u \in Uri : h[0][u] = None

-----------------------------------------------------------------------------
(* How old diagnostics are.                                                 *)

\* Two lists computed from one buffer, in a row.
LEMMA ConcatOf ==
  ASSUME NEW a \in Seq(Diag), NEW c \in Seq(Diag), NEW b, AllOf(a, b), AllOf(c, b)
  PROVE  AllOf(a \o c, b)
<1> SUFFICES ASSUME NEW i \in DOMAIN (a \o c) PROVE (a \o c)[i].of = b
  BY DEF AllOf
<1>1. /\ Len(a \o c) = Len(a) + Len(c) /\ i \in 1..(Len(a) + Len(c))
      /\ (a \o c)[i] = IF i <= Len(a) THEN a[i] ELSE c[i - Len(a)]
  BY ConcatProperties
<1>2. Len(a) \in Nat /\ Len(c) \in Nat /\ DOMAIN a = 1..Len(a) /\ DOMAIN c = 1..Len(c)
  BY LenProperties
<1>3. CASE i <= Len(a)
  BY <1>1, <1>2, <1>3 DEF AllOf
<1>4. CASE ~(i <= Len(a))
  <2>1. i - Len(a) \in DOMAIN c
    BY <1>1, <1>2, <1>4
  <2> QED BY <1>1, <1>4, <2>1 DEF AllOf
<1> QED BY <1>3, <1>4

LEMMA EmptyOf == \A b : AllOf(<<>>, b)
BY DEF AllOf

\* Diagnostics issued for buffers are of those buffers.
LEMMA IssuedOf ==
  ASSUME NEW by, NEW buffers, NEW v \in Uri
  PROVE  AllOf(Issued(by, buffers)[v], buffers[v])
<1>1. CASE buffers[v] \in Broken
  <2> DEFINE one == [by |-> by, of |-> buffers[v]]
  <2>1. Issued(by, buffers)[v] = <<one>> /\ one.of = buffers[v]
    BY <1>1 DEF Issued
  <2> HIDE DEF one
  <2>2. DOMAIN <<one>> = {1} /\ <<one>>[1] = one
    OBVIOUS
  <2> QED BY <2>1, <2>2 DEF AllOf
<1>2. CASE buffers[v] \notin Broken
  BY <1>2, EmptyOf DEF Issued
<1> QED BY <1>1, <1>2

\* There is no diagnostic of a buffer that does not exist.
LEMMA NoBufferNone ==
  ASSUME NEW list \in Seq(Diag), AllOf(list, None)
  PROVE  list = <<>>
<1> SUFFICES ASSUME list # <<>> PROVE FALSE
  OBVIOUS
<1>1. 1 \in DOMAIN list /\ list[1] \in Diag
  BY HeadTail, LenProperties
<1>2. list[1].of \in Buffer
  BY <1>1 DEF Diag
<1> QED BY <1>1, <1>2, ConstantsAssumption DEF AllOf, Buffer

\* Loading documents leaves nothing out of date.
LEMMA LoadFresh ==
  ASSUME NEW d, NEW view, Sound(d, view), NEW S, Fresh(d, view, S), NEW L,
         disk \in [Uri -> Text \cup {None}]
  PROVE  Fresh(Load(d, L), view, S)
<1> DEFINE r == Load(d, L)
<1>1. r.dc = d.dc /\ \A v \in Uri : d.docs[v] # None => r.docs[v] = d.docs[v]
  BY LoadKeeps DEF Sound
<1> HIDE DEF r
<1>2. ASSUME NEW v \in Uri \ S
      PROVE  AllOf(r.dc.diags[v], r.docs[v]) /\ AllOf(view[v], r.docs[v])
  <2>1. AllOf(d.dc.diags[v], d.docs[v]) /\ AllOf(view[v], d.docs[v])
    BY DEF Fresh
  <2>2. CASE d.docs[v] # None
    BY <1>1, <2>1, <2>2
  <2>3. CASE d.docs[v] = None
    <3>1. d.dc.diags[v] \in Seq(Diag) /\ view[v] \in Seq(Diag)
      BY DEF Sound, DriverType
    <3>2. d.dc.diags[v] = <<>> /\ view[v] = <<>>
      BY <2>1, <2>3, <3>1, NoBufferNone
    <3> QED BY <1>1, <3>2, EmptyOf
  <2> QED BY <2>2, <2>3
<1> QED BY <1>2 DEF Fresh, r

\* Giving a document a buffer puts only its own diagnostics out of date.
LEMMA SetTextFresh ==
  ASSUME NEW d, NEW view, Sound(d, view), NEW S, Fresh(d, view, S), NEW u \in Uri, NEW b
  PROVE  Fresh(SetText(d, u, b), view, S \cup {u})
<1>1. SetText(d, u, b) = [d EXCEPT !.docs = [d.docs EXCEPT ![u] = b]]
  BY DEF SetText, Sound, DriverType
<1>2. SetText(d, u, b).dc = d.dc /\ \A v \in Uri : v # u => SetText(d, u, b).docs[v] = d.docs[v]
  BY <1>1 DEF Sound, DriverType
<1> QED BY <1>2 DEF Fresh

\* After FullDiagnostics no collected diagnostic is out of date, and every file that
\* was displayed with some, or was dirty, is dirty.
LEMMA FullDiagnosticsFresh ==
  ASSUME NEW d \in DriverType, NEW view, Shows(d.dc, view),
         NEW v \in Uri, d.comp[v] \in {None, d.docs[v]}
  PROVE  /\ AllOf(FullDiagnostics(d).diags[v], d.docs[v])
         /\ v \in FullDiagnostics(d).dirty \/ view[v] = <<>>
         /\ v \in d.dc.dirty => v \in FullDiagnostics(d).dirty
<1> DEFINE c == clearAll(d.dc)
           p == Issued("parse", d.docs)
           g == Issued("design", d.comp)
           q == report(c, p)
<1>1. FullDiagnostics(d) = report(q, g)
  BY DEF FullDiagnostics
<1>2. /\ c.diags[v] = <<>> /\ (v \in d.dc.dirty => v \in c.dirty)
      /\ v \notin c.dirty => d.dc.diags[v] = <<>> /\ v \notin d.dc.dirty
  BY DEF clearAll
<1>3. d.docs \in [Uri -> MaybeBuf] /\ d.comp \in [Uri -> MaybeBuf]
  BY DEF DriverType
<1>4. p[v] \in Seq(Diag) /\ g[v] \in Seq(Diag)
  BY <1>3, IssuedType
<1>5. AllOf(p[v], d.docs[v]) /\ AllOf(g[v], d.comp[v])
  BY IssuedOf
<1>6. AllOf(g[v], d.docs[v])
  <2>1. CASE d.comp[v] = None
    BY <1>4, <1>5, <2>1, NoBufferNone, EmptyOf
  <2>2. CASE d.comp[v] = d.docs[v]
    BY <1>5, <2>2
  <2> QED BY <2>1, <2>2
<1> HIDE DEF c, p, g
<1>7. q.diags[v] = c.diags[v] \o p[v] /\ c.dirty \subseteq q.dirty
  BY DEF report
<1>8. q.diags[v] = p[v]
  BY <1>2, <1>4, <1>7, ConcatEmptySeq
<1> HIDE DEF q
<1>9. report(q, g).diags[v] = p[v] \o g[v] /\ q.dirty \subseteq report(q, g).dirty
  BY <1>8 DEF report
<1>10. AllOf(p[v] \o g[v], d.docs[v])
  BY <1>4, <1>5, <1>6, ConcatOf
<1>11. v \in c.dirty \/ view[v] = <<>>
  BY <1>2 DEF Shows
<1> QED BY <1>1, <1>2, <1>7, <1>9, <1>10, <1>11

\* A driver with another diagnostics client.
Client(d, dc) == [d EXCEPT !.dc = dc]

Shallow(u, b) == Issued("shallow", [NoDesign EXCEPT ![u] = b])

LEMMA ClientFacts ==
  ASSUME NEW d, NEW view, NEW dc \in ClientType(Diag), Sound(d, view), Shows(dc, view)
  PROVE  /\ Sound(Client(d, dc), view) /\ Client(d, dc).docs = d.docs /\ Client(d, dc).dc = dc
         /\ Client(d, dc).open = d.open /\ Client(d, dc).comp = d.comp
BY WithClient DEF Client

\* The driver updateDoc analyses: dependencies loaded, the document's list cleared.
Prepared(d, u) == Client(Load(d, getDependentDocs(d, u)), clearUri(d.dc, u))

LEMMA PreparedFacts ==
  ASSUME NEW d, NEW view, NEW u \in Uri, Sound(d, view), disk \in [Uri -> Text \cup {None}]
  PROVE  /\ Sound(Prepared(d, u), view) /\ Prepared(d, u).docs = Load(d, getDependentDocs(d, u)).docs
         /\ Prepared(d, u).comp = d.comp /\ Prepared(d, u).dc = clearUri(d.dc, u)
         /\ Prepared(d, u).open = d.open
<1> DEFINE loaded == Load(d, getDependentDocs(d, u))
<1>1. /\ Sound(loaded, view) /\ loaded.open = d.open /\ loaded.comp = d.comp /\ loaded.dc = d.dc
  BY LoadSound, LoadKeeps DEF Sound
<1>2. Prepared(d, u) = Client(loaded, clearUri(loaded.dc, u))
  BY <1>1 DEF Prepared
<1>3. clearUri(loaded.dc, u) \in ClientType(Diag) /\ Shows(clearUri(loaded.dc, u), view)
  BY <1>1, ClearUriShows DEF Sound, DriverType, ClientType
<1> HIDE DEF loaded
<1>4. LET c == Client(loaded, clearUri(loaded.dc, u))
      IN  /\ Sound(c, view) /\ c.docs = loaded.docs /\ c.open = loaded.open /\ c.comp = loaded.comp
          /\ c.dc = clearUri(loaded.dc, u)
  BY <1>1, <1>3, ClientFacts
<1> QED BY <1>1, <1>2, <1>4 DEF loaded

LEMMA UpdateDocCases ==
  ASSUME NEW d \in DriverType, NEW u, NEW type, disk \in [Uri -> Text \cup {None}]
  PROVE  updateDoc(d, u, type) =
           LET c == Prepared(d, u)
           IN  IF HasDesign(d) /\ type = "save" THEN Client(refresh(c), FullDiagnostics(refresh(c)))
               ELSE Client(c, report(c.dc, Shallow(u, Load(d, getDependentDocs(d, u)).docs[u])))
<1> DEFINE loaded == Load(d, getDependentDocs(d, u))
<1>1. loaded.dc = d.dc
  BY LoadKeeps
<1>2. Prepared(d, u) = Client(loaded, clearUri(loaded.dc, u))
  BY <1>1 DEF Prepared
<1> QED BY <1>2 DEF updateDoc, Client, Shallow

\* A save with a design: the design is elaborated from the buffers, and every
\* diagnostic is issued again from them.
LEMMA UpdateDocSave ==
  ASSUME NEW d, NEW view, NEW u \in Uri, Sound(d, view), HasDesign(d),
         disk \in [Uri -> Text \cup {None}], NEW r, r = updateDoc(d, u, "save")
  PROVE  /\ u \in r.dc.dirty
         /\ \A v \in Uri : /\ r.comp[v] = IF d.comp[v] = None THEN None ELSE r.docs[v]
                           /\ AllOf(r.dc.diags[v], r.docs[v])
                           /\ v \in r.dc.dirty \/ view[v] = <<>>
<1> DEFINE c == Prepared(d, u)
<1>1. /\ Sound(c, view) /\ c.comp = d.comp /\ c.dc = clearUri(d.dc, u)
      /\ r = Client(refresh(c), FullDiagnostics(refresh(c)))
  <2>1. d \in DriverType
    BY DEF Sound
  <2> QED BY <2>1, PreparedFacts, UpdateDocCases
<1> HIDE DEF c
<1> DEFINE s == refresh(c)
           comp == [v \in Uri |-> IF c.comp[v] = None THEN None ELSE c.docs[v]]
<1>2. s = [c EXCEPT !.comp = comp]
  BY DEF refresh
<1>3. Sound(s, view) /\ s.docs = c.docs
  BY <1>1, RefreshSound
<1>4. s.comp = comp /\ s.dc = c.dc
  BY <1>1, <1>2 DEF Sound, DriverType
<1>5. \A v \in Uri : s.comp[v] = IF d.comp[v] = None THEN None ELSE s.docs[v]
  BY <1>1, <1>3, <1>4
<1> HIDE DEF s, comp
<1>6. \A v \in Uri : /\ AllOf(FullDiagnostics(s).diags[v], s.docs[v])
                     /\ v \in FullDiagnostics(s).dirty \/ view[v] = <<>>
                     /\ v \in s.dc.dirty => v \in FullDiagnostics(s).dirty
  BY <1>3, <1>5, FullDiagnosticsFresh DEF Sound
<1>7. u \in s.dc.dirty
  BY <1>1, <1>4 DEF clearUri
<1>8. FullDiagnostics(s) \in ClientType(Diag) /\ Shows(FullDiagnostics(s), view)
  BY <1>3, FullDiagnosticsShows DEF Sound
<1>9. r.dc = FullDiagnostics(s) /\ r.docs = s.docs /\ r.comp = s.comp
  BY <1>1, <1>3, <1>8, ClientFacts DEF s
<1> QED BY <1>5, <1>6, <1>7, <1>9

\* updateDoc brings its document up to date and leaves the others as they were; it
\* makes no design.
LEMMA UpdateDocFresh ==
  ASSUME NEW d, NEW view, NEW u \in Uri, NEW type, Sound(d, view),
         disk \in [Uri -> Text \cup {None}], NEW S, Fresh(d, view, S),
         NEW r, r = updateDoc(d, u, type)
  PROVE  /\ u \in r.dc.dirty
         /\ \A v \in Uri \ (S \ {u}) : AllOf(r.dc.diags[v], r.docs[v])
         /\ \A v \in Uri \ (S \cup {u}) : v \in r.dc.dirty \/ AllOf(view[v], r.docs[v])
         /\ \A v \in Uri : d.comp[v] = None => r.comp[v] = None
<1>1. CASE HasDesign(d) /\ type = "save"
  BY <1>1, UpdateDocSave, EmptyOf
<1>2. CASE ~(HasDesign(d) /\ type = "save")
  <2> DEFINE l == Load(d, getDependentDocs(d, u))
  <2> DEFINE c == Prepared(d, u)
  <2>1. /\ Sound(c, view) /\ c.docs = l.docs /\ c.comp = d.comp /\ c.dc = clearUri(d.dc, u)
        /\ r = Client(c, report(c.dc, Shallow(u, c.docs[u])))
    <3>1. d \in DriverType
      BY DEF Sound
    <3>2. /\ Sound(c, view) /\ c.docs = l.docs /\ c.comp = d.comp /\ c.dc = clearUri(d.dc, u)
      BY PreparedFacts
    <3>3. r = Client(c, report(c.dc, Shallow(u, l.docs[u])))
      BY <1>2, <3>1, UpdateDocCases
    <3> QED BY <3>2, <3>3
  <2> HIDE DEF c
  <2>2. Fresh(l, view, S) /\ l.dc = d.dc
    BY LoadFresh, LoadKeeps DEF Sound
  <2> HIDE DEF l
  <2> DEFINE own == [NoDesign EXCEPT ![u] = c.docs[u]]
             i == Issued("shallow", own)
             dc == report(c.dc, i)
  <2>3. /\ own \in [Uri -> MaybeBuf] /\ own[u] = c.docs[u] /\ \A v \in Uri : v # u => own[v] = None
        /\ r = Client(c, dc)
    BY <2>1 DEF NoDesign, MaybeBuf, Sound, DriverType, Shallow
  <2> HIDE DEF own
  <2>4. i \in [Uri -> Seq(Diag)] /\ \A v \in Uri : AllOf(i[v], own[v])
    BY <2>3, IssuedType, IssuedOf
  <2>5. AllOf(i[u], c.docs[u]) /\ \A v \in Uri : v # u => i[v] = <<>>
    BY <2>3, <2>4, NoBufferNone
  <2> HIDE DEF i
  <2>6. c.dc \in ClientType(Diag) /\ Shows(c.dc, view)
    BY <2>1 DEF Sound, DriverType, ClientType
  <2>7. dc \in ClientType(Diag) /\ Shows(dc, view)
    BY <2>4, <2>6, ReportShows
  <2>8. \A v \in Uri : dc.diags[v] = c.dc.diags[v] \o i[v]
    BY DEF report
  <2>9. u \in dc.dirty
    BY <2>1 DEF report, clearUri
  <2> HIDE DEF dc
  <2>10. r.dc = dc /\ r.docs = c.docs /\ r.comp = c.comp
    BY <2>1, <2>3, <2>7, ClientFacts
  <2>11. d.dc.diags \in [Uri -> Seq(Diag)]
    BY DEF Sound, DriverType
  <2>12. c.dc.diags[u] = <<>> /\ \A v \in Uri : v # u => c.dc.diags[v] = d.dc.diags[v]
    BY <2>1, <2>11 DEF clearUri
  <2>13. dc.diags[u] = i[u] /\ \A v \in Uri : v # u => dc.diags[v] = d.dc.diags[v]
    <3>1. dc.diags[u] = i[u]
      <4>1. i[u] \in Seq(Diag)
        BY <2>4
      <4>2. <<>> \o i[u] = i[u]
        BY <4>1, ConcatEmptySeq
      <4>3. dc.diags[u] = c.dc.diags[u] \o i[u]
        BY <2>8
      <4> QED BY <2>12, <4>2, <4>3
    <3>2. ASSUME NEW v \in Uri, v # u PROVE dc.diags[v] = d.dc.diags[v]
      <4>1. d.dc.diags[v] \in Seq(Diag)
        BY <2>11
      <4>2. d.dc.diags[v] \o <<>> = d.dc.diags[v]
        BY <4>1, ConcatEmptySeq
      <4>3. dc.diags[v] = c.dc.diags[v] \o i[v] /\ i[v] = <<>> /\ c.dc.diags[v] = d.dc.diags[v]
        BY <2>5, <2>8, <2>12, <3>2
      <4> QED BY <4>2, <4>3
    <3> QED BY <3>1, <3>2
  <2>14. \A v \in Uri \ S : AllOf(d.dc.diags[v], c.docs[v]) /\ AllOf(view[v], c.docs[v])
    BY <2>1, <2>2 DEF Fresh
  <2> QED BY <2>1, <2>5, <2>9, <2>10, <2>13, <2>14
<1> QED BY <1>1, <1>2

\* A push displays what was collected: nothing dirty stays out of date.
LEMMA PushFresh ==
  ASSUME NEW r, NEW view, NEW u, Sound(r, view), NEW T,
         \A v \in Uri \ T : AllOf(r.dc.diags[v], r.docs[v]),
         \A v \in Uri \ T : v \in r.dc.dirty \/ AllOf(view[v], r.docs[v])
  PROVE  /\ Fresh(Pushed(r), pushPriorityView(r.dc, view, u), T)
         /\ Fresh(Pushed(r), pushDiagsView(r.dc, view), T)
         /\ Pushed(r).comp = r.comp
<1>1. /\ Pushed(r).dc.diags = r.dc.diags /\ Pushed(r).docs = r.docs /\ Pushed(r).comp = r.comp
  BY DEF Pushed, pushDiags, Sound, DriverType
<1>2. \A v \in Uri : /\ pushPriorityView(r.dc, view, u)[v] \in {r.dc.diags[v], view[v]}
                     /\ pushDiagsView(r.dc, view)[v] \in {r.dc.diags[v], view[v]}
                     /\ v \in r.dc.dirty => /\ pushPriorityView(r.dc, view, u)[v] = r.dc.diags[v]
                                            /\ pushDiagsView(r.dc, view)[v] = r.dc.diags[v]
  BY DEF pushPriorityView, pushDiagsView
<1>3. ASSUME NEW v \in Uri \ T
      PROVE  /\ AllOf(Pushed(r).dc.diags[v], Pushed(r).docs[v])
             /\ AllOf(pushPriorityView(r.dc, view, u)[v], Pushed(r).docs[v])
             /\ AllOf(pushDiagsView(r.dc, view)[v], Pushed(r).docs[v])
  BY <1>1, <1>2
<1> QED BY <1>1, <1>3 DEF Fresh

\* createCompilation leaves nothing out of date either.
LEMMA CreateCompilationFresh ==
  ASSUME NEW d, NEW view, Sound(d, view), Fresh(d, view, {}), NEW r, r = createCompilation(d)
  PROVE  /\ r.open = d.open
         /\ \A v \in Uri : AllOf(r.dc.diags[v], r.docs[v])
         /\ \A v \in Uri : v \in r.dc.dirty \/ AllOf(view[v], r.docs[v])
<1> DEFINE q == [d EXCEPT !.comp = d.docs]
<1>1. Sound(q, view) /\ q.docs = d.docs /\ q.comp = d.docs /\ q.open = d.open
  BY DEF Sound, DriverType
<1>2. r = IF HasDesign(q) THEN Client(q, FullDiagnostics(q)) ELSE d
  BY DEF createCompilation, Client
<1> HIDE DEF q
<1>3. CASE HasDesign(q)
  <2>1. FullDiagnostics(q) \in ClientType(Diag) /\ Shows(FullDiagnostics(q), view)
    BY <1>1, FullDiagnosticsShows DEF Sound
  <2>2. /\ Client(q, FullDiagnostics(q)).docs = q.docs /\ Client(q, FullDiagnostics(q)).open = q.open
        /\ Client(q, FullDiagnostics(q)).dc = FullDiagnostics(q)
    BY <1>1, <2>1, ClientFacts
  <2>3. \A v \in Uri : /\ AllOf(FullDiagnostics(q).diags[v], q.docs[v])
                       /\ v \in FullDiagnostics(q).dirty \/ view[v] = <<>>
    BY <1>1, FullDiagnosticsFresh DEF Sound
  <2> QED BY <1>1, <1>2, <1>3, <2>2, <2>3, EmptyOf
<1>4. CASE ~HasDesign(q)
  BY <1>2, <1>4 DEF Fresh
<1> QED BY <1>3, <1>4

\* Closing documents takes diagnostics away and changes no buffer.
LEMMA CloseFresh ==
  ASSUME NEW d, NEW view, Sound(d, view), NEW T, Fresh(d, view, T), NEW S \in SUBSET Uri,
         NEW r, r = closeDocuments(d, S)
  PROVE  Fresh(r, view, T) /\ r.open = d.open \ S /\ r.docs = d.docs /\ r.comp = d.comp
<1> DEFINE dc == IF HasDesign(d) THEN d.dc
                 ELSE [diags |-> [u \in Uri |-> IF u \in S THEN <<>> ELSE d.dc.diags[u]],
                       dirty |-> d.dc.dirty \cup S]
<1>1. r = [d EXCEPT !.open = d.open \ S, !.dc = dc]
  BY DEF closeDocuments
<1>2. \A v \in Uri : dc.diags[v] = d.dc.diags[v] \/ dc.diags[v] = <<>>
  OBVIOUS
<1> HIDE DEF dc
<1>3. r.open = d.open \ S /\ r.docs = d.docs /\ r.comp = d.comp /\ r.dc = dc
  BY <1>1 DEF Sound, DriverType
<1>4. Fresh(r, view, T)
  BY <1>2, <1>3, EmptyOf DEF Fresh
<1> QED BY <1>3, <1>4

-----------------------------------------------------------------------------
(* Handlers that end with updateDoc.                                        *)

\* Whether or not the search throws, no buffer is lost.
LEMMA RunUpdateKeeps ==
  ASSUME NEW d, NEW u \in Uri, NEW type, NEW opened, Sound(d, published),
         disk \in [Uri -> Text \cup {None}], RunUpdate(d, u, type, opened)
  PROVE  \A v \in Uri : d.docs[v] # None => drv'.docs[v] = d.docs[v]
<1>1. CASE ~Throws(d, u)
  <2> DEFINE r == updateDoc(d, u, type)
  <2>1. Sound(r, published) /\ \A v \in Uri : d.docs[v] # None => r.docs[v] = d.docs[v]
    BY UpdateDocSound
  <2>2. drv' = [Pushed(r) EXCEPT !.open = Pushed(r).open \cup opened]
    BY <1>1 DEF RunUpdate, Leaves
  <2> HIDE DEF r
  <2>3. Pushed(r) \in DriverType /\ Pushed(r).docs = r.docs
    BY <2>1, PushedSound DEF Sound
  <2>4. drv'.docs = r.docs
    BY <2>2, <2>3 DEF DriverType
  <2> QED BY <2>1, <2>4
<1>2. CASE Throws(d, u)
  <2>1. PICK S : drv' = Load(d, S)
    BY <1>2 DEF RunUpdate, Leaves, Interrupted
  <2> QED BY <2>1, LoadKeeps DEF Sound
<1> QED BY <1>1, <1>2

\* When every file can be read no search throws.
LEMMA NoThrow ==
  ASSUME FilesPresent, NEW d, NEW u
  PROVE  ~Throws(d, u)
<1>1. \A v \in Uri : Read(d, v) # None
  BY DEF FilesPresent, Read
<1>2. getDependentDocs(d, u) \subseteq Uri
  BY DEF getDependentDocs, Reach
<1> QED BY <1>1, <1>2 DEF Throws, Missing

LEMMA RunUpdateFacts ==
  ASSUME NEW d, NEW u \in Uri, NEW type, NEW opened \in SUBSET {u}, Sound(d, published),
         disk \in [Uri -> Text \cup {None}], RunUpdate(d, u, type, opened), ~Throws(d, u),
         NEW S, Fresh(d, published, S)
  PROVE  /\ Fresh(drv', published', S \ {u}) /\ drv'.open = d.open \cup opened
         /\ \A v \in Uri : d.comp[v] = None => drv'.comp[v] = None
<1> DEFINE r == updateDoc(d, u, type)
<1>1. Sound(r, published) /\ r.open = d.open
  BY UpdateDocSound
<1>2. /\ drv' = [Pushed(r) EXCEPT !.open = Pushed(r).open \cup opened]
      /\ published' = pushPriorityView(r.dc, published, u)
  BY DEF RunUpdate, Leaves
<1>3. /\ u \in r.dc.dirty
      /\ \A v \in Uri \ (S \ {u}) : AllOf(r.dc.diags[v], r.docs[v])
      /\ \A v \in Uri \ (S \cup {u}) : v \in r.dc.dirty \/ AllOf(published[v], r.docs[v])
      /\ \A v \in Uri : d.comp[v] = None => r.comp[v] = None
  BY UpdateDocFresh
<1> HIDE DEF r
<1>4. \A v \in Uri \ (S \ {u}) : v \in r.dc.dirty \/ AllOf(published[v], r.docs[v])
  BY <1>3
<1>5. /\ Fresh(Pushed(r), pushPriorityView(r.dc, published, u), S \ {u}) /\ Pushed(r).comp = r.comp
  BY <1>1, <1>3, <1>4, PushFresh
<1>6. Pushed(r) \in DriverType /\ Pushed(r).open = r.open
  BY <1>1, PushedSound DEF Sound
<1>7. /\ drv'.docs = Pushed(r).docs /\ drv'.dc = Pushed(r).dc /\ drv'.comp = Pushed(r).comp
      /\ drv'.open = Pushed(r).open \cup opened
  BY <1>2, <1>6 DEF DriverType
<1>8. Fresh(drv', published', S \ {u})
  BY <1>2, <1>5, <1>7 DEF Fresh
<1> QED BY <1>1, <1>3, <1>5, <1>6, <1>7, <1>8

\* Nothing of a design appears where there was none.
LEMMA NoDesignKept ==
  ASSUME NEW d, NEW r, \A v \in Uri : d.comp[v] = None => r.comp[v] = None, HasDesign(r)
  PROVE  HasDesign(d)
BY DEF HasDesign

-----------------------------------------------------------------------------
(* A save.                                                                  *)

\* What SaveRepairs says of one handled didSave, t being the saved text.
Repaired(u, t) ==
  /\ drv'.docs[u] = t
  /\ ~Throws(SetText(drv, u, t), u) =>
       /\ u \in indexed'
       /\ AllOf(published'[u], drv'.docs[u])
       /\ HasDesign(drv) => \A v \in Uri :
            /\ drv.comp[v] # None => drv'.comp[v] = drv'.docs[v]
            /\ AllOf(published'[v], drv'.docs[v])

\* The didSave handler, for a document that is open.
LEMMA SaveStep ==
  ASSUME DriverInv, HandleDidSave, NEW u, u = Head(inbox).uri, NEW t, t = Head(inbox).text,
         u \in drv.open
  PROVE  Repaired(u, t)
<1> DEFINE d == SetText(drv, u, t)
           r == updateDoc(d, u, "save")
<1>1. /\ Sound(drv, published) /\ disk \in [Uri -> Text \cup {None}] /\ u \in Uri /\ t \in Buffer
  BY ReceiveFacts, MessageFields DEF HandleDidSave
<1>2. t # None
  BY <1>1, ConstantsAssumption DEF Buffer
<1>3. Sound(d, published) /\ d.docs[u] = t
  BY <1>1, SetTextSound
<1>4. d.comp = drv.comp
  BY <1>1 DEF SetText, Sound, DriverType
<1>5. /\ RunUpdate(d, u, "save", {})
      /\ ~Throws(d, u) => indexed' = indexed \cup {u}
  BY DEF HandleDidSave
<1>d. Throws(d, u) <=> Throws(SetText(drv, u, t), u)
  OBVIOUS
<1> HIDE DEF d
<1>6. drv'.docs[u] = t
  <2>1. RunUpdate(d, u, "save", {}) /\ d.docs[u] # None
    BY <1>2, <1>3, <1>5
  <2>2. drv'.docs[u] = d.docs[u]
    BY <1>1, <1>3, <2>1, RunUpdateKeeps
  <2> QED BY <1>3, <2>2
<1>7. ASSUME ~Throws(d, u)
      PROVE  /\ drv' = [Pushed(r) EXCEPT !.open = Pushed(r).open \cup {}]
             /\ published' = pushPriorityView(r.dc, published, u)
  BY <1>5, <1>7 DEF RunUpdate, Leaves
\* In both modes the document itself is brought up to date.
<1>8. ASSUME ~Throws(d, u)
      PROVE  AllOf(published'[u], drv'.docs[u])
  <2>1. Fresh(d, published, Uri)
    BY DEF Fresh
  <2>2. Fresh(drv', published', Uri \ {u})
    BY <1>1, <1>3, <1>5, <1>8, <2>1, RunUpdateFacts
  <2> QED BY <1>1, <2>2 DEF Fresh
<1>9. ASSUME ~Throws(d, u), HasDesign(drv), NEW v \in Uri
      PROVE  /\ drv.comp[v] # None => drv'.comp[v] = drv'.docs[v]
             /\ AllOf(published'[v], drv'.docs[v])
  <2>1. HasDesign(d)
    BY <1>4, <1>9 DEF HasDesign
  <2>2. /\ u \in r.dc.dirty
        /\ \A w \in Uri : /\ r.comp[w] = IF d.comp[w] = None THEN None ELSE r.docs[w]
                          /\ AllOf(r.dc.diags[w], r.docs[w])
                          /\ w \in r.dc.dirty \/ published[w] = <<>>
    BY <1>1, <1>3, <2>1, UpdateDocSave
  <2>3. Sound(r, published)
    BY <1>1, <1>3, UpdateDocSound
  <2>7. /\ drv' = [Pushed(r) EXCEPT !.open = Pushed(r).open \cup {}]
        /\ published' = pushPriorityView(r.dc, published, u)
    BY <1>7, <1>9
  <2> HIDE DEF r
  <2>4. /\ Fresh(Pushed(r), pushPriorityView(r.dc, published, u), {}) /\ Pushed(r).comp = r.comp
    BY <2>2, <2>3, EmptyOf, PushFresh
  <2>5. Pushed(r) \in DriverType /\ Pushed(r).docs = r.docs
    BY <2>3, PushedSound DEF Sound
  <2>6. drv'.docs = Pushed(r).docs /\ drv'.comp = Pushed(r).comp
    BY <2>7, <2>5 DEF DriverType
  <2> QED BY <1>4, <2>7, <1>9, <2>2, <2>4, <2>5, <2>6 DEF Fresh
<1> QED BY <1>d, <1>5, <1>6, <1>8, <1>9 DEF Repaired

\* Editor, tools and watcher only add to the inbox.
LEMMA OutsideInbox ==
  ASSUME Input \/ Deliver
  PROVE  NoServerStep /\ (inbox' = inbox \/ \E msg : inbox' = Append(inbox, msg))
BY DEF Input, Deliver, EditorOpen, EditorType, EditorSave, EditorClose, EditorCommand, ToolWrite,
   ToolDelete, ToolConfig, WatcherDeliver, ConfigDeliver, Send

\* Only the didSave handler takes a didSave message.
LEMMA SaveIsHandled ==
  ASSUME DriverInv, [Next]_vars, Idle, inbox # <<>>, inbox' = Tail(inbox),
         Head(inbox).m = "didSave"
  PROVE  HandleDidSave
<1>1. inbox \in Seq(Message)
  BY DEF DriverInv, TypeOK
<1>2. Len(Tail(inbox)) = Len(inbox) - 1 /\ Len(inbox) \in Nat
  BY <1>1, HeadTail
<1>3. inbox' # inbox /\ \A msg : inbox' # Append(inbox, msg)
  <2>1. ASSUME NEW msg, inbox' = Append(inbox, msg) PROVE FALSE
    <3>1. Len(Append(inbox, msg)) = Len(inbox) + 1
      BY <1>1
    <3> QED BY <1>2, <2>1, <3>1
  <2>2. ASSUME inbox' = inbox PROVE FALSE
    <3>1. Tail(inbox) = inbox
      BY <2>2
    <3>2. Len(inbox) = Len(inbox) - 1
      BY <1>2, <3>1
    <3> QED BY <1>2, <3>2
  <2> QED BY <2>1, <2>2, Zenon
<1>4. ~(Input \/ Deliver)
  BY <1>3, OutsideInbox
<1>5. ~Continue
  BY DEF Idle, Continue, UpdateReloaded, AdoptDoc, AbandonCreate, UpdatesDone, WatchIndex,
     StartIndexing, BeginCreate, FinishCreate, Current
<1>6. ~UNCHANGED vars
  BY <1>3 DEF vars
<1>7. Handle
  BY <1>4, <1>5, <1>6 DEF Next
<1> QED BY <1>7 DEF Handle, HandleDidOpen, HandleDidChange, HandleDidClose, HandleWatchedFiles,
           HandleSetTopLevel, HandleSetBuildFile, HandleReload, Receive

\* Whatever happened before - a misapplied edit, a handler cut short, a file swapped
\* on disk - after the save of an open document its buffer is the saved text, and if its
\* dependencies could be read, nothing displayed for it is older; in a build, the design
\* is elaborated from the current buffers and the whole display is of them.
THEOREM SavesRepair == Spec => SaveRepairs
<1> DEFINE Repairs ==
             \A u \in Uri :
               (/\ Idle /\ inbox # <<>> /\ inbox' = Tail(inbox)
                /\ Head(inbox).m = "didSave" /\ Head(inbox).uri = u /\ u \in drv.open)
               => /\ drv'.docs[u] = Head(inbox).text
                  /\ ~Throws(SetText(drv, u, Head(inbox).text), u) =>
                       /\ u \in indexed'
                       /\ \A i \in DOMAIN published'[u] : published'[u][i].of = drv'.docs[u]
                       /\ HasDesign(drv) => \A v \in Uri :
                            /\ drv.comp[v] # None => drv'.comp[v] = drv'.docs[v]
                            /\ \A i \in DOMAIN published'[v] : published'[v][i].of = drv'.docs[v]
<1>1. DriverInv /\ [Next]_vars => [Repairs]_vars
  <2> SUFFICES ASSUME DriverInv, [Next]_vars, NEW u \in Uri,
                      Idle, inbox # <<>>, inbox' = Tail(inbox),
                      Head(inbox).m = "didSave", Head(inbox).uri = u, u \in drv.open
               PROVE  Repaired(u, Head(inbox).text)
    BY DEF AllOf, Repaired
  <2>1. HandleDidSave
    BY SaveIsHandled
  <2> QED BY <2>1, SaveStep
<1> QED BY <1>1, DriverInvariant, PTL DEF Spec, SaveRepairs

-----------------------------------------------------------------------------
(* Without deletions every file stays readable.                             *)

\* The elements of a list with one more.
LEMMA Appended ==
  ASSUME NEW S, NEW s \in Seq(S), NEW e \in S
  PROVE  /\ Append(s, e) \in Seq(S) /\ Len(s) \in Nat /\ Len(Append(s, e)) = Len(s) + 1
         /\ \A i \in 1..Len(s) : Append(s, e)[i] = s[i]
         /\ Append(s, e)[Len(s) + 1] = e
BY AppendProperties, LenProperties

\* A handler takes the first message, its later steps none; neither does anything to
\* the world outside the server.
LEMMA ServerInbox ==
  /\ Handle => Idle /\ inbox # <<>> /\ inbox' = Tail(inbox) /\ UNCHANGED outside
  /\ Continue => UNCHANGED inbox /\ UNCHANGED outside
<1> USE DEF Receive
<1>1. ASSUME NEW d, NEW u, NEW type, NEW opened, RunUpdate(d, u, type, opened)
      PROVE  UNCHANGED outside
  BY <1>1 DEF RunUpdate, Leaves
<1>2. HandleDidOpen => Idle /\ inbox # <<>> /\ inbox' = Tail(inbox) /\ UNCHANGED outside
  BY <1>1 DEF HandleDidOpen, Leaves
<1>3. HandleDidChange => Idle /\ inbox # <<>> /\ inbox' = Tail(inbox) /\ UNCHANGED outside
  BY <1>1 DEF HandleDidChange, Leaves
<1>4. HandleDidSave => Idle /\ inbox # <<>> /\ inbox' = Tail(inbox) /\ UNCHANGED outside
  BY <1>1 DEF HandleDidSave, Leaves
<1>5. HandleDidClose \/ HandleWatchedFiles \/ HandleSetTopLevel \/ HandleSetBuildFile \/ HandleReload
        => Idle /\ inbox # <<>> /\ inbox' = Tail(inbox) /\ UNCHANGED outside
  BY DEF HandleDidClose, HandleWatchedFiles, HandleSetTopLevel, HandleSetBuildFile, HandleReload,
     Leaves
<1>6. \A u \in Uri : UpdateReloaded(u) => UNCHANGED inbox /\ UNCHANGED outside
  BY <1>1 DEF UpdateReloaded
<1>7. \A u \in Uri : AdoptDoc(u) \/ AbandonCreate(u) => UNCHANGED inbox /\ UNCHANGED outside
  BY DEF AdoptDoc, AbandonCreate
<1>8. UpdatesDone \/ WatchIndex \/ StartIndexing \/ BeginCreate \/ FinishCreate
        => UNCHANGED inbox /\ UNCHANGED outside
  BY DEF UpdatesDone, WatchIndex, StartIndexing, BeginCreate, FinishCreate
<1> QED BY <1>2, <1>3, <1>4, <1>5, <1>6, <1>7, <1>8 DEF Handle, Continue

LEMMA FilesPresentOutside ==
  ASSUME FilesStay, DriverInv, FilesPresent, Input \/ Deliver
  PROVE  FilesPresent'
<1>t. /\ editor \in [Uri -> Text \cup {None}] /\ disk \in [Uri -> Text \cup {None}]
      /\ inbox \in Seq(Message) /\ None \notin Text
  BY ConstantsAssumption DEF DriverInv, TypeOK
<1>p. /\ \A u \in Uri : disk[u] # None
      /\ \A e \in watch : e.type # "Deleted"
      /\ \A i \in 1..Len(inbox) : Harmless(inbox[i])
  BY DEF FilesPresent
<1>s. ASSUME NEW msg \in Message, Harmless(msg), Send(msg)
      PROVE  \A i \in 1..Len(inbox') : Harmless(inbox'[i])
  <2>1. inbox' = Append(inbox, msg)
    BY <1>s DEF Send
  <2>2. /\ Len(inbox) \in Nat /\ Len(inbox') = Len(inbox) + 1 /\ inbox'[Len(inbox) + 1] = msg
        /\ \A i \in 1..Len(inbox) : inbox'[i] = inbox[i]
    BY <1>t, <2>1, Appended
  <2> QED BY <1>p, <1>s, <2>2
<1>w. ASSUME NEW u \in Uri, NEW kind \in {"Created", "Changed"}, WatchedAs(u, kind)
      PROVE  \A e \in watch' : e.type # "Deleted"
  BY <1>p, <1>w DEF WatchedAs
<1> DEFINE Goal == /\ \A u \in Uri : disk'[u] # None
                   /\ \A e \in watch' : e.type # "Deleted"
                   /\ \A i \in 1..Len(inbox') : Harmless(inbox'[i])
<1>1. ASSUME NEW u \in Uri, EditorOpen(u) PROVE Goal
  <2>1. [m |-> "didOpen", uri |-> u, text |-> disk[u]] \in Message
    BY <1>1, <1>t DEF EditorOpen, Message
  <2> QED BY <1>1, <1>p, <1>s, <2>1 DEF EditorOpen, Harmless
<1>2. ASSUME NEW u \in Uri, EditorSave(u) PROVE Goal
  <2>1. editor[u] \in Text
    BY <1>2, <1>t DEF EditorSave
  <2>2. [m |-> "didSave", uri |-> u, text |-> editor[u]] \in Message
    BY <2>1 DEF Message
  <2> QED BY <1>2, <1>p, <1>s, <1>t, <1>w, <2>1, <2>2 DEF EditorSave, Harmless
<1>3. ASSUME NEW u \in Uri, EditorClose(u) PROVE Goal
  <2>1. [m |-> "didClose", uri |-> u] \in Message
    BY DEF Message
  <2> QED BY <1>3, <1>p, <1>s, <2>1 DEF EditorClose, Harmless
<1>4. ASSUME NEW u \in Uri, NEW t \in Text, EditorType(u, t) PROVE Goal
  <2>1. [m |-> "didChange", uri |-> u, from |-> editor[u], to |-> t] \in Message
    BY <1>4, <1>t DEF EditorType, Message
  <2> QED BY <1>4, <1>p, <1>s, <2>1 DEF EditorType, Harmless
<1>5. ASSUME EditorCommand PROVE Goal
  <2>1. PICK msg : /\ Send(msg)
                   /\ \/ \E f \in BuildFile \cup {None} : msg = [m |-> "setBuildFile", build |-> f]
                      \/ \E u \in Uri : msg = [m |-> "setTopLevel", uri |-> u]
    BY <1>5 DEF EditorCommand
  <2>2. msg \in Message /\ Harmless(msg)
    BY <2>1 DEF Message, Harmless
  <2> QED BY <1>5, <1>p, <1>s, <2>1, <2>2 DEF EditorCommand
<1>6. ASSUME NEW u \in Uri, NEW t \in Text, ToolWrite(u, t) PROVE Goal
  BY <1>6, <1>p, <1>t, <1>w DEF ToolWrite
<1>7. ASSUME NEW u \in Uri, ToolDelete(u) PROVE Goal
  BY <1>7 DEF ToolDelete, FilesStay
<1>8. ASSUME NEW f \in BuildFile \cup {None}, ToolConfig(f) PROVE Goal
  BY <1>8, <1>p DEF ToolConfig
<1>9. ASSUME NEW changes \in SUBSET watch, WatcherDeliver(changes) PROVE Goal
  <2> DEFINE msg == [m |-> "watchedFiles", changes |-> changes]
  <2>1. watch \subseteq Event
    BY DEF DriverInv, TypeOK
  <2>2. msg \in Message /\ msg.m = "watchedFiles" /\ msg.changes = changes
    BY <2>1 DEF Message
  <2> HIDE DEF msg
  <2>3. Harmless(msg)
    BY <1>p, <2>2 DEF Harmless
  <2> QED BY <1>9, <1>p, <1>s, <2>2, <2>3 DEF WatcherDeliver, msg
<1>10. ASSUME ConfigDeliver PROVE Goal
  <2>1. [m |-> "reload"] \in Message
    BY DEF Message
  <2> QED BY <1>10, <1>p, <1>s, <2>1 DEF ConfigDeliver, Harmless
<1>11. Goal
  BY <1>1, <1>2, <1>3, <1>4, <1>5, <1>6, <1>7, <1>8, <1>9, <1>10 DEF Input, Deliver
<1> QED BY <1>11 DEF FilesPresent

LEMMA FilesPresentNext ==
  ASSUME FilesStay, DriverInv, FilesPresent, [Next]_vars
  PROVE  FilesPresent'
<1>1. CASE Input \/ Deliver
  BY <1>1, FilesPresentOutside
<1>2. CASE Handle
  <2>1. inbox # <<>> /\ inbox' = Tail(inbox) /\ UNCHANGED <<disk, watch>> /\ inbox \in Seq(Message)
    BY <1>2, ServerInbox DEF outside, DriverInv, TypeOK
  <2>2. /\ Len(inbox) \in Nat \ {0} /\ Len(inbox') = Len(inbox) - 1
        /\ \A i \in 1..Len(inbox') : inbox'[i] = inbox[i + 1]
    BY <2>1, HeadTail
  <2>3. \A i \in 1..Len(inbox') : Harmless(inbox'[i])
    BY <2>2 DEF FilesPresent
  <2> QED BY <2>1, <2>3 DEF FilesPresent
<1>3. CASE Continue
  BY <1>3, ServerInbox DEF outside, FilesPresent
<1>4. CASE UNCHANGED vars
  BY <1>4 DEF vars, FilesPresent
<1> QED BY <1>1, <1>2, <1>3, <1>4 DEF Next

-----------------------------------------------------------------------------
(* What each handler leaves up to date, open and elaborated.                *)

LEMMA IdleFresh ==
  ASSUME FreshInv, Idle
  PROVE  Fresh(drv, published, {})
BY DEF FreshInv, Idle, Current, Awaiting

\* A handler that gives document u the buffer b and ends with updateDoc.
LEMMA TextUpdateFacts ==
  ASSUME NEW d, NEW u \in Uri, NEW b \in Buffer, NEW type, NEW opened \in SUBSET {u},
         Sound(d, published), Fresh(d, published, {}), disk \in [Uri -> Text \cup {None}],
         FilesPresent, RunUpdate(SetText(d, u, b), u, type, opened)
  PROVE  /\ Fresh(drv', published', {}) /\ drv'.open = d.open \cup opened
         /\ \A v \in Uri : d.comp[v] = None => drv'.comp[v] = None
<1> DEFINE s == SetText(d, u, b)
<1>1. Sound(s, published) /\ Fresh(s, published, {} \cup {u}) /\ ~Throws(s, u)
  BY SetTextSound, SetTextFresh, NoThrow
<1>2. s.open = d.open /\ s.comp = d.comp
  BY DEF SetText, Sound, DriverType
<1>3. RunUpdate(s, u, type, opened) /\ Fresh(s, published, {u})
  BY <1>1
<1> HIDE DEF s
<1>4. /\ Fresh(drv', published', {u} \ {u}) /\ drv'.open = s.open \cup opened
      /\ \A v \in Uri : s.comp[v] = None => drv'.comp[v] = None
  BY <1>1, <1>3, RunUpdateFacts
<1>5. {u} \ {u} = {}
  OBVIOUS
<1> QED BY <1>2, <1>4, <1>5

\* What the handlers below may assume of a state they start in.
Settled == DriverInv /\ FilesPresent /\ FreshInv

LEMMA SettledReceive ==
  ASSUME Settled, NEW kind, Receive(kind)
  PROVE  /\ DriverInv /\ Sound(drv, published) /\ Fresh(drv, published, {}) /\ FilesPresent
         /\ disk \in [Uri -> Text \cup {None}] /\ Head(inbox) \in Message /\ Head(inbox).m = kind
         /\ Text \subseteq Buffer /\ Garbled \in Buffer
BY ReceiveFacts, IdleFresh DEF Settled, Receive

LEMMA DidOpenEffect ==
  ASSUME Settled, HandleDidOpen
  PROVE  /\ Fresh(drv', published', {}) /\ drv'.open = drv.open \cup {Head(inbox).uri}
         /\ \A v \in Uri : drv.comp[v] = None => drv'.comp[v] = None
<1> DEFINE u == Head(inbox).uri
           t == Head(inbox).text
<1>1. Receive("didOpen")
  BY DEF HandleDidOpen
<1>2. /\ Sound(drv, published) /\ disk \in [Uri -> Text \cup {None}] /\ FilesPresent
      /\ u \in Uri /\ t \in Buffer /\ Fresh(drv, published, {})
  BY <1>1, SettledReceive, MessageFields
<1>3. IF HasDesign(drv) /\ drv.docs[u] = t
        THEN Leaves([drv EXCEPT !.open = drv.open \cup {u}], published)
        ELSE RunUpdate(SetText(drv, u, t), u, "open", {u})
  BY DEF HandleDidOpen
<1> HIDE DEF u, t
<1>4. CASE HasDesign(drv) /\ drv.docs[u] = t
  <2>1. drv' = [drv EXCEPT !.open = drv.open \cup {u}] /\ published' = published
    BY <1>3, <1>4 DEF Leaves
  <2>2. drv'.open = drv.open \cup {u} /\ drv'.docs = drv.docs /\ drv'.comp = drv.comp /\ drv'.dc = drv.dc
    BY <1>2, <2>1 DEF Sound, DriverType
  <2>3. Fresh(drv', published', {})
    BY <1>2, <2>1, <2>2 DEF Fresh
  <2> QED BY <2>2, <2>3 DEF u
<1>5. CASE ~(HasDesign(drv) /\ drv.docs[u] = t)
  <2>1. RunUpdate(SetText(drv, u, t), u, "open", {u})
    BY <1>3, <1>5
  <2>2. /\ Fresh(drv', published', {}) /\ drv'.open = drv.open \cup {u}
        /\ \A v \in Uri : drv.comp[v] = None => drv'.comp[v] = None
    BY <1>2, <2>1, TextUpdateFacts
  <2> QED BY <2>2 DEF u
<1> QED BY <1>4, <1>5

LEMMA DidChangeEffect ==
  ASSUME Settled, HandleDidChange
  PROVE  /\ Fresh(drv', published', {}) /\ drv'.open = drv.open
         /\ \A v \in Uri : drv.comp[v] = None => drv'.comp[v] = None
<1> DEFINE u == Head(inbox).uri
           d == Load(drv, {u})
<1>1. Receive("didChange")
  BY DEF HandleDidChange
<1>2. /\ Sound(drv, published) /\ disk \in [Uri -> Text \cup {None}] /\ FilesPresent
      /\ u \in Uri /\ Head(inbox).to \in Buffer /\ Garbled \in Buffer /\ Fresh(drv, published, {})
  BY <1>1, SettledReceive, MessageFields
<1>3. \/ Leaves(drv, published)
      \/ RunUpdate(SetText(d, u, Head(inbox).to), u, "change", {})
      \/ Leaves(d, published)
      \/ RunUpdate(SetText(d, u, Garbled), u, "change", {})
  BY DEF HandleDidChange
<1>4. Sound(d, published) /\ Fresh(d, published, {}) /\ d.open = drv.open /\ d.comp = drv.comp
  BY <1>2, LoadSound, LoadFresh, LoadKeeps DEF Sound
<1> HIDE DEF u, d
<1>5. ASSUME NEW b \in Buffer, RunUpdate(SetText(d, u, b), u, "change", {})
      PROVE  /\ Fresh(drv', published', {}) /\ drv'.open = d.open \cup {}
             /\ \A v \in Uri : d.comp[v] = None => drv'.comp[v] = None
  <2> DEFINE none == {}
  <2>1. none \in SUBSET {u} /\ RunUpdate(SetText(d, u, b), u, "change", none)
    BY <1>5
  <2> HIDE DEF none
  <2>2. /\ Fresh(drv', published', {}) /\ drv'.open = d.open \cup none
        /\ \A v \in Uri : d.comp[v] = None => drv'.comp[v] = None
    BY <1>2, <1>4, <2>1, TextUpdateFacts
  <2> QED BY <2>2 DEF none
<1>6. CASE Leaves(drv, published)
  BY <1>2, <1>6 DEF Leaves
<1>7. CASE Leaves(d, published)
  BY <1>4, <1>7 DEF Leaves
<1> QED BY <1>2, <1>3, <1>4, <1>5, <1>6, <1>7

LEMMA DidSaveEffect ==
  ASSUME Settled, HandleDidSave
  PROVE  /\ Fresh(drv', published', {}) /\ drv'.open = drv.open
         /\ \A v \in Uri : drv.comp[v] = None => drv'.comp[v] = None
<1> DEFINE u == Head(inbox).uri
           t == Head(inbox).text
<1>1. Receive("didSave")
  BY DEF HandleDidSave
<1>2. /\ Sound(drv, published) /\ disk \in [Uri -> Text \cup {None}] /\ FilesPresent
      /\ u \in Uri /\ t \in Buffer /\ Fresh(drv, published, {})
  BY <1>1, SettledReceive, MessageFields
<1>3. Leaves(drv, published) \/ RunUpdate(SetText(drv, u, t), u, "save", {})
  BY DEF HandleDidSave
<1> HIDE DEF u, t
<1>4. CASE Leaves(drv, published)
  BY <1>2, <1>4 DEF Leaves
<1>5. CASE RunUpdate(SetText(drv, u, t), u, "save", {})
  <2> DEFINE none == {}
  <2>1. none \in SUBSET {u} /\ RunUpdate(SetText(drv, u, t), u, "save", none)
    BY <1>5
  <2> HIDE DEF none
  <2>2. /\ Fresh(drv', published', {}) /\ drv'.open = drv.open \cup none
        /\ \A v \in Uri : drv.comp[v] = None => drv'.comp[v] = None
    BY <1>2, <2>1, TextUpdateFacts
  <2> QED BY <2>2 DEF none
<1> QED BY <1>3, <1>4, <1>5

LEMMA DidCloseEffect ==
  ASSUME Settled, HandleDidClose
  PROVE  /\ Fresh(drv', published', {}) /\ drv'.open = drv.open \ {Head(inbox).uri}
         /\ drv'.comp = drv.comp
<1> DEFINE u == Head(inbox).uri
<1>1. Receive("didClose") /\ drv' = closeDocuments(drv, {u}) /\ published' = published
  BY DEF HandleDidClose, Leaves
<1>2. Sound(drv, published) /\ u \in Uri /\ Fresh(drv, published, {})
  BY <1>1, SettledReceive, MessageFields
<1> HIDE DEF u
<1>3. Fresh(drv', published, {}) /\ drv'.open = drv.open \ {u} /\ drv'.comp = drv.comp
  BY <1>1, <1>2, CloseFresh
<1> QED BY <1>1, <1>3 DEF u

\* The files a batch of events makes the handler re-read.
Reread(changes) ==
  {u \in drv.open : disk[u] # None /\ [uri |-> u, type |-> "Changed"] \in changes}

LEMMA WatchedFilesEffect ==
  ASSUME Settled, HandleWatchedFiles
  PROVE  /\ Fresh(drv', published', Reread(Head(inbox).changes)) /\ drv'.open = drv.open
         /\ drv'.comp = drv.comp
         /\ plan' = <<[op |-> "updateDocs", uris |-> Reread(Head(inbox).changes)],
                      [op |-> "watchIndex", changes |-> Head(inbox).changes]>>
<1> DEFINE changes == Head(inbox).changes
           deleted == {e.uri : e \in {c \in changes : c.type = "Deleted"}}
           R == Reread(changes)
           docs == [u \in Uri |-> IF u \in R THEN disk[u] ELSE drv.docs[u]]
           reread == [drv EXCEPT !.docs = docs]
<1>1. /\ Receive("watchedFiles")
      /\ drv' = closeDocuments(reread, deleted) /\ published' = published
      /\ plan' = <<[op |-> "updateDocs", uris |-> R], [op |-> "watchIndex", changes |-> changes]>>
  BY DEF HandleWatchedFiles, Leaves, Reread
<1>2. /\ Sound(drv, published) /\ disk \in [Uri -> Text \cup {None}] /\ DriverInv
      /\ Fresh(drv, published, {}) /\ FilesPresent
  BY <1>1, SettledReceive
<1>3. deleted = {}
  <2>1. inbox \in Seq(Message) /\ inbox # <<>> /\ Head(inbox).m = "watchedFiles"
    BY <1>1, <1>2 DEF DriverInv, TypeOK, Receive
  <2>2. Head(inbox) = inbox[1] /\ 1 \in 1..Len(inbox)
    BY <2>1, HeadTail
  <2>3. \A e \in changes : e.type # "Deleted"
    BY <1>2, <2>1, <2>2 DEF FilesPresent, Harmless
  <2> QED BY <2>3
<1> HIDE DEF changes
<1>4. docs \in [Uri -> MaybeBuf] /\ \A v \in Uri \ R : docs[v] = drv.docs[v]
  BY <1>2 DEF Sound, DriverType, MaybeBuf, Buffer
<1>5. \A v \in Uri : drv.docs[v] # None => docs[v] # None
  BY <1>2 DEF Reread
<1> HIDE DEF docs, deleted, R
<1>6. /\ Sound(reread, published) /\ reread.dc = drv.dc /\ reread.docs = docs
      /\ reread.open = drv.open /\ reread.comp = drv.comp
  BY <1>2, <1>4, <1>5 DEF Sound, DriverType
<1> HIDE DEF reread
<1>7. Fresh(reread, published, R)
  BY <1>2, <1>4, <1>6 DEF Fresh
<1>8. Fresh(drv', published, R) /\ drv'.open = drv.open \ deleted /\ drv'.comp = drv.comp
  <2>1. deleted \in SUBSET Uri
    BY <1>3
  <2> QED BY <1>1, <1>6, <1>7, <2>1, CloseFresh
<1> QED BY <1>1, <1>3, <1>8 DEF R, changes

\* One more batch of reports from the same buffer.
LEMMA ReportOf ==
  ASSUME NEW dc \in ClientType(Diag), NEW issued \in [Uri -> Seq(Diag)], NEW v \in Uri, NEW b,
         AllOf(dc.diags[v], b), AllOf(issued[v], b)
  PROVE  AllOf(report(dc, issued).diags[v], b)
<1>1. dc.diags[v] \in Seq(Diag) /\ issued[v] \in Seq(Diag)
  BY DEF ClientType
<1>2. report(dc, issued).diags[v] = dc.diags[v] \o issued[v]
  BY DEF report
<1> QED BY <1>1, <1>2, ConcatOf

\* What is issued for a part of the documents is of the documents.
LEMMA IssuedPart ==
  ASSUME NEW by \in {"shallow", "parse", "design"}, NEW part \in [Uri -> MaybeBuf],
         NEW v \in Uri, NEW b, part[v] \in {None, b}
  PROVE  AllOf(Issued(by, part)[v], b)
<1> DEFINE list == Issued(by, part)[v]
<1>1. list \in Seq(Diag) /\ AllOf(list, part[v])
  BY IssuedType, IssuedOf
<1> HIDE DEF list
<1>2. CASE part[v] = None
  BY <1>1, <1>2, NoBufferNone, EmptyOf DEF list
<1>3. CASE part[v] = b
  BY <1>1, <1>3 DEF list
<1> QED BY <1>2, <1>3

LEMMA SetTopLevelEffect ==
  ASSUME Settled, HandleSetTopLevel
  PROVE  /\ Fresh(drv', published', {}) /\ drv'.open = drv.open
         /\ (m_topFile' = m_topFile /\ drv'.comp = drv.comp) \/ m_topFile' # None
<1> DEFINE u == Head(inbox).uri
           d == Load(drv, {u})
           design == {u} \cup {v \in Reach(d, u, Uri) : Read(d, v) # None}
           loaded == Load(d, design)
           trees == [v \in Uri |-> IF v \in design THEN loaded.docs[v] ELSE None]
           parsed == report(loaded.dc, Issued("parse", trees))
           dc == report(parsed, Issued("design", trees))
           r == [loaded EXCEPT !.comp = trees, !.dc = dc]
<1>1. /\ Receive("setTopLevel")
      /\ \/ Leaves(drv, published) /\ m_topFile' = m_topFile
         \/ Leaves(d, published) /\ m_topFile' = u
         \/ Leaves(Pushed(r), pushDiagsView(r.dc, published)) /\ m_topFile' = u
  BY DEF HandleSetTopLevel
<1>2. /\ Sound(drv, published) /\ disk \in [Uri -> Text \cup {None}] /\ u \in Uri
      /\ Fresh(drv, published, {})
  BY <1>1, SettledReceive, MessageFields
<1>3. u # None
  BY <1>2, ConstantsAssumption
<1> HIDE DEF u
<1>4. Sound(d, published) /\ Fresh(d, published, {}) /\ d.open = drv.open
  BY <1>2, LoadSound, LoadFresh, LoadKeeps DEF Sound
<1> HIDE DEF d, design
<1>5. Sound(loaded, published) /\ Fresh(loaded, published, {}) /\ loaded.open = d.open
  BY <1>2, <1>4, LoadSound, LoadFresh, LoadKeeps DEF Sound
<1> HIDE DEF loaded
<1>6. trees \in [Uri -> MaybeBuf] /\ \A v \in Uri : trees[v] \in {None, loaded.docs[v]}
  BY <1>5 DEF Sound, DriverType, MaybeBuf
<1> HIDE DEF trees
<1>7. Issued("parse", trees) \in [Uri -> Seq(Diag)] /\ Issued("design", trees) \in [Uri -> Seq(Diag)]
  BY <1>6, IssuedType
<1>8. loaded.dc \in ClientType(Diag) /\ Shows(loaded.dc, published)
  BY <1>5 DEF Sound, DriverType, ClientType
<1>9. parsed \in ClientType(Diag) /\ Shows(parsed, published)
  BY <1>7, <1>8, ReportShows
<1>10. \A v \in Uri : AllOf(parsed.diags[v], loaded.docs[v])
  <2> SUFFICES ASSUME NEW v \in Uri PROVE AllOf(parsed.diags[v], loaded.docs[v])
    OBVIOUS
  <2>1. AllOf(loaded.dc.diags[v], loaded.docs[v])
    BY <1>5 DEF Fresh
  <2>2. AllOf(Issued("parse", trees)[v], loaded.docs[v])
    BY <1>6, IssuedPart
  <2> QED BY <1>7, <1>8, <2>1, <2>2, ReportOf
<1> HIDE DEF parsed
<1>11. dc \in ClientType(Diag) /\ Shows(dc, published)
  BY <1>7, <1>9, ReportShows
<1>12. \A v \in Uri : AllOf(dc.diags[v], loaded.docs[v])
  <2> SUFFICES ASSUME NEW v \in Uri PROVE AllOf(dc.diags[v], loaded.docs[v])
    OBVIOUS
  <2>1. AllOf(Issued("design", trees)[v], loaded.docs[v])
    BY <1>6, IssuedPart
  <2> QED BY <1>7, <1>9, <1>10, <2>1, ReportOf
<1> HIDE DEF dc
<1>13. r \in DriverType /\ r.docs = loaded.docs /\ r.open = loaded.open /\ r.dc = dc
  BY <1>5, <1>6, <1>11 DEF Sound, DriverType, ClientType
<1> HIDE DEF r
<1>14. Sound(r, published)
  BY <1>5, <1>11, <1>13 DEF Sound
<1>15. /\ \A v \in Uri \ {} : AllOf(r.dc.diags[v], r.docs[v])
       /\ \A v \in Uri \ {} : v \in r.dc.dirty \/ AllOf(published[v], r.docs[v])
  BY <1>5, <1>12, <1>13 DEF Fresh
<1>16. Fresh(Pushed(r), pushDiagsView(r.dc, published), {}) /\ Pushed(r).open = r.open
  BY <1>14, <1>15, PushFresh, PushedSound
<1>17. CASE Leaves(drv, published) /\ m_topFile' = m_topFile
  BY <1>2, <1>17 DEF Leaves
<1>18. CASE Leaves(d, published) /\ m_topFile' = u
  BY <1>3, <1>4, <1>18 DEF Leaves
<1>19. CASE Leaves(Pushed(r), pushDiagsView(r.dc, published)) /\ m_topFile' = u
  BY <1>3, <1>4, <1>5, <1>13, <1>16, <1>19 DEF Leaves
<1> QED BY <1>1, <1>17, <1>18, <1>19

LEMMA UpdateReloadedEffect ==
  ASSUME Settled, NEW u \in Uri, UpdateReloaded(u)
  PROVE  /\ Fresh(drv', published', Head(plan).uris \ {u}) /\ drv'.open = drv.open
         /\ \A v \in Uri : drv.comp[v] = None => drv'.comp[v] = None
         /\ plan' = [plan EXCEPT ![1] = [op |-> "updateDocs", uris |-> Head(plan).uris \ {u}]]
<1> DEFINE none == {}
<1>1. /\ Current("updateDocs") /\ RunUpdate(drv, u, "change", none) /\ none \in SUBSET {u}
      /\ ~Current("adopt")
  BY DEF UpdateReloaded, Current
<1>2. Sound(drv, published) /\ disk \in [Uri -> Text \cup {None}]
  BY <1>1, InvSound DEF Settled, DriverInv, TypeOK
<1>3. Fresh(drv, published, Head(plan).uris) /\ ~Throws(drv, u)
  BY <1>1, NoThrow DEF Settled, FreshInv, Awaiting
<1>4. plan' = [plan EXCEPT ![1] = [op |-> "updateDocs", uris |-> Head(plan).uris \ {u}]]
  BY <1>3 DEF UpdateReloaded
<1> HIDE DEF none
<1>5. /\ Fresh(drv', published', Head(plan).uris \ {u}) /\ drv'.open = drv.open \cup none
      /\ \A v \in Uri : drv.comp[v] = None => drv'.comp[v] = None
  BY <1>1, <1>2, <1>3, RunUpdateFacts
<1> QED BY <1>4, <1>5 DEF none

\* The new driver starts with nothing to show, nothing shown and no design.
LEMMA BeginCreateEffect ==
  ASSUME DriverInv, BeginCreate
  PROVE  /\ Current("adopt")' /\ Fresh(new', published', {}) /\ ~HasDesign(new')
         /\ Head(plan').build = m_buildfile' /\ new'.open = {} /\ adopt' = drv.open
         /\ drv'.open = drv.open /\ \A i \in 2..Len(plan') : plan'[i] = plan[i] /\ i \in 2..Len(plan)
<1> DEFINE b == Head(plan).build
           sources == IF b = None THEN {} ELSE Sources[b]
           docs == [u \in Uri |-> IF u \in sources THEN disk[u] ELSE None]
           st == [op |-> "adopt", build |-> b]
<1>1. /\ Current("create")
      /\ new' = [EmptyDriver EXCEPT !.docs = docs]
      /\ plan' = [plan EXCEPT ![1] = st] /\ m_buildfile' = b
      /\ published' = clearAndPushView(drv.dc, published)
      /\ drv' = [drv EXCEPT !.dc = EmptyDiags] /\ adopt' = drv.open
  BY DEF BeginCreate
<1>2. /\ ~Current("adopt") /\ plan \in Seq(Step) /\ plan # <<>>
      /\ Head(plan) \in Step /\ Head(plan).op = "create"
  BY <1>1, HeadTail DEF Current, DriverInv, TypeOK
<1>3. Sound(drv, published)
  BY <1>2, InvSound
<1>4. b \in BuildFile \cup {None}
  BY <1>2, StepFields
<1>5. st \in Step /\ st.op = "adopt" /\ st.build = b
  BY <1>4 DEF Step
<1> HIDE DEF b, sources, docs, st
<1>6. published' \in [Uri -> Seq(Diag)] /\ \A u \in Uri : published'[u] = <<>>
  <2>1. drv.dc \in ClientType(Diag) /\ published \in [Uri -> Seq(Diag)] /\ Shows(drv.dc, published)
    BY <1>3 DEF Sound, DriverType, ClientType
  <2> QED BY <1>1, <2>1, ClearAndPushShowsNothing
<1>7. new'.dc = EmptyDiags /\ new'.open = {} /\ new'.comp = NoDesign
  BY <1>1 DEF EmptyDriver
<1>8. Fresh(new', published', {})
  BY <1>6, <1>7, EmptyOf DEF Fresh, EmptyDiags
<1>9. ~HasDesign(new')
  BY <1>7 DEF HasDesign, NoDesign
<1>10. plan' # <<>> /\ Head(plan') = st
  BY <1>1, <1>5, PlanHead
<1>11. \A i \in 2..Len(plan') : plan'[i] = plan[i] /\ i \in 2..Len(plan)
  <2>1. Len(plan) \in Nat \ {0} /\ 1 \in 1..Len(plan)
    BY <1>2, HeadTail
  <2>2. Len(plan') = Len(plan) /\ \A i \in 2..Len(plan) : plan'[i] = plan[i]
    BY <1>1, <1>2, <1>5, <2>1, ExceptSeq
  <2> QED BY <2>2
<1>12. drv'.open = drv.open
  BY <1>1, <1>3 DEF Sound, DriverType
<1> QED BY <1>1, <1>5, <1>7, <1>8, <1>9, <1>10, <1>11, <1>12 DEF Current

\* Carrying a document over leaves the new driver as up to date as it was.
LEMMA AdoptDocEffect ==
  ASSUME Settled, NEW u \in Uri, AdoptDoc(u)
  PROVE  /\ Fresh(new', published', {}) /\ new'.open = new.open \cup {u}
         /\ u \in adopt /\ adopt' = adopt \ {u}
         /\ \A v \in Uri : new.comp[v] = None => new'.comp[v] = None
<1> DEFINE c == Carried(u)
           r == updateDoc(c, u, "open")
<1>1. Current("adopt") /\ u \in adopt /\ adopt' = adopt \ {u} /\ DriverInv
  BY DEF AdoptDoc, Settled
<1>2. /\ TypeOK /\ Sound(new, published) /\ drv.docs[u] # None
  BY <1>1, AdoptFacts
<1>3. /\ new' = [Pushed(r) EXCEPT !.open = Pushed(r).open \cup {u}]
      /\ published' = pushPriorityView(r.dc, published, u)
  BY <1>2 DEF AdoptDoc
<1>4. drv.docs[u] \in Buffer /\ disk \in [Uri -> Text \cup {None}]
  BY <1>2 DEF TypeOK, DriverType, MaybeBuf
<1>5. Fresh(new, published, {})
  BY <1>1 DEF Settled, FreshInv
<1>6. Sound(c, published) /\ Fresh(c, published, {u}) /\ c.open = new.open /\ c.comp = new.comp
  <2>1. CASE new.docs[u] = None
    <3> DEFINE b == drv.docs[u]
               s == SetText(new, u, b)
    <3>1. c = s
      BY <2>1 DEF Carried
    <3> HIDE DEF b
    <3>2. Sound(s, published) /\ Fresh(s, published, {} \cup {u})
      BY <1>2, <1>4, <1>5, SetTextSound, SetTextFresh DEF b
    <3>3. s.open = new.open /\ s.comp = new.comp
      BY <1>2 DEF SetText, Sound, DriverType
    <3>4. {} \cup {u} = {u}
      OBVIOUS
    <3> QED BY <3>1, <3>2, <3>3, <3>4
  <2>2. CASE new.docs[u] # None
    BY <1>2, <1>5, <2>2 DEF Carried, Fresh
  <2> QED BY <2>1, <2>2
<1> HIDE DEF c
<1>7. Sound(r, published) /\ r.open = c.open
  BY <1>4, <1>6, UpdateDocSound
<1>8. /\ u \in r.dc.dirty
      /\ \A v \in Uri \ ({u} \ {u}) : AllOf(r.dc.diags[v], r.docs[v])
      /\ \A v \in Uri \ ({u} \cup {u}) : v \in r.dc.dirty \/ AllOf(published[v], r.docs[v])
      /\ \A v \in Uri : c.comp[v] = None => r.comp[v] = None
  BY <1>4, <1>6, UpdateDocFresh
<1> HIDE DEF r
<1>9. /\ \A v \in Uri \ {} : AllOf(r.dc.diags[v], r.docs[v])
      /\ \A v \in Uri \ {} : v \in r.dc.dirty \/ AllOf(published[v], r.docs[v])
  BY <1>8
<1>10. Fresh(Pushed(r), pushPriorityView(r.dc, published, u), {}) /\ Pushed(r).comp = r.comp
  BY <1>7, <1>9, PushFresh
<1>11. Pushed(r) \in DriverType /\ Pushed(r).open = r.open
  BY <1>7, PushedSound DEF Sound
<1>12. /\ new'.docs = Pushed(r).docs /\ new'.dc = Pushed(r).dc /\ new'.comp = Pushed(r).comp
       /\ new'.open = Pushed(r).open \cup {u}
  BY <1>3, <1>11 DEF DriverType
<1>13. Fresh(new', published', {})
  BY <1>3, <1>10, <1>12 DEF Fresh
<1> QED BY <1>1, <1>6, <1>7, <1>8, <1>10, <1>11, <1>12, <1>13

\* The finished driver has a design only for a build file.
LEMMA FinishCreateEffect ==
  ASSUME Settled, FinishCreate
  PROVE  /\ Fresh(drv', published', {}) /\ drv'.open = new.open /\ adopt = {}
         /\ HasDesign(drv') => Head(plan).build # None \/ HasDesign(new)
<1> DEFINE r == IF Head(plan).build = None THEN new ELSE createCompilation(new)
           view == clearAndPushView(drv.dc, published)
<1>1. /\ Current("adopt") /\ adopt = {} /\ DriverInv
      /\ drv' = Pushed(r) /\ published' = pushDiagsView(r.dc, view)
  BY DEF FinishCreate, Settled
<1>2. TypeOK /\ Sound(new, published) /\ drv.dc = EmptyDiags
  BY <1>1, AdoptFacts
<1>3. view = published
  <2>1. view = [u \in Uri |-> published[u]]
    BY <1>2 DEF clearAndPushView, EmptyDiags
  <2> QED BY <1>2, <2>1 DEF TypeOK
<1>4. Fresh(new, published, {})
  BY <1>1 DEF Settled, FreshInv
<1>5. Sound(r, published)
  BY <1>2, CreateCompilationSound
<1>6. /\ r.open = new.open
      /\ \A v \in Uri \ {} : AllOf(r.dc.diags[v], r.docs[v])
      /\ \A v \in Uri \ {} : v \in r.dc.dirty \/ AllOf(published[v], r.docs[v])
      /\ Head(plan).build # None \/ r.comp = new.comp
  <2>1. CASE Head(plan).build = None
    BY <1>4, <2>1 DEF Fresh
  <2>2. CASE Head(plan).build # None
    BY <1>2, <1>4, <2>2, CreateCompilationFresh
  <2> QED BY <2>1, <2>2
<1> HIDE DEF r, view
<1>7. Fresh(Pushed(r), pushDiagsView(r.dc, published), {}) /\ Pushed(r).comp = r.comp
  BY <1>5, <1>6, PushFresh
<1>8. Pushed(r).open = r.open
  BY <1>5, PushedSound
<1>9. HasDesign(drv') => Head(plan).build # None \/ HasDesign(new)
  BY <1>1, <1>6, <1>7 DEF HasDesign
<1> QED BY <1>1, <1>3, <1>6, <1>7, <1>8, <1>9

LEMMA NeverAbandoned ==
  ASSUME Settled, NEW u \in Uri, AbandonCreate(u)
  PROVE  FALSE
BY NoThrow DEF AbandonCreate, Settled

-----------------------------------------------------------------------------
(* Diagnostics are never stale.                                             *)

\* A step that leaves no document waiting.
LEMMA NoneAwaiting ==
  ASSUME ~Current("adopt")', ~Current("updateDocs")',
         \A i \in 2..Len(plan') : plan'[i].op # "updateDocs", Fresh(drv', published', {})
  PROVE  FreshInv'
<1>1. Awaiting' = {}
  BY DEF Awaiting
<1> QED BY <1>1 DEF FreshInv

LEMMA FreshIdle ==
  ASSUME Idle', Fresh(drv', published', {})
  PROVE  FreshInv'
<1>1. ~Current("adopt")' /\ ~Current("updateDocs")' /\ \A i \in 2..Len(plan') : plan'[i].op # "updateDocs"
  BY DEF Idle, Current
<1> QED BY <1>1, NoneAwaiting

\* A finished step leaves a plan with no document waiting.
LEMMA FreshTail ==
  ASSUME Settled, NEW op, Current(op), plan' = Tail(plan)
  PROVE  /\ ~Current("adopt")' /\ ~Current("updateDocs")'
         /\ \A i \in 2..Len(plan') : plan'[i].op # "updateDocs"
<1>1. /\ plan \in Seq(Step) /\ plan # <<>> /\ DriverInv
      /\ \A i \in 2..Len(plan) : plan[i].op # "updateDocs"
  BY DEF Settled, DriverInv, TypeOK, FreshInv, Current
<1>2. /\ Tail(plan) \in Seq(Step) /\ Len(plan) \in Nat \ {0} /\ Len(Tail(plan)) = Len(plan) - 1
      /\ \A i \in 1..Len(Tail(plan)) : Tail(plan)[i] = plan[i + 1]
  BY <1>1, HeadTail
<1>3. \A i \in 1..Len(Tail(plan)) : Tail(plan)[i].op # "updateDocs"
  BY <1>1, <1>2
<1>4. Tail(plan) # <<>> => Head(Tail(plan)) = Tail(plan)[1] /\ 1 \in 1..Len(Tail(plan))
  BY <1>2, HeadTail
<1>5. ~Current("updateDocs")'
  BY <1>3, <1>4 DEF Current
<1>6. ~Current("adopt")'
  BY <1>1, PlanTail
<1> QED BY <1>2, <1>3, <1>5, <1>6

LEMMA FreshNext ==
  ASSUME Settled, [Next]_vars
  PROVE  FreshInv'
<1>1. CASE Input \/ Deliver \/ UNCHANGED vars
  <2>1. UNCHANGED <<plan, drv, new, published>>
    BY <1>1, OutsideInbox DEF NoServerStep, vars
  <2> QED BY <2>1 DEF Settled, FreshInv, Awaiting, Current
<1>2. CASE HandleDidOpen \/ HandleDidChange \/ HandleDidSave \/ HandleDidClose \/ HandleSetTopLevel
  <2>1. Fresh(drv', published', {})
    BY <1>2, DidOpenEffect, DidChangeEffect, DidSaveEffect, DidCloseEffect, SetTopLevelEffect
  <2>2. Idle'
    BY <1>2 DEF HandleDidOpen, HandleDidChange, HandleDidSave, HandleDidClose, HandleSetTopLevel,
       Receive, Idle
  <2> QED BY <2>1, <2>2, FreshIdle
<1>3. CASE HandleWatchedFiles
  <2> DEFINE R == Reread(Head(inbox).changes)
             s1 == [op |-> "updateDocs", uris |-> R]
             s2 == [op |-> "watchIndex", changes |-> Head(inbox).changes]
  <2>1. Fresh(drv', published', R) /\ plan' = <<s1, s2>>
    BY <1>3, WatchedFilesEffect
  <2>2. s1.op = "updateDocs" /\ s1.uris = R /\ s2.op = "watchIndex"
    OBVIOUS
  <2> HIDE DEF R, s1, s2
  <2>3. plan' # <<>> /\ Head(plan') = s1 /\ Len(plan') = 2 /\ plan'[2] = s2
    BY <2>1
  <2>4. Awaiting' = R /\ ~Current("adopt")' /\ \A i \in 2..Len(plan') : plan'[i].op # "updateDocs"
    BY <2>2, <2>3 DEF Awaiting, Current
  <2> QED BY <2>1, <2>4 DEF FreshInv
<1>4. CASE HandleSetBuildFile \/ HandleReload
  <2>1. Fresh(drv', published', {})
    <3>1. Fresh(drv, published, {})
      BY <1>4, IdleFresh DEF Settled, HandleSetBuildFile, HandleReload, Receive
    <3> QED BY <1>4, <3>1 DEF HandleSetBuildFile, HandleReload
  <2> DEFINE st == [op |-> "startIndexing"]
  <2>2. PICK s1, s2, s3 : /\ s1.op = "create" /\ s2.op = "startIndexing" /\ s3.op = "create"
                          /\ plan' \in {<<s1>>, <<s1, s2>>, <<s1, s2, s3>>}
    <3>1. CASE HandleSetBuildFile
      <4>1. /\ create(Head(inbox).build).op = "create" /\ st.op = "startIndexing"
            /\ plan' = <<create(Head(inbox).build)>>
        BY <3>1 DEF create, HandleSetBuildFile
      <4> QED BY <4>1
    <3>2. CASE HandleReload
      <4>1. /\ create(config).op = "create" /\ st.op = "startIndexing"
            /\ create(m_buildfile).op = "create"
            /\ plan' \in {<<create(config), st>>, <<create(config), st, create(m_buildfile)>>}
        BY <3>2 DEF create, HandleReload
      <4> QED BY <4>1
    <3> QED BY <1>4, <3>1, <3>2
  <2>3. /\ ~Current("adopt")' /\ ~Current("updateDocs")'
        /\ \A i \in 2..Len(plan') : plan'[i].op # "updateDocs"
    <3>1. CASE plan' = <<s1>>
      BY <2>2, <3>1 DEF Current
    <3>2. CASE plan' = <<s1, s2>>
      BY <2>2, <3>2 DEF Current
    <3>3. CASE plan' = <<s1, s2, s3>>
      BY <2>2, <3>3 DEF Current
    <3> QED BY <2>2, <3>1, <3>2, <3>3
  <2> QED BY <2>1, <2>3, NoneAwaiting
<1>5. ASSUME NEW u \in Uri, UpdateReloaded(u)
      PROVE  FreshInv'
  <2> DEFINE R == Head(plan).uris \ {u}
             st == [op |-> "updateDocs", uris |-> R]
  <2>1. Fresh(drv', published', R) /\ plan' = [plan EXCEPT ![1] = st]
    BY <1>5, UpdateReloadedEffect
  <2>2. /\ plan \in Seq(Step) /\ plan # <<>> /\ Head(plan).op = "updateDocs" /\ Head(plan) \in Step
        /\ DriverInv /\ Current("updateDocs")
    BY <1>5, HeadTail DEF UpdateReloaded, Current, Settled, DriverInv, TypeOK
  <2>3. st \in Step /\ st.op = "updateDocs" /\ st.uris = R
    BY <2>2, StepFields DEF Step
  <2> HIDE DEF R, st
  <2>4. plan' # <<>> /\ Head(plan') = st
    BY <2>1, <2>2, <2>3, PlanHead
  <2>5. Len(plan) \in Nat \ {0} /\ 1 \in 1..Len(plan)
    BY <2>2, HeadTail
  <2>6. Len(plan') = Len(plan) /\ \A i \in 2..Len(plan) : plan'[i] = plan[i]
    BY <2>1, <2>2, <2>3, <2>5, ExceptSeq
  <2>7. Awaiting' = R /\ ~Current("adopt")'
    BY <2>3, <2>4 DEF Awaiting, Current
  <2>8. \A i \in 2..Len(plan') : plan'[i].op # "updateDocs"
    BY <2>6 DEF Settled, FreshInv
  <2> QED BY <2>1, <2>7, <2>8 DEF FreshInv
<1>6. CASE UpdatesDone \/ WatchIndex \/ StartIndexing
  <2>1. /\ Current("updateDocs") \/ Current("watchIndex") \/ Current("startIndexing")
        /\ plan' = Tail(plan) /\ UNCHANGED <<drv, published>>
        /\ Current("updateDocs") => Head(plan).uris = {}
    BY <1>6 DEF UpdatesDone, WatchIndex, StartIndexing, Current
  <2>2. Fresh(drv', published', {})
    BY <2>1 DEF Settled, FreshInv, Awaiting, Current
  <2> QED BY <2>1, <2>2, FreshTail, NoneAwaiting
<1>7. CASE BeginCreate
  <2>1. /\ Current("adopt")' /\ Fresh(new', published', {})
        /\ \A i \in 2..Len(plan') : plan'[i] = plan[i] /\ i \in 2..Len(plan)
    BY <1>7, BeginCreateEffect DEF Settled
  <2> QED BY <2>1 DEF Settled, FreshInv
<1>8. ASSUME NEW u \in Uri, AdoptDoc(u)
      PROVE  FreshInv'
  <2>1. Fresh(new', published', {}) /\ plan' = plan /\ Current("adopt")'
    BY <1>8, AdoptDocEffect DEF AdoptDoc, Current
  <2> QED BY <2>1 DEF Settled, FreshInv
<1>9. CASE FinishCreate
  <2>1. Fresh(drv', published', {}) /\ Current("adopt") /\ plan' = Tail(plan)
    BY <1>9, FinishCreateEffect DEF FinishCreate
  <2> QED BY <2>1, FreshTail, NoneAwaiting
<1>10. CASE Handle
  BY <1>2, <1>3, <1>4, <1>10 DEF Handle
<1>11. CASE Continue
  BY <1>5, <1>6, <1>7, <1>8, <1>9, <1>11, NeverAbandoned DEF Continue
<1> QED BY <1>1, <1>10, <1>11 DEF Next

LEMMA SettledInit == Init => Settled
<1> SUFFICES ASSUME Init PROVE Settled
  OBVIOUS
<1>1. DriverInv
  BY InitInv
<1>2. FilesPresent
  <2>1. \A u \in Uri : disk[u] # None
    BY ConstantsAssumption DEF Init
  <2> QED BY <2>1 DEF Init, FilesPresent
<1>3. FreshInv
  <2>1. /\ Len(plan) = 2 /\ plan[2].op = "startIndexing" /\ plan # <<>> /\ Head(plan).op = "create"
    BY DEF Init, create
  <2>2. Fresh(drv, published, {})
    BY EmptyOf DEF Init, Fresh, EmptyDriver, EmptyDiags
  <2>3. Awaiting = {} /\ ~Current("adopt") /\ \A i \in 2..Len(plan) : plan[i].op # "updateDocs"
    BY <2>1 DEF Awaiting, Current
  <2> QED BY <2>2, <2>3 DEF FreshInv
<1> QED BY <1>1, <1>2, <1>3 DEF Settled

LEMMA SettledNext ==
  ASSUME FilesStay
  PROVE  Settled /\ [Next]_vars => Settled'
<1> SUFFICES ASSUME Settled, [Next]_vars PROVE Settled'
  OBVIOUS
<1>1. DriverInv'
  BY NextInv DEF Settled
<1>2. FilesPresent'
  BY FilesPresentNext DEF Settled
<1>3. FreshInv'
  BY FreshNext
<1> QED BY <1>1, <1>2, <1>3 DEF Settled

\* As long as no tool deletes files, no displayed diagnostic is older than the buffer
\* the server has for its file, whatever the order of edits, saves, watcher events,
\* commands and driver replacements.
THEOREM DiagnosticsAreCurrent ==
  ASSUME FilesStay
  PROVE  Spec => []NoStaleDiagnostics
<1>1. Settled => NoStaleDiagnostics
  <2> SUFFICES ASSUME Settled, Idle, NEW u \in Uri, NEW i \in DOMAIN published[u]
               PROVE  published[u][i].of = drv.docs[u]
    BY DEF NoStaleDiagnostics
  <2>1. Fresh(drv, published, {})
    BY IdleFresh DEF Settled
  <2> QED BY <2>1 DEF Fresh, AllOf
<1>2. Settled /\ [Next]_vars => Settled'
  BY SettledNext
<1> QED BY <1>1, <1>2, SettledInit, PTL DEF Spec

-----------------------------------------------------------------------------
(* A design has an origin.                                                  *)

\* No handler begins with a driver half built.
LEMMA HandlePlans == Handle => ~Current("adopt") /\ ~Current("adopt")'
<1>1. HandleDidOpen \/ HandleDidChange \/ HandleDidSave \/ HandleDidClose \/ HandleSetTopLevel
        => ~Current("adopt") /\ ~Current("adopt")'
  BY DEF HandleDidOpen, HandleDidChange, HandleDidSave, HandleDidClose, HandleSetTopLevel, Receive,
     Idle, Current
<1>2. HandleWatchedFiles => ~Current("adopt") /\ ~Current("adopt")'
  BY DEF HandleWatchedFiles, Receive, Idle, Current
<1>3. HandleSetBuildFile \/ HandleReload => ~Current("adopt") /\ ~Current("adopt")'
  BY DEF HandleSetBuildFile, HandleReload, create, Receive, Idle, Current
<1> QED BY <1>1, <1>2, <1>3 DEF Handle

LEMMA DesignNext ==
  ASSUME Settled, DesignInv, [Next]_vars
  PROVE  DesignInv'
<1>1. CASE Input \/ Deliver \/ UNCHANGED vars
  <2>1. UNCHANGED <<plan, drv, new, m_buildfile, m_topFile>>
    BY <1>1, OutsideInbox DEF NoServerStep, vars
  <2> QED BY <2>1 DEF DesignInv, HasDesign, Current
<1>k. ASSUME ~Current("adopt"), ~Current("adopt")', UNCHANGED <<m_buildfile, m_topFile>>,
             \A v \in Uri : drv.comp[v] = None => drv'.comp[v] = None
      PROVE  DesignInv'
  <2>1. HasDesign(drv') => HasDesign(drv)
    BY <1>k, NoDesignKept
  <2> QED BY <1>k, <2>1 DEF DesignInv
<1>2. CASE HandleDidOpen \/ HandleDidChange \/ HandleDidSave \/ HandleDidClose \/ HandleWatchedFiles
  <2>1. \A v \in Uri : drv.comp[v] = None => drv'.comp[v] = None
    BY <1>2, DidOpenEffect, DidChangeEffect, DidSaveEffect, DidCloseEffect, WatchedFilesEffect
  <2>2. UNCHANGED m_topFile
    BY <1>2 DEF HandleDidOpen, HandleDidChange, HandleDidSave, HandleDidClose, HandleWatchedFiles
  <2>3. UNCHANGED m_buildfile
    BY <1>2 DEF HandleDidOpen, HandleDidChange, HandleDidSave, HandleDidClose, HandleWatchedFiles,
       RunUpdate, Leaves
  <2>4. ~Current("adopt") /\ ~Current("adopt")'
    BY <1>2, HandlePlans DEF Handle
  <2> QED BY <1>k, <2>1, <2>2, <2>3, <2>4
<1>3. CASE HandleSetTopLevel
  <2>1. (m_topFile' = m_topFile /\ drv'.comp = drv.comp) \/ m_topFile' # None
    BY <1>3, SetTopLevelEffect
  <2>2. UNCHANGED m_buildfile /\ ~Current("adopt") /\ ~Current("adopt")'
    BY <1>3, HandlePlans DEF HandleSetTopLevel, Leaves, Handle
  <2>3. CASE m_topFile' # None
    BY <2>2, <2>3 DEF DesignInv
  <2>4. CASE m_topFile' = m_topFile /\ drv'.comp = drv.comp
    BY <1>k, <2>2, <2>4
  <2> QED BY <2>1, <2>3, <2>4
<1>4. CASE HandleSetBuildFile \/ HandleReload
  <2>1. UNCHANGED <<drv, m_buildfile, m_topFile>> /\ ~Current("adopt") /\ ~Current("adopt")'
    BY <1>4, HandlePlans DEF HandleSetBuildFile, HandleReload, Handle
  <2> QED BY <1>k, <2>1
<1>5. ASSUME NEW u \in Uri, UpdateReloaded(u)
      PROVE  DesignInv'
  <2>1. \A v \in Uri : drv.comp[v] = None => drv'.comp[v] = None
    BY <1>5, UpdateReloadedEffect
  <2>2. UNCHANGED <<m_buildfile, m_topFile>> /\ ~Current("adopt")
    BY <1>5 DEF UpdateReloaded, RunUpdate, Leaves, Current
  <2>3. ~Current("adopt")'
    <3>1. /\ plan' = [plan EXCEPT ![1] = [op |-> "updateDocs", uris |-> Head(plan).uris \ {u}]]
          /\ plan \in Seq(Step) /\ plan # <<>>
      BY <1>5, UpdateReloadedEffect DEF UpdateReloaded, Current, Settled, DriverInv, TypeOK
    <3>2. Head(plan') = plan'[1] /\ plan'[1].op = "updateDocs"
      <4>1. Len(plan) \in Nat \ {0} /\ DOMAIN plan = 1..Len(plan)
        BY <3>1, HeadTail, LenProperties
      <4> QED BY <3>1, <4>1
    <3> QED BY <3>2 DEF Current
  <2> QED BY <1>k, <2>1, <2>2, <2>3
<1>6. CASE UpdatesDone \/ WatchIndex \/ StartIndexing
  <2>1. /\ Current("updateDocs") \/ Current("watchIndex") \/ Current("startIndexing")
        /\ plan' = Tail(plan) /\ UNCHANGED <<drv, m_buildfile, m_topFile>>
    BY <1>6 DEF UpdatesDone, WatchIndex, StartIndexing
  <2>2. ~Current("adopt") /\ ~Current("adopt")'
    BY <2>1, FreshTail DEF Current
  <2> QED BY <1>k, <2>1, <2>2
<1>7. CASE BeginCreate
  BY <1>7, BeginCreateEffect DEF Settled, DesignInv
<1>8. ASSUME NEW u \in Uri, AdoptDoc(u)
      PROVE  DesignInv'
  <2>1. \A v \in Uri : new.comp[v] = None => new'.comp[v] = None
    BY <1>8, AdoptDocEffect
  <2>2. plan' = plan /\ UNCHANGED m_buildfile /\ Current("adopt") /\ Current("adopt")'
    BY <1>8 DEF AdoptDoc, Current
  <2>3. ~HasDesign(new')
    BY <2>1, <2>2, NoDesignKept DEF DesignInv
  <2> QED BY <2>2, <2>3 DEF DesignInv
<1>9. CASE FinishCreate
  <2>1. /\ HasDesign(drv') => Head(plan).build # None \/ HasDesign(new)
        /\ Current("adopt") /\ plan' = Tail(plan) /\ UNCHANGED m_buildfile
    BY <1>9, FinishCreateEffect DEF FinishCreate
  <2>2. ~Current("adopt")'
    BY <2>1, FreshTail
  <2> QED BY <2>1, <2>2 DEF DesignInv
<1>10. CASE Handle
  BY <1>2, <1>3, <1>4, <1>10 DEF Handle
<1>11. CASE Continue
  BY <1>5, <1>6, <1>7, <1>8, <1>9, <1>11, NeverAbandoned DEF Continue
<1> QED BY <1>1, <1>10, <1>11 DEF Next

\* As long as no tool deletes files, the server has a design only while a build file or
\* a top file is selected: switching to explore mode drops the design with the driver.
THEOREM DesignsHaveOrigins ==
  ASSUME FilesStay
  PROVE  Spec => []DesignHasOrigin
<1>1. Init => DesignInv
  <2> SUFFICES ASSUME Init PROVE DesignInv
    OBVIOUS
  <2>1. ~Current("adopt") /\ ~HasDesign(drv)
    BY DEF Init, create, Current, HasDesign, EmptyDriver, NoDesign
  <2> QED BY <2>1 DEF DesignInv
<1>2. Settled /\ DesignInv => DesignHasOrigin
  BY DEF DesignInv, DesignHasOrigin, Idle, Current
<1>3. Settled /\ [Next]_vars => Settled'
  BY SettledNext
<1>4. Settled /\ DesignInv /\ [Next]_vars => DesignInv'
  BY DesignNext
<1> QED BY <1>1, <1>2, <1>3, <1>4, SettledInit, PTL DEF Spec

-----------------------------------------------------------------------------
(* What the messages in flight say about the editor.                        *)

\* A message sent extends the history.
LEMMA HistorySend ==
  ASSUME NEW msgs \in Seq(Message), NEW h, NEW last, History(h, msgs, last),
         NEW msg \in Message, Sensible(last, msg), NEW next, next = Played(last, msg),
         next \in [Uri -> Text \cup {None}]
  PROVE  \E g : History(g, Append(msgs, msg), next) /\ g[0] = h[0]
<1> DEFINE n == Len(msgs)
           more == Append(msgs, msg)
           g == [i \in 0..(n + 1) |-> IF i <= n THEN h[i] ELSE next]
<1>1. /\ n \in Nat /\ Len(more) = n + 1 /\ more[n + 1] = msg
      /\ \A i \in 1..n : more[i] = msgs[i]
  BY Appended
<1>2. /\ h \in [0..n -> [Uri -> Text \cup {None}]] /\ h[n] = last
      /\ \A i \in 1..n : Sensible(h[i-1], msgs[i]) /\ h[i] = Played(h[i-1], msgs[i])
  BY DEF History
<1> HIDE DEF n, more
<1>3. g \in [0..(n + 1) -> [Uri -> Text \cup {None}]]
  BY <1>1, <1>2
<1>4. g[n + 1] = next /\ \A i \in 0..n : g[i] = h[i]
  BY <1>1
<1> HIDE DEF g
<1>5. ASSUME NEW i \in 1..(n + 1)
      PROVE  Sensible(g[i-1], more[i]) /\ g[i] = Played(g[i-1], more[i])
  <2>1. CASE i = n + 1
    <3>1. g[i-1] = last /\ g[i] = next /\ more[i] = msg
      BY <1>1, <1>2, <1>4, <2>1
    <3> QED BY <3>1
  <2>2. CASE i \in 1..n
    <3>1. i \in 0..n /\ i - 1 \in 0..n
      BY <1>1, <2>2
    <3>2. g[i-1] = h[i-1] /\ g[i] = h[i]
      BY <1>4, <3>1
    <3>3. more[i] = msgs[i]
      BY <1>1, <2>2
    <3>4. Sensible(h[i-1], msgs[i]) /\ h[i] = Played(h[i-1], msgs[i])
      BY <1>2, <2>2
    <3> QED BY <3>2, <3>3, <3>4
  <2>3. i = n + 1 \/ i \in 1..n
    BY <1>1
  <2> QED BY <2>1, <2>2, <2>3
<1>6. History(g, more, next) /\ g[0] = h[0]
  BY <1>1, <1>3, <1>4, <1>5 DEF History
<1> QED BY <1>6 DEF more

\* A message taken is the start of the history.
LEMMA HistoryTake ==
  ASSUME NEW msgs \in Seq(Message), msgs # <<>>, NEW h, NEW last, History(h, msgs, last)
  PROVE  /\ Sensible(h[0], Head(msgs)) /\ h[0] \in [Uri -> Text \cup {None}]
         /\ \E g : History(g, Tail(msgs), last) /\ g[0] = Played(h[0], Head(msgs))
<1> DEFINE n == Len(msgs)
           rest == Tail(msgs)
           g == [i \in 0..(n - 1) |-> h[i + 1]]
<1>1. /\ n \in Nat \ {0} /\ Len(rest) = n - 1 /\ Head(msgs) = msgs[1]
      /\ \A i \in 1..(n - 1) : rest[i] = msgs[i + 1]
  BY HeadTail
<1>2. /\ h \in [0..n -> [Uri -> Text \cup {None}]] /\ h[n] = last
      /\ \A i \in 1..n : Sensible(h[i-1], msgs[i]) /\ h[i] = Played(h[i-1], msgs[i])
  BY DEF History
<1> HIDE DEF n, rest
<1>3. g \in [0..(n - 1) -> [Uri -> Text \cup {None}]]
  BY <1>1, <1>2
<1>4. \A i \in 0..(n - 1) : g[i] = h[i + 1]
  OBVIOUS
<1> HIDE DEF g
<1>5. ASSUME NEW i \in 1..(n - 1)
      PROVE  Sensible(g[i-1], rest[i]) /\ g[i] = Played(g[i-1], rest[i])
  <2>1. g[i-1] = h[i] /\ g[i] = h[i + 1] /\ rest[i] = msgs[i + 1]
    BY <1>1, <1>4
  <2>2. i + 1 \in 1..n /\ (i + 1) - 1 = i
    BY <1>1
  <2> QED BY <1>2, <2>1, <2>2
<1>6. g[n - 1] = last
  BY <1>1, <1>2, <1>4
<1>7. History(g, rest, last)
  BY <1>1, <1>3, <1>5, <1>6 DEF History
<1>8. h[0] \in [Uri -> Text \cup {None}] /\ 1 \in 1..n /\ 1 - 1 = 0
  BY <1>1, <1>2
<1>9. Sensible(h[0], msgs[1]) /\ h[1] = Played(h[0], msgs[1])
  BY <1>2, <1>8
<1>10. g[0] = h[1]
  BY <1>1, <1>4
<1> QED BY <1>1, <1>7, <1>8, <1>9, <1>10 DEF rest

\* The editor sends only messages that make sense in its state, and is afterwards in
\* the state they say; the watcher's and the tools' doings are no news of its documents.
LEMMA OutsideHistory ==
  ASSUME DriverInv, Input \/ Deliver
  PROVE  \/ UNCHANGED <<inbox, editor>>
         \/ \E msg \in Message : /\ inbox' = Append(inbox, msg) /\ Sensible(editor, msg)
                                 /\ editor' = Played(editor, msg)
<1>t. editor \in [Uri -> Text \cup {None}] /\ disk \in [Uri -> Text \cup {None}] /\ watch \subseteq Event
  BY DEF DriverInv, TypeOK
<1> USE DEF Send
<1>1. ASSUME NEW u \in Uri, EditorOpen(u)
      PROVE  \E msg \in Message : /\ inbox' = Append(inbox, msg) /\ Sensible(editor, msg)
                                  /\ editor' = Played(editor, msg)
  <2> DEFINE msg == [m |-> "didOpen", uri |-> u, text |-> disk[u]]
  <2>1. msg \in Message
    BY <1>1, <1>t DEF EditorOpen, Message
  <2>2. /\ inbox' = Append(inbox, msg) /\ Sensible(editor, msg) /\ editor' = Played(editor, msg)
    BY <1>1 DEF EditorOpen, Sensible, Played
  <2> QED BY <2>1, <2>2
<1>2. ASSUME NEW u \in Uri, EditorSave(u)
      PROVE  \E msg \in Message : /\ inbox' = Append(inbox, msg) /\ Sensible(editor, msg)
                                  /\ editor' = Played(editor, msg)
  <2> DEFINE msg == [m |-> "didSave", uri |-> u, text |-> editor[u]]
  <2>1. msg \in Message
    BY <1>2, <1>t DEF EditorSave, Message
  <2>2. /\ inbox' = Append(inbox, msg) /\ Sensible(editor, msg) /\ editor' = Played(editor, msg)
    BY <1>2 DEF EditorSave, Sensible, Played
  <2> QED BY <2>1, <2>2
<1>3. ASSUME NEW u \in Uri, EditorClose(u)
      PROVE  \E msg \in Message : /\ inbox' = Append(inbox, msg) /\ Sensible(editor, msg)
                                  /\ editor' = Played(editor, msg)
  <2> DEFINE msg == [m |-> "didClose", uri |-> u]
  <2>1. msg \in Message
    BY DEF Message
  <2>2. /\ inbox' = Append(inbox, msg) /\ Sensible(editor, msg) /\ editor' = Played(editor, msg)
    BY <1>3 DEF EditorClose, Sensible, Played
  <2> QED BY <2>1, <2>2
<1>4. ASSUME NEW u \in Uri, NEW t \in Text, EditorType(u, t)
      PROVE  \E msg \in Message : /\ inbox' = Append(inbox, msg) /\ Sensible(editor, msg)
                                  /\ editor' = Played(editor, msg)
  <2> DEFINE msg == [m |-> "didChange", uri |-> u, from |-> editor[u], to |-> t]
  <2>1. msg \in Message
    BY <1>4, <1>t DEF EditorType, Message
  <2>2. /\ inbox' = Append(inbox, msg) /\ Sensible(editor, msg) /\ editor' = Played(editor, msg)
    BY <1>4 DEF EditorType, Sensible, Played
  <2> QED BY <2>1, <2>2
<1>5. ASSUME NEW msg \in Message, Send(msg), UNCHANGED editor,
             msg.m \in {"setBuildFile", "setTopLevel", "watchedFiles", "reload"}
      PROVE  \E sent \in Message : /\ inbox' = Append(inbox, sent) /\ Sensible(editor, sent)
                                   /\ editor' = Played(editor, sent)
  <2>1. inbox' = Append(inbox, msg) /\ Sensible(editor, msg) /\ editor' = Played(editor, msg)
    BY <1>5 DEF Sensible, Played
  <2> QED BY <2>1
<1> DEFINE Sent == \E msg \in Message : /\ inbox' = Append(inbox, msg) /\ Sensible(editor, msg)
                                        /\ editor' = Played(editor, msg)
<1>6. ASSUME EditorCommand PROVE Sent
  <2>1. PICK msg : /\ Send(msg)
                   /\ \/ \E f \in BuildFile \cup {None} : msg = [m |-> "setBuildFile", build |-> f]
                      \/ \E u \in Uri : msg = [m |-> "setTopLevel", uri |-> u]
    BY <1>6 DEF EditorCommand
  <2>2. msg \in Message /\ msg.m \in {"setBuildFile", "setTopLevel"}
    BY <2>1 DEF Message
  <2> QED BY <1>5, <1>6, <2>1, <2>2 DEF EditorCommand
<1>7. ASSUME NEW changes \in SUBSET watch, WatcherDeliver(changes) PROVE Sent
  <2> DEFINE msg == [m |-> "watchedFiles", changes |-> changes]
  <2>1. msg \in Message /\ msg.m = "watchedFiles"
    BY <1>t DEF Message
  <2> HIDE DEF msg
  <2>2. Send(msg) /\ UNCHANGED editor
    BY <1>7 DEF WatcherDeliver, msg
  <2> QED BY <1>5, <2>1, <2>2
<1>8. ASSUME ConfigDeliver PROVE Sent
  <2> DEFINE msg == [m |-> "reload"]
  <2>1. msg \in Message /\ msg.m = "reload"
    BY DEF Message
  <2> HIDE DEF msg
  <2>2. Send(msg) /\ UNCHANGED editor
    BY <1>8 DEF ConfigDeliver, msg
  <2> QED BY <1>5, <2>1, <2>2
<1>9. \A u \in Uri, t \in Text : ToolWrite(u, t) => UNCHANGED <<inbox, editor>>
  BY DEF ToolWrite
<1>10. \A u \in Uri : ToolDelete(u) => UNCHANGED <<inbox, editor>>
  BY DEF ToolDelete
<1>11. \A f \in BuildFile \cup {None} : ToolConfig(f) => UNCHANGED <<inbox, editor>>
  BY DEF ToolConfig
<1>12. CASE Input
  <2> HIDE DEF Sent
  <2>1. \A u \in Uri : EditorOpen(u) \/ EditorSave(u) \/ EditorClose(u) => Sent
    BY <1>1, <1>2, <1>3 DEF Sent
  <2>2. \A u \in Uri, t \in Text : EditorType(u, t) => Sent
    BY <1>4 DEF Sent
  <2>3. Sent \/ UNCHANGED <<inbox, editor>>
    BY <1>6, <1>9, <1>10, <1>11, <1>12, <2>1, <2>2 DEF Input
  <2> QED BY <2>3 DEF Sent
<1>13. CASE Deliver
  <2> HIDE DEF Sent
  <2>1. Sent
    BY <1>7, <1>8, <1>13 DEF Deliver
  <2> QED BY <2>1 DEF Sent
<1> QED BY <1>12, <1>13

\* So there is still a history, with the same beginning.
LEMMA OutsideKeepsHistory ==
  ASSUME DriverInv, Input \/ Deliver, NEW h, History(h, inbox, editor)
  PROVE  \E g : History(g, inbox', editor') /\ g[0] = h[0]
<1>1. editor' \in [Uri -> Text \cup {None}] /\ inbox \in Seq(Message)
  BY OutsideInv DEF DriverInv, TypeOK
<1>2. CASE UNCHANGED <<inbox, editor>>
  BY <1>2
<1>3. CASE \E msg \in Message : /\ inbox' = Append(inbox, msg) /\ Sensible(editor, msg)
                                /\ editor' = Played(editor, msg)
  <2>1. PICK msg \in Message : /\ inbox' = Append(inbox, msg) /\ Sensible(editor, msg)
                               /\ editor' = Played(editor, msg)
    BY <1>3
  <2>2. \E g : History(g, Append(inbox, msg), editor') /\ g[0] = h[0]
    BY <1>1, <2>1, HistorySend
  <2> QED BY <2>1, <2>2
<1> QED BY <1>2, <1>3, OutsideHistory

\* What a message says about one document.
LEMMA PlayedFacts ==
  ASSUME NEW v \in [Uri -> Text \cup {None}], NEW msg \in Message, NEW u \in Uri
  PROVE  /\ msg.m = "didOpen"   => Played(v, msg)[u] = IF u = msg.uri THEN msg.text ELSE v[u]
         /\ msg.m = "didChange" => Played(v, msg)[u] = IF u = msg.uri THEN msg.to ELSE v[u]
         /\ msg.m = "didClose"  => Played(v, msg)[u] = IF u = msg.uri THEN None ELSE v[u]
         /\ msg.m \notin {"didOpen", "didChange", "didClose"} => Played(v, msg) = v
<1>1. CASE msg.m = "didOpen"
  <2>1. Played(v, msg) = [v EXCEPT ![msg.uri] = msg.text]
    BY <1>1 DEF Played
  <2> QED BY <1>1, <2>1
<1>2. CASE msg.m = "didChange"
  <2>1. Played(v, msg) = [v EXCEPT ![msg.uri] = msg.to]
    BY <1>2 DEF Played
  <2> QED BY <1>2, <2>1
<1>3. CASE msg.m = "didClose"
  <2>1. Played(v, msg) = [v EXCEPT ![msg.uri] = None]
    BY <1>3 DEF Played
  <2> QED BY <1>3, <2>1
<1>4. CASE msg.m \notin {"didOpen", "didChange", "didClose"}
  BY <1>4 DEF Played
<1> QED BY <1>1, <1>2, <1>3, <1>4

-----------------------------------------------------------------------------
(* m_openDocs follows the editor.                                           *)

\* The documents open after a handler are those open when its message was sent.
LEMMA HandleOpens ==
  ASSUME Settled, Handle, NEW v \in [Uri -> Text \cup {None}], Sensible(v, Head(inbox)),
         \A u \in Uri : u \in drv.open <=> v[u] # None
  PROVE  \A u \in Uri : u \in drv'.open <=> Played(v, Head(inbox))[u] # None
<1> DEFINE msg == Head(inbox)
<1>1. inbox \in Seq(Message) /\ inbox # <<>>
  BY ServerInbox DEF Settled, DriverInv, TypeOK
<1>2. msg \in Message /\ None \notin Text
  BY <1>1, HeadTail, ConstantsAssumption
<1>3. CASE HandleDidOpen
  <2>1. msg.m = "didOpen" /\ drv'.open = drv.open \cup {msg.uri}
    BY <1>3, DidOpenEffect DEF HandleDidOpen, Receive
  <2>2. msg.text \in Text /\ \A u \in Uri : Played(v, msg)[u] = IF u = msg.uri THEN msg.text ELSE v[u]
    BY <1>2, <2>1, PlayedFacts, MessageFields
  <2> HIDE DEF msg
  <2>3. \A u \in Uri : u \in drv'.open <=> Played(v, msg)[u] # None
    BY <1>2, <2>1, <2>2
  <2> QED BY <2>3 DEF msg
<1>4. CASE HandleDidChange
  <2>1. msg.m = "didChange" /\ drv'.open = drv.open /\ v[msg.uri] = msg.from
    BY <1>4, DidChangeEffect DEF HandleDidChange, Receive, Sensible
  <2>2. /\ msg.uri \in Uri /\ msg.from \in Text /\ msg.to \in Text
        /\ \A u \in Uri : Played(v, msg)[u] = IF u = msg.uri THEN msg.to ELSE v[u]
    BY <1>2, <2>1, PlayedFacts, MessageFields
  <2> HIDE DEF msg
  <2>3. \A u \in Uri : u \in drv'.open <=> Played(v, msg)[u] # None
    BY <1>2, <2>1, <2>2
  <2> QED BY <2>3 DEF msg
<1>5. CASE HandleDidClose
  <2>1. msg.m = "didClose" /\ drv'.open = drv.open \ {msg.uri}
    BY <1>5, DidCloseEffect DEF HandleDidClose, Receive
  <2>2. \A u \in Uri : Played(v, msg)[u] = IF u = msg.uri THEN None ELSE v[u]
    BY <1>2, <2>1, PlayedFacts
  <2> HIDE DEF msg
  <2>3. \A u \in Uri : u \in drv'.open <=> Played(v, msg)[u] # None
    BY <2>1, <2>2
  <2> QED BY <2>3 DEF msg
<1>6. CASE HandleDidSave \/ HandleWatchedFiles \/ HandleSetTopLevel \/ HandleSetBuildFile \/ HandleReload
  <2>1. drv'.open = drv.open
    BY <1>6, DidSaveEffect, WatchedFilesEffect, SetTopLevelEffect DEF HandleSetBuildFile, HandleReload
  <2>2. msg.m \notin {"didOpen", "didChange", "didClose"}
    BY <1>6 DEF HandleDidSave, HandleWatchedFiles, HandleSetTopLevel, HandleSetBuildFile, HandleReload,
       Receive
  <2> HIDE DEF msg
  <2>3. \A u \in Uri : Played(v, msg)[u] = v[u]
    BY <1>2, <2>2, PlayedFacts
  <2>4. \A u \in Uri : u \in drv'.open <=> Played(v, msg)[u] # None
    BY <2>1, <2>3
  <2> QED BY <2>4 DEF msg
<1> QED BY <1>3, <1>4, <1>5, <1>6 DEF Handle

\* Neither re-reading nor replacing the driver opens or closes a document.
LEMMA ContinueOpens ==
  ASSUME Settled, Continue, Current("adopt") => new.open \cup adopt = drv.open
  PROVE  drv'.open = drv.open /\ (Current("adopt")' => new'.open \cup adopt' = drv'.open)
<1>1. ASSUME NEW u \in Uri, UpdateReloaded(u)
      PROVE  drv'.open = drv.open /\ ~Current("adopt")'
  <2>1. drv'.open = drv.open
    BY <1>1, UpdateReloadedEffect
  <2>2. /\ plan' = [plan EXCEPT ![1] = [op |-> "updateDocs", uris |-> Head(plan).uris \ {u}]]
        /\ plan \in Seq(Step) /\ plan # <<>>
    BY <1>1, UpdateReloadedEffect DEF UpdateReloaded, Current, Settled, DriverInv, TypeOK
  <2>3. Len(plan) \in Nat \ {0} /\ DOMAIN plan = 1..Len(plan)
    BY <2>2, HeadTail, LenProperties
  <2>4. Head(plan') = plan'[1] /\ plan'[1].op = "updateDocs"
    BY <2>2, <2>3
  <2> QED BY <2>1, <2>4 DEF Current
<1>2. CASE UpdatesDone \/ WatchIndex \/ StartIndexing
  <2>1. /\ Current("updateDocs") \/ Current("watchIndex") \/ Current("startIndexing")
        /\ plan' = Tail(plan) /\ UNCHANGED drv
    BY <1>2 DEF UpdatesDone, WatchIndex, StartIndexing
  <2> QED BY <2>1, FreshTail
<1>3. CASE BeginCreate
  BY <1>3, BeginCreateEffect DEF Settled
<1>4. ASSUME NEW u \in Uri, AdoptDoc(u)
      PROVE  drv'.open = drv.open /\ new'.open \cup adopt' = drv'.open
  <2>1. /\ new'.open = new.open \cup {u} /\ u \in adopt /\ adopt' = adopt \ {u}
        /\ Current("adopt") /\ drv' = drv
    BY <1>4, AdoptDocEffect DEF AdoptDoc
  <2> QED BY <2>1
<1>5. CASE FinishCreate
  <2>1. drv'.open = new.open /\ adopt = {} /\ Current("adopt") /\ plan' = Tail(plan)
    BY <1>5, FinishCreateEffect DEF FinishCreate
  <2> QED BY <2>1, FreshTail
<1> QED BY <1>1, <1>2, <1>3, <1>4, <1>5, NeverAbandoned DEF Continue

LEMMA OpenNext ==
  ASSUME Settled, OpenInv, [Next]_vars
  PROVE  OpenInv'
<1>1. PICK h : History(h, inbox, editor) /\ \A u \in Uri : u \in drv.open <=> h[0][u] # None
  BY DEF OpenInv
<1>2. CASE Input \/ Deliver
  <2>1. PICK g : History(g, inbox', editor') /\ g[0] = h[0]
    BY <1>1, <1>2, OutsideKeepsHistory DEF Settled
  <2>2. UNCHANGED <<plan, drv, new, adopt>>
    BY <1>2, OutsideInbox DEF NoServerStep
  <2> QED BY <1>1, <2>1, <2>2 DEF OpenInv, Current
<1>3. CASE Handle
  <2>1. /\ inbox \in Seq(Message) /\ inbox # <<>> /\ inbox' = Tail(inbox) /\ editor' = editor
    BY <1>3, ServerInbox DEF Settled, DriverInv, TypeOK, outside
  <2>2. /\ Sensible(h[0], Head(inbox)) /\ h[0] \in [Uri -> Text \cup {None}]
        /\ \E g : History(g, Tail(inbox), editor) /\ g[0] = Played(h[0], Head(inbox))
    BY <1>1, <2>1, HistoryTake
  <2>3. \A u \in Uri : u \in drv'.open <=> Played(h[0], Head(inbox))[u] # None
    BY <1>1, <1>3, <2>2, HandleOpens
  <2>4. PICK g : History(g, Tail(inbox), editor) /\ g[0] = Played(h[0], Head(inbox))
    BY <2>2
  <2>5. History(g, inbox', editor') /\ \A u \in Uri : u \in drv'.open <=> g[0][u] # None
    BY <2>1, <2>3, <2>4
  <2>6. ~Current("adopt")'
    BY <1>3, HandlePlans
  <2> QED BY <2>5, <2>6 DEF OpenInv
<1>4. CASE Continue
  <2>1. drv'.open = drv.open /\ (Current("adopt")' => new'.open \cup adopt' = drv'.open)
    BY <1>4, ContinueOpens DEF OpenInv
  <2>2. UNCHANGED <<inbox, editor>>
    BY <1>4, ServerInbox DEF outside
  <2> QED BY <1>1, <2>1, <2>2 DEF OpenInv
<1>5. CASE UNCHANGED vars
  BY <1>5 DEF vars, OpenInv, Current
<1> QED BY <1>2, <1>3, <1>4, <1>5 DEF Next

\* As long as no tool deletes files, m_openDocs is the set of documents open in the
\* editor once the server has caught up, across driver replacement and reloads.
THEOREM OpenDocsFollowEditor ==
  ASSUME FilesStay
  PROVE  Spec => []OpenTracksClient
<1>1. Init => OpenInv
  <2> SUFFICES ASSUME Init PROVE OpenInv
    OBVIOUS
  <2> DEFINE h == [i \in {0} |-> editor]
  <2>1. editor \in [Uri -> Text \cup {None}] /\ (\A u \in Uri : editor[u] = None) /\ inbox = <<>>
        /\ drv.open = {}
    BY DEF Init, EmptyDriver
  <2>2. h \in [0..0 -> [Uri -> Text \cup {None}]] /\ h[0] = editor
    <3>1. 0..0 = {0}
      OBVIOUS
    <3> QED BY <2>1, <3>1
  <2> HIDE DEF h
  <2>3. History(h, inbox, editor)
    BY <2>1, <2>2 DEF History
  <2>4. ~Current("adopt")
    BY DEF Init, create, Current
  <2> QED BY <2>1, <2>2, <2>3, <2>4 DEF OpenInv
<1>2. Settled /\ OpenInv => OpenTracksClient
  <2> SUFFICES ASSUME Settled, OpenInv, Quiet PROVE drv.open = {u \in Uri : editor[u] # None}
    BY DEF OpenTracksClient
  <2>1. PICK h : History(h, inbox, editor) /\ \A u \in Uri : u \in drv.open <=> h[0][u] # None
    BY DEF OpenInv
  <2>2. Len(inbox) = 0
    BY DEF Quiet
  <2>3. h[0] = editor
    BY <2>1, <2>2 DEF History
  <2>4. drv.open \subseteq Uri
    BY DEF Settled, DriverInv, TypeOK, DriverType
  <2> QED BY <2>1, <2>3, <2>4
<1>3. Settled /\ [Next]_vars => Settled'
  BY SettledNext
<1>4. Settled /\ OpenInv /\ [Next]_vars => OpenInv'
  BY OpenNext
<1> QED BY <1>1, <1>2, <1>3, <1>4, SettledInit, PTL DEF Spec

-----------------------------------------------------------------------------
(* The buffers follow the editor.                                           *)

\* Nothing reports files to the server.
Unwatched ==
  watch = {} /\ reloadDue = FALSE /\ \A i \in 1..Len(inbox) : Direct(inbox[i])

LEMMA UnwatchedOutside ==
  ASSUME NoReread, DriverInv, Unwatched, Input \/ Deliver
  PROVE  Unwatched'
<1>t. editor \in [Uri -> Text \cup {None}] /\ disk \in [Uri -> Text \cup {None}] /\ inbox \in Seq(Message)
  BY DEF DriverInv, TypeOK
<1>p. watch = {} /\ reloadDue = FALSE /\ \A i \in 1..Len(inbox) : Direct(inbox[i])
  BY DEF Unwatched
<1>s. ASSUME NEW msg \in Message, Direct(msg), Send(msg)
      PROVE  \A i \in 1..Len(inbox') : Direct(inbox'[i])
  <2>1. inbox' = Append(inbox, msg)
    BY <1>s DEF Send
  <2>2. /\ Len(inbox) \in Nat /\ Len(inbox') = Len(inbox) + 1 /\ inbox'[Len(inbox) + 1] = msg
        /\ \A i \in 1..Len(inbox) : inbox'[i] = inbox[i]
    BY <1>t, <2>1, Appended
  <2> QED BY <1>p, <1>s, <2>2
<1>w. ASSUME NEW u \in Uri, NEW kind, WatchedAs(u, kind)
      PROVE  watch' = {}
  BY <1>p, <1>w DEF WatchedAs, NoReread
<1> DEFINE Goal == watch' = {} /\ reloadDue' = FALSE /\ \A i \in 1..Len(inbox') : Direct(inbox'[i])
<1>1. ASSUME NEW u \in Uri, EditorOpen(u) PROVE Goal
  <2>1. [m |-> "didOpen", uri |-> u, text |-> disk[u]] \in Message
    BY <1>1, <1>t DEF EditorOpen, Message
  <2> QED BY <1>1, <1>p, <1>s, <2>1 DEF EditorOpen, Direct
<1>2. ASSUME NEW u \in Uri, EditorSave(u) PROVE Goal
  <2>1. [m |-> "didSave", uri |-> u, text |-> editor[u]] \in Message
    BY <1>2, <1>t DEF EditorSave, Message
  <2> QED BY <1>2, <1>p, <1>s, <1>w, <2>1 DEF EditorSave, Direct
<1>3. ASSUME NEW u \in Uri, EditorClose(u) PROVE Goal
  <2>1. [m |-> "didClose", uri |-> u] \in Message
    BY DEF Message
  <2> QED BY <1>3, <1>p, <1>s, <2>1 DEF EditorClose, Direct
<1>4. ASSUME NEW u \in Uri, NEW t \in Text, EditorType(u, t) PROVE Goal
  <2>1. [m |-> "didChange", uri |-> u, from |-> editor[u], to |-> t] \in Message
    BY <1>4, <1>t DEF EditorType, Message
  <2> QED BY <1>4, <1>p, <1>s, <2>1 DEF EditorType, Direct
<1>5. ASSUME EditorCommand PROVE Goal
  <2>1. PICK u \in Uri : Send([m |-> "setTopLevel", uri |-> u])
    BY <1>5 DEF EditorCommand, NoReread
  <2>2. [m |-> "setTopLevel", uri |-> u] \in Message
    BY DEF Message
  <2> QED BY <1>5, <1>p, <1>s, <2>1, <2>2 DEF EditorCommand, Direct
<1>6. ASSUME NEW u \in Uri, NEW t \in Text, ToolWrite(u, t) PROVE Goal
  BY <1>6, <1>p, <1>w DEF ToolWrite
<1>7. ASSUME NEW u \in Uri, ToolDelete(u) PROVE Goal
  BY <1>7, <1>p, <1>w DEF ToolDelete
<1>8. ASSUME NEW f \in BuildFile \cup {None}, ToolConfig(f) PROVE Goal
  BY <1>8 DEF ToolConfig, NoReread
<1>9. ASSUME NEW changes \in SUBSET watch, WatcherDeliver(changes) PROVE Goal
  BY <1>9, <1>p DEF WatcherDeliver
<1>10. ASSUME ConfigDeliver PROVE Goal
  BY <1>10, <1>p DEF ConfigDeliver
<1>11. Goal
  BY <1>1, <1>2, <1>3, <1>4, <1>5, <1>6, <1>7, <1>8, <1>9, <1>10 DEF Input, Deliver
<1> QED BY <1>11 DEF Unwatched

LEMMA UnwatchedServer ==
  ASSUME DriverInv, Unwatched, Handle \/ Continue
  PROVE  Unwatched'
<1>1. CASE Handle
  <2>1. /\ inbox # <<>> /\ inbox' = Tail(inbox) /\ UNCHANGED <<watch, reloadDue>>
        /\ inbox \in Seq(Message)
    BY <1>1, ServerInbox DEF outside, DriverInv, TypeOK
  <2>2. /\ Len(inbox) \in Nat \ {0} /\ Len(inbox') = Len(inbox) - 1
        /\ \A i \in 1..Len(inbox') : inbox'[i] = inbox[i + 1]
    BY <2>1, HeadTail
  <2>3. \A i \in 1..Len(inbox') : Direct(inbox'[i])
    BY <2>2 DEF Unwatched
  <2> QED BY <2>1, <2>3 DEF Unwatched
<1>2. CASE Continue
  BY <1>2, ServerInbox DEF outside, Unwatched
<1> QED BY <1>1, <1>2

\* A handler that gives document u the buffer b: that and every other buffer stays,
\* whether the search for dependencies throws or not.
LEMMA TextUpdateKeeps ==
  ASSUME NEW d, NEW u \in Uri, NEW b \in Buffer, NEW type, NEW opened,
         Sound(d, published), disk \in [Uri -> Text \cup {None}],
         RunUpdate(SetText(d, u, b), u, type, opened)
  PROVE  drv'.docs[u] = b /\ \A v \in Uri : v # u /\ d.docs[v] # None => drv'.docs[v] = d.docs[v]
<1> DEFINE s == SetText(d, u, b)
<1>1. Sound(s, published) /\ s.docs[u] = b /\ b # None
  BY SetTextSound, ConstantsAssumption DEF Buffer
<1>2. \A v \in Uri : v # u => s.docs[v] = d.docs[v]
  BY DEF SetText, Sound, DriverType
<1>3. RunUpdate(s, u, type, opened)
  OBVIOUS
<1> HIDE DEF s
<1>4. \A v \in Uri : s.docs[v] # None => drv'.docs[v] = s.docs[v]
  BY <1>1, <1>3, RunUpdateKeeps
<1> QED BY <1>1, <1>2, <1>4

\* setTopLevel loads documents and drops none.
LEMMA SetTopLevelKeeps ==
  ASSUME HandleSetTopLevel, Sound(drv, published), disk \in [Uri -> Text \cup {None}]
  PROVE  \A v \in Uri : drv.docs[v] # None => drv'.docs[v] = drv.docs[v]
<1> DEFINE u == Head(inbox).uri
           d == Load(drv, {u})
           design == {u} \cup {v \in Reach(d, u, Uri) : Read(d, v) # None}
           loaded == Load(d, design)
           trees == [v \in Uri |-> IF v \in design THEN loaded.docs[v] ELSE None]
           dc == report(report(loaded.dc, Issued("parse", trees)), Issued("design", trees))
           r == [loaded EXCEPT !.comp = trees, !.dc = dc]
<1>1. drv' \in {drv, d, Pushed(r)}
  BY DEF HandleSetTopLevel, Leaves
<1> HIDE DEF u
<1>2. d \in DriverType /\ \A v \in Uri : drv.docs[v] # None => d.docs[v] = drv.docs[v]
  BY LoadKeeps DEF Sound
<1> HIDE DEF d, design
<1>3. loaded \in DriverType /\ \A v \in Uri : d.docs[v] # None => loaded.docs[v] = d.docs[v]
  BY <1>2, LoadKeeps
<1> HIDE DEF loaded, trees, dc
<1>4. Pushed(r).docs = loaded.docs
  BY <1>3 DEF Pushed, DriverType
<1> HIDE DEF r
<1> QED BY <1>1, <1>2, <1>3, <1>4

\* The buffers after a handler are what the editor showed when its message was sent.
LEMMA HandleMirrors ==
  ASSUME DriverInv, Unwatched, Handle, NEW v \in [Uri -> Text \cup {None}],
         Sensible(v, Head(inbox)), \A u \in Uri : v[u] # None => drv.docs[u] = v[u]
  PROVE  Idle' /\ \A u \in Uri : Played(v, Head(inbox))[u] # None
                                   => drv'.docs[u] = Played(v, Head(inbox))[u]
<1> DEFINE msg == Head(inbox)
           uri == msg.uri
<1>1. inbox \in Seq(Message) /\ inbox # <<>> /\ Idle
  BY ServerInbox DEF DriverInv, TypeOK
<1>2. msg \in Message /\ None \notin Text /\ msg = inbox[1] /\ 1 \in 1..Len(inbox)
  BY <1>1, HeadTail, ConstantsAssumption
<1>3. msg.m \notin {"watchedFiles", "reload", "setBuildFile"}
  BY <1>2 DEF Unwatched, Direct
<1>4. Sound(drv, published) /\ disk \in [Uri -> Text \cup {None}] /\ Text \subseteq Buffer
  BY <1>1, IdleFacts DEF DriverInv, TypeOK, Buffer
<1>5. CASE HandleDidOpen
  <2>1. msg.m = "didOpen" /\ plan' = plan
    BY <1>5 DEF HandleDidOpen, Receive
  <2>2. /\ uri \in Uri /\ msg.text \in Text
        /\ \A u \in Uri : Played(v, msg)[u] = IF u = uri THEN msg.text ELSE v[u]
    BY <1>2, <2>1, PlayedFacts, MessageFields
  <2>3. \/ drv.docs[uri] = msg.text /\ drv' = [drv EXCEPT !.open = drv.open \cup {uri}]
        \/ RunUpdate(SetText(drv, uri, msg.text), uri, "open", {uri})
    BY <1>5 DEF HandleDidOpen, Leaves
  <2> HIDE DEF msg, uri
  <2>4. drv'.docs[uri] = msg.text
        /\ \A u \in Uri : u # uri /\ drv.docs[u] # None => drv'.docs[u] = drv.docs[u]
    <3>1. CASE drv.docs[uri] = msg.text /\ drv' = [drv EXCEPT !.open = drv.open \cup {uri}]
      BY <1>4, <3>1 DEF Sound, DriverType
    <3>2. CASE RunUpdate(SetText(drv, uri, msg.text), uri, "open", {uri})
      <4> DEFINE t == msg.text
      <4>1. t \in Buffer /\ RunUpdate(SetText(drv, uri, t), uri, "open", {uri})
        BY <1>4, <2>2, <3>2
      <4> HIDE DEF t
      <4>2. drv'.docs[uri] = t
            /\ \A u \in Uri : u # uri /\ drv.docs[u] # None => drv'.docs[u] = drv.docs[u]
        BY <1>4, <2>2, <4>1, TextUpdateKeeps
      <4> QED BY <4>2 DEF t
    <3> QED BY <2>3, <3>1, <3>2
  <2>5. \A u \in Uri : Played(v, msg)[u] # None => drv'.docs[u] = Played(v, msg)[u]
    BY <2>2, <2>4
  <2> QED BY <1>1, <2>1, <2>5 DEF Idle, msg
<1>6. CASE HandleDidChange
  <2> DEFINE d == Load(drv, {uri})
  <2>1. msg.m = "didChange" /\ plan' = plan /\ v[uri] = msg.from
    BY <1>6 DEF HandleDidChange, Receive, Sensible
  <2>2. /\ uri \in Uri /\ msg.from \in Text /\ msg.to \in Text
        /\ \A u \in Uri : Played(v, msg)[u] = IF u = uri THEN msg.to ELSE v[u]
    BY <1>2, <2>1, PlayedFacts, MessageFields
  <2>3. drv.docs[uri] = msg.from /\ msg.from # None
    BY <1>2, <2>1, <2>2
  <2>4. Sound(d, published) /\ \A u \in Uri : drv.docs[u] # None => d.docs[u] = drv.docs[u]
    BY <1>4, LoadSound, LoadKeeps DEF Sound
  <2>5. d.docs[uri] = msg.from /\ d.docs[uri] # None
    BY <2>2, <2>3, <2>4
  <2>6. RunUpdate(SetText(d, uri, msg.to), uri, "change", {})
    BY <1>6, <2>5 DEF HandleDidChange
  <2> DEFINE t == msg.to
  <2>7. t \in Buffer /\ RunUpdate(SetText(d, uri, t), uri, "change", {})
    BY <1>4, <2>2, <2>6
  <2> HIDE DEF msg, uri, d, t
  <2>8. drv'.docs[uri] = t
        /\ \A u \in Uri : u # uri /\ d.docs[u] # None => drv'.docs[u] = d.docs[u]
    BY <1>4, <2>2, <2>4, <2>7, TextUpdateKeeps
  <2>9. \A u \in Uri : Played(v, msg)[u] # None => drv'.docs[u] = Played(v, msg)[u]
    BY <2>2, <2>4, <2>8 DEF t
  <2> QED BY <1>1, <2>1, <2>9 DEF Idle, msg
<1>7. CASE HandleDidSave
  <2>1. msg.m = "didSave" /\ plan' = plan /\ v[uri] = msg.text
    BY <1>7 DEF HandleDidSave, Receive, Sensible
  <2>2. uri \in Uri /\ msg.text \in Text /\ Played(v, msg) = v
    BY <1>2, <2>1, PlayedFacts, MessageFields
  <2>3. drv' = drv \/ RunUpdate(SetText(drv, uri, msg.text), uri, "save", {})
    BY <1>7 DEF HandleDidSave, Leaves
  <2> HIDE DEF msg, uri
  <2>4. CASE drv' = drv
    BY <1>1, <2>1, <2>2, <2>4 DEF Idle, msg
  <2>5. CASE RunUpdate(SetText(drv, uri, msg.text), uri, "save", {})
    <3> DEFINE t == msg.text
    <3>1. t \in Buffer /\ RunUpdate(SetText(drv, uri, t), uri, "save", {})
      BY <1>4, <2>2, <2>5
    <3> HIDE DEF t
    <3>2. drv'.docs[uri] = t
          /\ \A u \in Uri : u # uri /\ drv.docs[u] # None => drv'.docs[u] = drv.docs[u]
      BY <1>4, <2>2, <3>1, TextUpdateKeeps
    <3>3. \A u \in Uri : v[u] # None => drv'.docs[u] = v[u]
      BY <2>1, <3>2 DEF t
    <3> QED BY <1>1, <2>1, <2>2, <3>3 DEF Idle, msg
  <2> QED BY <2>3, <2>4, <2>5
<1>8. CASE HandleDidClose
  <2>1. msg.m = "didClose" /\ plan' = plan /\ drv' = closeDocuments(drv, {uri})
    BY <1>8 DEF HandleDidClose, Receive, Leaves
  <2>2. uri \in Uri /\ \A u \in Uri : Played(v, msg)[u] = IF u = uri THEN None ELSE v[u]
    BY <1>2, <2>1, PlayedFacts, MessageFields
  <2> HIDE DEF msg, uri
  <2>3. drv'.docs = drv.docs
    BY <1>4, <2>1 DEF closeDocuments, Sound, DriverType
  <2>4. \A u \in Uri : Played(v, msg)[u] # None => drv'.docs[u] = Played(v, msg)[u]
    BY <2>2, <2>3
  <2> QED BY <1>1, <2>1, <2>4 DEF Idle, msg
<1>9. CASE HandleSetTopLevel
  <2>1. msg.m = "setTopLevel" /\ plan' = plan
    BY <1>9 DEF HandleSetTopLevel, Receive
  <2>2. \A u \in Uri : Played(v, msg)[u] = v[u]
    BY <1>2, <2>1, PlayedFacts
  <2>3. \A u \in Uri : drv.docs[u] # None => drv'.docs[u] = drv.docs[u]
    BY <1>4, <1>9, SetTopLevelKeeps
  <2> HIDE DEF msg
  <2>4. \A u \in Uri : Played(v, msg)[u] # None => drv'.docs[u] = Played(v, msg)[u]
    BY <2>2, <2>3
  <2> QED BY <1>1, <2>1, <2>4 DEF Idle, msg
<1>10. ~(HandleWatchedFiles \/ HandleSetBuildFile \/ HandleReload)
  BY <1>3 DEF HandleWatchedFiles, HandleSetBuildFile, HandleReload, Receive
<1> QED BY <1>5, <1>6, <1>7, <1>8, <1>9, <1>10 DEF Handle

LEMMA MirrorNext ==
  ASSUME NoReread, DriverInv, MirrorInv, [Next]_vars
  PROVE  MirrorInv'
<1>1. Unwatched
  BY DEF MirrorInv, Unwatched
<1>2. PICK h : /\ History(h, inbox, editor)
               /\ \A u \in Uri : h[0][u] # None => drv.docs[u] = h[0][u]
               /\ plan # <<>> => \A u \in Uri : h[0][u] = None
  BY DEF MirrorInv
<1>3. CASE Input \/ Deliver
  <2>1. PICK g : History(g, inbox', editor') /\ g[0] = h[0]
    BY <1>2, <1>3, OutsideKeepsHistory
  <2>2. UNCHANGED <<plan, drv>>
    BY <1>3, OutsideInbox DEF NoServerStep
  <2>3. Unwatched'
    BY <1>1, <1>3, UnwatchedOutside
  <2>4. /\ History(g, inbox', editor') /\ \A u \in Uri : g[0][u] # None => drv'.docs[u] = g[0][u]
        /\ plan' # <<>> => \A u \in Uri : g[0][u] = None
    BY <1>2, <2>1, <2>2
  <2> QED BY <2>3, <2>4 DEF MirrorInv, Unwatched
<1>4. CASE Handle
  <2>1. /\ inbox \in Seq(Message) /\ inbox # <<>> /\ inbox' = Tail(inbox) /\ editor' = editor
    BY <1>4, ServerInbox DEF DriverInv, TypeOK, outside
  <2>2. /\ Sensible(h[0], Head(inbox)) /\ h[0] \in [Uri -> Text \cup {None}]
        /\ \E g : History(g, Tail(inbox), editor) /\ g[0] = Played(h[0], Head(inbox))
    BY <1>2, <2>1, HistoryTake
  <2>3. Idle' /\ \A u \in Uri : Played(h[0], Head(inbox))[u] # None
                                  => drv'.docs[u] = Played(h[0], Head(inbox))[u]
    BY <1>1, <1>2, <1>4, <2>2, HandleMirrors
  <2>4. PICK g : History(g, Tail(inbox), editor) /\ g[0] = Played(h[0], Head(inbox))
    BY <2>2
  <2>5. /\ History(g, inbox', editor') /\ \A u \in Uri : g[0][u] # None => drv'.docs[u] = g[0][u]
        /\ plan' = <<>>
    BY <2>1, <2>3, <2>4 DEF Idle
  <2>6. Unwatched'
    BY <1>1, <1>4, UnwatchedServer
  <2> QED BY <2>5, <2>6 DEF MirrorInv, Unwatched
<1>5. CASE Continue
  <2>1. plan # <<>>
    BY <1>5 DEF Continue, UpdateReloaded, AdoptDoc, AbandonCreate, UpdatesDone, WatchIndex,
       StartIndexing, BeginCreate, FinishCreate, Current
  <2>2. UNCHANGED <<inbox, editor>>
    BY <1>5, ServerInbox DEF outside
  <2>3. Unwatched'
    BY <1>1, <1>5, UnwatchedServer
  <2>4. /\ History(h, inbox', editor') /\ \A u \in Uri : h[0][u] # None => drv'.docs[u] = h[0][u]
        /\ plan' # <<>> => \A u \in Uri : h[0][u] = None
    BY <1>2, <2>1, <2>2
  <2> QED BY <2>3, <2>4 DEF MirrorInv, Unwatched
<1>6. CASE UNCHANGED vars
  BY <1>6 DEF vars, MirrorInv
<1> QED BY <1>3, <1>4, <1>5, <1>6 DEF Next

\* When the server neither re-reads files nor replaces its driver, its buffers are the
\* editor's texts once it has caught up: no order of opening, typing, saving, closing
\* and setTopLevel, no change or deletion of the files behind its back and no handler
\* cut short makes it lose an edit.
THEOREM BuffersFollowEditor ==
  ASSUME NoReread
  PROVE  Spec => []Mirror
<1>1. Init => MirrorInv
  <2> SUFFICES ASSUME Init PROVE MirrorInv
    OBVIOUS
  <2> DEFINE h == [i \in {0} |-> editor]
  <2>1. /\ editor \in [Uri -> Text \cup {None}] /\ (\A u \in Uri : editor[u] = None) /\ inbox = <<>>
        /\ watch = {} /\ reloadDue = FALSE
    BY DEF Init
  <2>2. h \in [0..0 -> [Uri -> Text \cup {None}]] /\ h[0] = editor
    <3>1. 0..0 = {0}
      OBVIOUS
    <3> QED BY <2>1, <3>1
  <2> HIDE DEF h
  <2>3. History(h, inbox, editor)
    BY <2>1, <2>2 DEF History
  <2> QED BY <2>1, <2>2, <2>3 DEF MirrorInv
<1>2. DriverInv /\ MirrorInv => Mirror
  <2> SUFFICES ASSUME MirrorInv, Quiet, NEW u \in Uri, editor[u] # None
               PROVE  drv.docs[u] = editor[u]
    BY DEF Mirror
  <2>1. PICK h : History(h, inbox, editor) /\ \A w \in Uri : h[0][w] # None => drv.docs[w] = h[0][w]
    BY DEF MirrorInv
  <2>2. Len(inbox) = 0
    BY DEF Quiet
  <2>3. h[0] = editor
    BY <2>1, <2>2 DEF History
  <2> QED BY <2>1, <2>3
<1>3. DriverInv /\ MirrorInv /\ [Next]_vars => MirrorInv'
  BY MirrorNext
<1> QED BY <1>1, <1>2, <1>3, InitInv, NextInv, PTL DEF Spec
=============================================================================
