------------------------- MODULE ServerDriverProofs -------------------------
(***************************************************************************)
(* Theorems about ServerDriver for every workspace, every set of texts and *)
(* build files, and every behaviour of editor, tools and watcher.          *)
(***************************************************************************)
EXTENDS ServerDriver, DiagClientProofs

-----------------------------------------------------------------------------
(* What the operators on a driver return and preserve.                      *)

\* A driver and a view of it that a handler may start from or leave behind:
\* well-typed, faithful, and with a buffer for every open document.
Sound(d, view) ==
  /\ d \in DriverType
  /\ view \in [Uri -> Seq(Diag)]
  /\ Shows(d.dc, view)
  /\ \A v \in Uri : v \in d.open => d.docs[v] # None

\* Diagnostics are issued only for texts, by one of the three sources.
LEMMA IssuedType ==
  ASSUME NEW by \in {"shallow", "parse", "design"}, NEW buffers \in [Uri -> MaybeBuf]
  PROVE  Issued(by, buffers) \in [Uri -> Seq(Diag)]
<1>1. ASSUME NEW u \in Uri PROVE Issued(by, buffers)[u] \in Seq(Diag)
  <2>1. CASE buffers[u] \in Broken
    <3>1. [by |-> by, of |-> buffers[u]] \in Diag
      BY <2>1, ConstantsAssumption DEF Diag, Buffer
    <3>2. <<[by |-> by, of |-> buffers[u]]>> \in Seq(Diag)
      BY <3>1
    <3> QED BY <2>1, <3>2 DEF Issued
  <2>2. CASE buffers[u] \notin Broken
    BY <2>2 DEF Issued
  <2> QED BY <2>1, <2>2
<1> QED BY <1>1 DEF Issued

\* A read yields a buffer or None.
LEMMA ReadType ==
  ASSUME NEW d \in DriverType, NEW u \in Uri, disk \in [Uri -> Text \cup {None}]
  PROVE  Read(d, u) \in MaybeBuf
BY DEF Read, DriverType, MaybeBuf, Buffer

\* Loading documents changes only the buffers of documents not loaded before.
LEMMA LoadKeeps ==
  ASSUME NEW d \in DriverType, NEW S, disk \in [Uri -> Text \cup {None}]
  PROVE  /\ Load(d, S) \in DriverType
         /\ Load(d, S).open = d.open /\ Load(d, S).comp = d.comp /\ Load(d, S).dc = d.dc
         /\ \A v \in Uri : d.docs[v] # None => Load(d, S).docs[v] = d.docs[v]
<1> DEFINE docs == [u \in Uri |-> IF u \in S THEN Read(d, u) ELSE d.docs[u]]
<1>1. docs \in [Uri -> MaybeBuf]
  BY ReadType DEF DriverType
<1>2. Load(d, S) = [d EXCEPT !.docs = docs]
  BY DEF Load
<1>3. \A v \in Uri : d.docs[v] # None => docs[v] = d.docs[v]
  BY DEF Read
<1> HIDE DEF docs
<1> QED BY <1>1, <1>2, <1>3 DEF DriverType

\* Loading documents keeps a driver sound.
LEMMA LoadSound ==
  ASSUME NEW d, NEW view, NEW S, Sound(d, view), disk \in [Uri -> Text \cup {None}]
  PROVE  Sound(Load(d, S), view)
BY LoadKeeps DEF Sound

\* Giving a document a buffer keeps a driver sound.
LEMMA SetTextSound ==
  ASSUME NEW d, NEW view, NEW u \in Uri, NEW b \in Buffer, Sound(d, view)
  PROVE  Sound(SetText(d, u, b), view) /\ SetText(d, u, b).docs[u] = b
<1>1. b # None /\ b \in MaybeBuf
  BY ConstantsAssumption DEF Buffer, MaybeBuf
<1>2. SetText(d, u, b) = [d EXCEPT !.docs = [d.docs EXCEPT ![u] = b]]
  BY DEF SetText, Sound, DriverType
<1>3. [d.docs EXCEPT ![u] = b] \in [Uri -> MaybeBuf]
  BY <1>1 DEF Sound, DriverType
<1>4. SetText(d, u, b) \in DriverType
  BY <1>2, <1>3 DEF Sound, DriverType
<1>5. /\ SetText(d, u, b).dc = d.dc /\ SetText(d, u, b).open = d.open
      /\ SetText(d, u, b).docs = [d.docs EXCEPT ![u] = b]
  BY <1>2 DEF Sound, DriverType
<1>6. SetText(d, u, b).docs[u] = b
  BY <1>5 DEF Sound, DriverType
<1>7. \A v \in Uri : v \in d.open => SetText(d, u, b).docs[v] # None
  BY <1>1, <1>5 DEF Sound, DriverType
<1> QED BY <1>4, <1>5, <1>6, <1>7 DEF Sound

\* Issuing parse and design diagnostics from a cleared client owes the editor
\* only marked files.
LEMMA FullDiagnosticsShows ==
  ASSUME NEW d \in DriverType, NEW view, Shows(d.dc, view)
  PROVE  FullDiagnostics(d) \in ClientType(Diag) /\ Shows(FullDiagnostics(d), view)
<1>1. d.dc \in ClientType(Diag) /\ d.docs \in [Uri -> MaybeBuf] /\ d.comp \in [Uri -> MaybeBuf]
  BY DEF DriverType, ClientType
<1>2. clearAll(d.dc) \in ClientType(Diag) /\ Shows(clearAll(d.dc), view)
  BY <1>1, ClearAllShows
<1>3. Issued("parse", d.docs) \in [Uri -> Seq(Diag)] /\ Issued("design", d.comp) \in [Uri -> Seq(Diag)]
  BY <1>1, IssuedType
<1> DEFINE parsed == report(clearAll(d.dc), Issued("parse", d.docs))
<1>4. parsed \in ClientType(Diag) /\ Shows(parsed, view)
  BY <1>2, <1>3, ReportShows
<1> HIDE DEF parsed
<1>5. report(parsed, Issued("design", d.comp)) \in ClientType(Diag)
      /\ Shows(report(parsed, Issued("design", d.comp)), view)
  BY <1>3, <1>4, ReportShows
<1> QED BY <1>5 DEF FullDiagnostics, parsed

\* Replacing the diagnostic client of a driver by one that owes no more.
LEMMA WithClient ==
  ASSUME NEW d, NEW view, NEW dc \in ClientType(Diag), Sound(d, view), Shows(dc, view)
  PROVE  /\ Sound([d EXCEPT !.dc = dc], view)
         /\ [d EXCEPT !.dc = dc].docs = d.docs
         /\ [d EXCEPT !.dc = dc].dc = dc
         /\ [d EXCEPT !.dc = dc].open = d.open
         /\ [d EXCEPT !.dc = dc].comp = d.comp
<1>1. /\ [d EXCEPT !.dc = dc] \in DriverType
      /\ [d EXCEPT !.dc = dc].docs = d.docs
      /\ [d EXCEPT !.dc = dc].dc = dc
      /\ [d EXCEPT !.dc = dc].open = d.open
      /\ [d EXCEPT !.dc = dc].comp = d.comp
  BY DEF Sound, DriverType, ClientType
<1> QED BY <1>1 DEF Sound

\* Refreshing the design keeps a driver sound.
LEMMA RefreshSound ==
  ASSUME NEW d, NEW view, Sound(d, view)
  PROVE  Sound(refresh(d), view) /\ refresh(d).docs = d.docs /\ refresh(d).open = d.open
<1> DEFINE comp == [u \in Uri |-> IF d.comp[u] = None THEN None ELSE d.docs[u]]
<1>1. comp \in [Uri -> MaybeBuf]
  BY DEF Sound, DriverType, MaybeBuf
<1>2. refresh(d) = [d EXCEPT !.comp = comp]
  BY DEF refresh
<1> HIDE DEF comp
<1> QED BY <1>1, <1>2 DEF Sound, DriverType

\* Issuing everything anew keeps a driver sound.
LEMMA FullDiagnosticsSound ==
  ASSUME NEW d, NEW view, Sound(d, view)
  PROVE  /\ Sound([d EXCEPT !.dc = FullDiagnostics(d)], view)
         /\ [d EXCEPT !.dc = FullDiagnostics(d)].docs = d.docs
         /\ [d EXCEPT !.dc = FullDiagnostics(d)].open = d.open
<1>1. FullDiagnostics(d) \in ClientType(Diag) /\ Shows(FullDiagnostics(d), view)
  BY FullDiagnosticsShows DEF Sound
<1> QED BY <1>1, WithClient

\* updateDoc keeps a driver sound and drops no buffer.
LEMMA UpdateDocSound ==
  ASSUME NEW d, NEW view, NEW u \in Uri, NEW type, Sound(d, view),
         disk \in [Uri -> Text \cup {None}]
  PROVE  /\ Sound(updateDoc(d, u, type), view)
         /\ updateDoc(d, u, type).open = d.open
         /\ \A v \in Uri : d.docs[v] # None => updateDoc(d, u, type).docs[v] = d.docs[v]
<1> DEFINE loaded == Load(d, getDependentDocs(d, u))
           cleared == [loaded EXCEPT !.dc = clearUri(loaded.dc, u)]
<1>1. /\ Sound(loaded, view) /\ loaded.open = d.open
      /\ \A v \in Uri : d.docs[v] # None => loaded.docs[v] = d.docs[v]
  <2>1. d \in DriverType
    BY DEF Sound
  <2>2. /\ Load(d, getDependentDocs(d, u)).open = d.open
        /\ \A v \in Uri : d.docs[v] # None => Load(d, getDependentDocs(d, u)).docs[v] = d.docs[v]
    BY <2>1, LoadKeeps
  <2> QED BY <2>2, LoadSound
<1>2. loaded.dc \in ClientType(Diag) /\ loaded.docs \in [Uri -> MaybeBuf]
  <2> HIDE DEF loaded
  <2>1. loaded \in DriverType
    BY <1>1 DEF Sound
  <2> QED BY <2>1 DEF DriverType, ClientType
<1>3. updateDoc(d, u, type) =
        IF HasDesign(d) /\ type = "save"
          THEN [refresh(cleared) EXCEPT !.dc = FullDiagnostics(refresh(cleared))]
          ELSE [cleared EXCEPT !.dc =
                  report(cleared.dc, Issued("shallow", [NoDesign EXCEPT ![u] = loaded.docs[u]]))]
  BY DEF updateDoc
<1> HIDE DEF loaded
<1>4. clearUri(loaded.dc, u) \in ClientType(Diag) /\ Shows(clearUri(loaded.dc, u), view)
  BY <1>1, <1>2, ClearUriShows DEF Sound
<1>5. /\ Sound(cleared, view) /\ cleared.docs = loaded.docs /\ cleared.open = loaded.open
      /\ cleared.dc = clearUri(loaded.dc, u)
  BY <1>1, <1>4, WithClient
<1> HIDE DEF cleared
<1>6. CASE HasDesign(d) /\ type = "save"
  <2> DEFINE r == refresh(cleared)
  <2>1. Sound(r, view) /\ r.docs = cleared.docs /\ r.open = cleared.open
    BY <1>5, RefreshSound
  <2> HIDE DEF r
  <2>2. /\ Sound([r EXCEPT !.dc = FullDiagnostics(r)], view)
        /\ [r EXCEPT !.dc = FullDiagnostics(r)].docs = r.docs
        /\ [r EXCEPT !.dc = FullDiagnostics(r)].open = r.open
    BY <2>1, FullDiagnosticsSound
  <2>3. updateDoc(d, u, type) = [r EXCEPT !.dc = FullDiagnostics(r)]
    BY <1>3, <1>6 DEF r
  <2> QED BY <1>1, <1>5, <2>1, <2>2, <2>3
<1>7. CASE ~(HasDesign(d) /\ type = "save")
  <2> DEFINE own == [NoDesign EXCEPT ![u] = loaded.docs[u]]
             dc == report(cleared.dc, Issued("shallow", own))
  <2>1. own \in [Uri -> MaybeBuf]
    BY <1>2 DEF NoDesign, MaybeBuf
  <2>2. Issued("shallow", own) \in [Uri -> Seq(Diag)]
    BY <2>1, IssuedType
  <2>3. updateDoc(d, u, type) = [cleared EXCEPT !.dc = dc]
    BY <1>3, <1>7
  <2> HIDE DEF own
  <2>4. dc \in ClientType(Diag) /\ Shows(dc, view)
    BY <1>4, <1>5, <2>2, ReportShows DEF Sound
  <2> HIDE DEF dc
  <2> QED BY <1>1, <1>5, <2>3, <2>4, WithClient
<1> QED BY <1>6, <1>7

\* pushDiags makes the pushed view and the pushed driver agree.
LEMMA PushedSound ==
  ASSUME NEW d, NEW view, NEW u, Sound(d, view)
  PROVE  /\ Sound(Pushed(d), pushDiagsView(d.dc, view))
         /\ Sound(Pushed(d), pushPriorityView(d.dc, view, u))
         /\ Pushed(d).docs = d.docs /\ Pushed(d).open = d.open
<1>1. d.dc \in ClientType(Diag) /\ view \in [Uri -> Seq(Diag)] /\ Shows(d.dc, view)
  BY DEF Sound, DriverType, ClientType
<1>2. /\ pushDiags(d.dc) \in ClientType(Diag)
      /\ pushDiagsView(d.dc, view) \in [Uri -> Seq(Diag)]
      /\ Shows(pushDiags(d.dc), pushDiagsView(d.dc, view))
  BY <1>1, PushDiagsShows
<1>3. /\ pushPriorityView(d.dc, view, u) \in [Uri -> Seq(Diag)]
      /\ Shows(pushDiags(d.dc), pushPriorityView(d.dc, view, u))
  BY <1>1, PushPriorityShows
<1>4. Pushed(d) = [d EXCEPT !.dc = pushDiags(d.dc)]
  BY DEF Pushed
<1>5. /\ Pushed(d) \in DriverType
      /\ Pushed(d).docs = d.docs /\ Pushed(d).open = d.open
      /\ Pushed(d).dc = pushDiags(d.dc)
  BY <1>2, <1>4 DEF Sound, DriverType, ClientType
<1> QED BY <1>2, <1>3, <1>5 DEF Sound

\* Marking a loaded document open keeps a driver sound.
LEMMA MarkOpenSound ==
  ASSUME NEW d, NEW view, NEW opened \in SUBSET Uri, Sound(d, view),
         \A v \in opened : d.docs[v] # None
  PROVE  Sound([d EXCEPT !.open = d.open \cup opened], view)
<1>1. /\ [d EXCEPT !.open = d.open \cup opened] \in DriverType
      /\ [d EXCEPT !.open = d.open \cup opened].docs = d.docs
      /\ [d EXCEPT !.open = d.open \cup opened].dc = d.dc
      /\ [d EXCEPT !.open = d.open \cup opened].open = d.open \cup opened
  BY DEF Sound, DriverType
<1> QED BY <1>1 DEF Sound

\* A handler that ends with updateDoc leaves a sound driver, whether the search
\* for dependencies throws or not.
LEMMA RunUpdateSound ==
  ASSUME NEW d, NEW u \in Uri, NEW type, NEW opened \in SUBSET {u},
         Sound(d, published), \A v \in opened : d.docs[v] # None,
         disk \in [Uri -> Text \cup {None}],
         RunUpdate(d, u, type, opened)
  PROVE  Sound(drv', published') /\ UNCHANGED <<new, adopt, m_buildfile>> /\ UNCHANGED outside
<1>1. CASE ~Throws(d, u) /\ LET r == updateDoc(d, u, type)
                            IN  Leaves([Pushed(r) EXCEPT !.open = @ \cup opened],
                                       pushPriorityView(r.dc, published, u))
  <2> DEFINE r == updateDoc(d, u, type)
  <2>1. Sound(r, published) /\ \A v \in opened : r.docs[v] # None
    BY UpdateDocSound
  <2>2. /\ drv' = [Pushed(r) EXCEPT !.open = Pushed(r).open \cup opened]
        /\ published' = pushPriorityView(r.dc, published, u)
        /\ UNCHANGED <<new, adopt, m_buildfile>> /\ UNCHANGED outside
    BY <1>1 DEF Leaves
  <2> HIDE DEF r
  <2>3. /\ Sound(Pushed(r), pushPriorityView(r.dc, published, u))
        /\ \A v \in opened : Pushed(r).docs[v] # None
    BY <2>1, PushedSound
  <2> QED BY <2>2, <2>3, MarkOpenSound
<1>2. CASE Throws(d, u) /\ \E r \in Interrupted(d, u) : Leaves(r, published)
  <2>1. PICK r \in Interrupted(d, u) : Leaves(r, published)
    BY <1>2
  <2>2. PICK S : r = Load(d, S)
    BY <2>1 DEF Interrupted
  <2>3. Sound(r, published)
    BY <2>2, LoadSound
  <2> QED BY <2>1, <2>3 DEF Leaves
<1> QED BY <1>1, <1>2 DEF RunUpdate

\* Closing documents keeps a driver sound: their files are marked dirty.
LEMMA CloseSound ==
  ASSUME NEW d, NEW view, NEW S \in SUBSET Uri, Sound(d, view)
  PROVE  Sound(closeDocuments(d, S), view)
<1> DEFINE dc == IF HasDesign(d) THEN d.dc
                 ELSE [diags |-> [u \in Uri |-> IF u \in S THEN <<>> ELSE d.dc.diags[u]],
                       dirty |-> d.dc.dirty \cup S]
<1>1. d.dc \in ClientType(Diag) /\ Shows(d.dc, view)
  BY DEF Sound, DriverType, ClientType
<1>2. dc \in ClientType(Diag)
  BY <1>1 DEF ClientType
<1>3. Shows(dc, view)
  BY <1>1 DEF ClientType, Shows
<1>4. closeDocuments(d, S) = [d EXCEPT !.open = d.open \ S, !.dc = dc]
  BY DEF closeDocuments
<1> HIDE DEF dc
<1>5. /\ closeDocuments(d, S) \in DriverType
      /\ closeDocuments(d, S).docs = d.docs
      /\ closeDocuments(d, S).dc = dc
      /\ closeDocuments(d, S).open = d.open \ S
  BY <1>2, <1>4 DEF Sound, DriverType, ClientType
<1> QED BY <1>3, <1>5 DEF Sound

\* createCompilation keeps a driver sound.
LEMMA CreateCompilationSound ==
  ASSUME NEW d, NEW view, Sound(d, view)
  PROVE  Sound(createCompilation(d), view)
<1> DEFINE r == [d EXCEPT !.comp = d.docs]
<1>1. Sound(r, view)
  BY DEF Sound, DriverType
<1>2. createCompilation(d) = IF HasDesign(r) THEN [r EXCEPT !.dc = FullDiagnostics(r)] ELSE d
  BY DEF createCompilation
<1> HIDE DEF r
<1> QED BY <1>1, <1>2, FullDiagnosticsSound

\* A driver under construction shows nothing yet.
LEMMA EmptyDriverSound ==
  ASSUME NEW view \in [Uri -> Seq(Diag)], NEW docs \in [Uri -> MaybeBuf],
         \A u \in Uri : view[u] = <<>>
  PROVE  Sound([EmptyDriver EXCEPT !.docs = docs], view) /\ EmptyDriver \in DriverType
<1>1. EmptyDiags \in ClientType(Diag) /\ Shows(EmptyDiags, view)
  BY EmptyDiagsShows
<1>2. EmptyDriver \in DriverType
  BY <1>1 DEF EmptyDriver, DriverType, NoDesign, MaybeBuf, ClientType
<1>3. /\ [EmptyDriver EXCEPT !.docs = docs] \in DriverType
      /\ [EmptyDriver EXCEPT !.docs = docs].dc = EmptyDiags
      /\ [EmptyDriver EXCEPT !.docs = docs].open = {}
  BY <1>2 DEF EmptyDriver, DriverType
<1> QED BY <1>1, <1>2, <1>3 DEF Sound

-----------------------------------------------------------------------------
(* The inductive invariant.                                                 *)

\* A message's fields have the types its kind says.
LEMMA MessageFields ==
  ASSUME NEW msg \in Message
  PROVE  /\ msg.m \in {"didOpen", "didSave"} => msg.uri \in Uri /\ msg.text \in Text
         /\ msg.m = "didChange" => msg.uri \in Uri /\ msg.from \in Text /\ msg.to \in Text
         /\ msg.m \in {"didClose", "setTopLevel"} => msg.uri \in Uri
         /\ msg.m = "setBuildFile" => msg.build \in BuildFile \cup {None}
         /\ msg.m = "watchedFiles" => msg.changes \in SUBSET Event
BY DEF Message

\* So do a step's.
LEMMA StepFields ==
  ASSUME NEW st \in Step
  PROVE  /\ st.op \in {"create", "adopt"} => st.build \in BuildFile \cup {None}
         /\ st.op = "updateDocs" => st.uris \in SUBSET Uri
         /\ st.op = "watchIndex" => st.changes \in SUBSET Event
BY DEF Step

\* The first and the remaining elements of a non-empty sequence.
LEMMA HeadTail ==
  ASSUME NEW S, NEW s \in Seq(S), s # <<>>
  PROVE  /\ Head(s) \in S /\ Tail(s) \in Seq(S) /\ Head(s) = s[1] /\ Len(s) \in Nat \ {0}
         /\ Len(Tail(s)) = Len(s) - 1
         /\ \A i \in 1..Len(Tail(s)) : Tail(s)[i] = s[i + 1]
BY HeadTailProperties

\* The invariant says what the handlers need of the current driver ...
LEMMA InvSound ==
  ASSUME DriverInv
  PROVE  /\ ~Current("adopt") => Sound(drv, published)
         /\ Current("adopt") => Sound(new, published)
BY DEF DriverInv, TypeOK, PublishedFaithful, OpenDocsLoaded, Sound

\* ... and holds again after a step outside create that leaves a sound driver.
LEMMA SoundInv ==
  ASSUME TypeOK', ~Current("adopt")', Sound(drv', published'),
         new' = EmptyDriver, adopt' = {}, \A i \in 2..Len(plan') : plan'[i].op # "adopt"
  PROVE  DriverInv'
<1>1. new'.open = {}
  BY DEF EmptyDriver
<1>2. OpenDocsLoaded'
  BY <1>1 DEF OpenDocsLoaded, Sound
<1>3. PublishedFaithful'
  BY DEF PublishedFaithful, Sound
<1>4. CreateShape'
  BY DEF CreateShape
<1> QED BY <1>2, <1>3, <1>4 DEF DriverInv

\* At Idle nothing is under construction.
LEMMA IdleFacts ==
  ASSUME DriverInv, Idle
  PROVE  /\ ~Current("adopt") /\ new = EmptyDriver /\ adopt = {}
         /\ Sound(drv, published)
<1>1. ~Current("adopt")
  BY DEF Idle, Current
<1> QED BY <1>1, InvSound DEF DriverInv, CreateShape

\* The initial state satisfies the invariant.
LEMMA InitInv == Init => DriverInv
<1> SUFFICES ASSUME Init PROVE DriverInv
  OBVIOUS
<1>1. EmptyDriver \in DriverType /\ EmptyDriver.dc = EmptyDiags /\ EmptyDriver.open = {}
      /\ published \in [Uri -> Seq(Diag)] /\ \A u \in Uri : published[u] = <<>>
  <2>1. published \in [Uri -> Seq(Diag)] /\ \A u \in Uri : published[u] = <<>>
    BY DEF Init
  <2>2. NoDesign \in [Uri -> MaybeBuf]
    BY DEF NoDesign, MaybeBuf
  <2> QED BY <2>1, <2>2, EmptyDriverSound DEF EmptyDriver
<1>2. plan \in Seq(Step) /\ Len(plan) = 2 /\ plan[1].op = "create" /\ plan[2].op = "startIndexing"
      /\ plan # <<>> /\ Head(plan) = plan[1]
  BY DEF Init, create, Step
<1>3. TypeOK
  <2>1. inbox \in Seq(Message) /\ watch \subseteq Event /\ indexed \subseteq Uri /\ adopt \subseteq Uri
    BY DEF Init
  <2>2. editor \in [Uri -> Text \cup {None}] /\ disk \in [Uri -> Text \cup {None}]
    BY DEF Init
  <2>3. drv \in DriverType /\ new \in DriverType
    BY <1>1 DEF Init
  <2>4. ops \in 0..MaxOps
    BY ConstantsAssumption DEF Init
  <2> QED BY <1>1, <1>2, <2>1, <2>2, <2>3, <2>4 DEF Init, TypeOK
<1>4. ~Current("adopt")
  BY <1>2 DEF Current
<1>5. PublishedFaithful
  BY <1>1, <1>4 DEF Init, PublishedFaithful, Shows, EmptyDiags
<1>6. OpenDocsLoaded
  BY <1>1 DEF Init, OpenDocsLoaded
<1>7. CreateShape
  BY <1>2, <1>4 DEF Init, CreateShape
<1> QED BY <1>3, <1>5, <1>6, <1>7 DEF DriverInv

\* What editor, tools and watcher do leaves the server's state alone.
LEMMA OutsideInv ==
  ASSUME DriverInv, Input \/ Deliver
  PROVE  DriverInv'
<1> USE DEF Message, Event
<1>t. /\ editor \in [Uri -> Text \cup {None}] /\ disk \in [Uri -> Text \cup {None}]
      /\ inbox \in Seq(Message) /\ watch \subseteq Event
      /\ config \in BuildFile \cup {None} /\ reloadDue \in BOOLEAN /\ ops \in 0..MaxOps
  BY DEF DriverInv, TypeOK
<1>s. ASSUME NEW msg \in Message, Send(msg) PROVE inbox' \in Seq(Message)
  BY <1>t, <1>s, AppendProperties DEF Send
<1>p. ASSUME Spend PROVE ops' \in 0..MaxOps
  BY <1>t, <1>p, ConstantsAssumption DEF Spend
<1>w. ASSUME NEW u \in Uri, NEW kind \in {"Created", "Changed", "Deleted"}, WatchedAs(u, kind)
      PROVE  watch' \subseteq Event
  BY <1>t, <1>w DEF WatchedAs
<1> DEFINE Typed == /\ editor' \in [Uri -> Text \cup {None}] /\ disk' \in [Uri -> Text \cup {None}]
                    /\ inbox' \in Seq(Message) /\ watch' \subseteq Event
                    /\ config' \in BuildFile \cup {None} /\ reloadDue' \in BOOLEAN
                    /\ ops' \in 0..MaxOps
<1>1. ASSUME NEW u \in Uri, EditorOpen(u) PROVE Typed /\ NoServerStep
  <2>1. disk[u] \in Text
    BY <1>1, <1>t DEF EditorOpen
  <2>2. [m |-> "didOpen", uri |-> u, text |-> disk[u]] \in Message
    BY <2>1
  <2> QED BY <1>1, <1>t, <1>s, <1>p, <2>1, <2>2 DEF EditorOpen
<1>2. ASSUME NEW u \in Uri, EditorSave(u) PROVE Typed /\ NoServerStep
  <2>1. editor[u] \in Text
    BY <1>2, <1>t DEF EditorSave
  <2>2. [m |-> "didSave", uri |-> u, text |-> editor[u]] \in Message
    BY <2>1
  <2> QED BY <1>2, <1>t, <1>s, <1>p, <1>w, <2>1, <2>2 DEF EditorSave
<1>3. ASSUME NEW u \in Uri, EditorClose(u) PROVE Typed /\ NoServerStep
  <2>1. [m |-> "didClose", uri |-> u] \in Message
    OBVIOUS
  <2> QED BY <1>3, <1>t, <1>s, <1>p, <2>1 DEF EditorClose
<1>4. ASSUME NEW u \in Uri, NEW t \in Text, EditorType(u, t) PROVE Typed /\ NoServerStep
  <2>1. editor[u] \in Text
    BY <1>4, <1>t DEF EditorType
  <2>2. [m |-> "didChange", uri |-> u, from |-> editor[u], to |-> t] \in Message
    BY <2>1
  <2> QED BY <1>4, <1>t, <1>s, <1>p, <2>2 DEF EditorType
<1>5. ASSUME EditorCommand PROVE Typed /\ NoServerStep
  <2>1. \A f \in BuildFile \cup {None} : [m |-> "setBuildFile", build |-> f] \in Message
    OBVIOUS
  <2>2. \A u \in Uri : [m |-> "setTopLevel", uri |-> u] \in Message
    OBVIOUS
  <2>3. inbox' \in Seq(Message)
    BY <1>5, <1>s, <2>1, <2>2 DEF EditorCommand
  <2> QED BY <1>5, <1>t, <1>p, <2>3 DEF EditorCommand
<1>6. ASSUME NEW u \in Uri, NEW t \in Text, ToolWrite(u, t) PROVE Typed /\ NoServerStep
  BY <1>6, <1>t, <1>p, <1>w DEF ToolWrite
<1>7. ASSUME NEW u \in Uri, ToolDelete(u) PROVE Typed /\ NoServerStep
  BY <1>7, <1>t, <1>p, <1>w DEF ToolDelete
<1>8. ASSUME NEW f \in BuildFile \cup {None}, ToolConfig(f) PROVE Typed /\ NoServerStep
  BY <1>8, <1>t, <1>p DEF ToolConfig
<1>9. ASSUME NEW changes \in SUBSET watch, WatcherDeliver(changes) PROVE Typed /\ NoServerStep
  <2>1. [m |-> "watchedFiles", changes |-> changes] \in Message
    BY <1>t
  <2> QED BY <1>9, <1>t, <1>s, <2>1 DEF WatcherDeliver
<1>10. ASSUME ConfigDeliver PROVE Typed /\ NoServerStep
  <2>1. [m |-> "reload"] \in Message
    OBVIOUS
  <2> QED BY <1>10, <1>t, <1>s, <2>1 DEF ConfigDeliver
<1>11. Typed /\ NoServerStep
  BY <1>1, <1>2, <1>3, <1>4, <1>5, <1>6, <1>7, <1>8, <1>9, <1>10 DEF Input, Deliver
<1>12. TypeOK'
  BY <1>11 DEF DriverInv, TypeOK, NoServerStep
<1>13. CreateShape' /\ PublishedFaithful' /\ OpenDocsLoaded'
  BY <1>11 DEF DriverInv, CreateShape, PublishedFaithful, OpenDocsLoaded, NoServerStep, Current
<1> QED BY <1>12, <1>13 DEF DriverInv

-----------------------------------------------------------------------------
(* The handlers.                                                            *)

\* A step of the server outside create keeps the invariant if it leaves a sound
\* driver and a well-formed plan.
LEMMA ServerStepInv ==
  ASSUME DriverInv, ~Current("adopt"),
         Sound(drv', published'),
         UNCHANGED <<new, adopt, m_buildfile>>, UNCHANGED outside,
         inbox' \in Seq(Message), indexed' \subseteq Uri, m_topFile' \in Uri \cup {None},
         plan' \in Seq(Step), ~Current("adopt")',
         \A i \in 2..Len(plan') : plan'[i].op # "adopt"
  PROVE  DriverInv'
<1>1. new = EmptyDriver /\ adopt = {}
  BY DEF DriverInv, CreateShape
<1>2. drv' \in DriverType /\ published' \in [Uri -> Seq(Diag)]
  BY DEF Sound
<1>3. TypeOK'
  BY <1>2 DEF DriverInv, TypeOK, outside
<1> QED BY <1>1, <1>3, SoundInv

\* A handler that ends within its message keeps the invariant if it leaves a sound
\* driver.
LEMMA HandlerInv ==
  ASSUME DriverInv, NEW kind, Receive(kind), Sound(drv', published'),
         UNCHANGED <<new, adopt, m_buildfile, plan>>, UNCHANGED outside,
         indexed' \subseteq Uri, m_topFile' \in Uri \cup {None}
  PROVE  DriverInv'
<1>1. inbox' \in Seq(Message) /\ plan' \in Seq(Step)
  BY HeadTail DEF DriverInv, TypeOK, Receive
<1>2. ~Current("adopt") /\ ~Current("adopt")' /\ \A i \in 2..Len(plan') : plan'[i].op # "adopt"
  BY DEF Receive, Idle, Current, DriverInv, CreateShape
<1> QED BY <1>1, <1>2, ServerStepInv

\* What a handler may assume when it takes a message.
LEMMA ReceiveFacts ==
  ASSUME DriverInv, NEW kind, Receive(kind)
  PROVE  /\ Sound(drv, published) /\ Head(inbox) \in Message /\ Head(inbox).m = kind
         /\ disk \in [Uri -> Text \cup {None}] /\ indexed \subseteq Uri
         /\ m_topFile \in Uri \cup {None} /\ Text \subseteq Buffer /\ Garbled \in Buffer
         /\ new = EmptyDriver /\ adopt = {}
<1>1. Head(inbox) \in Message
  BY HeadTail DEF DriverInv, TypeOK, Receive
<1>2. Sound(drv, published) /\ new = EmptyDriver /\ adopt = {}
  BY IdleFacts DEF Receive
<1> QED BY <1>1, <1>2 DEF DriverInv, TypeOK, Receive, Buffer

\* didOpen keeps the invariant.
LEMMA DidOpenInv ==
  ASSUME DriverInv, HandleDidOpen
  PROVE  DriverInv'
<1> DEFINE u == Head(inbox).uri
           t == Head(inbox).text
<1>1. Receive("didOpen") /\ UNCHANGED <<indexed, plan, m_topFile>>
  BY DEF HandleDidOpen
<1>2. /\ Sound(drv, published) /\ disk \in [Uri -> Text \cup {None}] /\ indexed \subseteq Uri
      /\ m_topFile \in Uri \cup {None} /\ u \in Uri /\ t \in Buffer
  BY <1>1, ReceiveFacts, MessageFields
<1>3. IF HasDesign(drv) /\ drv.docs[u] = t
        THEN Leaves([drv EXCEPT !.open = @ \cup {u}], published)
        ELSE RunUpdate(SetText(drv, u, t), u, "open", {u})
  BY DEF HandleDidOpen
<1> HIDE DEF u, t
<1>4. t # None
  BY <1>2, ConstantsAssumption DEF Buffer
<1>5. Sound(drv', published') /\ UNCHANGED <<new, adopt, m_buildfile>> /\ UNCHANGED outside
  <2>1. CASE HasDesign(drv) /\ drv.docs[u] = t
    <3>1. Sound([drv EXCEPT !.open = drv.open \cup {u}], published)
      BY <1>2, <1>4, <2>1, MarkOpenSound
    <3> QED BY <1>3, <2>1, <3>1 DEF Leaves
  <2>2. CASE ~(HasDesign(drv) /\ drv.docs[u] = t)
    <3>1. Sound(SetText(drv, u, t), published) /\ SetText(drv, u, t).docs[u] # None
      BY <1>2, <1>4, SetTextSound
    <3> QED BY <1>2, <1>3, <2>2, <3>1, RunUpdateSound
  <2> QED BY <2>1, <2>2
<1> QED BY <1>1, <1>2, <1>5, HandlerInv

\* didChange keeps the invariant.
LEMMA DidChangeInv ==
  ASSUME DriverInv, HandleDidChange
  PROVE  DriverInv'
<1> DEFINE u == Head(inbox).uri
           d == Load(drv, {u})
<1>1. Receive("didChange") /\ UNCHANGED <<indexed, plan, m_topFile>>
  BY DEF HandleDidChange
<1>2. /\ Sound(drv, published) /\ disk \in [Uri -> Text \cup {None}] /\ indexed \subseteq Uri
      /\ m_topFile \in Uri \cup {None} /\ u \in Uri /\ Head(inbox).to \in Buffer /\ Garbled \in Buffer
  BY <1>1, ReceiveFacts, MessageFields
<1>3. \/ Leaves(drv, published)
      \/ RunUpdate(SetText(d, u, Head(inbox).to), u, "change", {})
      \/ Leaves(d, published)
      \/ RunUpdate(SetText(d, u, Garbled), u, "change", {})
  BY DEF HandleDidChange
<1>4. Sound(d, published)
  BY <1>2, LoadSound
<1> HIDE DEF u, d
<1>5. ASSUME NEW b \in Buffer, RunUpdate(SetText(d, u, b), u, "change", {})
      PROVE  Sound(drv', published') /\ UNCHANGED <<new, adopt, m_buildfile>> /\ UNCHANGED outside
  <2>1. b # None
    BY ConstantsAssumption DEF Buffer
  <2>2. Sound(SetText(d, u, b), published) /\ SetText(d, u, b).docs[u] # None
    BY <1>2, <1>4, <2>1, SetTextSound
  <2> QED BY <1>2, <1>5, <2>2, RunUpdateSound
<1>6. Sound(drv', published') /\ UNCHANGED <<new, adopt, m_buildfile>> /\ UNCHANGED outside
  BY <1>2, <1>3, <1>4, <1>5 DEF Leaves
<1> QED BY <1>1, <1>2, <1>6, HandlerInv

\* didSave keeps the invariant.
LEMMA DidSaveInv ==
  ASSUME DriverInv, HandleDidSave
  PROVE  DriverInv'
<1> DEFINE u == Head(inbox).uri
           d == SetText(drv, u, Head(inbox).text)
<1>1. Receive("didSave") /\ UNCHANGED <<plan, m_topFile>>
  BY DEF HandleDidSave
<1>2. /\ Sound(drv, published) /\ disk \in [Uri -> Text \cup {None}] /\ indexed \subseteq Uri
      /\ m_topFile \in Uri \cup {None} /\ u \in Uri /\ Head(inbox).text \in Buffer
  BY <1>1, ReceiveFacts, MessageFields
<1>3. Sound(d, published) /\ d.docs[u] # None
  <2> DEFINE b == Head(inbox).text
  <2>1. b \in Buffer /\ b # None
    BY <1>2, ConstantsAssumption DEF Buffer
  <2> HIDE DEF u, b
  <2>2. Sound(SetText(drv, u, b), published) /\ SetText(drv, u, b).docs[u] = b
    BY <1>2, <2>1, SetTextSound
  <2>3. d = SetText(drv, u, b)
    BY DEF b
  <2> QED BY <2>1, <2>2, <2>3, Zenon
<1>4. \/ Leaves(drv, published) /\ UNCHANGED indexed
      \/ RunUpdate(d, u, "save", {}) /\ indexed' \in {indexed, indexed \cup {u}}
  BY DEF HandleDidSave
<1> HIDE DEF u, d
<1>5. Sound(drv', published') /\ UNCHANGED <<new, adopt, m_buildfile>> /\ UNCHANGED outside
  BY <1>2, <1>3, <1>4, RunUpdateSound DEF Leaves
<1>6. indexed' \subseteq Uri
  BY <1>2, <1>4
<1> QED BY <1>1, <1>2, <1>5, <1>6, HandlerInv

\* didClose keeps the invariant.
LEMMA DidCloseInv ==
  ASSUME DriverInv, HandleDidClose
  PROVE  DriverInv'
<1>1. Receive("didClose") /\ UNCHANGED <<indexed, plan, m_topFile>>
      /\ Leaves(closeDocuments(drv, {Head(inbox).uri}), published)
  BY DEF HandleDidClose
<1>2. /\ Sound(drv, published) /\ indexed \subseteq Uri
      /\ m_topFile \in Uri \cup {None} /\ Head(inbox).uri \in Uri
  BY <1>1, ReceiveFacts, MessageFields
<1>3. Sound(closeDocuments(drv, {Head(inbox).uri}), published)
  BY <1>2, CloseSound
<1> QED BY <1>1, <1>2, <1>3, HandlerInv DEF Leaves

\* A list with one or two more steps that is no running create.
LEMMA PlanTyped ==
  ASSUME NEW s1 \in Step, NEW s2 \in Step, NEW s3 \in Step,
         s1.op # "adopt", s2.op # "adopt", s3.op # "adopt",
         plan' \in {<<s1>>, <<s1, s2>>, <<s1, s2, s3>>}
  PROVE  /\ plan' \in Seq(Step) /\ ~Current("adopt")'
         /\ \A i \in 2..Len(plan') : plan'[i].op # "adopt"
<1>1. CASE plan' = <<s1>>
  BY <1>1 DEF Current
<1>2. CASE plan' = <<s1, s2>>
  BY <1>2 DEF Current
<1>3. CASE plan' = <<s1, s2, s3>>
  BY <1>3 DEF Current
<1> QED BY <1>1, <1>2, <1>3

\* A handler that leaves a sound driver and a plan keeps the invariant.
LEMMA PlanningInv ==
  ASSUME DriverInv, NEW kind, Receive(kind), Sound(drv', published'),
         UNCHANGED <<new, adopt, m_buildfile, indexed, m_topFile>>, UNCHANGED outside,
         NEW s1 \in Step, NEW s2 \in Step, NEW s3 \in Step,
         s1.op # "adopt", s2.op # "adopt", s3.op # "adopt",
         plan' \in {<<s1>>, <<s1, s2>>, <<s1, s2, s3>>}
  PROVE  DriverInv'
<1>1. inbox' \in Seq(Message)
  BY HeadTail DEF DriverInv, TypeOK, Receive
<1>2. ~Current("adopt") /\ indexed \subseteq Uri /\ m_topFile \in Uri \cup {None}
  BY DEF Receive, Idle, Current, DriverInv, TypeOK
<1>3. /\ plan' \in Seq(Step) /\ ~Current("adopt")'
      /\ \A i \in 2..Len(plan') : plan'[i].op # "adopt"
  BY PlanTyped
<1> QED BY <1>1, <1>2, <1>3, ServerStepInv

\* The first part of the watched-files handler keeps the invariant.
LEMMA WatchedFilesInv ==
  ASSUME DriverInv, HandleWatchedFiles
  PROVE  DriverInv'
<1> DEFINE changes == Head(inbox).changes
           deleted == {e.uri : e \in {c \in changes : c.type = "Deleted"}}
           reload == {u \in drv.open : disk[u] # None
                                       /\ [uri |-> u, type |-> "Changed"] \in changes}
           docs == [u \in Uri |-> IF u \in reload THEN disk[u] ELSE drv.docs[u]]
           reread == [drv EXCEPT !.docs = docs]
           s1 == [op |-> "updateDocs", uris |-> reload]
           s2 == [op |-> "watchIndex", changes |-> changes]
<1>1. /\ Receive("watchedFiles") /\ UNCHANGED <<indexed, m_topFile>>
      /\ Leaves(closeDocuments(reread, deleted), published)
      /\ plan' = <<s1, s2>>
  BY DEF HandleWatchedFiles
<1>2. /\ Sound(drv, published) /\ disk \in [Uri -> Text \cup {None}]
      /\ changes \in SUBSET Event
  BY <1>1, ReceiveFacts, MessageFields
<1> HIDE DEF changes
<1>3. deleted \in SUBSET Uri
  BY <1>2 DEF Event
<1>4. reload \in SUBSET Uri
  BY <1>2 DEF Sound, DriverType
<1>5. docs \in [Uri -> MaybeBuf] /\ \A v \in Uri : drv.docs[v] # None => docs[v] # None
  BY <1>2 DEF Sound, DriverType, MaybeBuf, Buffer
<1> HIDE DEF docs, deleted, reload
<1>6. Sound(reread, published)
  BY <1>2, <1>5 DEF Sound, DriverType
<1> HIDE DEF reread
<1>7. Sound(closeDocuments(reread, deleted), published)
  BY <1>3, <1>6, CloseSound
<1>8. s1 \in Step /\ s2 \in Step /\ s1.op # "adopt" /\ s2.op # "adopt"
  BY <1>2, <1>4 DEF Step
<1> HIDE DEF s1, s2
<1>9. Sound(drv', published') /\ UNCHANGED <<new, adopt, m_buildfile>> /\ UNCHANGED outside
  BY <1>1, <1>7 DEF Leaves
<1> QED BY <1>1, <1>8, <1>9, PlanningInv

\* setTopLevel keeps the invariant.
LEMMA SetTopLevelInv ==
  ASSUME DriverInv, HandleSetTopLevel
  PROVE  DriverInv'
<1> DEFINE u == Head(inbox).uri
           d == Load(drv, {u})
           design == {u} \cup {v \in Reach(d, u, Uri) : Read(d, v) # None}
           loaded == Load(d, design)
           trees == [v \in Uri |-> IF v \in design THEN loaded.docs[v] ELSE None]
           dc == report(report(loaded.dc, Issued("parse", trees)), Issued("design", trees))
           r == [loaded EXCEPT !.comp = trees, !.dc = dc]
<1>1. /\ Receive("setTopLevel") /\ UNCHANGED <<indexed, plan>>
      /\ \/ Leaves(drv, published) /\ UNCHANGED m_topFile
         \/ Leaves(d, published) /\ m_topFile' = u
         \/ Leaves(Pushed(r), pushDiagsView(r.dc, published)) /\ m_topFile' = u
  BY DEF HandleSetTopLevel
<1>2. /\ Sound(drv, published) /\ disk \in [Uri -> Text \cup {None}] /\ indexed \subseteq Uri
      /\ m_topFile \in Uri \cup {None} /\ u \in Uri
  BY <1>1, ReceiveFacts, MessageFields
<1> HIDE DEF u
<1>3. Sound(d, published)
  BY <1>2, LoadSound
<1> HIDE DEF d, design
<1>4. Sound(loaded, published)
  BY <1>2, <1>3, LoadSound
<1> HIDE DEF loaded
<1>5. trees \in [Uri -> MaybeBuf]
  BY <1>4 DEF Sound, DriverType, MaybeBuf
<1> HIDE DEF trees
<1>6. Issued("parse", trees) \in [Uri -> Seq(Diag)] /\ Issued("design", trees) \in [Uri -> Seq(Diag)]
  BY <1>5, IssuedType
<1>7. loaded.dc \in ClientType(Diag) /\ Shows(loaded.dc, published)
  BY <1>4 DEF Sound, DriverType, ClientType
<1>8. /\ report(loaded.dc, Issued("parse", trees)) \in ClientType(Diag)
      /\ Shows(report(loaded.dc, Issued("parse", trees)), published)
  BY <1>6, <1>7, ReportShows
<1>9. dc \in ClientType(Diag) /\ Shows(dc, published)
  BY <1>6, <1>8, ReportShows
<1> HIDE DEF dc
<1>10. r \in DriverType /\ r.docs = loaded.docs /\ r.open = loaded.open /\ r.dc = dc
  BY <1>4, <1>5, <1>9 DEF Sound, DriverType, ClientType
<1> HIDE DEF r
<1>11. Sound(r, published)
  BY <1>4, <1>9, <1>10 DEF Sound
<1>12. Sound(Pushed(r), pushDiagsView(r.dc, published))
  BY <1>2, <1>11, PushedSound
<1>13. /\ Sound(drv', published') /\ UNCHANGED <<new, adopt, m_buildfile>> /\ UNCHANGED outside
       /\ m_topFile' \in Uri \cup {None}
  BY <1>1, <1>2, <1>3, <1>12 DEF Leaves
<1> QED BY <1>1, <1>2, <1>13, HandlerInv

\* setBuildFile and a config reload only plan the replacement of the driver.
LEMMA PlanCreateInv ==
  ASSUME DriverInv, HandleSetBuildFile \/ HandleReload
  PROVE  DriverInv'
<1> DEFINE st == [op |-> "startIndexing"]
<1>1. /\ \A f \in BuildFile \cup {None} : create(f) \in Step /\ create(f).op # "adopt"
      /\ st \in Step /\ st.op # "adopt"
  BY DEF create, Step
<1>2. config \in BuildFile \cup {None} /\ m_buildfile \in BuildFile \cup {None}
  BY DEF DriverInv, TypeOK
<1> HIDE DEF st
<1>3. CASE HandleSetBuildFile
  <2>1. /\ Receive("setBuildFile") /\ plan' = <<create(Head(inbox).build)>>
        /\ UNCHANGED <<new, adopt, m_buildfile, indexed, m_topFile, drv, published>>
        /\ UNCHANGED outside
    BY <1>3 DEF HandleSetBuildFile
  <2>2. Sound(drv, published) /\ Head(inbox).build \in BuildFile \cup {None}
    BY <2>1, ReceiveFacts, MessageFields
  <2> QED BY <1>1, <2>1, <2>2, PlanningInv
<1>4. CASE HandleReload
  <2>1. /\ Receive("reload")
        /\ plan' \in {<<create(config), st>>, <<create(config), st, create(m_buildfile)>>}
        /\ UNCHANGED <<new, adopt, m_buildfile, indexed, m_topFile, drv, published>>
        /\ UNCHANGED outside
    BY <1>4 DEF HandleReload, st
  <2>2. Sound(drv, published)
    BY <2>1, ReceiveFacts
  <2> QED BY <1>1, <1>2, <2>1, <2>2, PlanningInv
<1> QED BY <1>3, <1>4

-----------------------------------------------------------------------------
(* The later steps of the handlers.                                         *)

\* When a planned step is done, the next one is no create already running.
LEMMA PlanTail ==
  ASSUME DriverInv, NEW op, Current(op), plan' = Tail(plan)
  PROVE  /\ plan' \in Seq(Step) /\ ~Current("adopt")'
         /\ \A i \in 2..Len(plan') : plan'[i].op # "adopt"
<1>1. plan \in Seq(Step) /\ plan # <<>> /\ \A i \in 2..Len(plan) : plan[i].op # "adopt"
  BY DEF DriverInv, TypeOK, CreateShape, Current
<1>2. /\ Tail(plan) \in Seq(Step) /\ Len(plan) \in Nat \ {0} /\ Len(Tail(plan)) = Len(plan) - 1
      /\ \A i \in 1..Len(Tail(plan)) : Tail(plan)[i] = plan[i + 1]
  BY <1>1, HeadTail
<1>3. \A i \in 1..Len(Tail(plan)) : Tail(plan)[i].op # "adopt"
  BY <1>1, <1>2
<1>4. Tail(plan) # <<>> => Head(Tail(plan)) = Tail(plan)[1] /\ 1 \in 1..Len(Tail(plan))
  BY <1>2, HeadTail
<1>5. ~Current("adopt")'
  BY <1>3, <1>4 DEF Current
<1> QED BY <1>2, <1>3, <1>5

\* Recording the progress of the first planned step keeps the others.
LEMMA PlanHead ==
  ASSUME DriverInv, NEW op, Current(op), NEW st \in Step, plan' = [plan EXCEPT ![1] = st]
  PROVE  /\ plan' \in Seq(Step) /\ plan' # <<>> /\ Head(plan') = st
         /\ \A i \in 2..Len(plan') : plan'[i].op # "adopt"
<1>1. plan \in Seq(Step) /\ plan # <<>> /\ \A i \in 2..Len(plan) : plan[i].op # "adopt"
  BY DEF DriverInv, TypeOK, CreateShape, Current
<1>2. Len(plan) \in Nat \ {0} /\ 1 \in 1..Len(plan)
  BY <1>1, HeadTail
<1>3. /\ plan' \in Seq(Step) /\ Len(plan') = Len(plan) /\ plan'[1] = st
      /\ \A i \in 2..Len(plan) : plan'[i] = plan[i]
  BY <1>1, <1>2, ExceptSeq
<1>4. plan' # <<>> /\ Head(plan') = plan'[1]
  BY <1>2, <1>3, HeadTail
<1> QED BY <1>1, <1>3, <1>4

\* The watched-files handler's later steps and re-indexing keep the invariant.
LEMMA UpdateReloadedInv ==
  ASSUME DriverInv, NEW u \in Uri, UpdateReloaded(u)
  PROVE  DriverInv'
<1> DEFINE st == [op |-> "updateDocs", uris |-> Head(plan).uris \ {u}]
<1>1. /\ Current("updateDocs") /\ RunUpdate(drv, u, "change", {})
      /\ UNCHANGED <<indexed, inbox, m_topFile>>
      /\ plan' = <<>> \/ plan' = [plan EXCEPT ![1] = st]
  BY DEF UpdateReloaded
<1>2. ~Current("adopt") /\ disk \in [Uri -> Text \cup {None}]
  BY <1>1 DEF Current, DriverInv, TypeOK
<1>3. Sound(drv', published') /\ UNCHANGED <<new, adopt, m_buildfile>> /\ UNCHANGED outside
  BY <1>1, <1>2, InvSound, RunUpdateSound
<1>4. st \in Step /\ st.op # "adopt"
  <2>1. Head(plan) \in Step /\ Head(plan).op = "updateDocs"
    BY <1>1, HeadTail DEF DriverInv, TypeOK, Current
  <2> QED BY <2>1, StepFields DEF Step
<1> HIDE DEF st
<1>5. /\ plan' \in Seq(Step) /\ ~Current("adopt")'
      /\ \A i \in 2..Len(plan') : plan'[i].op # "adopt"
  <2>1. CASE plan' = <<>>
    BY <2>1 DEF Current
  <2>2. CASE plan' = [plan EXCEPT ![1] = st]
    BY <1>1, <1>4, <2>2, PlanHead DEF Current
  <2> QED BY <1>1, <2>1, <2>2
<1>6. inbox' \in Seq(Message) /\ indexed' \subseteq Uri /\ m_topFile' \in Uri \cup {None}
  BY <1>1 DEF DriverInv, TypeOK
<1> QED BY <1>2, <1>3, <1>5, <1>6, ServerStepInv

\* Steps that touch only the index and the plan keep the invariant.
LEMMA IndexStepsInv ==
  ASSUME DriverInv, UpdatesDone \/ WatchIndex \/ StartIndexing
  PROVE  DriverInv'
<1>1. /\ Current("updateDocs") \/ Current("watchIndex") \/ Current("startIndexing")
      /\ plan' = Tail(plan)
      /\ UNCHANGED <<inbox, drv, new, adopt, published, m_buildfile, m_topFile>>
      /\ UNCHANGED outside
  BY DEF UpdatesDone, WatchIndex, StartIndexing
<1>2. ~Current("adopt")
  BY <1>1 DEF Current
<1>3. Sound(drv', published')
  BY <1>1, <1>2, InvSound
<1>4. indexed' \subseteq Uri
  <2>1. indexed \subseteq Uri
    BY DEF DriverInv, TypeOK
  <2>2. CASE UpdatesDone
    BY <2>1, <2>2 DEF UpdatesDone
  <2>3. CASE StartIndexing
    BY <2>1, <2>3 DEF StartIndexing
  <2>4. CASE WatchIndex
    <3>1. Head(plan).changes \in SUBSET Event
      BY <2>4, HeadTail, StepFields DEF WatchIndex, Current, DriverInv, TypeOK
    <3>2. \A e \in Head(plan).changes : e.uri \in Uri
      BY <3>1 DEF Event
    <3> QED BY <2>1, <2>4, <3>2 DEF WatchIndex
  <2> QED BY <2>2, <2>3, <2>4
<1>5. inbox' \in Seq(Message) /\ m_topFile' \in Uri \cup {None}
  BY <1>1 DEF DriverInv, TypeOK
<1>6. /\ plan' \in Seq(Step) /\ ~Current("adopt")'
      /\ \A i \in 2..Len(plan') : plan'[i].op # "adopt"
  BY <1>1, PlanTail
<1> QED BY <1>1, <1>2, <1>3, <1>4, <1>5, <1>6, ServerStepInv

-----------------------------------------------------------------------------
(* The steps of ServerDriver::create.                                       *)

\* The beginning of create keeps the invariant: the old driver has taken back
\* everything the editor displayed, so the new one is faithful with nothing.
LEMMA BeginCreateInv ==
  ASSUME DriverInv, BeginCreate
  PROVE  DriverInv'
<1> DEFINE b == Head(plan).build
           sources == IF b = None THEN {} ELSE Sources[b]
           docs == [u \in Uri |-> IF u \in sources THEN disk[u] ELSE None]
           st == [op |-> "adopt", build |-> b]
<1>1. /\ Current("create")
      /\ new' = [EmptyDriver EXCEPT !.docs = docs]
      /\ plan' = [plan EXCEPT ![1] = st] /\ m_buildfile' = b
      /\ m_topFile' \in {None, m_topFile}
      /\ published' = clearAndPushView(drv.dc, published)
      /\ drv' = [drv EXCEPT !.dc = EmptyDiags] /\ adopt' = drv.open
      /\ UNCHANGED <<inbox, indexed>> /\ UNCHANGED outside
  BY DEF BeginCreate
<1>2. ~Current("adopt") /\ TypeOK /\ Head(plan) \in Step /\ Head(plan).op = "create"
  BY <1>1, HeadTail DEF Current, DriverInv, TypeOK
<1>3. Sound(drv, published)
  BY <1>2, InvSound
<1>4. b \in BuildFile \cup {None}
  BY <1>2, StepFields
<1>5. st \in Step /\ st.op = "adopt"
  BY <1>4 DEF Step
<1>6. docs \in [Uri -> MaybeBuf]
  BY <1>2 DEF TypeOK, MaybeBuf, Buffer
<1> HIDE DEF b, sources, docs, st
<1>7. published' \in [Uri -> Seq(Diag)] /\ \A u \in Uri : published'[u] = <<>>
  <2>1. drv.dc \in ClientType(Diag) /\ published \in [Uri -> Seq(Diag)] /\ Shows(drv.dc, published)
    BY <1>3 DEF Sound, DriverType, ClientType
  <2> QED BY <1>1, <2>1, ClearAndPushShowsNothing
<1>8. Sound(new', published') /\ new'.open = {}
  BY <1>1, <1>6, <1>7, EmptyDriverSound DEF EmptyDriver
<1>9. drv' \in DriverType /\ drv'.docs = drv.docs /\ drv'.open = drv.open /\ drv'.dc = EmptyDiags
  <2>1. EmptyDiags \in ClientType(Diag)
    BY <1>7, EmptyDiagsShows
  <2> QED BY <1>1, <1>3, <2>1 DEF Sound, DriverType, ClientType
<1>10. /\ plan' \in Seq(Step) /\ Current("adopt")'
       /\ \A i \in 2..Len(plan') : plan'[i].op # "adopt"
  BY <1>1, <1>5, PlanHead DEF Current
<1>11. TypeOK'
  <2>1. adopt' \subseteq Uri /\ new' \in DriverType
    BY <1>1, <1>3, <1>8 DEF Sound, DriverType
  <2> QED BY <1>1, <1>2, <1>4, <1>7, <1>9, <1>10, <2>1 DEF TypeOK, outside
<1>12. CreateShape'
  BY <1>9, <1>10 DEF CreateShape
<1>13. PublishedFaithful'
  BY <1>8, <1>10 DEF PublishedFaithful, Sound
<1>14. OpenDocsLoaded'
  BY <1>1, <1>3, <1>8, <1>9 DEF OpenDocsLoaded, Sound
<1> QED BY <1>11, <1>12, <1>13, <1>14 DEF DriverInv

\* While create runs: what its steps may assume.
LEMMA AdoptFacts ==
  ASSUME DriverInv, Current("adopt")
  PROVE  /\ TypeOK /\ Sound(new, published) /\ drv.dc = EmptyDiags
         /\ \A u \in Uri : u \in adopt \cup drv.open => drv.docs[u] # None
         /\ \A i \in 2..Len(plan) : plan[i].op # "adopt"
BY InvSound DEF DriverInv, CreateShape, OpenDocsLoaded

\* Carrying one open document over to the new driver keeps the invariant.
LEMMA AdoptDocInv ==
  ASSUME DriverInv, NEW u \in Uri, AdoptDoc(u)
  PROVE  DriverInv'
<1> DEFINE r == updateDoc(Carried(u), u, "open")
<1>1. /\ Current("adopt") /\ u \in adopt /\ adopt' = adopt \ {u}
      /\ UNCHANGED <<inbox, indexed, plan, drv, m_buildfile, m_topFile>> /\ UNCHANGED outside
      /\ IF drv.docs[u] = None
           THEN UNCHANGED <<new, published>>
           ELSE /\ new' = [Pushed(r) EXCEPT !.open = Pushed(r).open \cup {u}]
                /\ published' = pushPriorityView(r.dc, published, u)
  BY DEF AdoptDoc
<1>2. /\ TypeOK /\ Sound(new, published) /\ drv.dc = EmptyDiags
      /\ \A v \in Uri : v \in adopt \cup drv.open => drv.docs[v] # None
      /\ \A i \in 2..Len(plan) : plan[i].op # "adopt"
  BY <1>1, AdoptFacts
<1>3. drv.docs[u] # None /\ drv.docs[u] \in Buffer
  BY <1>1, <1>2 DEF TypeOK, DriverType, MaybeBuf
<1>4. Sound(Carried(u), published) /\ Carried(u).docs[u] # None
  <2>1. CASE new.docs[u] = None
    BY <1>2, <1>3, <2>1, SetTextSound DEF Carried
  <2>2. CASE new.docs[u] # None
    BY <1>2, <2>2 DEF Carried
  <2> QED BY <2>1, <2>2
<1>5. disk \in [Uri -> Text \cup {None}]
  BY <1>2 DEF TypeOK
<1>6. Sound(r, published) /\ r.docs[u] # None
  BY <1>4, <1>5, UpdateDocSound
<1> HIDE DEF r
<1>7. Sound(Pushed(r), pushPriorityView(r.dc, published, u)) /\ Pushed(r).docs[u] # None
  BY <1>6, PushedSound
<1>8. Sound(new', published')
  <2>1. /\ new' = [Pushed(r) EXCEPT !.open = Pushed(r).open \cup {u}]
        /\ published' = pushPriorityView(r.dc, published, u)
    BY <1>1, <1>3
  <2>2. Sound([Pushed(r) EXCEPT !.open = Pushed(r).open \cup {u}],
              pushPriorityView(r.dc, published, u))
    BY <1>7, MarkOpenSound
  <2> QED BY <2>1, <2>2
<1>9. Current("adopt")' /\ plan' = plan
  BY <1>1 DEF Current
<1>10. TypeOK'
  BY <1>1, <1>2, <1>8 DEF TypeOK, Sound, outside
<1>11. CreateShape' /\ PublishedFaithful'
  BY <1>1, <1>2, <1>8, <1>9 DEF CreateShape, PublishedFaithful, Sound
<1>12. OpenDocsLoaded'
  BY <1>1, <1>2, <1>8 DEF OpenDocsLoaded, Sound
<1> QED BY <1>10, <1>11, <1>12 DEF DriverInv

\* Abandoning create keeps the invariant: the unfinished driver takes back what it
\* published, and the old one has nothing displayed.
LEMMA AbandonCreateInv ==
  ASSUME DriverInv, NEW u \in Uri, AbandonCreate(u)
  PROVE  DriverInv'
<1>1. /\ Current("adopt") /\ published' = clearAndPushView(new.dc, published)
      /\ new' = EmptyDriver /\ adopt' = {} /\ plan' = <<>>
      /\ UNCHANGED <<inbox, indexed, drv, m_buildfile, m_topFile>> /\ UNCHANGED outside
  BY DEF AbandonCreate
<1>2. /\ TypeOK /\ Sound(new, published) /\ drv.dc = EmptyDiags
      /\ \A v \in Uri : v \in adopt \cup drv.open => drv.docs[v] # None
  BY <1>1, AdoptFacts
<1>3. published' \in [Uri -> Seq(Diag)] /\ \A v \in Uri : published'[v] = <<>>
  <2>1. new.dc \in ClientType(Diag) /\ published \in [Uri -> Seq(Diag)] /\ Shows(new.dc, published)
    BY <1>2 DEF Sound, DriverType, ClientType
  <2> QED BY <1>1, <2>1, ClearAndPushShowsNothing
<1>4. Shows(EmptyDiags, published')
  BY <1>3, EmptyDiagsShows
<1>5. Sound(drv', published')
  BY <1>1, <1>2, <1>3, <1>4 DEF Sound, TypeOK
<1>6. plan' \in Seq(Step) /\ ~Current("adopt")' /\ \A i \in 2..Len(plan') : plan'[i].op # "adopt"
  BY <1>1 DEF Current
<1>7. EmptyDriver \in DriverType
  <2>1. NoDesign \in [Uri -> MaybeBuf]
    BY DEF NoDesign, MaybeBuf
  <2> QED BY <1>3, <2>1, EmptyDriverSound
<1>8. TypeOK'
  BY <1>1, <1>2, <1>3, <1>5, <1>6, <1>7 DEF TypeOK, Sound, outside
<1> QED BY <1>1, <1>5, <1>6, <1>8, SoundInv

\* The end of create keeps the invariant: destroying the old driver takes nothing
\* from the editor that the new one published.
LEMMA FinishCreateInv ==
  ASSUME DriverInv, FinishCreate
  PROVE  DriverInv'
<1> DEFINE r == IF Head(plan).build = None THEN new ELSE createCompilation(new)
           view == clearAndPushView(drv.dc, published)
<1>1. /\ Current("adopt") /\ adopt = {}
      /\ drv' = Pushed(r) /\ published' = pushDiagsView(r.dc, view)
      /\ new' = EmptyDriver /\ plan' = Tail(plan)
      /\ UNCHANGED <<inbox, indexed, adopt, m_buildfile, m_topFile>> /\ UNCHANGED outside
  BY DEF FinishCreate
<1>2. TypeOK /\ Sound(new, published) /\ drv.dc = EmptyDiags
  BY <1>1, AdoptFacts
<1>3. view = published
  <2>1. view = [u \in Uri |-> published[u]]
    BY <1>2 DEF clearAndPushView, EmptyDiags
  <2> QED BY <1>2, <2>1 DEF TypeOK
<1>4. Sound(r, published)
  BY <1>2, CreateCompilationSound
<1> HIDE DEF r, view
<1>5. Sound(drv', published')
  BY <1>1, <1>3, <1>4, PushedSound
<1>6. plan' \in Seq(Step) /\ ~Current("adopt")' /\ \A i \in 2..Len(plan') : plan'[i].op # "adopt"
  BY <1>1, PlanTail
<1>7. EmptyDriver \in DriverType
  BY EmptyDiagsShows, <1>2 DEF EmptyDriver, DriverType, NoDesign, MaybeBuf, EmptyDiags
<1>8. TypeOK'
  BY <1>1, <1>2, <1>5, <1>6, <1>7 DEF TypeOK, Sound, outside
<1> QED BY <1>1, <1>5, <1>6, <1>8, SoundInv

-----------------------------------------------------------------------------
(* The theorems.                                                            *)

\* The invariant is inductive.
LEMMA NextInv == DriverInv /\ [Next]_vars => DriverInv'
<1> SUFFICES ASSUME DriverInv, [Next]_vars PROVE DriverInv'
  OBVIOUS
<1>1. CASE Input \/ Deliver
  BY <1>1, OutsideInv
<1>2. CASE Handle
  BY <1>2, DidOpenInv, DidChangeInv, DidSaveInv, DidCloseInv, WatchedFilesInv, SetTopLevelInv,
     PlanCreateInv DEF Handle
<1>3. CASE Continue
  BY <1>3, UpdateReloadedInv, AdoptDocInv, AbandonCreateInv, IndexStepsInv, BeginCreateInv,
     FinishCreateInv DEF Continue
<1>4. CASE UNCHANGED vars
  BY <1>4 DEF vars, DriverInv, TypeOK, CreateShape, PublishedFaithful, OpenDocsLoaded, Current
<1> QED BY <1>1, <1>2, <1>3, <1>4 DEF Next

\* In every reachable state the whole invariant holds.
THEOREM DriverInvariant == Spec => []DriverInv
BY InitInv, NextInv, PTL DEF Spec

\* Type correctness.
THEOREM TypeCorrect == Spec => []TypeOK
<1>1. DriverInv => TypeOK
  BY DEF DriverInv
<1> QED BY <1>1, DriverInvariant, PTL

\* What the editor displays is what the driver in charge collected, up to files
\* it still owes: across handlers cut short by an exception (RunUpdate), across
\* create with its clearAndPush, and across the destructors that run when create
\* ends or is abandoned.
THEOREM DisplayIsFaithful == Spec => []PublishedFaithful
<1>1. DriverInv => PublishedFaithful
  BY DEF DriverInv
<1> QED BY <1>1, DriverInvariant, PTL

\* No document in m_openDocs lacks a SlangDoc, so create drops none of them.
THEOREM OpenDocsAreLoaded == Spec => []OpenDocsLoaded
<1>1. DriverInv => OpenDocsLoaded
  BY DEF DriverInv
<1> QED BY <1>1, DriverInvariant, PTL
=============================================================================
