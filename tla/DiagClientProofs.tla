-------------------------- MODULE DiagClientProofs --------------------------
(***************************************************************************)
(* What the methods of ServerDiagClient preserve, for every set of files   *)
(* and every kind of diagnostic.                                           *)
(***************************************************************************)
EXTENDS DiagClient, SequenceTheorems, TLAPS

ClientType(D) == [diags : [Uri -> Seq(D)], dirty : SUBSET Uri]

\* A new client that displays nothing owes the editor nothing.
LEMMA EmptyDiagsShows ==
  ASSUME NEW D, NEW view, \A u \in Uri : view[u] = <<>>
  PROVE  EmptyDiags \in ClientType(D) /\ Shows(EmptyDiags, view)
<1>1. EmptyDiags \in ClientType(D)
  BY DEF EmptyDiags, ClientType
<1>2. Shows(EmptyDiags, view)
  BY DEF EmptyDiags, Shows
<1> QED BY <1>1, <1>2

\* report() keeps the client well-formed and owes the editor only marked files.
LEMMA ReportShows ==
  ASSUME NEW D, NEW dc \in ClientType(D), NEW issued \in [Uri -> Seq(D)],
         NEW view, Shows(dc, view)
  PROVE  report(dc, issued) \in ClientType(D) /\ Shows(report(dc, issued), view)
<1>1. \A u \in Uri : dc.diags[u] \in Seq(D) /\ issued[u] \in Seq(D)
  BY DEF ClientType
<1>2. \A u \in Uri : dc.diags[u] \o issued[u] \in Seq(D)
  BY <1>1, ConcatProperties
<1>3. report(dc, issued) \in ClientType(D)
  BY <1>2 DEF report, ClientType
<1>4. ASSUME NEW u \in Uri, u \notin report(dc, issued).dirty
      PROVE  view[u] = report(dc, issued).diags[u]
  <2>1. u \notin dc.dirty /\ issued[u] = <<>>
    BY <1>4 DEF report
  <2>2. view[u] = dc.diags[u]
    BY <2>1 DEF Shows
  <2>3. dc.diags[u] \o <<>> = dc.diags[u]
    BY <1>1
  <2> QED BY <2>1, <2>2, <2>3 DEF report
<1> QED BY <1>3, <1>4 DEF Shows

\* clear(uri) likewise.
LEMMA ClearUriShows ==
  ASSUME NEW D, NEW dc \in ClientType(D), NEW uri \in Uri, NEW view, Shows(dc, view)
  PROVE  clearUri(dc, uri) \in ClientType(D) /\ Shows(clearUri(dc, uri), view)
<1>1. clearUri(dc, uri) \in ClientType(D)
  BY DEF clearUri, ClientType
<1>2. Shows(clearUri(dc, uri), view)
  BY DEF clearUri, ClientType, Shows
<1> QED BY <1>1, <1>2

\* clear() likewise.
LEMMA ClearAllShows ==
  ASSUME NEW D, NEW dc \in ClientType(D), NEW view, Shows(dc, view)
  PROVE  clearAll(dc) \in ClientType(D) /\ Shows(clearAll(dc), view)
<1>1. clearAll(dc) \in ClientType(D)
  BY DEF clearAll, ClientType
<1>2. Shows(clearAll(dc), view)
  BY DEF clearAll, ClientType, Shows
<1> QED BY <1>1, <1>2

\* After pushDiags() the editor displays exactly what was collected.
LEMMA PushDiagsShows ==
  ASSUME NEW D, NEW dc \in ClientType(D), NEW view \in [Uri -> Seq(D)], Shows(dc, view)
  PROVE  /\ pushDiags(dc) \in ClientType(D)
         /\ pushDiagsView(dc, view) \in [Uri -> Seq(D)]
         /\ Shows(pushDiags(dc), pushDiagsView(dc, view))
<1>1. pushDiags(dc) \in ClientType(D)
  BY DEF pushDiags, ClientType
<1>2. pushDiagsView(dc, view) \in [Uri -> Seq(D)]
  BY DEF pushDiagsView, ClientType
<1>3. Shows(pushDiags(dc), pushDiagsView(dc, view))
  BY DEF pushDiags, pushDiagsView, ClientType, Shows
<1> QED BY <1>1, <1>2, <1>3

\* pushDiags(priorityUri) reaches the same view.
LEMMA PushPriorityShows ==
  ASSUME NEW D, NEW dc \in ClientType(D), NEW view \in [Uri -> Seq(D)],
         NEW uri, Shows(dc, view)
  PROVE  /\ pushPriorityView(dc, view, uri) \in [Uri -> Seq(D)]
         /\ Shows(pushDiags(dc), pushPriorityView(dc, view, uri))
<1>1. pushPriorityView(dc, view, uri) \in [Uri -> Seq(D)]
  BY DEF pushPriorityView, ClientType
<1>2. Shows(pushDiags(dc), pushPriorityView(dc, view, uri))
  BY DEF pushDiags, pushPriorityView, ClientType, Shows
<1> QED BY <1>1, <1>2

\* clearAndPush() leaves nothing displayed: a file it does not publish for has
\* no collected diagnostics, is not dirty and so displays none.
LEMMA ClearAndPushShowsNothing ==
  ASSUME NEW D, NEW dc \in ClientType(D), NEW view \in [Uri -> Seq(D)], Shows(dc, view)
  PROVE  /\ clearAndPushView(dc, view) \in [Uri -> Seq(D)]
         /\ \A u \in Uri : clearAndPushView(dc, view)[u] = <<>>
<1>1. clearAndPushView(dc, view) \in [Uri -> Seq(D)]
  BY DEF clearAndPushView, ClientType
<1>2. \A u \in Uri : clearAndPushView(dc, view)[u] = <<>>
  BY DEF clearAndPushView, ClientType, Shows
<1> QED BY <1>1, <1>2
=============================================================================
