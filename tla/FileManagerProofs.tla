--------------------------- MODULE FileManagerProofs ---------------------------
(***************************************************************************)
(* Theorems about FileManager: what a save may change and a move may lose,  *)
(* for any number of tabs and any set of paths, whatever requests          *)
(* interleave with it.                                                     *)
(***************************************************************************)
EXTENDS FileManager, TLAPS

Pages ==
    [at : {"blank", "mounted", "stuck", "sent"}, path : Paths \cup {NoPath},
     area : Texts, doc : Texts, edited : BOOLEAN]

Nodes == Contents \cup {Absent, Dir}
Fields == {"kind", "stage", "path", "dest", "data"}

Shape ==
    /\ page \in [Tabs -> Pages]
    /\ node \in [Paths -> Nodes]
    /\ loaded \in [Tabs -> Contents]
    /\ DOMAIN req = Tabs
    /\ \A t \in Tabs : ~Idle(t) =>
           /\ Fields \subseteq DOMAIN req[t]
           /\ req[t].path \in Paths /\ req[t].data \in Contents

\* What an open editor has to do with the file it was made from.
PageOK ==
    \A t \in Tabs :
        /\ page[t].at \in {"mounted", "stuck"} => page[t].path \in Paths
        /\ page[t].at = "stuck" =>
               page[t].area = Read(loaded[t]) /\ ~page[t].edited
        /\ page[t].at = "mounted" /\ ~page[t].edited => page[t].doc = Read(loaded[t])

\* The page waits as long as its save is on the way.
SaveOK ==
    \A t \in Tabs : ~Idle(t) /\ req[t].kind = "save" =>
        /\ page[t].at = "sent"
        /\ ~page[t].edited => req[t].data = Posted(loaded[t], Read(loaded[t]))

SaveInv == Shape /\ PageOK /\ SaveOK

-----------------------------------------------------------------------------
(* The page's operations.                                                  *)

LEMMA BlankIsAPage ==
    /\ BlankPage \in Pages /\ BlankPage.at = "blank"
    /\ ~BlankPage.edited
    /\ EmptyFile \in Contents
BY TabAssumption DEF BlankPage, Pages, Texts, EmptyFile, Contents

LEMMA ReadText == ASSUME NEW c \in Contents PROVE Read(c) \in Texts
BY TextAssumption DEF Read, Contents

LEMMA PostedContent ==
    ASSUME NEW c \in Contents, NEW x \in Texts
    PROVE  Posted(c, x) \in Contents
BY DEF Posted, Contents

LEMMA OpenedPage ==
    ASSUME NEW p \in Paths, NEW x \in Texts
    PROVE  LET o == Opened(p, x)
           IN /\ o \in Pages /\ o.path = p
              /\ o.at \in {"mounted", "stuck"} /\ ~o.edited
              /\ o.at = "mounted" => o.doc = x
              /\ o.at = "stuck" => o.area = x
<1> DEFINE b == [BlankPage EXCEPT !.path = p, !.area = x]
<1>1. b \in Pages /\ b.path = p /\ b.area = x /\ ~b.edited
    BY BlankIsAPage DEF Pages
<1> HIDE DEF b
<1>2. Opened(p, x) = Mount(b) BY DEF Opened, b
<1> DEFINE o == [b EXCEPT !.at = "mounted", !.doc = b.area]
           h == [b EXCEPT !.at = "stuck"]
<1>3. /\ o \in Pages /\ o.path = p /\ o.at = "mounted" /\ ~o.edited /\ o.doc = x
      /\ h \in Pages /\ h.path = p /\ h.at = "stuck" /\ ~h.edited /\ h.area = x
    BY <1>1 DEF Pages
<1>4. Opened(p, x) \in {o, h} BY <1>2 DEF Mount, Mounted
<1> HIDE DEF o, h
<1> QED BY <1>3, <1>4

LEMMA SentPage ==
    ASSUME NEW p \in Pages, p.at \in {"mounted", "stuck"}
    PROVE  /\ Sent(p) \in Pages /\ Sent(p).at = "sent"
           /\ Sent(p).edited = p.edited
           /\ SubmittedArea(p) \in Texts
BY DEF Sent, SubmittedArea, Pages

-----------------------------------------------------------------------------
LEMMA SaveInit == Init => SaveInv
BY BlankIsAPage, TabAssumption
DEF Init, PageInit, SaveInv, Shape, PageOK, SaveOK, Idle, Texts, Nodes

-----------------------------------------------------------------------------
(* Every step preserves SaveInv.                                           *)

LEMMA SaveStep == SaveInv /\ [Next]_vars => SaveInv'
<1> SUFFICES ASSUME SaveInv, [Next]_vars PROVE SaveInv'
    OBVIOUS
<1> USE DEF Idle
<1>1. ASSUME NEW t \in Tabs, NEW p \in Paths, OpenEditor(t, p) PROVE SaveInv'
    <2>1. node[p] \in Contents
        BY <1>1 DEF OpenEditor, IsText, IsFile, SaveInv, Shape, Nodes
    <2> DEFINE o == Opened(p, Read(node[p]))
    <2>2. /\ o \in Pages /\ o.path = p
          /\ o.at \in {"mounted", "stuck"} /\ ~o.edited
          /\ o.at = "mounted" => o.doc = Read(node[p])
          /\ o.at = "stuck" => o.area = Read(node[p])
        BY <2>1, ReadText, OpenedPage
    <2>3. /\ page' = [page EXCEPT ![t] = o] /\ loaded' = [loaded EXCEPT ![t] = node[p]]
          /\ UNCHANGED <<node, req>> /\ req[t] = NoRequest
        BY <1>1 DEF OpenEditor
    <2> HIDE DEF o
    <2> QED BY <2>1, <2>2, <2>3 DEF SaveInv, Shape, PageOK, SaveOK
<1>2. ASSUME NEW t \in Tabs, Save(t) PROVE SaveInv'
    <2>1. page[t] \in Pages /\ loaded[t] \in Contents
        BY DEF SaveInv, Shape
    <2>2. /\ Sent(page[t]) \in Pages /\ Sent(page[t]).at = "sent"
          /\ Sent(page[t]).edited = page[t].edited
          /\ SubmittedArea(page[t]) \in Texts
        BY <1>2, <2>1, SentPage DEF Save
    <2>3. CASE MayBeSaved(t)
        <3> DEFINE data == Content(t)
        <3>1. ~page[t].edited => data = Posted(loaded[t], Read(loaded[t]))
            BY <1>2 DEF Save, Content, SubmittedArea, SaveInv, PageOK
        <3>2. data \in Contents BY <2>1, <2>2, PostedContent DEF Content
        <3>3. page[t].path \in Paths BY <1>2, <2>1 DEF Save, SaveInv, PageOK
        <3>4. /\ page' = [page EXCEPT ![t] = Sent(page[t])]
              /\ req' = [req EXCEPT ![t] =
                    [kind |-> "save", stage |-> "checked", path |-> page[t].path,
                     dest |-> page[t].path, data |-> data]]
              /\ UNCHANGED <<node, loaded>>
            BY <1>2, <2>3 DEF Save, Begin
        <3> HIDE DEF data
        <3> QED BY <2>2, <3>1, <3>2, <3>3, <3>4
                DEF SaveInv, Shape, PageOK, SaveOK, Fields
    <2>4. CASE ~MayBeSaved(t)
        BY <1>2, <2>4, BlankIsAPage
        DEF Save, Leave, Answer, SaveInv, Shape, PageOK, SaveOK
    <2> QED BY <2>3, <2>4
<1>3. ASSUME NEW t \in Tabs, OpenForWriting(t) PROVE SaveInv'
    <2>1. req[t] # NoRequest BY <1>3 DEF OpenForWriting
    <2>2. CASE node[req[t].path] # Dir /\ InDir(req[t].path)
        <3>1. /\ node' = [node EXCEPT ![req[t].path] = EmptyFile]
              /\ req' = [req EXCEPT ![t].stage = "open"]
              /\ UNCHANGED <<page, loaded>>
            BY <1>3, <2>2 DEF OpenForWriting, Goto
        <3>2. Shape' BY <2>1, <3>1, BlankIsAPage DEF SaveInv, Shape, Nodes, Fields
        <3> QED BY <2>1, <3>1, <3>2 DEF SaveInv, Shape, PageOK, SaveOK, Fields
    <2>3. CASE ~(node[req[t].path] # Dir /\ InDir(req[t].path))
        BY <1>3, <2>3, BlankIsAPage
        DEF OpenForWriting, Leave, Answer, SaveInv, Shape, PageOK, SaveOK
    <2> QED BY <2>2, <2>3
<1>4. ASSUME NEW t \in Tabs, WriteAndClose(t) PROVE SaveInv'
    <2>1. req[t] # NoRequest /\ UNCHANGED <<page, loaded>>
        BY <1>4 DEF WriteAndClose
    <2>2. node' \in [Paths -> Nodes]
        BY <1>4, <2>1 DEF WriteAndClose, SaveInv, Shape, Nodes
    <2>3. CASE req[t].kind = "save"
        <3>1. req' = [req EXCEPT ![t].stage = "written"]
            BY <1>4, <2>3 DEF WriteAndClose, Goto
        <3> QED BY <2>1, <2>2, <3>1 DEF SaveInv, Shape, PageOK, SaveOK, Fields
    <2>4. CASE req[t].kind # "save"
        <3>1. req' = [req EXCEPT ![t] = NoRequest]
            BY <1>4, <2>4 DEF WriteAndClose, Answer
        <3> QED BY <2>1, <2>2, <3>1 DEF SaveInv, Shape, PageOK, SaveOK
    <2> QED BY <2>3, <2>4
<1>5. ASSUME NEW t \in Tabs, AnswerSave(t) PROVE SaveInv'
    <2> DEFINE p == req[t].path
    <2>0. req[t] # NoRequest /\ p \in Paths /\ UNCHANGED node
        BY <1>5 DEF AnswerSave, SaveInv, Shape
    <2>1. CASE IsFile(p) /\ node[p] \notin TooLarge
        <3>1. node[p] \in Contents BY <2>0, <2>1 DEF IsFile, SaveInv, Shape, Nodes
        <3> DEFINE o == Opened(p, Read(node[p]))
        <3>2. /\ o \in Pages /\ o.path = p
              /\ o.at \in {"mounted", "stuck"} /\ ~o.edited
              /\ o.at = "mounted" => o.doc = Read(node[p])
              /\ o.at = "stuck" => o.area = Read(node[p])
            BY <2>0, <3>1, ReadText, OpenedPage
        <3>3. /\ page' = [page EXCEPT ![t] = o] /\ loaded' = [loaded EXCEPT ![t] = node[p]]
              /\ req' = [req EXCEPT ![t] = NoRequest]
            BY <1>5, <2>1 DEF AnswerSave, Answer
        <3> HIDE DEF o
        <3> QED BY <2>0, <3>1, <3>2, <3>3 DEF SaveInv, Shape, PageOK, SaveOK
    <2>2. CASE ~(IsFile(p) /\ node[p] \notin TooLarge)
        BY <1>5, <2>2, BlankIsAPage
        DEF AnswerSave, Leave, Answer, SaveInv, Shape, PageOK, SaveOK
    <2> QED BY <2>1, <2>2
<1>6. ASSUME NEW t \in Tabs, CloseEditor(t) PROVE SaveInv'
    BY <1>6, BlankIsAPage DEF CloseEditor, SaveInv, Shape, PageOK, SaveOK
<1>7. ASSUME NEW t \in Tabs, InPage(t) PROVE SaveInv'
    <2>1. CASE Edit(t)
        <3>1. PICK new \in Texts :
                  page' = [page EXCEPT ![t].doc = new, ![t].edited = TRUE]
            BY <2>1 DEF Edit
        <3>2. page[t].at = "mounted" /\ UNCHANGED <<node, loaded, req>>
            BY <1>7, <2>1 DEF InPage, Edit
        <3> DEFINE o == [page[t] EXCEPT !.doc = new, !.edited = TRUE]
        <3>3. /\ o \in Pages /\ o.at = "mounted" /\ o.edited
              /\ o.path = page[t].path
            BY <3>2 DEF SaveInv, Shape, Pages
        <3>4. page' = [page EXCEPT ![t] = o] BY <3>1 DEF SaveInv, Shape
        <3> HIDE DEF o
        <3> QED BY <3>2, <3>3, <3>4 DEF SaveInv, Shape, PageOK, SaveOK
    <2>2. CASE SyncTextarea(t)
        BY <1>7, <2>2 DEF InPage, SyncTextarea, SaveInv, Shape, PageOK, SaveOK, Pages
    <2> QED BY <1>7, <2>1, <2>2 DEF InPage
<1>8. ASSUME NEW t \in Tabs, NEW p \in Paths, Upload(t, p) PROVE SaveInv'
    <2>1. PICK c \in Uploads :
              Begin(t, [kind |-> "upload", stage |-> "checked", path |-> p, dest |-> p,
                        data |-> c])
        BY <1>8 DEF Upload
    <2>2. c \in Contents BY ContentsAssumption
    <2>3. /\ UNCHANGED <<page, node, loaded>>
          /\ req' = [req EXCEPT ![t] = [kind |-> "upload", stage |-> "checked",
                                       path |-> p, dest |-> p, data |-> c]]
        BY <1>8, <2>1 DEF Upload, Begin
    <2> QED BY <2>2, <2>3 DEF SaveInv, Shape, PageOK, SaveOK, Fields
<1>9. ASSUME NEW t \in Tabs, NEW p \in Paths, Delete(t, p) PROVE SaveInv'
    BY <1>9, BlankIsAPage DEF Delete, Begin, SaveInv, Shape, PageOK, SaveOK, Fields
<1>10. ASSUME NEW t \in Tabs, NEW p \in Paths, NEW d \in Paths, Move(t, p, d)
       PROVE  SaveInv'
    BY <1>10, BlankIsAPage DEF Move, Begin, SaveInv, Shape, PageOK, SaveOK, Fields
<1>11. ASSUME NEW t \in Tabs, Erase(t) PROVE SaveInv'
    <2>1. UNCHANGED <<page, loaded>> /\ node' \in [Paths -> Nodes]
        BY <1>11 DEF Erase, SaveInv, Shape, Nodes
    <2>2. DOMAIN req' = Tabs
        BY <1>11 DEF Erase
    <2>3. ASSUME NEW u \in Tabs, req'[u] # NoRequest
          PROVE  /\ req[u] # NoRequest /\ Fields \subseteq DOMAIN req'[u]
                 /\ req'[u].kind = req[u].kind
                 /\ req'[u].path = req[u].path /\ req'[u].data = req[u].data
        <3> DEFINE moved == [q \in At(req[t].path) |-> NoPath]
        <3>1. req'[u] = Follow(u, moved) BY <1>11, <2>3 DEF Erase
        <3> HIDE DEF moved
        <3> QED BY <2>3, <3>1 DEF Follow, SaveInv, Shape, Fields
    <2> QED BY <2>1, <2>2, <2>3 DEF SaveInv, Shape, PageOK, SaveOK
<1>12. ASSUME NEW t \in Tabs, MakeParents(t) PROVE SaveInv'
    <2>1. /\ UNCHANGED <<page, loaded>> /\ req[t] # NoRequest
          /\ req' = [req EXCEPT ![t] = NoRequest] \/ req' = [req EXCEPT ![t].stage = "moving"]
        BY <1>12 DEF MakeParents, Goto, Answer
    <2>2. node' = node \/ node' = [node EXCEPT ![Front(req[t].dest)] = Dir]
        BY <1>12 DEF MakeParents
    <2>3. node' \in [Paths -> Nodes] BY <2>2 DEF SaveInv, Shape, Nodes
    <2> QED BY <2>1, <2>3 DEF SaveInv, Shape, PageOK, SaveOK, Fields
<1>13. ASSUME NEW t \in Tabs, Rename(t) PROVE SaveInv'
    <2> DEFINE s == req[t].path
               d == Landing(s, req[t].dest)
               moved == [p \in At(s) \cup At(d) |->
                            IF p \in At(s) THEN d \o SubSeq(p, Len(s) + 1, Len(p))
                            ELSE NoPath]
    <2>1. UNCHANGED <<page, loaded>> /\ req[t] # NoRequest
        BY <1>13 DEF Rename
    <2>2. node' = node \/ node' = Renamed(s, d)
        BY <1>13 DEF Rename
    <2>3. \/ req' = [req EXCEPT ![t] = NoRequest]
          \/ req' = [u \in Tabs |-> IF u = t THEN NoRequest ELSE Follow(u, moved)]
        BY <1>13 DEF Rename, Answer
    <2> HIDE DEF moved, s, d
    <2>4. Renamed(s, d) \in [Paths -> Nodes]
        BY DEF Renamed, SaveInv, Shape, Nodes
    <2>5. node' \in [Paths -> Nodes] BY <2>2, <2>4 DEF SaveInv, Shape
    <2>6. DOMAIN req' = Tabs BY <2>3 DEF SaveInv, Shape
    <2>7. ASSUME NEW u \in Tabs, req'[u] # NoRequest
          PROVE  /\ req[u] # NoRequest /\ Fields \subseteq DOMAIN req'[u]
                 /\ req'[u].kind = req[u].kind
                 /\ req'[u].path = req[u].path /\ req'[u].data = req[u].data
        <3>1. req'[u] = req[u] \/ req'[u] = Follow(u, moved)
            BY <2>3, <2>7 DEF SaveInv, Shape
        <3> QED BY <2>7, <3>1 DEF Follow, SaveInv, Shape, Fields
    <2> QED BY <2>1, <2>5, <2>6, <2>7 DEF SaveInv, Shape, PageOK, SaveOK
<1>14. CASE UNCHANGED vars
    BY <1>14 DEF vars, SaveInv, Shape, PageOK, SaveOK
<1> QED
    BY <1>1, <1>2, <1>3, <1>4, <1>5, <1>6, <1>7, <1>8, <1>9, <1>10, <1>11, <1>12, <1>13,
       <1>14
    DEF Next, EditorStep, ListingStep

LEMMA SaveInvariant == Spec => []SaveInv
<1>1. SaveInv /\ [Next]_vars => SaveInv' BY SaveStep
<1> QED BY SaveInit, <1>1, PTL DEF Spec

(***************************************************************************)
(* For any files, texts and requests that interleave: a page nobody changed *)
(* loses by a save at most the newline its file began with, and saving what *)
(* a form has sent before changes nothing else (app.py:3934-3941).         *)
(***************************************************************************)
THEOREM UntouchedStaysHarmless == Spec => []UntouchedSaveIsHarmless
<1>1. ASSUME NEW c \in Contents
      PROVE  LET is == Posted(c, Read(c))
             IN /\ is.text = Dropped[c.text]
                /\ Dropped[c.text] = c.text /\ c.eol = "crlf" /\ c.enc # "other" => is = c
    BY DEF Posted, Read, Contents
<1>2. SaveInv => UntouchedSaveIsHarmless
    BY <1>1 DEF SaveInv, Shape, SaveOK, UntouchedSaveIsHarmless
<1> QED BY SaveInvariant, <1>2, PTL
-----------------------------------------------------------------------------
(* Paths.                                                                  *)

Names == Seq(STRING)

\* A sequence of one or two names by its names.
LEMMA ShortPaths ==
    ASSUME NEW p \in Seq(Names), Len(p) \in {1, 2}
    PROVE  /\ Len(p) = 1 => p = <<p[1]>>
           /\ Len(p) = 2 => p = <<p[1], p[2]>> /\ Front(p) = <<p[1]>>
                            /\ SubSeq(p, 2, 2) = <<p[2]>>
           /\ SubSeq(p, 1, Len(p)) = p
           /\ SubSeq(p, Len(p) + 1, Len(p)) = <<>>
           /\ Last(p) \in Names
<1>0. ASSUME NEW x \in Seq(Names), Len(x) = 1 PROVE x = <<x[1]>>
    BY <1>0
<1>1. Len(p) = 1 => p = <<p[1]>> BY <1>0
<1>2. Len(p) = 2 => p = <<p[1], p[2]>> OBVIOUS
<1>3. ASSUME Len(p) = 2 PROVE Front(p) = <<p[1]>>
    <2>1. Front(p) = SubSeq(p, 1, 1) BY <1>3 DEF Front
    <2> DEFINE x == SubSeq(p, 1, 1)
    <2>2. x \in Seq(Names) /\ Len(x) = 1 /\ x[1] = p[1] BY <1>3
    <2> HIDE DEF x
    <2>3. x = <<x[1]>> BY <1>0, <2>2
    <2> QED BY <2>1, <2>2, <2>3 DEF x
<1>4. ASSUME Len(p) = 2 PROVE SubSeq(p, 2, 2) = <<p[2]>>
    <2> DEFINE x == SubSeq(p, 2, 2)
    <2>1. x \in Seq(Names) /\ Len(x) = 1 /\ x[1] = p[2] BY <1>4
    <2> HIDE DEF x
    <2>2. x = <<x[1]>> BY <1>0, <2>1
    <2> QED BY <2>1, <2>2 DEF x
<1>5. SubSeq(p, 1, Len(p)) = p OBVIOUS
<1>6. SubSeq(p, Len(p) + 1, Len(p)) = <<>> OBVIOUS
<1>7. Last(p) \in Names
    <2>1. \A i \in 1..Len(p) : p[i] \in Names OBVIOUS
    <2>2. Len(p) \in 1..Len(p) OBVIOUS
    <2> QED BY <2>1, <2>2 DEF Last
<1> QED BY <1>1, <1>2, <1>3, <1>4, <1>5, <1>6, <1>7

LEMMA PathShape ==
    ASSUME NEW p \in Paths
    PROVE  /\ p \in Seq(Names) /\ Len(p) \in {1, 2}
           /\ Len(p) = 2 => Front(p) \in Paths /\ Len(Front(p)) = 1
           /\ Len(p) > 1 => Len(p) = 2
<1>1. p \in Seq(Names) /\ Len(p) \in {1, 2} /\ (Len(p) = 2 => Front(p) \in Paths)
    BY PathAssumption DEF Names
<1>2. ASSUME Len(p) = 2 PROVE Len(Front(p)) = 1
    <2>1. Front(p) = <<p[1]>> BY <1>1, <1>2, ShortPaths
    <2> QED BY <2>1
<1>3. Len(p) > 1 => Len(p) = 2
    <2>1. CASE Len(p) = 1 BY <2>1
    <2>2. CASE Len(p) = 2 BY <2>2
    <2> QED BY <1>1, <2>1, <2>2
<1> QED BY <1>1, <1>2, <1>3

\* A path is a prefix of itself and of what is in it.
LEMMA PrefixIsParent ==
    ASSUME NEW p \in Paths, NEW q \in Paths
    PROVE  IsPrefix(p, q) <=> p = q \/ (Len(q) = 2 /\ p = Front(q))
<1>1. p \in Seq(Names) /\ q \in Seq(Names) /\ Len(p) \in {1, 2} /\ Len(q) \in {1, 2}
    BY PathShape
<1>2. SubSeq(p, 1, Len(p)) = p /\ SubSeq(q, 1, Len(q)) = q BY <1>1, ShortPaths
<1>3. IsPrefix(p, q) <=> Len(p) <= Len(q) /\ p = SubSeq(q, 1, Len(p))
    BY <1>2 DEF IsPrefix
<1>4. Len(q) = 2 => Len(Front(q)) = 1 /\ Front(q) = SubSeq(q, 1, 1)
    BY PathShape DEF Front
<1>5. CASE Len(p) = Len(q) BY <1>2, <1>3, <1>4, <1>5
<1>6. CASE Len(p) = 1 /\ Len(q) = 2 BY <1>3, <1>4, <1>6
<1>7. CASE Len(p) = 2 /\ Len(q) = 1 BY <1>3, <1>7
<1> QED BY <1>1, <1>5, <1>6, <1>7

\* Where p goes when s is renamed to d.
Taken(s, d, p) == d \o SubSeq(p, Len(s) + 1, Len(p))

LEMMA TakenTo ==
    ASSUME NEW s \in Paths, NEW d \in Paths, NEW p \in Paths
    PROVE  /\ p = s => Taken(s, d, p) = d
           /\ Len(p) = 2 /\ s = Front(p) /\ Taken(s, d, p) \in Paths =>
                 /\ Len(Taken(s, d, p)) = 2 /\ Front(Taken(s, d, p)) = d
                 /\ Taken(d, s, Taken(s, d, p)) = p
<1>1. /\ s \in Seq(Names) /\ d \in Seq(Names) /\ p \in Seq(Names)
      /\ Len(s) \in {1, 2} /\ Len(d) \in {1, 2} /\ Len(p) \in {1, 2}
    BY PathShape
<1>2. ASSUME p = s PROVE Taken(s, d, p) = d
    <2>1. SubSeq(p, Len(s) + 1, Len(p)) = <<>> BY <1>1, <1>2, ShortPaths
    <2>2. d \o <<>> = d BY <1>1
    <2> QED BY <2>1, <2>2 DEF Taken
<1>3. ASSUME Len(p) = 2, s = Front(p), Taken(s, d, p) \in Paths
      PROVE  /\ Len(Taken(s, d, p)) = 2 /\ Front(Taken(s, d, p)) = d
             /\ Taken(d, s, Taken(s, d, p)) = p
    <2> DEFINE m == Taken(s, d, p)
    <2>0. p[1] \in Names /\ p[2] \in Names
        <3>1. 1 \in 1..Len(p) /\ 2 \in 1..Len(p) BY <1>3
        <3>2. \A i \in 1..Len(p) : p[i] \in Names BY <1>1
        <3> QED BY <3>1, <3>2
    <2>1. s = <<p[1]>> /\ Len(s) = 1 /\ p = <<p[1], p[2]>>
        BY <1>1, <1>3, ShortPaths, PathShape
    <2>2. SubSeq(p, Len(s) + 1, Len(p)) = <<p[2]>> BY <1>1, <1>3, <2>1, ShortPaths
    <2>3. m = d \o <<p[2]>> BY <2>2 DEF Taken
    <2>4. Len(m) = Len(d) + 1 BY <1>1, <2>0, <2>3
    <2>5. m \in Seq(Names) /\ Len(m) \in {1, 2} BY <1>3, PathShape
    <2> HIDE DEF m
    <2>6. Len(m) = 2 /\ Len(d) = 1 BY <1>1, <2>4, <2>5
    <2>7. m[1] = d[1] /\ m[2] = p[2] BY <1>1, <2>0, <2>3, <2>6
    <2>8. d = <<d[1]>> /\ Front(m) = <<m[1]>> /\ SubSeq(m, 2, 2) = <<m[2]>>
        BY <1>1, <2>5, <2>6, ShortPaths
    <2>9. Taken(d, s, m) = s \o <<p[2]>> BY <2>6, <2>7, <2>8 DEF Taken
    <2>10. s \o <<p[2]>> = <<p[1], p[2]>>
        <3> DEFINE z == s \o <<p[2]>>
        <3>1. /\ z \in Seq(Names) /\ Len(z) = 2 /\ z[1] = s[1] /\ z[2] = p[2]
            BY <1>1, <2>0, <2>1
        <3> HIDE DEF z
        <3>2. z = <<z[1], z[2]>> BY <3>1, ShortPaths
        <3>3. s[1] = p[1] BY <2>1
        <3> QED BY <3>1, <3>2, <3>3 DEF z
    <2> QED BY <2>1, <2>6, <2>7, <2>8, <2>9, <2>10 DEF m
<1> QED BY <1>2, <1>3
-----------------------------------------------------------------------------
(* The webroot is a tree, open files are in it, and a move that is alone     *)
(* finds its destination free.                                             *)

Tree == \A p \in Paths : Exists(p) => InDir(p)

\* r is a request that may be in progress on the webroot n.
Fits(r, n) ==
    /\ r \in Requests
    /\ r.kind \in {"save", "upload"} /\ r.stage = "checked" => r.dest = r.path
    /\ r.kind = "move" => r.dest \in Paths
    /\ r.stage = "open" =>
           /\ r.kind \in {"save", "upload"}
           /\ r.dest # NoPath => n[r.dest] \notin {Absent, Dir}

RequestOK == \A t \in Tabs : ~Idle(t) => Fits(req[t], node)

MoveAlone ==
    \A t \in Tabs : ~Idle(t) /\ t \notin crossed =>
        /\ \A u \in Tabs : ~Idle(u) => u = t
        /\ req[t].kind = "move" => ~Exists(req[t].dest)

TreeInv == Tree /\ RequestOK /\ MoveAlone /\ crossed \subseteq Tabs /\ lost = {}

LEMMA EmptyIsFile == EmptyFile \in Contents /\ EmptyFile \notin {Absent, Dir}
BY BlankIsAPage, NodeAssumption

LEMMA TreeInit == Init => TreeInv
BY DEF Init, TreeInv, Tree, RequestOK, MoveAlone, Exists, Idle

\* A step that leaves the webroot alone and at most ends requests.
LEMMA TreeStays ==
    ASSUME TreeInv, UNCHANGED <<node, lost>>, crossed' \subseteq crossed,
           \A u \in Tabs : ~Idle(u)' =>
               ~Idle(u) /\ req'[u] = req[u] /\ (u \in crossed => u \in crossed')
    PROVE  TreeInv'
BY DEF TreeInv, Tree, RequestOK, MoveAlone, Exists, InDir, Idle

\* A step that begins a request.
LEMMA TreeBegin ==
    ASSUME Shape, TreeInv, UNCHANGED <<node, lost>>, NEW t \in Tabs, Idle(t),
           NEW r \in Requests, r.stage = "checked",
           r.kind \in {"save", "upload"} => r.dest = r.path,
           r.kind = "move" => r.dest \in Paths /\ ~Exists(r.dest),
           Begin(t, r)
    PROVE  TreeInv'
<1>1. /\ \A u \in Tabs : req'[u] = IF u = t THEN r ELSE req[u]
      /\ crossed' = IF Busy = {} THEN crossed ELSE crossed \cup Busy \cup {t}
      /\ Busy \subseteq Tabs
    BY DEF Begin, Shape, Busy
<1>2. Tree' /\ lost' = {} /\ crossed' \subseteq Tabs
    BY <1>1 DEF TreeInv, Tree, Exists, InDir
<1>3. RequestOK'
    <2>1. Fits(r, node) BY DEF Fits
    <2> QED BY <1>1, <2>1 DEF TreeInv, RequestOK, Idle
<1>4. MoveAlone'
    <2> SUFFICES ASSUME NEW u \in Tabs, ~Idle(u)', u \notin crossed'
                 PROVE  /\ \A w \in Tabs : ~Idle(w)' => w = u
                        /\ req'[u].kind = "move" => node'[req'[u].dest] = Absent
        BY DEF MoveAlone, Exists
    <2>0. Busy = {}
        <3>1. u = t \/ u \in Busy BY <1>1 DEF Busy, Idle
        <3> QED BY <1>1, <3>1
    <2>1. \A w \in Tabs : w # t => req'[w] = NoRequest BY <1>1, <2>0 DEF Idle, Busy
    <2>2. u = t /\ \A w \in Tabs : ~Idle(w)' => w = t BY <2>1 DEF Idle
    <2>3. req'[u] = r BY <1>1, <2>2
    <2> QED BY <2>2, <2>3 DEF Exists
<1> QED BY <1>2, <1>3, <1>4 DEF TreeInv
-----------------------------------------------------------------------------
(* Where a rename takes things.                                            *)

LEMMA NodeIsFile ==
    ASSUME Shape, NEW p \in Paths
    PROVE  IsFile(p) <=> node[p] \in Contents
BY NodeAssumption DEF Shape, Nodes, IsFile

LEMMA RenamedNodes ==
    ASSUME NEW s \in Paths, NEW d \in Paths, NEW p \in Paths
    PROVE  /\ IsPrefix(s, p) => Renamed(s, d)[p] = Absent
           /\ ~IsPrefix(s, p) /\ IsPrefix(d, p) =>
                 Renamed(s, d)[p] = IF Taken(d, s, p) \in Paths THEN node[Taken(d, s, p)]
                                    ELSE Absent
           /\ ~IsPrefix(s, p) /\ ~IsPrefix(d, p) =>
                 Renamed(s, d)[p] = IF IsPrefix(p, d) THEN Dir ELSE node[p]
BY DEF Renamed, Taken

\* What is renamed is at its new place as it was.
LEMMA RenamedIsTaken ==
    ASSUME NEW s \in Paths, NEW d \in Paths, ~IsPrefix(s, d), FitsUnder(s, d),
           NEW p \in Paths, IsPrefix(s, p), Exists(p)
    PROVE  /\ Taken(s, d, p) \in Paths
           /\ Renamed(s, d)[Taken(s, d, p)] = node[p]
<1> DEFINE m == Taken(s, d, p)
<1>1. m \in Paths BY DEF FitsUnder, At, Taken
<1>2. CASE p = s
    <2>1. m = d /\ Taken(d, s, m) = s BY <1>2, TakenTo
    <2>2. IsPrefix(d, m) /\ ~IsPrefix(s, m) BY <2>1, PrefixIsParent
    <2> QED BY <1>1, <1>2, <2>1, <2>2, RenamedNodes
<1>3. CASE Len(p) = 2 /\ s = Front(p)
    <2>1. Len(m) = 2 /\ Front(m) = d /\ Taken(d, s, m) = p BY <1>1, <1>3, TakenTo
    <2>2. IsPrefix(d, m) BY <1>1, <2>1, PrefixIsParent
    <2>3. Len(s) = 1 /\ s # d BY <1>3, PathShape, PrefixIsParent
    <2>4. ~IsPrefix(s, m) BY <1>1, <2>1, <2>3, PrefixIsParent
    <2> QED BY <1>1, <2>1, <2>2, <2>4, RenamedNodes
<1> QED BY <1>2, <1>3, PrefixIsParent

LEMMA RenamedTree ==
    ASSUME Tree, NEW s \in Paths, NEW d \in Paths, ~IsPrefix(s, d),
           node' = Renamed(s, d)
    PROVE  Tree'
<1> SUFFICES ASSUME NEW p \in Paths, node'[p] # Absent, Len(p) > 1
             PROVE  node'[Front(p)] = Dir
    BY DEF Tree, Exists, InDir
<1> SUFFICES ASSUME Len(p) = 2 PROVE node'[Front(p)] = Dir
    BY PathShape
<1> DEFINE f == Front(p)
<1>1. f \in Paths /\ Len(f) = 1 BY PathShape
<1>2. ~IsPrefix(s, p) BY RenamedNodes
<1>3. s # f BY <1>2, PrefixIsParent
<1>4. ~IsPrefix(s, f) BY <1>1, <1>3, PrefixIsParent
<1>5. CASE p = d
    <2>1. IsPrefix(f, d) /\ ~IsPrefix(d, f) BY <1>1, <1>5, PrefixIsParent
    <2> QED BY <1>1, <1>4, <2>1, RenamedNodes
<1>6. CASE f = d
    <2> DEFINE q == Taken(d, s, p)
    <2>1. IsPrefix(d, p) BY <1>6, PrefixIsParent
    <2>2. q \in Paths /\ node[q] # Absent BY <1>2, <2>1, RenamedNodes
    <2>3. Len(q) = 2 /\ Front(q) = s BY <1>6, <2>2, TakenTo
    <2> HIDE DEF q
    <2>4. node[s] = Dir BY <2>2, <2>3 DEF Tree, Exists, InDir
    <2>5. IsPrefix(d, d) /\ Taken(d, s, d) = s BY PrefixIsParent, TakenTo
    <2> QED BY <1>6, <2>4, <2>5, RenamedNodes
<1>7. CASE p # d /\ f # d
    <2>1. ~IsPrefix(d, p) /\ ~IsPrefix(d, f) BY <1>1, <1>7, PrefixIsParent
    <2>2. ~IsPrefix(p, d)
        <3>1. Len(d) = 2 => Len(Front(d)) = 1 BY PathShape
        <3>2. ~(Len(d) = 2 /\ p = Front(d)) BY <3>1
        <3> QED BY <1>7, <3>2, PrefixIsParent
    <2>3. node[p] # Absent BY <1>2, <2>1, <2>2, RenamedNodes
    <2>4. node[f] = Dir BY <2>3 DEF Tree, Exists, InDir
    <2> QED BY <1>1, <1>4, <2>1, <2>4, RenamedNodes
<1> QED BY <1>5, <1>6, <1>7

\* What lies elsewhere stays.
LEMMA RenamedElsewhere ==
    ASSUME NEW s \in Paths, NEW d \in Paths,
           InDir(d) \/ node[Front(d)] = Absent,
           NEW p \in Paths, IsFile(p), ~IsPrefix(s, p), ~IsPrefix(d, p)
    PROVE  Renamed(s, d)[p] = node[p]
<1>1. ASSUME IsPrefix(p, d) PROVE FALSE
    <2>1. p # d BY PrefixIsParent
    <2>2. Len(d) = 2 /\ p = Front(d) BY <1>1, <2>1, PrefixIsParent
    <2> QED BY <2>2 DEF InDir, IsFile
<1> QED BY <1>1, RenamedNodes

\* A file that can be renamed to d has a path there.
LEMMA LandsInPaths ==
    ASSUME NEW s \in Paths, NEW e \in Paths, Exists(s), FitsUnder(s, Landing(s, e))
    PROVE  Landing(s, e) \in Paths
<1> DEFINE d == Landing(s, e)
<1>1. /\ s \in Seq(Names) /\ e \in Seq(Names) /\ Len(s) \in {1, 2}
    BY PathShape
<1>2. Last(s) \in Names BY <1>1, ShortPaths
<1>3. d \in Seq(Names) BY <1>1, <1>2 DEF Landing
<1> HIDE DEF d
<1>4. SubSeq(s, Len(s) + 1, Len(s)) = <<>> BY <1>1, ShortPaths
<1>5. d \o <<>> = d BY <1>3
<1>6. s \in At(s) BY PrefixIsParent DEF At
<1>7. d \o SubSeq(s, Len(s) + 1, Len(s)) \in Paths BY <1>6 DEF FitsUnder, d
<1> QED BY <1>4, <1>5, <1>7 DEF d
-----------------------------------------------------------------------------
(* Every step preserves TreeInv.                                           *)

LEMMA FilesStay ==
    ASSUME NEW r, NEW n, NEW m, Fits(r, n),
           \A q \in Paths : n[q] \notin {Absent, Dir} => m[q] \notin {Absent, Dir}
    PROVE  Fits(r, m)
BY DEF Fits, Requests

LEMMA TreeOpen ==
    ASSUME Shape, TreeInv, NEW t \in Tabs, OpenForWriting(t)
    PROVE  TreeInv'
<1> DEFINE p == req[t].path
<1>1. /\ ~Idle(t) /\ req[t] \in Requests /\ req[t].dest = p /\ p \in Paths
      /\ req[t].kind \in {"save", "upload"} /\ UNCHANGED lost
    BY DEF OpenForWriting, TreeInv, RequestOK, Fits, Requests
<1> HIDE DEF p
<1>2. CASE node[p] # Dir /\ InDir(p)
    <2>1. /\ node' = [node EXCEPT ![p] = EmptyFile]
          /\ req' = [req EXCEPT ![t].stage = "open"] /\ crossed' = crossed
        BY <1>2 DEF OpenForWriting, Goto, p
    <2>2. \A q \in Paths : node'[q] = IF q = p THEN EmptyFile ELSE node[q]
        BY <2>1 DEF Shape
    <2>3. Tree'
        <3> SUFFICES ASSUME NEW q \in Paths, node'[q] # Absent, Len(q) > 1
                     PROVE  node'[Front(q)] = Dir
            BY DEF Tree, Exists, InDir
        <3> SUFFICES ASSUME Len(q) = 2 PROVE node'[Front(q)] = Dir
            BY PathShape
        <3>1. Front(q) \in Paths BY PathShape
        <3>2. node[Front(q)] = Dir
            BY <1>2, <2>2 DEF TreeInv, Tree, Exists, InDir
        <3> QED BY <1>2, <2>2, <3>1, <3>2
    <2>4. \A q \in Paths : node[q] \notin {Absent, Dir} => node'[q] \notin {Absent, Dir}
        BY <2>2, EmptyIsFile
    <2> DEFINE r == [req[t] EXCEPT !.stage = "open"]
    <2>5. /\ r \in Requests /\ r.stage = "open" /\ r.dest = p /\ r.kind = req[t].kind
        BY <1>1 DEF Requests
    <2>6. \A u \in Tabs : req'[u] = IF u = t THEN r ELSE req[u] BY <2>1 DEF Shape
    <2> HIDE DEF r
    <2>7. Fits(r, node') BY <1>1, <2>2, <2>5, EmptyIsFile DEF Fits
    <2>8. \A u \in Tabs : ~Idle(u)' => ~Idle(u) BY <1>1, <2>6 DEF Idle
    <2>9. RequestOK'
        <3> SUFFICES ASSUME NEW u \in Tabs, ~Idle(u)' PROVE Fits(req'[u], node')
            BY DEF RequestOK
        <3>1. CASE u = t BY <2>6, <2>7, <3>1
        <3>2. CASE u # t
            BY <2>4, <2>6, <2>8, <3>2, FilesStay DEF TreeInv, RequestOK
        <3> QED BY <3>1, <3>2
    <2>10. MoveAlone'
        <3> SUFFICES ASSUME NEW u \in Tabs, ~Idle(u)', u \notin crossed'
                     PROVE  /\ \A w \in Tabs : ~Idle(w)' => w = u
                            /\ req'[u].kind # "move"
            BY DEF MoveAlone
        <3>1. u = t BY <1>1, <2>1, <2>8 DEF TreeInv, MoveAlone
        <3>2. \A w \in Tabs : ~Idle(w)' => w = t
            BY <1>1, <2>1, <2>8, <3>1 DEF TreeInv, MoveAlone
        <3> QED BY <1>1, <2>5, <2>6, <3>1, <3>2
    <2> QED BY <1>1, <2>1, <2>3, <2>9, <2>10 DEF TreeInv
<1>3. CASE ~(node[p] # Dir /\ InDir(p))
    <2>1. /\ UNCHANGED node /\ req' = [req EXCEPT ![t] = NoRequest]
          /\ crossed' = crossed \ {t}
        BY <1>3 DEF OpenForWriting, Leave, Answer, p
    <2>2. \A u \in Tabs : ~Idle(u)' =>
              ~Idle(u) /\ req'[u] = req[u] /\ (u \in crossed => u \in crossed')
        BY <2>1 DEF Idle, Shape
    <2> QED BY <1>1, <2>1, <2>2, TreeStays
<1> QED BY <1>2, <1>3

LEMMA TreeWrite ==
    ASSUME Shape, TreeInv, NEW t \in Tabs, WriteAndClose(t)
    PROVE  TreeInv'
<1> DEFINE p == req[t].dest
           e == req[t].data
<1>1. /\ ~Idle(t) /\ req[t] \in Requests /\ req[t].stage = "open"
      /\ req[t].kind \in {"save", "upload"}
      /\ p # NoPath => p \in Paths /\ node[p] \notin {Absent, Dir}
      /\ e \in Contents /\ e \notin {Absent, Dir} /\ UNCHANGED lost
      /\ node' = IF p = NoPath THEN node ELSE [node EXCEPT ![p] = e]
    BY NodeAssumption DEF WriteAndClose, TreeInv, RequestOK, Fits, Requests
<1> HIDE DEF p, e
<1>2. \A q \in Paths :
          node'[q] = IF q = p /\ p # NoPath THEN e ELSE node[q]
    BY <1>1 DEF Shape
<1>3. /\ \A q \in Paths : node[q] \notin {Absent, Dir} => node'[q] \notin {Absent, Dir}
      /\ \A q \in Paths : node[q] = Dir <=> node'[q] = Dir
      /\ \A q \in Paths : node'[q] = Absent <=> node[q] = Absent
    BY <1>1, <1>2
<1>4. Tree'
    <2> SUFFICES ASSUME NEW q \in Paths, node'[q] # Absent, Len(q) > 1
                 PROVE  node'[Front(q)] = Dir
        BY DEF Tree, Exists, InDir
    <2> SUFFICES ASSUME Len(q) = 2 PROVE node'[Front(q)] = Dir
        BY PathShape
    <2>1. Front(q) \in Paths BY PathShape
    <2>2. node[Front(q)] = Dir BY <1>3 DEF TreeInv, Tree, Exists, InDir
    <2> QED BY <1>3, <2>1, <2>2
<1> DEFINE r == [req[t] EXCEPT !.stage = "written"]
<1>5. \/ \A u \in Tabs : req'[u] = IF u = t THEN r ELSE req[u]
      \/ \A u \in Tabs : req'[u] = IF u = t THEN NoRequest ELSE req[u]
    BY DEF WriteAndClose, Goto, Answer, Shape
<1>6. Fits(r, node') /\ r.kind = req[t].kind BY <1>1 DEF Fits, Requests
<1> HIDE DEF r
<1>7. \A u \in Tabs : ~Idle(u)' => ~Idle(u) /\ (req'[u] = req[u] \/ (u = t /\ req'[u] = r))
    BY <1>1, <1>5 DEF Idle
<1>c. /\ crossed' \subseteq crossed
      /\ \A u \in Tabs : ~Idle(u)' /\ u \notin crossed' => u \notin crossed
    BY DEF WriteAndClose, Goto, Answer, Idle, Shape
<1>8. RequestOK'
    BY <1>3, <1>6, <1>7, FilesStay DEF TreeInv, RequestOK
<1>9. MoveAlone'
    <2> SUFFICES ASSUME NEW u \in Tabs, ~Idle(u)', u \notin crossed'
                 PROVE  /\ \A w \in Tabs : ~Idle(w)' => w = u
                        /\ req'[u].kind # "move"
        BY DEF MoveAlone
    <2>1. u = t /\ \A w \in Tabs : ~Idle(w)' => w = t
        BY <1>1, <1>7, <1>c DEF TreeInv, MoveAlone
    <2> QED BY <1>1, <1>6, <1>7, <2>1
<1> QED BY <1>1, <1>4, <1>8, <1>9, <1>c DEF TreeInv

\* What Follow makes of a request.
LEMMA Followed ==
    ASSUME NEW u \in Tabs, NEW moved, ~Idle(u), Fits(req[u], node), NEW n,
           DOMAIN moved \subseteq Paths,
           \A q \in Paths : node[q] \notin {Absent, Dir} =>
               IF q \in DOMAIN moved
               THEN /\ moved[q] \in Paths \cup {NoPath}
                    /\ moved[q] # NoPath => n[moved[q]] \notin {Absent, Dir}
               ELSE n[q] \notin {Absent, Dir}
    PROVE  Fits(Follow(u, moved), n)
<1> DEFINE r == req[u]
<1>1. /\ r \in Requests
      /\ r.stage = "open" /\ r.dest # NoPath =>
             r.dest \in Paths /\ node[r.dest] \notin {Absent, Dir}
    BY DEF Fits, Requests
<1>2. CASE r.stage = "open" /\ r.dest \in DOMAIN moved
    <2> DEFINE d == moved[r.dest]
               f == [r EXCEPT !.dest = d]
    <2>1. Follow(u, moved) = f BY <1>2 DEF Follow
    <2>2. r.dest # NoPath BY <1>2, TabAssumption
    <2>3. d \in Paths \cup {NoPath} /\ (d # NoPath => n[d] \notin {Absent, Dir})
        BY <1>1, <1>2, <2>2
    <2> HIDE DEF d
    <2>4. /\ f \in Requests /\ f.dest = d /\ f.stage = "open" /\ f.kind = r.kind
        BY <1>1, <1>2, <2>3 DEF Requests
    <2>5. r.kind \in {"save", "upload"} BY <1>2 DEF Fits
    <2> HIDE DEF f
    <2>6. Fits(f, n) BY <2>3, <2>4, <2>5 DEF Fits
    <2> QED BY <2>1, <2>6
<1>3. CASE ~(r.stage = "open" /\ r.dest \in DOMAIN moved)
    <2>1. Follow(u, moved) = r BY <1>3 DEF Follow
    <2> HIDE DEF r
    <2>2. r.stage = "open" /\ r.dest # NoPath => n[r.dest] \notin {Absent, Dir}
        BY <1>1, <1>3
    <2> QED BY <2>1, <2>2 DEF Fits, r
<1> QED BY <1>2, <1>3

LEMMA FollowIsIdle ==
    ASSUME NEW u \in Tabs, NEW moved, Follow(u, moved) # NoRequest
    PROVE  ~Idle(u)
BY DEF Follow, Idle

LEMMA TreeErase ==
    ASSUME Shape, TreeInv, NEW t \in Tabs, Erase(t)
    PROVE  TreeInv'
<1> DEFINE d == req[t].path
           moved == [p \in At(d) |-> NoPath]
<1>1. /\ ~Idle(t) /\ d \in Paths /\ UNCHANGED lost
      /\ \A u \in Tabs : req'[u] = IF u = t THEN NoRequest ELSE Follow(u, moved)
      /\ \A p \in Paths : node'[p] = IF IsPrefix(d, p) THEN Absent ELSE node[p]
      /\ crossed' = crossed \ {t}
    BY DEF Erase, Shape
<1>2. DOMAIN moved = At(d) /\ \A q \in At(d) : moved[q] = NoPath OBVIOUS
<1> HIDE DEF d, moved
<1>3. Tree'
    <2> SUFFICES ASSUME NEW p \in Paths, node'[p] # Absent, Len(p) > 1
                 PROVE  node'[Front(p)] = Dir
        BY DEF Tree, Exists, InDir
    <2> SUFFICES ASSUME Len(p) = 2 PROVE node'[Front(p)] = Dir
        BY PathShape
    <2>1. Front(p) \in Paths /\ Len(Front(p)) = 1 BY PathShape
    <2>2. ~IsPrefix(d, p) /\ node[p] # Absent BY <1>1
    <2>3. node[Front(p)] = Dir BY <2>2 DEF TreeInv, Tree, Exists, InDir
    <2>4. ~IsPrefix(d, Front(p)) BY <1>1, <2>1, <2>2, PrefixIsParent
    <2> QED BY <1>1, <2>1, <2>3, <2>4
<1>4. \A u \in Tabs : ~Idle(u)' => u # t /\ ~Idle(u)
    BY <1>1, FollowIsIdle DEF Idle
<1>5. RequestOK'
    <2> SUFFICES ASSUME NEW u \in Tabs, ~Idle(u)' PROVE Fits(req'[u], node')
        BY DEF RequestOK
    <2>1. u # t /\ ~Idle(u) /\ Fits(req[u], node) BY <1>4 DEF TreeInv, RequestOK
    <2>2. \A q \in Paths : node[q] \notin {Absent, Dir} =>
              IF q \in DOMAIN moved
              THEN /\ moved[q] \in Paths \cup {NoPath}
                   /\ moved[q] # NoPath => node'[moved[q]] \notin {Absent, Dir}
              ELSE node'[q] \notin {Absent, Dir}
        BY <1>1, <1>2 DEF At
    <2>3. DOMAIN moved \subseteq Paths BY <1>2 DEF At
    <2>4. Fits(Follow(u, moved), node') BY <1>2, <2>1, <2>2, <2>3, Followed
    <2> QED BY <1>1, <2>1, <2>4
<1>6. MoveAlone' BY <1>1, <1>4 DEF TreeInv, MoveAlone
<1> QED BY <1>1, <1>3, <1>5, <1>6 DEF TreeInv

LEMMA TreeParents ==
    ASSUME Shape, TreeInv, NEW t \in Tabs, MakeParents(t)
    PROVE  TreeInv'
<1> DEFINE d == req[t].dest
           r == [req[t] EXCEPT !.stage = "moving"]
<1>1. /\ ~Idle(t) /\ req[t] \in Requests /\ req[t].kind = "move" /\ d \in Paths
      /\ UNCHANGED lost
    BY DEF MakeParents, TreeInv, RequestOK, Fits
<1>2. /\ r \in Requests /\ r.stage = "moving" /\ r.kind = "move" /\ r.dest = d
    BY <1>1 DEF Requests
<1>3. \/ UNCHANGED node /\ req' = [req EXCEPT ![t] = NoRequest] /\ crossed' = crossed \ {t}
      \/ /\ req' = [req EXCEPT ![t].stage = "moving"] /\ crossed' = crossed
         /\ \/ UNCHANGED node
            \/ /\ Len(d) # 1
               /\ node' = [node EXCEPT ![Front(d)] = Dir]
               /\ node[Front(d)] \in {Absent, Dir}
    BY DEF MakeParents, Goto, Answer, IsFile
<1>4. CASE UNCHANGED node /\ req' = [req EXCEPT ![t] = NoRequest] /\ crossed' = crossed \ {t}
    <2>1. \A u \in Tabs : ~Idle(u)' =>
              ~Idle(u) /\ req'[u] = req[u] /\ (u \in crossed => u \in crossed')
        BY <1>4 DEF Idle, Shape
    <2> QED BY <1>1, <1>4, <2>1, TreeStays
<1>5. CASE /\ req' = [req EXCEPT ![t].stage = "moving"] /\ crossed' = crossed
           /\ \/ UNCHANGED node
              \/ /\ Len(d) # 1
                 /\ node' = [node EXCEPT ![Front(d)] = Dir]
                 /\ node[Front(d)] \in {Absent, Dir}
    <2>1. \A u \in Tabs : req'[u] = IF u = t THEN r ELSE req[u] BY <1>5 DEF Shape
    <2> HIDE DEF r, d
    <2>2. \A q \in Paths :
              \/ node'[q] = node[q]
              \/ Len(d) = 2 /\ q = Front(d) /\ node'[q] = Dir /\ node[q] \in {Absent, Dir}
        <3>1. CASE UNCHANGED node BY <3>1
        <3>2. CASE Len(d) # 1 /\ node' = [node EXCEPT ![Front(d)] = Dir]
                   /\ node[Front(d)] \in {Absent, Dir}
            <4>1. Len(d) = 2 BY <1>1, <3>2, PathShape
            <4> QED BY <3>2, <4>1 DEF Shape
        <3> QED BY <1>5, <3>1, <3>2 DEF d
    <2>3. Tree'
        <3> SUFFICES ASSUME NEW p \in Paths, node'[p] # Absent, Len(p) > 1
                     PROVE  node'[Front(p)] = Dir
            BY DEF Tree, Exists, InDir
        <3> SUFFICES ASSUME Len(p) = 2 PROVE node'[Front(p)] = Dir
            BY PathShape
        <3>1. Front(p) \in Paths BY PathShape
        <3>2. Len(d) = 2 => Len(Front(d)) = 1 BY <1>1, PathShape
        <3>3. node[p] # Absent BY <2>2, <3>2
        <3>4. node[Front(p)] = Dir BY <3>3 DEF TreeInv, Tree, Exists, InDir
        <3> QED BY <2>2, <3>1, <3>4
    <2>4. \A q \in Paths : node[q] \notin {Absent, Dir} => node'[q] \notin {Absent, Dir}
        BY <2>2
    <2>5. \A u \in Tabs : ~Idle(u)' => ~Idle(u) BY <1>1, <2>1 DEF Idle
    <2>6. Fits(r, node') BY <1>1, <1>2 DEF Fits
    <2>7. RequestOK'
        <3> SUFFICES ASSUME NEW u \in Tabs, ~Idle(u)' PROVE Fits(req'[u], node')
            BY DEF RequestOK
        <3>1. CASE u = t BY <2>1, <2>6, <3>1
        <3>2. CASE u # t
            BY <2>1, <2>4, <2>5, <3>2, FilesStay DEF TreeInv, RequestOK
        <3> QED BY <3>1, <3>2
    <2>8. MoveAlone'
        <3> SUFFICES ASSUME NEW u \in Tabs, ~Idle(u)', u \notin crossed'
                     PROVE  /\ \A w \in Tabs : ~Idle(w)' => w = u
                            /\ node'[req'[u].dest] = Absent
            BY DEF MoveAlone, Exists
        <3>1. u = t /\ \A w \in Tabs : ~Idle(w)' => w = t
            BY <1>1, <1>5, <2>5 DEF TreeInv, MoveAlone
        <3>2. node[d] = Absent BY <1>1, <1>5, <3>1 DEF TreeInv, MoveAlone, Exists, d
        <3>3. ~(Len(d) = 2 /\ d = Front(d))
            <4>1. d \in Paths BY <1>1
            <4>2. Len(d) = 2 => Len(Front(d)) = 1 BY <4>1, PathShape
            <4> QED BY <4>2
        <3>4. node'[d] = Absent BY <1>1, <2>2, <3>2, <3>3
        <3> QED BY <1>2, <2>1, <3>1, <3>4
    <2> QED BY <1>1, <1>5, <2>3, <2>7, <2>8 DEF TreeInv
<1> QED BY <1>3, <1>4, <1>5

LEMMA NothingLost ==
    ASSUME Shape, Tree, NEW s \in Paths, NEW d \in Paths,
           ~IsPrefix(s, d), FitsUnder(s, d), ~Exists(d) \/ IsFile(d),
           InDir(d) \/ node[Front(d)] = Absent,
           node' = Renamed(s, d)
    PROVE  TextsIn(node) \ TextsIn(node') \subseteq IF Exists(d) THEN {node[d].text} ELSE {}
<1>1. ASSUME NEW p \in Paths, node[p] \notin {Absent, Dir}, p # d
      PROVE  \E q \in Paths : node'[q] = node[p]
    <2>1. CASE IsPrefix(s, p) BY <1>1, <2>1, RenamedIsTaken DEF Exists
    <2>2. ~IsPrefix(d, p)
        <3>1. ASSUME Len(p) = 2, d = Front(p) PROVE FALSE
            <4>1. node[d] = Dir BY <1>1, <3>1 DEF Tree, Exists, InDir
            <4> QED BY <4>1, NodeAssumption DEF Exists, IsFile
        <3> QED BY <1>1, <3>1, PrefixIsParent
    <2>3. CASE ~IsPrefix(s, p) BY <1>1, <2>2, <2>3, RenamedElsewhere DEF IsFile
    <2> QED BY <2>1, <2>3
<1>2. ASSUME NEW x \in TextsIn(node), ~(Exists(d) /\ x = node[d].text)
      PROVE  x \in TextsIn(node')
    <2>1. PICK p \in Paths : node[p] \notin {Absent, Dir} /\ x = node[p].text /\ x # 0
        BY <1>2 DEF TextsIn
    <2>2. p # d BY <1>2, <2>1 DEF Exists
    <2>3. PICK q \in Paths : node'[q] = node[p] BY <1>1, <2>1, <2>2
    <2> QED BY <2>1, <2>3 DEF TextsIn
<1> QED BY <1>2

LEMMA TreeRename ==
    ASSUME Shape, TreeInv, NEW t \in Tabs, Rename(t)
    PROVE  TreeInv'
<1> DEFINE s == req[t].path
           e == req[t].dest
           d == Landing(s, e)
           moved == [p \in At(s) \cup At(d) |->
                        IF p \in At(s) THEN d \o SubSeq(p, Len(s) + 1, Len(p)) ELSE NoPath]
<1>1. /\ ~Idle(t) /\ s \in Paths /\ e \in Paths /\ req[t].kind = "move"
      /\ FitsUnder(s, d)
    BY DEF Rename, TreeInv, RequestOK, Fits, Requests
<1>2. CASE ~CanRename(s, e)
    <2>1. /\ UNCHANGED <<node, lost>> /\ req' = [req EXCEPT ![t] = NoRequest]
          /\ crossed' = crossed \ {t}
        BY <1>2 DEF Rename, Answer
    <2>2. \A u \in Tabs : ~Idle(u)' =>
              ~Idle(u) /\ req'[u] = req[u] /\ (u \in crossed => u \in crossed')
        BY <2>1 DEF Idle, Shape
    <2> QED BY <1>1, <2>1, <2>2, TreeStays
<1>3. CASE CanRename(s, e)
    <2>1. /\ node' = Renamed(s, d)
          /\ \A u \in Tabs : req'[u] = IF u = t THEN NoRequest ELSE Follow(u, moved)
          /\ lost' = lost \cup ((TextsIn(node) \ TextsIn(node')) \ Overwritten(t))
          /\ crossed' = crossed \ {t}
        BY <1>3 DEF Rename
    <2>2. /\ Exists(s) /\ ~IsPrefix(s, d)
          /\ InDir(d) \/ node[Front(d)] = Absent
          /\ d # e => ~Exists(d)
        BY <1>3 DEF CanRename
    <2>3. d \in Paths BY <1>1, <2>2, LandsInPaths
    <2>4. /\ DOMAIN moved = At(s) \cup At(d) /\ DOMAIN moved \subseteq Paths
          /\ \A q \in DOMAIN moved :
                 moved[q] = IF IsPrefix(s, q) THEN Taken(s, d, q) ELSE NoPath
        BY DEF Taken, At
    <2>5. /\ ~Exists(e) => d = e
          /\ d = e => ~Exists(d) \/ IsFile(d)
        <3>1. node[e] = Dir => Len(d) = Len(e) + 1
            <4>1. e \in Seq(Names) /\ s \in Seq(Names) /\ Last(s) \in Names
                BY <1>1, PathShape, ShortPaths
            <4> QED BY <4>1 DEF Landing
        <3>2. Len(e) \in Nat BY <1>1, PathShape
        <3>3. node[e] = Dir => d # e BY <3>1, <3>2
        <3> QED BY <3>3, NodeAssumption DEF Landing, Exists, IsFile
    <2> HIDE DEF d, moved
    <2>6. Tree' BY <1>1, <2>1, <2>2, <2>3, RenamedTree DEF TreeInv
    <2>7. \A u \in Tabs : ~Idle(u)' => u # t /\ ~Idle(u)
        BY <2>1, FollowIsIdle DEF Idle
    <2>8. MoveAlone' BY <1>1, <2>1, <2>7 DEF TreeInv, MoveAlone
    <2>9. lost' = {}
        <3>1. TextsIn(node) \ TextsIn(node')
                  \subseteq IF Exists(d) THEN {node[d].text} ELSE {}
            BY <1>1, <2>1, <2>2, <2>3, <2>5, NothingLost DEF TreeInv
        <3>2. ASSUME Exists(d) PROVE node[d].text \in Overwritten(t)
            <4>1. d = e /\ IsFile(e) BY <2>2, <2>5, <3>2
            <4>2. t \in crossed BY <1>1, <2>2, <2>5, <3>2, <4>1 DEF TreeInv, MoveAlone
            <4> QED BY <4>1, <4>2 DEF Overwritten
        <3> QED BY <2>1, <3>1, <3>2 DEF TreeInv
    <2>10. RequestOK'
        <3> SUFFICES ASSUME NEW u \in Tabs, ~Idle(u)' PROVE Fits(req'[u], node')
            BY DEF RequestOK
        <3>1. u # t /\ ~Idle(u) /\ Fits(req[u], node)
            BY <2>7 DEF TreeInv, RequestOK
        <3>2. ASSUME NEW q \in Paths, node[q] \notin {Absent, Dir}
              PROVE  IF q \in DOMAIN moved
                     THEN /\ moved[q] \in Paths \cup {NoPath}
                          /\ moved[q] # NoPath => node'[moved[q]] \notin {Absent, Dir}
                     ELSE node'[q] \notin {Absent, Dir}
            <4>1. CASE IsPrefix(s, q)
                <5>1. q \in DOMAIN moved /\ moved[q] = Taken(s, d, q)
                    BY <2>4, <4>1 DEF At
                <5>2. moved[q] \in Paths /\ node'[moved[q]] = node[q]
                    BY <1>1, <2>1, <2>2, <2>3, <3>2, <4>1, <5>1, RenamedIsTaken
                    DEF Exists, d
                <5> QED BY <3>2, <5>1, <5>2
            <4>2. CASE ~IsPrefix(s, q) /\ q \in DOMAIN moved BY <2>4, <4>2
            <4>3. CASE ~IsPrefix(s, q) /\ q \notin DOMAIN moved
                <5>1. ~IsPrefix(d, q) BY <2>4, <4>3 DEF At
                <5>2. node'[q] = node[q]
                    BY <1>1, <2>1, <2>2, <2>3, <3>2, <4>3, <5>1, RenamedElsewhere
                    DEF IsFile
                <5> QED BY <3>2, <4>3, <5>2
            <4> QED BY <4>1, <4>2, <4>3
        <3>3. Fits(Follow(u, moved), node') BY <2>4, <3>1, <3>2, Followed
        <3> QED BY <2>1, <3>1, <3>3
    <2> QED BY <1>1, <2>1, <2>6, <2>8, <2>9, <2>10 DEF TreeInv
<1> QED BY <1>2, <1>3
LEMMA TreeStep == SaveInv /\ TreeInv /\ [Next]_vars => TreeInv'
<1> SUFFICES ASSUME SaveInv, TreeInv, [Next]_vars PROVE TreeInv'
    OBVIOUS
<1>1. Shape BY DEF SaveInv
<1>2. ASSUME NEW t \in Tabs, NEW p \in Paths, OpenEditor(t, p) PROVE TreeInv'
    BY <1>2, TreeStays DEF OpenEditor, Idle
<1>3. ASSUME NEW t \in Tabs, Save(t) PROVE TreeInv'
    <2>1. CASE MayBeSaved(t)
        <3> DEFINE r == [kind |-> "save", stage |-> "checked", path |-> page[t].path,
                         dest |-> page[t].path, data |-> Content(t)]
        <3>1. SubmittedArea(page[t]) \in Texts
            BY <1>1, <1>3, SentPage DEF Save, Shape
        <3>2. Content(t) \in Contents BY <1>1, <3>1, PostedContent DEF Content, Shape
        <3>3. page[t].path \in Paths BY <1>3 DEF Save, SaveInv, PageOK
        <3>4. r \in Requests /\ r.stage = "checked" /\ r.dest = r.path /\ r.kind = "save"
            BY <3>2, <3>3 DEF Requests
        <3>5. Begin(t, r) /\ Idle(t) /\ UNCHANGED <<node, lost>>
            BY <1>3, <2>1 DEF Save
        <3> HIDE DEF r
        <3> QED BY <1>1, <3>4, <3>5, TreeBegin
    <2>2. CASE ~MayBeSaved(t)
        <3>1. UNCHANGED <<node, lost>> /\ req' = [req EXCEPT ![t] = NoRequest] /\ crossed' = crossed \ {t}
            BY <1>3, <2>2 DEF Save, Leave, Answer
        <3>2. \A u \in Tabs : ~Idle(u)' =>
                  ~Idle(u) /\ req'[u] = req[u] /\ (u \in crossed => u \in crossed')
            BY <1>1, <3>1 DEF Idle, Shape
        <3> QED BY <3>1, <3>2, TreeStays
    <2> QED BY <2>1, <2>2
<1>4. ASSUME NEW t \in Tabs, AnswerSave(t) PROVE TreeInv'
    <2>1. UNCHANGED <<node, lost>> /\ req' = [req EXCEPT ![t] = NoRequest] /\ crossed' = crossed \ {t}
        BY <1>4 DEF AnswerSave, Leave, Answer
    <2>2. \A u \in Tabs : ~Idle(u)' =>
              ~Idle(u) /\ req'[u] = req[u] /\ (u \in crossed => u \in crossed')
        BY <1>1, <2>1 DEF Idle, Shape
    <2> QED BY <2>1, <2>2, TreeStays
<1>5. ASSUME NEW t \in Tabs, CloseEditor(t) \/ InPage(t) PROVE TreeInv'
    BY <1>5, TreeStays DEF CloseEditor, InPage, Idle
<1>6. ASSUME NEW t \in Tabs, NEW p \in Paths, Upload(t, p) PROVE TreeInv'
    <2>1. PICK c \in Uploads :
              Begin(t, [kind |-> "upload", stage |-> "checked", path |-> p, dest |-> p,
                        data |-> c])
        BY <1>6 DEF Upload
    <2> DEFINE r == [kind |-> "upload", stage |-> "checked", path |-> p, dest |-> p,
                     data |-> c]
    <2>2. c \in Contents BY ContentsAssumption
    <2>3. Begin(t, r) BY <2>1
    <2>4. r \in Requests /\ r.stage = "checked" /\ r.dest = r.path /\ r.kind = "upload"
        BY <2>2 DEF Requests
    <2> HIDE DEF r
    <2>5. Idle(t) /\ UNCHANGED <<node, lost>> BY <1>6 DEF Upload
    <2> QED BY <1>1, <2>3, <2>4, <2>5, TreeBegin
<1>7. ASSUME NEW t \in Tabs, NEW p \in Paths, Delete(t, p) PROVE TreeInv'
    <2> DEFINE r == [kind |-> "delete", stage |-> "checked", path |-> p, dest |-> p,
                     data |-> EmptyFile]
    <2>1. Begin(t, r) /\ Idle(t) /\ UNCHANGED <<node, lost>> BY <1>7 DEF Delete
    <2>2. r \in Requests /\ r.stage = "checked" /\ r.kind = "delete"
        BY EmptyIsFile DEF Requests
    <2> HIDE DEF r
    <2> QED BY <1>1, <2>1, <2>2, TreeBegin
<1>8. ASSUME NEW t \in Tabs, NEW p \in Paths, NEW d \in Paths, Move(t, p, d)
      PROVE  TreeInv'
    <2> DEFINE r == [kind |-> "move", stage |-> "checked", path |-> p, dest |-> d,
                     data |-> EmptyFile]
    <2>1. Begin(t, r) /\ Idle(t) /\ UNCHANGED <<node, lost>> /\ ~Exists(d)
        BY <1>8 DEF Move, MayMoveTo
    <2>2. r \in Requests /\ r.stage = "checked" /\ r.kind = "move" /\ r.dest = d
        BY EmptyIsFile DEF Requests
    <2> HIDE DEF r
    <2> QED BY <1>1, <2>1, <2>2, TreeBegin
<1>9. CASE UNCHANGED vars BY <1>9, TreeStays DEF vars, Idle
<1> QED
    BY <1>1, <1>2, <1>3, <1>4, <1>5, <1>6, <1>7, <1>8, <1>9,
       TreeOpen, TreeWrite, TreeErase, TreeParents, TreeRename
    DEF Next, EditorStep, ListingStep

LEMMA TreeInvariant == Spec => []TreeInv
<1>1. TreeInv /\ SaveInv /\ [Next]_vars => TreeInv' BY TreeStep
<1> QED BY TreeInit, SaveInvariant, <1>1, PTL DEF Spec

(***************************************************************************)
(* Whatever requests overlap, what exists is in a directory, a file that is *)
(* being written is where it was opened or moved, and pages, files and      *)
(* requests keep their types (app.py:3836-3947).                           *)
(***************************************************************************)
THEOREM TypesStay == Spec => []TypeOK
<1>1. ASSUME SaveInv, TreeInv PROVE TypeOK
    <2>1. \A p \in Paths : IsFile(p) => node[p] \in Contents
        BY <1>1 DEF SaveInv, Shape, Nodes, IsFile
    <2>2. \A t \in Tabs : ~Idle(t) => req[t] \in Requests
        BY <1>1 DEF TreeInv, RequestOK, Fits
    <2> QED
        BY <1>1, <2>1, <2>2 DEF SaveInv, Shape, Pages, TreeInv, Tree, TypeOK
<1> QED BY SaveInvariant, TreeInvariant, <1>1, PTL

(***************************************************************************)
(* Whatever requests run beside it, a move takes no text out of the webroot *)
(* but that of a file put at its destination after it was checked: when     *)
(* nothing did run beside it the destination is still free, and each file   *)
(* in a directory that is renamed is there under its new name               *)
(* (app.py:3885-3892).                                                     *)
(***************************************************************************)
THEOREM MovesLoseNothing == Spec => []MovesKeepContent
<1>1. TreeInv => MovesKeepContent BY DEF TreeInv, MovesKeepContent
<1> QED BY TreeInvariant, <1>1, PTL
===============================================================================
