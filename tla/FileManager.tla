----------------------------- MODULE FileManager -----------------------------
(***************************************************************************)
(* The Files page of a tenant's panel (files, files_edit) over the webroot *)
(* and the editor page in the owners' browsers.  The 404-fallback toggle,   *)
(* whose marker file lies in the same webroot, is never used here: the     *)
(* marker only appears as the path the page refuses.                       *)
(*                                                                         *)
(* Two gunicorn workers serve the requests and nothing locks, so a request *)
(* is its checks, then one action per file system call that others can     *)
(* slip in between.  A request is named after the tab that sent it.        *)
(***************************************************************************)
EXTENDS EditorPage, FiniteSets

CONSTANTS
    Marker,    \* the path of .vhsp-no-404-fallback
    Absent,    \* nothing at a path
    Dir,       \* a directory
    NoRequest, \* the tab waits for nothing
    TooLarge,  \* contents of more than FILES_MAX_EDIT_BYTES
    Uploads    \* bound: what may be uploaded

ASSUME PathAssumption ==
    /\ Marker \in Paths /\ Len(Marker) = 1
    /\ Paths \subseteq Seq(Seq(STRING))
    /\ \A p \in Paths : Len(p) \in 1..2 /\ (Len(p) = 2 => Front(p) \in Paths)

\* A file: its text, the line ends in it, and whether its bytes are UTF-8,
\* are not, or stand where other bytes were replaced by question marks.
Contents == [text : Texts, eol : {"lf", "crlf"}, enc : {"utf8", "other", "replaced"}]
EmptyFile == [text |-> 0, eol |-> "lf", enc |-> "utf8"]

ASSUME ContentsAssumption ==
    /\ TooLarge \subseteq Contents /\ Uploads \subseteq Contents
    /\ \A c \in Uploads : c.text # 0
ASSUME NodeAssumption == Absent # Dir /\ Absent \notin Contents /\ Dir \notin Contents

VARIABLES
    node,      \* path -> Absent, Dir or a file's content
    loaded,    \* tab -> the content its editor page was made from
    req,       \* tab -> the request in progress
    crossed,   \* history: tabs whose request ran beside another
    lost       \* history: texts a move took out of the webroot

vars == <<page, node, loaded, req, crossed, lost>>

IsFile(p) == node[p] \notin {Absent, Dir}
Exists(p) == node[p] # Absent
InDir(p) == Len(p) > 1 => node[Front(p)] = Dir
At(p) == {q \in Paths : IsPrefix(p, q)}
TextsIn(tree) == {tree[p].text : p \in {q \in Paths : tree[q] \notin {Absent, Dir}}} \ {0}

FILES_TEXT_EXTENSIONS ==
    Languages \cup
        {"txt", "ini", "conf", "env", "csv", "sh", "rb", "twig", "vue", "log",
         "htpasswd", "htaccess", "gitignore", "editorconfig"}

\* _is_text_file: by its extension, or by what its first bytes are.
IsText(p) == IsFile(p) /\ (Ext(p) \in FILES_TEXT_EXTENSIONS \/ node[p].enc # "other")

Init ==
    /\ PageInit
    /\ node = [p \in Paths |-> Absent]
    /\ loaded = [t \in Tabs |-> EmptyFile]
    /\ req = [t \in Tabs |-> NoRequest]
    /\ crossed = {} /\ lost = {}

Idle(t) == req[t] = NoRequest

Busy == {t \in Tabs : ~Idle(t)}

Begin(t, r) ==
    /\ req' = [req EXCEPT ![t] = r]
    /\ crossed' = IF Busy = {} THEN crossed ELSE crossed \cup Busy \cup {t}

Goto(t, stage) == req' = [req EXCEPT ![t].stage = stage] /\ UNCHANGED crossed
Answer(t) == req' = [req EXCEPT ![t] = NoRequest] /\ crossed' = crossed \ {t}

\* The tab gets a page without an editor: the listing or an error.
Leave(t) ==
    /\ page' = [page EXCEPT ![t] = BlankPage]
    /\ loaded' = [loaded EXCEPT ![t] = EmptyFile]
    /\ Answer(t)

-----------------------------------------------------------------------------
(* The editor.                                                             *)

\* What is in the textarea: line ends become "\n", bytes that are no UTF-8
\* become replacement characters, and the browser drops a newline right
\* behind the tag.
Read(c) == Dropped[c.text]

\* GET /files/edit
OpenEditor(t, p) ==
    /\ Idle(t) /\ page[t].at = "blank"
    /\ p # Marker /\ IsText(p) /\ node[p] \notin TooLarge
    /\ page' = [page EXCEPT ![t] = Opened(p, Read(node[p]))]
    /\ loaded' = [loaded EXCEPT ![t] = node[p]]
    /\ UNCHANGED <<node, req, crossed, lost>>

\* A form sends every line end as CRLF and write_text keeps it; the
\* replacement characters are UTF-8 like the rest.
Posted(c, text) ==
    [text |-> text, eol |-> "crlf", enc |-> IF c.enc = "utf8" THEN "utf8" ELSE "replaced"]

Content(t) == Posted(loaded[t], SubmittedArea(page[t]))

MayBeSaved(t) ==
    IsText(page[t].path) /\ page[t].path # Marker /\ Content(t) \notin TooLarge

\* POST /files/edit, up to its checks; the page stays as it was sent while
\* the browser waits.
Save(t) ==
    /\ Idle(t) /\ page[t].at \in {"mounted", "stuck"}
    /\ IF MayBeSaved(t)
       THEN /\ page' = [page EXCEPT ![t] = Sent(@)]
            /\ Begin(t, [kind |-> "save", stage |-> "checked", path |-> page[t].path,
                         dest |-> page[t].path, data |-> Content(t)])
            /\ UNCHANGED loaded
       ELSE Leave(t)
    /\ UNCHANGED <<node, lost>>

\* Opening a file for writing creates or empties it.
OpenForWriting(t) ==
    /\ ~Idle(t) /\ req[t].kind \in {"save", "upload"} /\ req[t].stage = "checked"
    /\ IF node[req[t].path] # Dir /\ InDir(req[t].path)
       THEN /\ node' = [node EXCEPT ![req[t].path] = EmptyFile]
            /\ Goto(t, "open")
            /\ UNCHANGED <<page, loaded>>
       ELSE Leave(t) /\ UNCHANGED node
    /\ UNCHANGED lost

\* The bytes go to the file that was opened, wherever it is by now (dest), or
\* nowhere when it was deleted.  That ends an upload.
WriteAndClose(t) ==
    /\ ~Idle(t) /\ req[t].stage = "open"
    /\ node' = IF req[t].dest = NoPath THEN node
               ELSE [node EXCEPT ![req[t].dest] = req[t].data]
    /\ IF req[t].kind = "save" THEN Goto(t, "written") ELSE Answer(t)
    /\ UNCHANGED <<page, loaded, lost>>

\* The answer to a save is the editor again, over what is in the file now.
AnswerSave(t) ==
    /\ ~Idle(t) /\ req[t].kind = "save" /\ req[t].stage = "written"
    /\ IF IsFile(req[t].path) /\ node[req[t].path] \notin TooLarge
       THEN /\ page' = [page EXCEPT ![t] = Opened(req[t].path, Read(node[req[t].path]))]
            /\ loaded' = [loaded EXCEPT ![t] = node[req[t].path]]
            /\ Answer(t)
       ELSE Leave(t)
    /\ UNCHANGED <<node, lost>>

\* "Back to files".
CloseEditor(t) ==
    /\ Idle(t) /\ page[t].at \in {"mounted", "stuck"}
    /\ page' = [page EXCEPT ![t] = BlankPage]
    /\ loaded' = [loaded EXCEPT ![t] = EmptyFile]
    /\ UNCHANGED <<node, req, crossed, lost>>

InPage(t) == (Edit(t) \/ SyncTextarea(t)) /\ UNCHANGED <<node, loaded, req, crossed, lost>>

-----------------------------------------------------------------------------
(* The listing page.                                                       *)

\* secure_filename drops the leading dot, so no upload is named as the marker.
Upload(t, p) ==
    /\ Idle(t) /\ page[t].at = "blank"
    /\ Last(p) # Last(Marker) /\ InDir(p)
    /\ \E c \in Uploads :
          Begin(t, [kind |-> "upload", stage |-> "checked", path |-> p, dest |-> p,
                    data |-> c])
    /\ UNCHANGED <<page, node, loaded, lost>>

\* Where the file that u has open is, once p was renamed to q, deleted or
\* replaced by what was renamed to it.
Follow(u, moved) ==
    IF ~Idle(u) /\ req[u].stage = "open" /\ req[u].dest \in DOMAIN moved
    THEN [req[u] EXCEPT !.dest = moved[@]] ELSE req[u]

Delete(t, p) ==
    /\ Idle(t) /\ page[t].at = "blank"
    /\ p # Marker /\ Exists(p)
    /\ Begin(t, [kind |-> "delete", stage |-> "checked", path |-> p, dest |-> p,
                 data |-> EmptyFile])
    /\ UNCHANGED <<page, node, loaded, lost>>

\* unlink or rmtree; a target that is gone by now is an error and no change.
Erase(t) ==
    /\ ~Idle(t) /\ req[t].kind = "delete"
    /\ node' = [p \in Paths |-> IF IsPrefix(req[t].path, p) THEN Absent ELSE node[p]]
    /\ req' = [u \in Tabs |-> IF u = t THEN NoRequest
                              ELSE Follow(u, [p \in At(req[t].path) |-> NoPath])]
    /\ crossed' = crossed \ {t}
    /\ UNCHANGED <<page, loaded, lost>>

\* Mutant: a destination that exists is no error.
MayMoveTo_Anything(p) == p # Marker

MayMoveTo(p) == ~Exists(p) /\ p # Marker

\* Bound: what is moved keeps to Paths.
FitsUnder(s, d) ==
    \A p \in At(s) : Exists(p) => d \o SubSeq(p, Len(s) + 1, Len(p)) \in Paths

Move(t, s, d) ==
    /\ Idle(t) /\ page[t].at = "blank"
    /\ s # Marker /\ Exists(s) /\ s # d
    /\ MayMoveTo(d)
    /\ FitsUnder(s, d)
    /\ Begin(t, [kind |-> "move", stage |-> "checked", path |-> s, dest |-> d,
                 data |-> EmptyFile])
    /\ UNCHANGED <<page, node, loaded, lost>>

MakeParents(t) ==
    /\ ~Idle(t) /\ req[t].kind = "move" /\ req[t].stage = "checked"
    /\ LET d == req[t].dest
       IN IF Len(d) = 1 THEN Goto(t, "moving") /\ UNCHANGED node
          ELSE IF IsFile(Front(d)) THEN Answer(t) /\ UNCHANGED node
          ELSE Goto(t, "moving") /\ node' = [node EXCEPT ![Front(d)] = Dir]
    /\ UNCHANGED <<page, loaded, lost>>

\* shutil.move puts the source into a destination that became a directory.
Landing(s, d) == IF node[d] = Dir THEN Append(d, Last(s)) ELSE d

\* rename replaces a file that came to exist at the destination, but not one
\* in the directory that did; only a directory is copied, parents and all,
\* when the directory to hold it is gone.
CanRename(s, dest) ==
    LET d == Landing(s, dest)
    IN /\ Exists(s) /\ ~IsPrefix(s, d)
       /\ InDir(d) \/ (node[s] = Dir /\ node[Front(d)] = Absent)
       /\ node[s] = Dir \/ d # dest => ~Exists(d)

\* Mutant: a directory is renamed without what is in it.
Renamed_Shallow(s, d) == [node EXCEPT ![s] = Absent, ![d] = node[s]]

Renamed(s, d) ==
    [p \in Paths |->
        IF IsPrefix(s, p) THEN Absent
        ELSE IF IsPrefix(d, p) THEN
                 LET q == s \o SubSeq(p, Len(d) + 1, Len(p))
                 IN IF q \in Paths THEN node[q] ELSE Absent
        ELSE IF IsPrefix(p, d) THEN Dir
        ELSE node[p]]

\* What was put at the destination of a move since it was checked.
Overwritten(t) ==
    IF t \in crossed /\ IsFile(req[t].dest) THEN {node[req[t].dest].text} ELSE {}

Rename(t) ==
    /\ ~Idle(t) /\ req[t].kind = "move" /\ req[t].stage = "moving"
    /\ LET s == req[t].path
           d == Landing(s, req[t].dest)
           moved == [p \in At(s) \cup At(d) |->
                        IF p \in At(s) THEN d \o SubSeq(p, Len(s) + 1, Len(p)) ELSE NoPath]
       IN /\ FitsUnder(s, d)
          /\ IF CanRename(s, req[t].dest)
             THEN /\ node' = Renamed(s, d)
                  /\ lost' = lost \cup ((TextsIn(node) \ TextsIn(node')) \ Overwritten(t))
                  /\ req' = [u \in Tabs |->
                        IF u = t THEN NoRequest ELSE Follow(u, moved)]
                  /\ crossed' = crossed \ {t}
             ELSE Answer(t) /\ UNCHANGED <<node, lost>>
    /\ UNCHANGED <<page, loaded>>

-----------------------------------------------------------------------------
EditorStep(t) ==
    \/ InPage(t) \/ CloseEditor(t) \/ Save(t)
    \/ OpenForWriting(t) \/ WriteAndClose(t) \/ AnswerSave(t)
    \/ \E p \in Paths : OpenEditor(t, p)

ListingStep(t) ==
    \/ Erase(t) \/ MakeParents(t) \/ Rename(t)
    \/ \E p \in Paths : Upload(t, p) \/ Delete(t, p) \/ \E d \in Paths : Move(t, p, d)

Next == \E t \in Tabs : EditorStep(t) \/ ListingStep(t)

Spec == Init /\ [][Next]_vars

-----------------------------------------------------------------------------
Requests ==
    [kind : {"save", "upload", "delete", "move"},
     stage : {"checked", "open", "written", "moving"},
     path : Paths, dest : Paths \cup {NoPath}, data : Contents]

(* The types of the webroot, the pages and the requests, and that whatever    *)
(* exists is in a directory (app.py:3836-3947).                             *)
TypeOK ==
    /\ page \in [Tabs -> [at : {"blank", "mounted", "stuck", "sent"},
                          path : Paths \cup {NoPath}, area : Texts, doc : Texts,
                          edited : BOOLEAN]]
    /\ \A p \in Paths : IsFile(p) => node[p] \in Contents
    /\ \A p \in Paths : Exists(p) => InDir(p)
    /\ loaded \in [Tabs -> Contents]
    /\ \A t \in Tabs : ~Idle(t) => req[t] \in Requests
    /\ crossed \subseteq Tabs /\ lost \subseteq Texts

(* Saving a page nobody changed, also one whose editor could not be mounted,   *)
(* loses at most the newline its file began with, whatever became of the file  *)
(* meanwhile.  Of a text that begins with no newline it keeps every line, and  *)
(* from the second save on it changes nothing at all: only the first one turns *)
(* the line ends to CRLF and makes replaced bytes final (app.py:3934-3941).    *)
UntouchedSaveIsHarmless ==
    \A t \in Tabs : ~Idle(t) /\ req[t].kind = "save" /\ ~page[t].edited =>
        LET was == loaded[t]
            is == req[t].data
        IN /\ is.text \in {was.text, Dropped[was.text]}
           /\ Dropped[was.text] = was.text =>
                 /\ is.text = was.text
                 /\ was.eol = "crlf" /\ was.enc # "other" => is = was

(* A move takes nothing out of the webroot, whatever requests run beside it,    *)
(* but for the one file that was put at its very destination after it had      *)
(* been checked: the rename replaces that, and no other (app.py:3885-3892).    *)
MovesKeepContent == lost = {}
=============================================================================
