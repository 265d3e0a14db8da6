----------------------------- MODULE EditorPage -----------------------------
(***************************************************************************)
(* The in-browser editor of the Files page: vhspMountEditor, which the     *)
(* inline script of FILES_EDIT_PAGE calls once per page load.  It hides    *)
(* the form's <textarea>, shows a CodeMirror view over the same text, and  *)
(* copies the view's document back so that the form submits what is shown. *)
(*                                                                         *)
(* A path is a sequence of names and a name a sequence of the parts that   *)
(* its dots separate: <<"site", "php">> is site.php.  A text is a number;  *)
(* 0 is the empty text.  A text x begins with a newline when Dropped[x],   *)
(* which is x without it, is another text.                                 *)
(***************************************************************************)
EXTENDS Naturals, Sequences, SequencesExt

CONSTANTS
    Tabs,      \* browser tabs of the tenant's owners
    Paths,     \* paths a tab may open
    MaxTexts,  \* bound: the texts there are
    Dropped,   \* [text -> text]: without the newline it begins with, if any
    NoPath     \* the tab shows no file

Texts == 0..MaxTexts

ASSUME TabAssumption == NoPath \notin Paths /\ MaxTexts \in Nat \ {0}
ASSUME TextAssumption == Dropped \in [Texts -> Texts]

VARIABLE page      \* tab -> its editor page

-----------------------------------------------------------------------------
(* Choosing the language by the file's extension.                          *)

\* The keys of LANG_BY_EXT.
Languages ==
    {"php", "phtml", "js", "mjs", "jsx", "ts", "tsx", "css", "html", "htm", "json",
     "sql", "py", "md", "markdown", "yml", "yaml", "xml", "svg"}

\* toLowerCase, for the spellings that occur in Paths.
LowerCase(s) ==
    CASE s = "PHP" -> "php" [] s = "Html" -> "html" [] OTHER -> s

\* The text after the last dot of the whole path, "" without one.  What is
\* after a dot in a directory's name contains a slash, so it is listed nowhere.
Ext(path) == IF Len(Last(path)) > 1 THEN LowerCase(Last(Last(path))) ELSE ""

\* Every object literal also answers to these two lower-case keys: one is a
\* function that returns an object CodeMirror does not take for an extension,
\* the other is not a function.
InheritedKeys == {"constructor", "__proto__"}

\* langExtensionFor returns something that CodeMirror can use, or nothing.
Mountable(path) == Ext(path) \notin InheritedKeys

-----------------------------------------------------------------------------
(* The page: at is "blank" (no editor page), "mounted", "stuck" (the mount  *)
(* threw when the textarea was hidden already: neither is to be seen) or    *)
(* "sent" (the form was submitted).  area is the textarea's value, doc the  *)
(* document of the view, edited whether the user changed the document.      *)

BlankPage == [at |-> "blank", path |-> NoPath, area |-> 0, doc |-> 0, edited |-> FALSE]

PageInit == page = [t \in Tabs |-> BlankPage]

\* Mutant: the view starts empty.
Mounted_Empty(p) == [p EXCEPT !.at = "mounted"]

Mounted(p) == [p EXCEPT !.at = "mounted", !.doc = p.area]

Mount(p) == IF Mountable(p.path) THEN Mounted(p) ELSE [p EXCEPT !.at = "stuck"]

\* The page with this text in its textarea, once its scripts have run.
Opened(path, text) == Mount([BlankPage EXCEPT !.path = path, !.area = text])

\* The user changes the document: to any text, by typing, undo or pasting.
Edit(t) ==
    /\ page[t].at = "mounted"
    /\ \E new \in Texts \ {page[t].doc} :
          page' = [page EXCEPT ![t].doc = new, ![t].edited = TRUE]

\* The update listener.
SyncTextarea(t) ==
    /\ page[t].at = "mounted"
    /\ page[t].area # page[t].doc
    /\ page' = [page EXCEPT ![t].area = page[t].doc]

\* The form's submit listener copies the document once more; a page whose
\* mount threw has no listener.
SubmittedArea(p) == IF p.at = "mounted" THEN p.doc ELSE p.area

Sent(p) == [p EXCEPT !.at = "sent", !.area = SubmittedArea(p)]
=============================================================================
