---------------------------- MODULE MCFileManager ----------------------------
(* Small instances of FileManager for TLC. *)
EXTENDS FileManager

\* Two names, one of them with an extension every object answers to, each
\* for a file or for a directory with a PHP file in it; and the marker.
Odd == <<"data", "constructor">>
Old == <<"old">>
Script == <<"index", "PHP">>

MCMarker == <<<<"", "vhsp-no-404-fallback">>>>
MCPaths == {<<Odd>>, <<Odd, Script>>, <<Old>>, <<Old, Script>>, MCMarker}

\* The second text is the first one with a newline before it, and too large
\* to be saved with the line ends a form sends.
MCDropped == [x \in 0..2 |-> IF x = 2 THEN 1 ELSE x]
MCTooLarge == [text : {2}, eol : {"crlf"}, enc : {"utf8", "other", "replaced"}]

\* A file of another encoding with Unix line ends and a newline in front.
MCUploads == {[text |-> 2, eol |-> "lf", enc |-> "other"]}

Symmetry == Permutations(Tabs)
=============================================================================
