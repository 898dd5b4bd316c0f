---------------------------- MODULE MCFileTools ----------------------------
(***************************************************************************)
(* A workspace /ws with a file, a denied directory and a link that leads   *)
(* out of it, into the denied directory, to a directory that is not there  *)
(* or back to the workspace.                                               *)
(***************************************************************************)
EXTENDS FileTools

MCRoot == <<"ws">>

Asked(parts) == [absolute |-> FALSE, parts |-> parts]

MCRequests ==
    {Asked(<<>>), Asked(<<"f">>), Asked(<<"secrets", "k">>), Asked(<<"l">>),
     Asked(<<"l", "f">>), Asked(<<"d", "f">>), Asked(<<"f", "f">>),
     Asked(<<"l", "..", "f">>), [absolute |-> TRUE, parts |-> <<"out", "f">>]}

\* Texts in which a match overlaps itself, lines end in every way, and a byte is
\* not UTF-8.
MCContents ==
    {<<u>> : u \in {"x", "LF", "CR", "BAD"}}
        \cup {<<>>, <<"x", "x">>, <<"x", "BAD">>, <<"CR", "LF">>, <<"LF", "LF">>,
              <<"x", "x", "x">>, <<"x", "CR", "LF">>, <<"CR", "LF", "x">>,
              <<"x", "LF", "x">>, <<"x", "BAD", "x">>}

\* /ws/f holds text, /ws/l leads to target.
MCTree(text, target) ==
    LET directories == {<<>>, <<"out">>, <<"ws">>, <<"ws", "secrets">>}
        others == {<<"out", "f">>, <<"ws", "secrets", "k">>}
    IN  [p \in directories \cup others \cup {<<"ws", "f">>, <<"ws", "l">>} |->
            IF p \in directories THEN Directory
            ELSE IF p \in others THEN File(<<"x">>)
            ELSE IF p = <<"ws", "f">> THEN File(text)
            ELSE [Directory EXCEPT !.kind = "link", !.to = target]]

MCTrees ==
    {MCTree(s, <<"ws">>) : s \in MCContents}
        \cup {MCTree(<<"x">>, t) : t \in {<<"out">>, <<"ws", "secrets">>, <<"ws", "d">>}}

MCTexts == {<<>>, <<"x">>, <<"SUR">>}

MCOldTexts == {<<>>, <<"x">>, <<"x", "x">>, <<"LF">>}
=============================================================================
