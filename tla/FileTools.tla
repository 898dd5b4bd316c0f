----------------------------- MODULE FileTools -----------------------------
(***************************************************************************)
(* tools/filesystem.py and tools/sandbox.py as ToolExecutor.execute calls  *)
(* them: list_files, read_file, search_code, write_file, edit_file and     *)
(* delete_file, in any order a conversation may ask for them.              *)
(*                                                                         *)
(* A path is the sequence of its names from the root of the file system,   *)
(* and tree maps every path that exists to a directory, a file or a        *)
(* symbolic link.  A file's text is a sequence of units: Letters are any   *)
(* characters, "LF" and "CR" are the line ends, "BAD" is a byte that is    *)
(* not UTF-8, "U+FFFD" what is shown for it, and "SUR" a character UTF-8   *)
(* cannot encode (a lone surrogate, as in the JSON of a tool call).  No    *)
(* tool makes a link, and the links there are lead to a path without links *)
(* on the way.                                                             *)
(***************************************************************************)
EXTENDS Naturals, Sequences, FiniteSets

CO == INSTANCE SequencesExt

CONSTANTS
    Root,         \* workspace_root, resolved
    DeniedNames,  \* workspace.denied_names
    Requests,     \* what a call may ask for: [absolute, parts]
    Trees,        \* the file systems a run may start in
    Letters,      \* the characters that are of no interest to the tools
    Texts,        \* what write_file may be given, and edit_file as new_text
    OldTexts,     \* what edit_file may be given as old_text
    MaxLength     \* bound: of the texts that are stored

VARIABLES tree, answer

vars == <<tree, answer>>

Names == STRING
Paths == Seq(Names)
Units == Letters \cup {"LF", "CR", "BAD", "U+FFFD", "SUR"}
AllTexts == Seq(Units)
Entries == [kind : {"dir", "file", "link"}, text : AllTexts, to : Paths]

Directory == [kind |-> "dir", text |-> <<>>, to |-> <<>>]
File(text) == [kind |-> "file", text |-> text, to |-> <<>>]

Under(p, d) == CO!IsPrefix(d, p)
IsFile(t, p) == p \in DOMAIN t /\ t[p].kind = "file"
IsDir(t, p) == p \in DOMAIN t /\ t[p].kind = "dir"

\* There is no link on the way to p, nor at p.
LinkFree(t, p) ==
    \A n \in 0 .. Len(p) :
        SubSeq(p, 1, n) \in DOMAIN t => t[SubSeq(p, 1, n)].kind # "link"

\* Everything that exists is in a directory, and a link leads past no other.
TreeOK(t) ==
    /\ DOMAIN t \subseteq Paths /\ t \in [DOMAIN t -> Entries]
    /\ IsDir(t, <<>>)
    /\ \A p \in DOMAIN t :
          /\ p # <<>> => IsDir(t, SubSeq(p, 1, Len(p) - 1))
          /\ t[p].kind = "link" => LinkFree(t, t[p].to)

ASSUME PathAssumption ==
    /\ Root \in Paths /\ Root # <<>>
    /\ \A q \in Requests : q.absolute \in BOOLEAN /\ q.parts \in Paths

ASSUME TextAssumption == Texts \subseteq AllTexts /\ OldTexts \subseteq AllTexts

\* FilesystemTools.__init__ has resolved the workspace's path and made it.
ASSUME TreeAssumption == \A t \in Trees : TreeOK(t) /\ IsDir(t, Root)

\* The file system that also, or instead, holds entry at path p.
Having(t, p, entry) == [q \in DOMAIN t \cup {p} |-> IF q = p THEN entry ELSE t[q]]

-----------------------------------------------------------------------------
(* sandbox.py *)

\* One name of Path.resolve(strict=False).
Follow(t, at, name) ==
    IF name = ".." THEN SubSeq(at, 1, Len(at) - 1)
    ELSE LET p == Append(at, name)
         IN  IF p \in DOMAIN t /\ t[p].kind = "link" THEN t[p].to ELSE p

Resolved(t, q) ==
    LET at[n \in 0 .. Len(q.parts)] ==
            IF n = 0 THEN (IF q.absolute THEN <<>> ELSE Root)
            ELSE Follow(t, at[n - 1], q.parts[n])
    IN  at[Len(q.parts)]

Denied(p) == \E i \in Len(Root) + 1 .. Len(p) : p[i] \in DeniedNames

\* Mutant of Safe: the path as asked for is checked, not the one it leads to.
SafeAsAsked(t, q) ==
    LET p == IF q.absolute THEN q.parts ELSE Root \o q.parts
    IN  Under(p, Root) /\ ~Denied(p)

\* Mutant of Safe: only the last name is looked at.
SafeAtEnd(t, q) ==
    LET p == Resolved(t, q) IN Under(p, Root) /\ p[Len(p)] \notin DeniedNames

\* resolve_safe_path raises no SandboxViolation.
Safe(t, q) == LET p == Resolved(t, q) IN Under(p, Root) /\ ~Denied(p)

\* Mutant of WithParents: the directories above a file are not made.
WithoutParents(t, p) == t

\* mkdir(parents=True, exist_ok=True) of the directory of p.
WithParents(t, p) ==
    LET above == {SubSeq(p, 1, n) : n \in 0 .. Len(p) - 1}
    IN  [q \in DOMAIN t \cup above |-> IF q \in DOMAIN t THEN t[q] ELSE Directory]

\* resolve_safe_path makes a workspace that is missing, for any tool.
Ensured == Having(tree, Root, IF Root \in DOMAIN tree THEN tree[Root] ELSE Directory)

-----------------------------------------------------------------------------
(* What the tools make of a file's text *)

\* s without its units at the places in I.
Without(s, I) ==
    LET rest[n \in 0 .. Len(s)] ==
            IF n = 0 THEN <<>>
            ELSE IF n \in I THEN rest[n - 1] ELSE Append(rest[n - 1], s[n])
    IN  rest[Len(s)]

\* Universal newlines: "CR", "LF" and the pair of them are one line end.
Newlined(s) ==
    LET rest == Without(s, {i \in DOMAIN s : i > 1 /\ s[i - 1] = "CR" /\ s[i] = "LF"})
    IN  [i \in DOMAIN rest |-> IF rest[i] = "CR" THEN "LF" ELSE rest[i]]

Decodes(s) == \A i \in DOMAIN s : s[i] # "BAD"
Encodes(s) == \A i \in DOMAIN s : s[i] # "SUR"

\* read_file decodes with errors="replace", search_code with "ignore".
ReadText(s) == Newlined([i \in DOMAIN s |-> IF s[i] = "BAD" THEN "U+FFFD" ELSE s[i]])
SearchText(s) == Newlined(Without(s, {i \in DOMAIN s : s[i] = "BAD"}))

\* Mutant of EditText: the text as stored, line ends and all.
EditTextAsStored(s) == s

EditText(s) == Newlined(s)

\* Where a line begins in a text that has only "LF".
Starts(s) ==
    Without([i \in DOMAIN s |-> i], {i \in DOMAIN s : i > 1 /\ s[i - 1] # "LF"})

\* splitlines(keepends=True)
Lines(s) ==
    [k \in DOMAIN Starts(s) |->
        SubSeq(s, Starts(s)[k],
               IF k = Len(Starts(s)) THEN Len(s) ELSE Starts(s)[k + 1] - 1)]

\* A line as splitlines() has it.
Stripped(line) ==
    IF line[Len(line)] = "LF" THEN SubSeq(line, 1, Len(line) - 1) ELSE line

\* read_file with a range of lines.
ReadLines(s, start, end) ==
    CO!FlattenSeq(SubSeq(Lines(ReadText(s)), start, end))

Places(s, part) ==
    {i \in 1 .. Len(s) - Len(part) + 1 : SubSeq(s, i, i + Len(part) - 1) = part}

\* Mutant of SearchHits: lines are numbered from 0.
SearchHitsFromZero(s, query) ==
    {k - 1 : k \in {k \in DOMAIN Lines(SearchText(s)) :
                       Places(Stripped(Lines(SearchText(s))[k]), query) # {}}}

\* The lines search_code reports of one file.
SearchHits(s, query) ==
    {k \in DOMAIN Lines(SearchText(s)) :
        Places(Stripped(Lines(SearchText(s))[k]), query) # {}}

\* str.count: from the left, places that do not overlap.
Count(s, part) ==
    LET found[i \in 0 .. Len(s) + 1] ==
            IF i = 0 THEN [n |-> 0, free |-> 1]
            ELSE IF i \in Places(s, part) /\ i >= found[i - 1].free
                 THEN [n |-> found[i - 1].n + 1, free |-> i + Len(part)]
                 ELSE found[i - 1]
    IN  found[Len(s) + 1].n

\* Mutant of Unique: a text that is found is good enough.
Found(s, part) == Count(s, part) >= 1

Unique(s, part) == Count(s, part) = 1

\* str.replace(old, new, 1)
ReplacedFirst(s, old, new) ==
    LET i == CHOOSE i \in Places(s, old) : \A j \in Places(s, old) : i <= j
    IN  SubSeq(s, 1, i - 1) \o new \o SubSeq(s, i + Len(old), Len(s))

-----------------------------------------------------------------------------
(* The tools *)

\* "refused" is a ToolResult with ok=False, "raised" an exception that leaves
\* filesystem.py and that execute() turns into one.
Answer(tool, outcome) == answer' = [tool |-> tool, outcome |-> outcome]

Refuses(tool) ==
    /\ Answer(tool, "refused")
    /\ tree' = Ensured

\* list_files, read_file and search_code change nothing.
ReadOnly(q, works) ==
    /\ Answer("read", IF Safe(tree, q) /\ works THEN "ok" ELSE "refused")
    /\ tree' = Ensured

ListFiles(q) == ReadOnly(q, IsDir(Ensured, Resolved(tree, q)))
ReadFile(q) == ReadOnly(q, IsFile(tree, Resolved(tree, q)))
SearchCode(q) == ReadOnly(q, Resolved(tree, q) \in DOMAIN Ensured)

\* write_text opens the file, which empties it or fails, and then encodes and
\* writes; a full disk may cut what is written.
WriteText(tool, p, t, text) ==
    \/ Answer(tool, "refused") /\ tree' = t
    \/ IF Encodes(text)
       THEN \/ Answer(tool, "ok") /\ tree' = Having(t, p, File(text))
            \/ Answer(tool, "refused")
                   /\ \E n \in 0 .. Len(text) : tree' = Having(t, p, File(SubSeq(text, 1, n)))
       ELSE Answer(tool, "raised") /\ tree' = Having(t, p, File(<<>>))

\* A file stands where one of the directories of p would have to be.
Obstructed(p) == \E n \in 1 .. Len(p) - 1 : IsFile(tree, SubSeq(p, 1, n))

WriteFile(q, text, overwrite) ==
    LET p == Resolved(tree, q) IN
    IF \/ ~Safe(tree, q) \/ Obstructed(p)
       \/ IsDir(Ensured, p) \/ (IsFile(tree, p) /\ ~overwrite)
    THEN Refuses("write_file")
    ELSE WriteText("write_file", p, WithParents(Ensured, p), text)

EditFile(q, old, new) ==
    LET p == Resolved(tree, q) IN
    IF ~Safe(tree, q) \/ ~IsFile(tree, p)
    THEN Refuses("edit_file")
    ELSE LET s == tree[p].text IN
         IF ~Decodes(s)
         THEN Answer("edit_file", "raised") /\ UNCHANGED tree
         ELSE IF ~Unique(EditText(s), old)
         THEN Refuses("edit_file")
         ELSE LET text == ReplacedFirst(EditText(s), old, new) IN
              /\ Len(text) <= MaxLength
              /\ WriteText("edit_file", p, tree, text)

\* rmtree may fail on the way, with some of what it found below gone; it does
\* not follow links.
DeleteFile(q) ==
    LET p == Resolved(tree, q)
        below == {d \in DOMAIN tree : Under(d, p)}
    IN
    \/ /\ ~Safe(tree, q) \/ p \notin DOMAIN Ensured
       /\ Refuses("delete_file")
    \/ /\ Safe(tree, q) /\ p \in DOMAIN Ensured
       /\ \/ /\ Answer("delete_file", "ok")
             /\ tree' = [d \in DOMAIN tree \ below |-> tree[d]]
          \/ /\ Answer("delete_file", "refused")
             /\ \E gone \in SUBSET (below \ {p}) :
                   /\ \A g \in gone : {d \in below : Under(d, g)} \subseteq gone
                   /\ tree' = [d \in DOMAIN Ensured \ gone |-> Ensured[d]]

Init ==
    /\ tree \in Trees
    /\ answer = [tool |-> "read", outcome |-> "ok"]

Next ==
    \E q \in Requests :
        \/ ListFiles(q)
        \/ ReadFile(q)
        \/ SearchCode(q)
        \/ \E text \in Texts, overwrite \in BOOLEAN : WriteFile(q, text, overwrite)
        \/ \E old \in OldTexts, new \in Texts : EditFile(q, old, new)
        \/ DeleteFile(q)

Spec == Init /\ [][Next]_vars

-----------------------------------------------------------------------------
(* Properties *)

\* The shape of the state: every tool leaves a tree.
TypeOK ==
    /\ answer \in [tool : {"read", "write_file", "edit_file", "delete_file"},
                   outcome : {"ok", "refused", "raised"}]
    /\ TreeOK(tree)

Same(p) == (p \in DOMAIN tree <=> p \in DOMAIN tree') /\ (p \in DOMAIN tree => tree'[p] = tree[p])

\* Whatever is asked for, and wherever links and ".." lead, nothing outside the
\* workspace changes (resolve_safe_path looks at the path they lead to).
OutsideKept ==
    [][\A p \in DOMAIN tree \cup DOMAIN tree' : Under(p, Root) \/ Same(p)]_tree

\* A denied name is not written, not even by another name for it, and goes only
\* when a directory above it is deleted as a whole.  (A link with a denied name is
\* itself kept; what it leads to is judged by where that is.)
DeniedKept ==
    [][\A p \in DOMAIN tree \cup DOMAIN tree' :
          \/ ~Denied(p) \/ Same(p)
          \/ /\ p \notin DOMAIN tree'
             /\ \E q \in Requests :
                   /\ DeleteFile(q)
                   /\ Under(p, Resolved(tree, q)) /\ ~Denied(Resolved(tree, q))]_tree

\* An edit_file that is answered ok has replaced one place of old_text by new_text
\* in the file the path leads to, and old_text was not anywhere else but over that
\* place; nothing else has changed.  The text is the file's with its line ends
\* read as LF, which is also how they are written back.
EditIsOnePlace ==
    [][(answer'.tool = "edit_file" /\ answer'.outcome = "ok") =>
          \A q \in Requests, old \in OldTexts, new \in Texts :
             EditFile(q, old, new) =>
                LET p == Resolved(tree, q)
                    s == EditText(tree[p].text)
                    u == tree'[p].text
                IN  /\ IsFile(tree, p) /\ IsFile(tree', p)
                    /\ \A d \in DOMAIN tree \cup DOMAIN tree' : d = p \/ Same(d)
                    /\ \E i \in Places(s, old) :
                          /\ u = SubSeq(s, 1, i - 1) \o new \o SubSeq(s, i + Len(old), Len(s))
                          /\ \A j \in Places(s, old) :
                                j = i \/ (j < i + Len(old) /\ i < j + Len(old))]_vars

\* What read_file shows of a file, any lines of it, is in the text edit_file
\* searches: an old_text copied from a read is found.
ReadCanBeEdited ==
    \A p \in DOMAIN tree :
        (tree[p].kind = "file" /\ Decodes(tree[p].text)) =>
            LET s == tree[p].text IN
            \A from, to \in DOMAIN Lines(ReadText(s)) :
                from <= to => Places(EditText(s), ReadLines(s, from, to)) # {}

\* A line search_code reports is a line that holds the query when read_file is
\* asked for it, and no line that does is left out, unless the query has a line
\* end, which search_code's lines are without.
SearchAgreesWithRead ==
    \A p \in DOMAIN tree :
        (tree[p].kind = "file" /\ Decodes(tree[p].text)) =>
            \A query \in OldTexts :
                LET hits == SearchHits(tree[p].text, query)
                    reads == {k \in DOMAIN Lines(ReadText(tree[p].text)) :
                                 Places(ReadLines(tree[p].text, k, k), query) # {}}
                IN  /\ hits \subseteq reads
                    /\ hits = reads \/ \E i \in DOMAIN query : query[i] = "LF"
=============================================================================
