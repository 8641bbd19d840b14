---------------------------- MODULE FileManager -----------------------------
(***************************************************************************)
(* The file manager of one site: the PHP scripts the worker runs in the    *)
(* WordPress container (cmd/worker/main.go, writeFilePHP and the others)   *)
(* on the files below wp-content.  A script looks first and acts later,    *)
(* and WordPress itself writes between the two; a script can be killed     *)
(* with its request at any point.                                          *)
(***************************************************************************)
EXTENDS Naturals, Sequences

CONSTANTS
    FilePaths,    \* paths below wp-content, as sequences of names
    InitialTree,  \* what is there at first
    MaxContents   \* bound on the contents ever written

VARIABLES
    tree,      \* tree[p]: what is at p
    script,    \* the script under way
    contents   \* contents written so far

fileVars == <<tree, script, contents>>

Nothing == <<"nothing">>
Directory == <<"directory">>
Link == <<"link">>
\* A file with its content.
File(content) == <<"file", content>>

IsFile(node) == node[1] = "file"
\* Its mark is the last content there was when it looked, or an upload's own.
Idle == [do |-> "none", path |-> <<>>, target |-> <<>>, stage |-> "none", mark |-> 0]

Parent(p) == SubSeq(p, 1, Len(p) - 1)
Below(p) == {q \in FilePaths : Len(q) > Len(p) /\ SubSeq(q, 1, Len(p)) = p}
IsDirectory(p) == p # <<>> => tree[p] = Directory

\* What is somewhere is in directories all the way up.
IsTree(t) ==
    /\ t = [p \in FilePaths |-> t[p]]
    /\ \A p \in FilePaths : t[p] # Nothing => \A n \in 1..(Len(p) - 1) : t[SubSeq(p, 1, n)] = Directory

ASSUME FilePathsAssumption ==
    /\ FilePaths \subseteq Seq(STRING) \ {<<>>}
    /\ \A p \in FilePaths : \A n \in 1..Len(p) : SubSeq(p, 1, n) \in FilePaths
ASSUME InitialTreeAssumption == IsTree(InitialTree)

\* safePath: no part of the path is a link.
SafePath(p) == \A n \in 1..Len(p) : tree[SubSeq(p, 1, n)] # Link

FileInit ==
    /\ tree = InitialTree
    /\ script = Idle
    /\ contents = 0

-----------------------------------------------------------------------------
(* The first half of a script: its checks *)

\* An existing file may be replaced, nothing else.
MayWrite(p) == SafePath(p) /\ IsDirectory(Parent(p)) /\ (tree[p] = Nothing \/ IsFile(tree[p]))
MayMake(p) == SafePath(p) /\ IsDirectory(Parent(p)) /\ tree[p] = Nothing
MayDelete(p) == SafePath(p) /\ tree[p] # Nothing
MayMoveAnywhere(p, q) ==
    /\ SafePath(p) /\ tree[p] # Nothing
    /\ SafePath(q) /\ IsDirectory(Parent(q))
MayMove(p, q) ==
    /\ SafePath(p) /\ tree[p] # Nothing
    /\ SafePath(q) /\ IsDirectory(Parent(q)) /\ tree[q] = Nothing

\* validateFileRequest and the checks of the script; a failed check exits.
BeginScript(do, p, q) ==
    /\ script = Idle
    /\ CASE do = "upload" -> MayWrite(p)
         [] do = "mkdir" -> MayMake(p)
         [] do = "file-delete" -> MayDelete(p)
         [] do = "file-move" -> p # q /\ MayMove(p, q)
    /\ script' = [do |-> do, path |-> p, target |-> q, mark |-> contents,
                  stage |-> IF do = "upload" THEN "write" ELSE "act"]
    /\ UNCHANGED <<tree, contents>>

-----------------------------------------------------------------------------
(* The second half *)

\* The upload is written to a new temporary file; without room it is removed, and
\* a killed script leaves one that no path of the site names.
WriteTemporary ==
    /\ script.stage = "write"
    /\ \/ /\ contents < MaxContents
          /\ contents' = contents + 1
          /\ script' = [script EXCEPT !.stage = "act", !.mark = contents']
       \/ script' = Idle /\ UNCHANGED contents
    /\ UNCHANGED tree

\* What rename(2) does: a file replaces a file, a directory an empty directory.
Renamed(p, q) ==
    LET moved(r) == p \o SubSeq(r, Len(q) + 1, Len(r))
    IN  [r \in FilePaths |->
           IF r = q \/ r \in Below(q)
           THEN IF moved(r) \in FilePaths THEN tree[moved(r)] ELSE Nothing
           ELSE IF r = p \/ r \in Below(p) THEN Nothing ELSE tree[r]]
MayRename(p, q) ==
    /\ tree[p] # Nothing /\ IsDirectory(Parent(q))
    /\ q \notin Below(p)
    /\ \/ tree[q] = Nothing
       \/ IsFile(tree[p]) /\ IsFile(tree[q])
       \/ tree[p] = Directory /\ tree[q] = Directory /\ \A r \in Below(q) : tree[r] = Nothing
    /\ \A r \in Below(p) : tree[r] # Nothing => q \o SubSeq(r, Len(p) + 1, Len(r)) \in FilePaths

\* The call that takes effect; one that the file system refuses changes nothing.
Act ==
    /\ script.stage = "act"
    /\ LET p == script.path
           q == script.target
       IN  \/ /\ script.do = "upload" /\ IsDirectory(Parent(p)) /\ tree[p] # Directory
              /\ tree' = [tree EXCEPT ![p] = File(script.mark)]
           \/ /\ script.do = "mkdir" /\ IsDirectory(Parent(p)) /\ tree[p] = Nothing
              /\ tree' = [tree EXCEPT ![p] = Directory]
           \/ /\ script.do = "file-delete" /\ \A r \in Below(p) : tree[r] = Nothing
              /\ tree' = [tree EXCEPT ![p] = Nothing]
           \/ /\ script.do = "file-move" /\ MayRename(p, q)
              /\ tree' = Renamed(p, q)
           \/ UNCHANGED tree
    /\ script' = Idle
    /\ UNCHANGED contents

\* The container's process ends with its request or its container.
KillScript ==
    /\ script # Idle
    /\ script' = Idle
    /\ UNCHANGED contents

ScriptStep == WriteTemporary \/ Act

\* WordPress, or a script that has outlived its request, writes a file.
WordPressWrites ==
    /\ contents < MaxContents
    /\ contents' = contents + 1
    /\ \E p \in FilePaths :
         /\ IsDirectory(Parent(p)) /\ (tree[p] = Nothing \/ IsFile(tree[p]))
         /\ tree' = [tree EXCEPT ![p] = File(contents')]
    /\ UNCHANGED script

-----------------------------------------------------------------------------
(* Properties *)

Contents(t) == {t[p] : p \in {q \in FilePaths : IsFile(t[q])}}

\* Contents written since a script looked.
WrittenSince(mark) == {File(n) : n \in (mark + 1)..contents}

\* A script loses no file but the one it was told to replace or delete, whatever
\* WordPress writes between its checks and its act.  A move, which was to replace
\* nothing, can lose what WordPress has put at its target in between, and never a
\* file that was there when it looked.
FilesConserved ==
    [][script.stage = "act" /\ script' = Idle =>
         \A lost \in Contents(tree) \ Contents(tree') :
            \/ script.do \in {"upload", "file-delete"} /\ lost = tree[script.path]
            \/ /\ script.do = "file-move" /\ lost = tree[script.target]
               /\ lost \in WrittenSince(script.mark)]_fileVars
=============================================================================
