--------------------------- MODULE DirectoryTree ---------------------------
(***************************************************************************)
(* What the directory half of the exFAT driver promises its caller: a tree *)
(* of names, two levels deep, in which a request changes exactly what it   *)
(* names, at most once, and at a single instant.  A rename is two          *)
(* instants: the new name appears, then the old one goes.                  *)
(* ExfatDirectory is shown to implement this module.                       *)
(***************************************************************************)
EXTENDS Naturals, Sequences

CONSTANTS
    Files,      \* names given to files
    Dirs,       \* names given to directories of the root
    Lens,       \* the lengths a file can have
    Root,       \* the parent of a top-level name
    None        \* no node, no request, no second path

VARIABLES
    tree,       \* tree[p]: the node at path p, or None
    request     \* the request in progress, or None; step: its effects so far

vars == <<tree, request>>

Names == Files \cup Dirs
Paths == ({Root} \X Names) \cup (Dirs \X Files)
FileNode(len) == [dir |-> FALSE, len |-> len]
DirNode == [dir |-> TRUE, len |-> 0]

Present(p) == tree[p] # None
IsDir(p) == Present(p) /\ tree[p].dir
Under(p) == {q \in Paths : p[1] = Root /\ q[1] = p[2]}
ParentThere(p) == p[1] = Root \/ IsDir(<<Root, p[1]>>)

Init ==
    /\ tree = [p \in Paths |-> None]
    /\ request = None

Ask ==
    /\ request = None
    /\ request' \in [kind : {"create", "mkdir", "update", "remove", "rename"},
                     path : Paths, to : Paths \cup {None}, len : Lens, step : {0}]
    /\ UNCHANGED tree

Doing(kind, step) == request # None /\ request.kind = kind /\ request.step = step
Advance == request' = [request EXCEPT !.step = @ + 1]

(* An empty file or an empty directory appears where nothing was. *)
Create ==
    /\ Doing("create", 0) \/ Doing("mkdir", 0)
    /\ ~Present(request.path) /\ ParentThere(request.path)
    /\ tree' = [tree EXCEPT ![request.path] =
                   IF request.kind = "mkdir" THEN DirNode ELSE FileNode(0)]
    /\ Advance

Update ==
    /\ Doing("update", 0)
    /\ Present(request.path) /\ ~IsDir(request.path)
    /\ tree' = [tree EXCEPT ![request.path] = FileNode(request.len)]
    /\ Advance

(* Only an empty directory can go. *)
Remove ==
    /\ Doing("remove", 0)
    /\ Present(request.path)
    /\ \A q \in Under(request.path) : ~Present(q)
    /\ tree' = [tree EXCEPT ![request.path] = None]
    /\ Advance

(* The new name leads to what the old one leads to. *)
Link ==
    /\ Doing("rename", 0)
    /\ Present(request.path) /\ ~Present(request.to) /\ ParentThere(request.to)
    /\ tree' = [q \in Paths |->
                   IF q = request.to THEN tree[request.path]
                   ELSE IF IsDir(request.path) /\ q \in Under(request.to)
                   THEN tree[<<request.path[2], q[2]>>]
                   ELSE tree[q]]
    /\ Advance

Unlink ==
    /\ Doing("rename", 1)
    /\ tree' = [q \in Paths |->
                   IF q = request.path \/ (IsDir(request.path) /\ q \in Under(request.path))
                   THEN None ELSE tree[q]]
    /\ Advance

(* The request ends: it is done, or it failed, or the power did. *)
End ==
    /\ request # None
    /\ request' = None
    /\ UNCHANGED tree

Next == Ask \/ Create \/ Update \/ Remove \/ Link \/ Unlink \/ End

Spec == Init /\ [][Next]_vars
=============================================================================
