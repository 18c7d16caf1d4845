----------------------------- MODULE FileTree -----------------------------
(***************************************************************************)
(* The kernel's file system as far as the path calls of the filter need it *)
(* (external: modelled from how src/syscall_filter.c uses it).             *)
(*                                                                         *)
(* A node is the sequence of names that leads to it from "/"; a tree maps  *)
(* each node to "none", "dir" or the contents of a file.  A call returns   *)
(* the tree it leaves and what it answers.  There are no links.            *)
(***************************************************************************)
EXTENDS Integers, Sequences, SequencesExt

Nowhere == <<"/">>

Absolute(n) == [abs |-> TRUE, comps |-> n]

Above(n) == IF n = <<>> THEN n ELSE Front(n)

Below(n, m) == IsPrefix(n, m) /\ n # m

Start(cwd, p) == IF p.abs THEN <<>> ELSE cwd
Enter(n, c) == CASE c \in {"", "."} -> n [] c = ".." -> Above(n) [] OTHER -> Append(n, c)

(* The node a path names, reached component by component: all of them but   *)
(* the last must be directories.                                            *)
Walk(tree, cwd, p) ==
    LET at[i \in 0..Len(p.comps)] ==
            IF i = 0 THEN Start(cwd, p)
            ELSE LET here == at[i - 1]
                 IN  IF here # Nowhere /\ tree[here] = "dir" THEN Enter(here, p.comps[i]) ELSE Nowhere
    IN  at[Len(p.comps)]

(* The node a path names if every directory on the way exists.              *)
NameOf(cwd, p) ==
    LET at[i \in 0..Len(p.comps)] ==
            IF i = 0 THEN Start(cwd, p) ELSE Enter(at[i - 1], p.comps[i])
    IN  at[Len(p.comps)]

-----------------------------------------------------------------------------
Failed(tree) == [tree |-> tree, reply |-> "error"]
Done(tree) == [tree |-> tree, reply |-> "ok"]
(* Out of memory or space: not an answer about the tree.                    *)
OutOfSpace(tree) == [tree |-> tree, reply |-> "nospace"]

Exists(tree, n) == n # Nowhere /\ tree[n] # "none"
IsFile(tree, n) == Exists(tree, n) /\ tree[n] # "dir"
Empty(tree, n) == \A k \in DOMAIN tree : Below(n, k) => tree[k] = "none"

Look(tree, n) ==
    IF Exists(tree, n) THEN [tree |-> tree, reply |-> tree[n]] ELSE Failed(tree)

(* open for writing with O_TRUNC, and O_CREAT if create is set.             *)
Store(tree, n, create, contents) ==
    IF n # Nowhere /\ tree[n] # "dir" /\ (create \/ tree[n] # "none")
    THEN Done((n :> contents) @@ tree) ELSE Failed(tree)

MakeDir(tree, n) ==
    IF n # Nowhere /\ tree[n] = "none" THEN Done((n :> "dir") @@ tree) ELSE Failed(tree)

Unlink(tree, n) ==
    IF IsFile(tree, n) THEN Done((n :> "none") @@ tree) ELSE Failed(tree)

RemoveDir(tree, n) ==
    IF Exists(tree, n) /\ n # <<>> /\ tree[n] = "dir" /\ Empty(tree, n)
    THEN Done((n :> "none") @@ tree) ELSE Failed(tree)

(* The calls with one path, by name.  A file opened for writing is written  *)
(* to at once; "open_create" is open with O_CREAT, or creat.                *)
Effect(op, tree, n) ==
    CASE op \in {"stat", "open_read"} -> Look(tree, n)
      [] op = "open_write"  -> Store(tree, n, FALSE, "text")
      [] op = "open_create" -> Store(tree, n, TRUE, "text")
      [] op = "truncate" -> Store(tree, n, FALSE, "empty")
      [] op = "mkdir"    -> MakeDir(tree, n)
      [] op = "unlink"   -> Unlink(tree, n)
      [] op = "rmdir"    -> RemoveDir(tree, n)

Opens == {"open_read", "open_write", "open_create"}
Writing == {"open_write", "open_create"}
OnePath == Opens \cup {"stat", "truncate", "mkdir", "unlink", "rmdir"}
Changing == OnePath \ {"stat", "open_read"}

(* rename: a file replaces a file, a directory an empty directory; what is  *)
(* below a directory moves along.                                           *)
Moved(tree, n, m) ==
    LET source(k) == n \o SubSeq(k, Len(m) + 1, Len(k))
    IN  [k \in DOMAIN tree |->
            IF IsPrefix(m, k) THEN IF source(k) \in DOMAIN tree THEN tree[source(k)] ELSE "none"
            ELSE IF IsPrefix(n, k) THEN "none" ELSE tree[k]]

Rename(tree, n, m) ==
    IF n = m /\ Exists(tree, n) THEN Done(tree)
    ELSE IF /\ Exists(tree, n) /\ m # Nowhere /\ ~IsPrefix(n, m) /\ ~IsPrefix(m, n)
            /\ IF tree[n] = "dir" THEN tree[m] \in {"none", "dir"} /\ Empty(tree, m)
                                  ELSE tree[m] # "dir"
         THEN Done(Moved(tree, n, m)) ELSE Failed(tree)

(* A node below a moved directory needs a place below the target.           *)
Fits(tree, n, m) ==
    n # Nowhere /\ m # Nowhere =>
        \A k \in DOMAIN tree : Below(n, k) /\ tree[k] # "none" =>
            m \o SubSeq(k, Len(n) + 1, Len(k)) \in DOMAIN tree

-----------------------------------------------------------------------------
(* mkdir of a sequence of paths one after the other, failures ignored.      *)
MakeDirs(tree, cwd, paths) ==
    LET made[i \in 0..Len(paths)] ==
            IF i = 0 THEN tree
            ELSE LET t == made[i - 1] IN MakeDir(t, Walk(t, cwd, paths[i])).tree
    IN  made[Len(paths)]

(* mkdir of every prefix of a path longer than skip components, but the path*)
(* itself.                                                                  *)
MakeParents(tree, cwd, p, skip) ==
    MakeDirs(tree, cwd, [i \in 1..(Len(p.comps) - 1 - skip) |->
                            [p EXCEPT !.comps = SubSeq(p.comps, 1, skip + i)]])
=============================================================================
