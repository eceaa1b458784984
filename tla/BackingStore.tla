---------------------------- MODULE BackingStore ----------------------------
(***************************************************************************)
(* The file tree under the virtual device's backing directories, and what  *)
(* the std::fs calls of virtual_device/handlers.rs do to it.               *)
(*                                                                         *)
(* A path is a storage followed by names; a tree maps the paths that exist *)
(* to a folder or a file.  A file's data is a sequence of blocks.          *)
(***************************************************************************)
EXTENDS Naturals, Sequences, SequencesExt

Dir == [dir |-> TRUE, data |-> <<>>]
File(data) == [dir |-> FALSE, data |-> data]

(* f with one value set, and f laid over g. *)
Extend(f, x, v) == [y \in DOMAIN f \cup {x} |-> IF y = x THEN v ELSE f[y]]
Over(f, g) == [x \in DOMAIN f \cup DOMAIN g |-> IF x \in DOMAIN f THEN f[x] ELSE g[x]]

Has(tree, p) == p \in DOMAIN tree
IsDir(tree, p) == Has(tree, p) /\ tree[p].dir
IsFile(tree, p) == Has(tree, p) /\ ~tree[p].dir

Below(tree, p) == {q \in DOMAIN tree : IsPrefix(p, q)}
Children(tree, p) == {q \in DOMAIN tree : Len(q) = Len(p) + 1 /\ IsPrefix(p, q)}

(* A variant of Cut that leaves a folder's entries behind. *)
CutOne(tree, p) == [q \in DOMAIN tree \ {p} |-> tree[q]]

(* remove_file or remove_dir_all. *)
Cut(tree, p) == [q \in DOMAIN tree \ Below(tree, p) |-> tree[q]]

(* write, which truncates, and create_dir_all. *)
CanWrite(tree, p) == IsDir(tree, Front(p)) /\ ~IsDir(tree, p)
Write(tree, p, data) == Extend(tree, p, File(data))
CanMakeDir(tree, p) == IsDir(tree, Front(p)) /\ ~IsFile(tree, p)
MakeDir(tree, p) == Extend(tree, p, Dir)

(* q below p, seen from r instead. *)
Rebase(q, p, r) == r \o SubSeq(q, Len(p) + 1, Len(q))

(* rename replaces a file by a file and an empty folder by a folder. *)
CanRename(tree, p, r) ==
  /\ Has(tree, p) /\ IsDir(tree, Front(r))
  /\ p = r \/ ~IsPrefix(p, r)
  /\ (p # r /\ Has(tree, r)) =>
       /\ IsDir(tree, r) = IsDir(tree, p)
       /\ Below(tree, r) = {r}

Renamed(tree, p, r) ==
  Over([q \in {Rebase(x, p, r) : x \in Below(tree, p)} |-> tree[Rebase(q, r, p)]],
       Cut(Cut(tree, p), r))

(* copy_file_in_place does not truncate: a longer file keeps its tail. *)
InPlace(old, new) == new \o SubSeq(old, Len(new) + 1, Len(old))

(* copy_dir_all and copy_file_in_place merge into what is there; what can  *)
(* be copied, and the tree once the entries of S have been.                *)
Copies(tree, p, r, q) ==
  Has(tree, Rebase(q, p, r)) => IsDir(tree, Rebase(q, p, r)) = IsDir(tree, q)

CanCopy(tree, p, r) ==
  /\ Has(tree, p) /\ IsDir(tree, Front(r))
  /\ \A q \in Below(tree, p) : Copies(tree, p, r, q)

Copied(tree, p, r, S) ==
  Over([t \in {Rebase(q, p, r) : q \in S} |->
          LET new == tree[Rebase(t, r, p)]
          IN  IF IsFile(tree, t) /\ ~new.dir THEN File(InPlace(tree[t].data, new.data)) ELSE new],
       tree)

(* A copy stops at the first entry it cannot place, in no particular order. *)
PartialCopies(tree, p, r) ==
  {S \in SUBSET {q \in Below(tree, p) : Copies(tree, p, r, q)} :
     \A q \in S : IsDir(tree, Front(r)) /\ (q = p \/ Front(q) \in S)}
=============================================================================
