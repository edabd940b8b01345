----------------------------- MODULE WriteTree -----------------------------
(***************************************************************************)
(* FWriteTree and FCompoundWrite of the Firebase client: the setValues of  *)
(* this device whose completion block has not run, and what they make      *)
(* visible at once.  A read sees visibleWrites over what the server has    *)
(* sent, which is why a device reads its own outstanding puts.             *)
(*                                                                         *)
(* A path is the set of the leaves below it, so that a path contains       *)
(* another one when it is a superset of it.  A node is not followed: a     *)
(* leaf carries the number of the write that gave it its value.            *)
(***************************************************************************)
EXTENDS Naturals, Sequences

CONSTANTS
    Paths   \* sets of leaves, any two of them nested or disjoint

ASSUME PathsAreATree ==
    \A p, q \in Paths : p # {} /\ (p \subseteq q \/ q \subseteq p \/ p \cap q = {})

Leaves == UNION Paths

VARIABLES
    allWrites,      \* the writes [id, path], oldest first
    visibleWrites   \* roots: the paths with a complete value; value: by leaf

----------------------------------------------------------------------------
(* FCompoundWrite                                                          *)

EmptyWrite == [roots |-> {}, value |-> [leaf \in Leaves |-> 0]]

\* addWrite:atPath: changes the value at the root-most complete path above,
\* or becomes such a path itself, in place of those below it
AddWrite(tree, w) ==
    [roots |-> IF \E r \in tree.roots : w.path \subseteq r THEN tree.roots
               ELSE {r \in tree.roots : ~ r \subseteq w.path} \cup {w.path},
     value |-> [leaf \in Leaves |->
                   IF leaf \in w.path THEN w.id ELSE tree.value[leaf]]]

\* removeWriteAtPath: takes the value at the path and those below it; one
\* above it stays as it is
RemoveWriteAtPath(tree, path) ==
    LET gone == {r \in tree.roots : r \subseteq path} IN
    [roots |-> tree.roots \ gone,
     value |-> [leaf \in Leaves |->
                   IF leaf \in UNION gone THEN 0 ELSE tree.value[leaf]]]

\* layerTreeFromWrites: all writes, oldest first
LayerTree(writes) ==
    LET layer[i \in 0..Len(writes)] ==
            IF i = 0 THEN EmptyWrite ELSE AddWrite(layer[i - 1], writes[i])
    IN layer[Len(writes)]

----------------------------------------------------------------------------
(* FWriteTree                                                              *)

\* removeObjectAtIndex:
Without(writes, at) ==
    SubSeq(writes, 1, at - 1) \o SubSeq(writes, at + 1, Len(writes))

\* Mutant: only a write at the same path is looked for
ContainsSamePath(path, other) == other = path

\* contains: of a path
Contains(path, other) == other \subseteq path

\* removeWriteId: nothing is visible of a write that a later one covers; a
\* write that covers others has them layered again; otherwise its path is
\* taken away.  tree is [all, visible].
RemoveWrite(tree, id) ==
    LET at == CHOOSE i \in DOMAIN tree.all : tree.all[i].id = id
        path == tree.all[at].path
        rest == Without(tree.all, at)
        shadowed == \E i \in DOMAIN rest : i >= at /\ Contains(rest[i].path, path)
        overlaps == \E i \in DOMAIN rest : Contains(path, rest[i].path)
    IN [all |-> rest,
        visible |-> CASE shadowed -> tree.visible
                      [] ~shadowed /\ overlaps -> LayerTree(rest)
                      [] OTHER -> RemoveWriteAtPath(tree.visible, path)]

RemoveWrites(tree, ids) ==
    LET removed[i \in 0..Len(ids)] ==
            IF i = 0 THEN tree ELSE RemoveWrite(removed[i - 1], ids[i])
    IN removed[Len(ids)]

WritesInit == allWrites = <<>> /\ visibleWrites = EmptyWrite

AddOverwrite(id, path) ==
    /\ allWrites' = Append(allWrites, [id |-> id, path |-> path])
    /\ visibleWrites' = AddWrite(visibleWrites, [id |-> id, path |-> path])

\* ackUserWrite of several writes, one after the other
AckUserWrites(ids) ==
    LET tree == RemoveWrites([all |-> allWrites, visible |-> visibleWrites], ids)
    IN allWrites' = tree.all /\ visibleWrites' = tree.visible

----------------------------------------------------------------------------

\* What is visible is what the outstanding writes give when they are layered
\* from the oldest to the newest: removing a write never leaves a part of it
\* behind and never takes away what a newer one has put.  removeWriteId gives
\* that only for writes that are removed oldest first (a write above an older
\* removed one keeps its value).
VisibleIsLayered == visibleWrites = LayerTree(allWrites)
=============================================================================
