-------------------------- MODULE WriteTreeProofs --------------------------
(***************************************************************************)
(* What the visible tree is, for any writes at any paths: the layers of    *)
(* the outstanding writes in a closed form, and what taking the oldest     *)
(* write away does to them.                                                *)
(***************************************************************************)
EXTENDS WriteTree, WellFoundedInduction, SequenceTheorems, TLAPS

----------------------------------------------------------------------------
(* Induction over numbers, for sets of numbers                             *)

LEMMA NatSetInduction ==
    \A S \in SUBSET Nat : 0 \in S /\ (\A n \in S : n + 1 \in S) => S = Nat
<1>1. SUFFICES ASSUME NEW S \in SUBSET Nat, 0 \in S, \A n \in S : n + 1 \in S,
                      S # Nat
               PROVE  FALSE
    OBVIOUS
<1> DEFINE T == Nat \ S
<1>2. T \subseteq Nat /\ T # {}
    BY <1>1
<1>3. PICK x \in T : \A y \in T : ~ (<<y, x>> \in OpToRel(<, Nat))
    BY <1>2, NatLessThanWellFounded, WFMin
<1>4. x \in Nat /\ x # 0 /\ x - 1 \in Nat /\ x - 1 < x /\ x = (x - 1) + 1
    BY <1>1
<1>5. x - 1 \in T
    BY <1>1, <1>4
<1>6. <<x - 1, x>> \in OpToRel(<, Nat)
    BY <1>4 DEF OpToRel
<1> QED
    BY <1>3, <1>5, <1>6

\* The same up to a bound
LEMMA UpTo ==
    ASSUME NEW m \in Nat, NEW S \in SUBSET Nat, 0 \in S,
           \A n \in 0..m - 1 : n \in S => n + 1 \in S
    PROVE  \A n \in 0..m : n \in S
<1> DEFINE T == {n \in Nat : n <= m => n \in S}
<1>1. T \subseteq Nat /\ 0 \in T
    OBVIOUS
<1>2. \A n \in T : n + 1 \in T
    OBVIOUS
<1>3. T = Nat
    BY <1>1, <1>2, NatSetInduction
<1> QED
    BY <1>3

----------------------------------------------------------------------------
(* The layers                                                              *)

Records == [id : Nat, path : Paths]
Trees == [roots : SUBSET Paths, value : [Leaves -> Nat]]

\* The functions that LayerTree and RemoveWrites define are there
LEMMA LayerExists ==
    ASSUME NEW writes \in Seq(Records)
    PROVE  \A n \in Nat : \E f : f = [i \in 0..n |->
               IF i = 0 THEN EmptyWrite ELSE AddWrite(f[i - 1], writes[i])]
<1> DEFINE Fits(f, n) == f = [i \in 0..n |->
               IF i = 0 THEN EmptyWrite ELSE AddWrite(f[i - 1], writes[i])]
           S == {n \in Nat : \E f : Fits(f, n)}
<1>1. 0 \in S
    <2> DEFINE f == [i \in 0..0 |-> EmptyWrite]
    <2>1. Fits(f, 0)
        OBVIOUS
    <2> QED
        BY <2>1
<1>2. ASSUME NEW n \in S PROVE n + 1 \in S
    <2> PICK f : Fits(f, n)
        BY <1>2
    <2> DEFINE last == AddWrite(f[n], writes[n + 1])
    <2> HIDE DEF last
    <2> DEFINE g == [i \in 0..n + 1 |-> IF i = n + 1 THEN last ELSE f[i]]
    <2>1. n \in Nat /\ n + 1 \in Nat
        OBVIOUS
    <2>2. ASSUME NEW i \in 0..n + 1
          PROVE  g[i] = IF i = 0 THEN EmptyWrite ELSE AddWrite(g[i - 1], writes[i])
        <3>1. CASE i = n + 1
            <4>1. g[i] = last /\ i # 0 /\ i - 1 = n /\ g[i - 1] = f[n]
                BY <2>1, <3>1
            <4> QED
                BY <3>1, <4>1 DEF last
        <3>2. CASE i # n + 1
            <4>1. i \in 0..n /\ g[i] = f[i]
                BY <2>1, <3>2
            <4>2. CASE i = 0
                BY <4>1, <4>2
            <4>3. CASE i # 0
                <5>1. i - 1 \in 0..n /\ i - 1 # n + 1 /\ i - 1 \in 0..n + 1
                    BY <2>1, <4>1, <4>3
                <5>2. g[i - 1] = f[i - 1]
                    BY <5>1
                <5>3. f[i] = AddWrite(f[i - 1], writes[i])
                    BY <4>1, <4>3
                <5> QED
                    BY <4>1, <4>3, <5>2, <5>3
            <4> QED
                BY <4>2, <4>3
        <3> QED
            BY <3>1, <3>2
    <2> HIDE DEF last
    <2>3. Fits(g, n + 1)
        <3> DEFINE h == [i \in 0..n + 1 |->
                IF i = 0 THEN EmptyWrite ELSE AddWrite(g[i - 1], writes[i])]
        <3>1. \A i \in 0..n + 1 : g[i] = h[i]
            BY <2>2
        <3>2. g = h
            BY <3>1
        <3> QED
            BY <3>2
    <2> QED
        BY <2>1, <2>3
<1>3. S = Nat
    <2> HIDE DEF Fits
    <2>1. S \in SUBSET Nat
        OBVIOUS
    <2> QED
        BY <1>1, <1>2, <2>1, NatSetInduction
<1> QED
    BY <1>3

LEMMA LayerRecursion ==
    ASSUME NEW writes \in Seq(Records)
    PROVE  \E f : /\ f[0] = EmptyWrite
                  /\ \A i \in 1..Len(writes) : f[i] = AddWrite(f[i - 1], writes[i])
                  /\ LayerTree(writes) = f[Len(writes)]
<1> DEFINE f == CHOOSE layer : layer = [i \in 0..Len(writes) |->
               IF i = 0 THEN EmptyWrite ELSE AddWrite(layer[i - 1], writes[i])]
<1>1. Len(writes) \in Nat
    OBVIOUS
<1>2. f = [i \in 0..Len(writes) |->
               IF i = 0 THEN EmptyWrite ELSE AddWrite(f[i - 1], writes[i])]
    BY <1>1, LayerExists
<1>3. LayerTree(writes) = f[Len(writes)]
    BY DEF LayerTree
<1> HIDE DEF f
<1>4. f[0] = EmptyWrite
    BY <1>1, <1>2
<1>5. \A i \in 1..Len(writes) : f[i] = AddWrite(f[i - 1], writes[i])
    BY <1>1, <1>2
<1> QED
    BY <1>3, <1>4, <1>5

\* What the first n writes leave: the root-most of their paths, and in each
\* leaf the number of the last one above it
Layered(tree, writes, n) ==
    /\ tree \in Trees
    /\ \A r \in tree.roots : \E j \in 1..n : writes[j].path = r
    /\ \A r, s \in tree.roots : r \subseteq s => r = s
    /\ \A j \in 1..n : \E r \in tree.roots : writes[j].path \subseteq r
    /\ \A leaf \in Leaves :
          \/ /\ tree.value[leaf] = 0
             /\ \A j \in 1..n : leaf \notin writes[j].path
          \/ \E j \in 1..n :
                /\ leaf \in writes[j].path
                /\ tree.value[leaf] = writes[j].id
                /\ \A k \in j + 1..n : leaf \notin writes[k].path

LEMMA EmptyLayered == \A writes : Layered(EmptyWrite, writes, 0)
<1>1. EmptyWrite \in Trees
    BY DEF EmptyWrite, Trees
<1> QED
    BY <1>1 DEF Layered, EmptyWrite

LEMMA AddTyped ==
    ASSUME NEW tree \in Trees, NEW w \in Records
    PROVE  AddWrite(tree, w) \in Trees
BY DEF Trees, Records, AddWrite

LEMMA AddLayered ==
    ASSUME NEW writes \in Seq(Records), NEW n \in Nat, n + 1 <= Len(writes),
           NEW tree, Layered(tree, writes, n)
    PROVE  Layered(AddWrite(tree, writes[n + 1]), writes, n + 1)
<1> DEFINE w == writes[n + 1]
           new == AddWrite(tree, w)
<1>1. w \in Records /\ tree \in Trees
    BY DEF Layered
<1>2. w.path \in Paths /\ w.id \in Nat
    BY <1>1 DEF Records
<1>3. new \in Trees
    BY <1>1, AddTyped
<1>4. /\ \A j \in 1..n + 1 : j \in 1..n \/ j = n + 1
      /\ n + 1 \in 1..n + 1
      /\ \A j \in 1..n : j \in 1..n + 1
    OBVIOUS
<1>5. new.roots = IF \E r \in tree.roots : w.path \subseteq r THEN tree.roots
                  ELSE {r \in tree.roots : ~ r \subseteq w.path} \cup {w.path}
    BY DEF AddWrite
<1>6. \A leaf \in Leaves :
         new.value[leaf] = IF leaf \in w.path THEN w.id ELSE tree.value[leaf]
    BY DEF AddWrite
<1> HIDE DEF new
<1>7. \A r \in new.roots : \E j \in 1..n + 1 : writes[j].path = r
    BY <1>4, <1>5 DEF Layered
<1>8. \A r, s \in new.roots : r \subseteq s => r = s
    <2>1. \A r, s \in tree.roots : r \subseteq s => r = s
        BY DEF Layered
    <2>2. CASE \E r \in tree.roots : w.path \subseteq r
        BY <1>5, <2>1, <2>2
    <2>3. CASE ~ \E r \in tree.roots : w.path \subseteq r
        <3> HIDE DEF w
        <3>0. new.roots = {r \in tree.roots : ~ r \subseteq w.path} \cup {w.path}
            BY <1>5, <2>3, Zenon
        <3>1. \A r \in new.roots :
                  r = w.path \/ (r \in tree.roots /\ ~ r \subseteq w.path)
            BY <3>0
        <3> QED
            BY <2>1, <2>3, <3>1
    <2> QED
        BY <2>2, <2>3
<1>9. \A j \in 1..n + 1 : \E r \in new.roots : writes[j].path \subseteq r
    <2> SUFFICES ASSUME NEW j \in 1..n + 1
                 PROVE  \E r \in new.roots : writes[j].path \subseteq r
        OBVIOUS
    <2>1. CASE \E r \in tree.roots : w.path \subseteq r
        BY <1>4, <1>5, <2>1 DEF Layered
    <2>2. CASE ~ \E r \in tree.roots : w.path \subseteq r
        <3>1. w.path \in new.roots
            BY <1>5, <2>2
        <3>2. CASE j = n + 1
            BY <3>1, <3>2
        <3>3. CASE j \in 1..n
            <4> PICK r \in tree.roots : writes[j].path \subseteq r
                BY <3>3 DEF Layered
            <4>1. CASE r \subseteq w.path
                BY <3>1, <4>1
            <4>2. CASE ~ r \subseteq w.path
                BY <1>5, <2>2, <4>2
            <4> QED
                BY <4>1, <4>2
        <3> QED
            BY <1>4, <3>2, <3>3
    <2> QED
        BY <2>1, <2>2
<1>10. \A leaf \in Leaves :
          \/ /\ new.value[leaf] = 0
             /\ \A j \in 1..n + 1 : leaf \notin writes[j].path
          \/ \E j \in 1..n + 1 :
                /\ leaf \in writes[j].path
                /\ new.value[leaf] = writes[j].id
                /\ \A k \in j + 1..n + 1 : leaf \notin writes[k].path
    <2> SUFFICES ASSUME NEW leaf \in Leaves
                 PROVE  \/ /\ new.value[leaf] = 0
                           /\ \A j \in 1..n + 1 : leaf \notin writes[j].path
                        \/ \E j \in 1..n + 1 :
                              /\ leaf \in writes[j].path
                              /\ new.value[leaf] = writes[j].id
                              /\ \A k \in j + 1..n + 1 : leaf \notin writes[k].path
        OBVIOUS
    <2>1. CASE leaf \in w.path
        <3>1. \A k \in (n + 1) + 1..n + 1 : leaf \notin writes[k].path
            OBVIOUS
        <3>2. new.value[leaf] = w.id
            BY <1>6, <2>1
        <3> QED
            BY <1>4, <2>1, <3>1, <3>2
    <2>2. CASE leaf \notin w.path
        <3>1. new.value[leaf] = tree.value[leaf]
            BY <1>6, <2>2
        <3>2. CASE /\ tree.value[leaf] = 0
                   /\ \A j \in 1..n : leaf \notin writes[j].path
            BY <1>4, <2>2, <3>1, <3>2
        <3>3. ASSUME NEW j \in 1..n,
                     leaf \in writes[j].path, tree.value[leaf] = writes[j].id,
                     \A k \in j + 1..n : leaf \notin writes[k].path
              PROVE  \E i \in 1..n + 1 :
                        /\ leaf \in writes[i].path
                        /\ new.value[leaf] = writes[i].id
                        /\ \A k \in i + 1..n + 1 : leaf \notin writes[k].path
            <4>1. \A k \in j + 1..n + 1 : k \in j + 1..n \/ k = n + 1
                OBVIOUS
            <4>2. \A k \in j + 1..n + 1 : leaf \notin writes[k].path
                BY <2>2, <3>3, <4>1
            <4> QED
                BY <1>4, <3>1, <3>3, <4>2
        <3> QED
            BY <3>2, <3>3 DEF Layered
    <2> QED
        BY <2>1, <2>2
<1>11. Layered(new, writes, n + 1)
    BY <1>3, <1>7, <1>8, <1>9, <1>10 DEF Layered
<1> QED
    BY <1>11 DEF new

\* There is one such tree
LEMMA LayeredUnique ==
    ASSUME NEW writes \in Seq(Records), NEW n \in 0..Len(writes), NEW t, NEW u,
           Layered(t, writes, n), Layered(u, writes, n)
    PROVE  t = u
<1>1. t \in Trees /\ u \in Trees
    BY DEF Layered
<1>2. \A x, y : Layered(x, writes, n) /\ Layered(y, writes, n) =>
                x.roots \subseteq y.roots
    <2> SUFFICES ASSUME NEW x, NEW y, Layered(x, writes, n), Layered(y, writes, n),
                        NEW r \in x.roots
                 PROVE  r \in y.roots
        OBVIOUS
    <2> PICK j \in 1..n : writes[j].path = r
        BY DEF Layered
    <2> PICK s \in y.roots : r \subseteq s
        BY DEF Layered
    <2> PICK k \in 1..n : writes[k].path = s
        BY DEF Layered
    <2> PICK q \in x.roots : s \subseteq q
        BY DEF Layered
    <2>1. r = q
        <3>1. r \subseteq q
            OBVIOUS
        <3> QED
            BY <3>1 DEF Layered
    <2>2. r = s
        BY <2>1
    <2> QED
        BY <2>2
<1>3. t.roots = u.roots
    <2>1. t.roots \subseteq u.roots /\ u.roots \subseteq t.roots
        BY <1>2
    <2> QED
        BY <2>1
<1>4. ASSUME NEW leaf \in Leaves PROVE t.value[leaf] = u.value[leaf]
    <2>1. CASE \A j \in 1..n : leaf \notin writes[j].path
        BY <2>1 DEF Layered
    <2>2. CASE ~ \A j \in 1..n : leaf \notin writes[j].path
        <3> PICK i \in 1..n :
                   /\ leaf \in writes[i].path
                   /\ t.value[leaf] = writes[i].id
                   /\ \A k \in i + 1..n : leaf \notin writes[k].path
            BY <2>2 DEF Layered
        <3> PICK j \in 1..n :
                   /\ leaf \in writes[j].path
                   /\ u.value[leaf] = writes[j].id
                   /\ \A k \in j + 1..n : leaf \notin writes[k].path
            BY <2>2 DEF Layered
        <3>1. ~ i < j /\ ~ j < i
            OBVIOUS
        <3>2. i = j
            BY <3>1
        <3> QED
            BY <3>2
    <2> QED
        BY <2>1, <2>2
<1>5. t.value = u.value
    BY <1>1, <1>4 DEF Trees
<1> QED
    BY <1>1, <1>3, <1>5 DEF Trees

\* layerTreeFromWrites gives it
LEMMA LayerTreeLayered ==
    \A writes \in Seq(Records) :
        Layered(LayerTree(writes), writes, Len(writes))
<1> SUFFICES ASSUME NEW writes \in Seq(Records)
             PROVE  Layered(LayerTree(writes), writes, Len(writes))
    OBVIOUS
<1> PICK f : /\ f[0] = EmptyWrite
             /\ \A i \in 1..Len(writes) : f[i] = AddWrite(f[i - 1], writes[i])
             /\ LayerTree(writes) = f[Len(writes)]
    BY LayerRecursion
<1> DEFINE S == {n \in Nat : n <= Len(writes) => Layered(f[n], writes, n)}
<1>1. Len(writes) \in Nat
    OBVIOUS
<1>2. 0 \in S
    BY EmptyLayered
<1>3. ASSUME NEW n \in S PROVE n + 1 \in S
    <2>1. CASE n + 1 <= Len(writes)
        <3>1. Layered(f[n], writes, n) /\ n \in Nat
            BY <1>1, <2>1
        <3>2. f[n + 1] = AddWrite(f[n], writes[n + 1])
            BY <1>1, <2>1
        <3>3. Layered(f[n + 1], writes, n + 1)
            BY <2>1, <3>1, <3>2, AddLayered
        <3> QED
            BY <3>1, <3>3
    <2>2. CASE ~ n + 1 <= Len(writes)
        BY <2>2
    <2> QED
        BY <2>1, <2>2
<1>4. S = Nat
    <2>1. S \in SUBSET Nat
        OBVIOUS
    <2> HIDE DEF S
    <2> QED
        BY <1>2, <1>3, <2>1, NatSetInduction
<1> QED
    BY <1>1, <1>4

\* Only the first n writes count
LEMMA LayeredPrefix ==
    ASSUME NEW n \in Nat, NEW v, NEW w, NEW tree,
           \A i \in 1..n : v[i] = w[i], Layered(tree, v, n)
    PROVE  Layered(tree, w, n)
<1>1. /\ tree \in Trees
      /\ \A r, s \in tree.roots : r \subseteq s => r = s
    BY DEF Layered
<1>2. /\ \A r \in tree.roots : \E j \in 1..n : w[j].path = r
      /\ \A j \in 1..n : \E r \in tree.roots : w[j].path \subseteq r
    BY DEF Layered
<1>3. \A leaf \in Leaves :
          \/ /\ tree.value[leaf] = 0
             /\ \A j \in 1..n : leaf \notin w[j].path
          \/ \E j \in 1..n :
                /\ leaf \in w[j].path
                /\ tree.value[leaf] = w[j].id
                /\ \A k \in j + 1..n : leaf \notin w[k].path
    <2> SUFFICES ASSUME NEW leaf \in Leaves
                 PROVE  \/ /\ tree.value[leaf] = 0
                           /\ \A j \in 1..n : leaf \notin w[j].path
                        \/ \E j \in 1..n :
                              /\ leaf \in w[j].path
                              /\ tree.value[leaf] = w[j].id
                              /\ \A k \in j + 1..n : leaf \notin w[k].path
        OBVIOUS
    <2>1. CASE tree.value[leaf] = 0 /\ \A j \in 1..n : leaf \notin v[j].path
        BY <2>1
    <2>2. ASSUME NEW j \in 1..n,
                 leaf \in v[j].path, tree.value[leaf] = v[j].id,
                 \A k \in j + 1..n : leaf \notin v[k].path
          PROVE  \E i \in 1..n :
                    /\ leaf \in w[i].path
                    /\ tree.value[leaf] = w[i].id
                    /\ \A k \in i + 1..n : leaf \notin w[k].path
        <3>1. \A k \in j + 1..n : k \in 1..n
            OBVIOUS
        <3>2. leaf \in w[j].path /\ tree.value[leaf] = w[j].id
            BY <2>2
        <3>3. \A k \in j + 1..n : leaf \notin w[k].path
            BY <2>2, <3>1
        <3> QED
            BY <3>2, <3>3
    <2> QED
        BY <2>1, <2>2 DEF Layered
<1> QED
    BY <1>1, <1>2, <1>3 DEF Layered

\* A new write is one more layer
LEMMA LayerOfAppend ==
    \A writes \in Seq(Records), w \in Records :
        LayerTree(Append(writes, w)) = AddWrite(LayerTree(writes), w)
<1> SUFFICES ASSUME NEW writes \in Seq(Records), NEW w \in Records
             PROVE  LayerTree(Append(writes, w)) = AddWrite(LayerTree(writes), w)
    OBVIOUS
<1> DEFINE more == Append(writes, w)
           n == Len(writes)
<1>1. /\ more \in Seq(Records) /\ Len(more) = n + 1 /\ n \in Nat
      /\ \A i \in 1..n : writes[i] = more[i]
      /\ more[n + 1] = w
    OBVIOUS
<1> HIDE DEF more
<1>2. Layered(LayerTree(writes), more, n)
    BY <1>1, LayerTreeLayered, LayeredPrefix
<1>3. Layered(AddWrite(LayerTree(writes), w), more, n + 1)
    BY <1>1, <1>2, AddLayered
<1>4. Layered(LayerTree(more), more, n + 1)
    BY <1>1, LayerTreeLayered
<1>5. LayerTree(more) = AddWrite(LayerTree(writes), w)
    BY <1>1, <1>3, <1>4, LayeredUnique
<1> QED
    BY <1>5 DEF more

----------------------------------------------------------------------------
(* Taking writes away                                                      *)

LEMMA WithoutIs ==
    ASSUME NEW T, NEW s \in Seq(T), NEW at \in 1..Len(s)
    PROVE  /\ Without(s, at) \in Seq(T)
           /\ Len(Without(s, at)) = Len(s) - 1
           /\ \A i \in 1..Len(s) - 1 :
                 Without(s, at)[i] = IF i < at THEN s[i] ELSE s[i + 1]
<1> DEFINE a == SubSeq(s, 1, at - 1)
           b == SubSeq(s, at + 1, Len(s))
<1>1. /\ Len(s) \in Nat
      /\ \A i \in 1..at - 1 : s[i] \in T
      /\ \A i \in at + 1..Len(s) : s[i] \in T
    OBVIOUS
<1>2. /\ a \in Seq(T) /\ Len(a) = at - 1
      /\ \A i \in 1..at - 1 : a[i] = s[i]
    BY <1>1, SubSeqProperties
<1>3. /\ b \in Seq(T) /\ Len(b) = Len(s) - at
      /\ \A i \in 1..Len(s) - at : b[i] = s[i + at]
    BY <1>1, SubSeqProperties
<1> HIDE DEF a, b
<1>4. /\ a \o b \in Seq(T) /\ Len(a \o b) = Len(s) - 1
      /\ \A i \in 1..Len(s) - 1 : (a \o b)[i] = IF i < at THEN a[i] ELSE b[i - (at - 1)]
    <2>1. /\ a \o b \in Seq(T) /\ Len(a \o b) = Len(a) + Len(b)
          /\ \A i \in 1..Len(a) + Len(b) :
                (a \o b)[i] = IF i <= Len(a) THEN a[i] ELSE b[i - Len(a)]
        BY <1>2, <1>3, ConcatProperties
    <2>2. Len(a) + Len(b) = Len(s) - 1
        BY <1>1, <1>2, <1>3
    <2>3. \A i \in 1..Len(s) - 1 : i < at <=> i <= Len(a)
        BY <1>1, <1>2
    <2> QED
        BY <1>2, <2>1, <2>2, <2>3
<1>5. ASSUME NEW i \in 1..Len(s) - 1
      PROVE  (a \o b)[i] = IF i < at THEN s[i] ELSE s[i + 1]
    <2>1. CASE i < at
        BY <1>2, <1>4, <2>1
    <2>2. CASE ~ i < at
        <3>1. i - (at - 1) \in 1..Len(s) - at /\ i - (at - 1) + at = i + 1
            BY <1>1, <2>2
        <3>2. b[i - (at - 1)] = s[i + 1]
            BY <1>3, <3>1
        <3> QED
            BY <1>4, <2>2, <3>2
    <2> QED
        BY <2>1, <2>2
<1>6. Without(s, at) = a \o b
    BY DEF Without, a, b
<1> QED
    BY <1>4, <1>5, <1>6

\* The oldest write, which no other one has the number of, goes: what remains
\* are the layers of the others
LEMMA RemoveOldest ==
    ASSUME NEW writes \in Seq(Records), writes # <<>>,
           NEW visible, Layered(visible, writes, Len(writes)),
           \A i \in 2..Len(writes) : writes[i].id # writes[1].id
    PROVE  LET new == RemoveWrite([all |-> writes, visible |-> visible], writes[1].id)
           IN  /\ new = [all |-> new.all, visible |-> new.visible]
               /\ new.all \in Seq(Records)
               /\ Len(new.all) = Len(writes) - 1
               /\ \A i \in 1..Len(writes) - 1 : new.all[i] = writes[i + 1]
               /\ Layered(new.visible, new.all, Len(new.all))
<1> DEFINE tree == [all |-> writes, visible |-> visible]
           new == RemoveWrite(tree, writes[1].id)
           path == writes[1].path
           rest == Without(writes, 1)
           n == Len(writes)
           shadowed == \E i \in DOMAIN rest : i >= 1 /\ Contains(rest[i].path, path)
           overlaps == \E i \in DOMAIN rest : Contains(path, rest[i].path)
           shown == CASE shadowed -> visible
                      [] ~shadowed /\ overlaps -> LayerTree(rest)
                      [] OTHER -> RemoveWriteAtPath(visible, path)
<1>1. n \in Nat \ {0} /\ 1 \in 1..n
    OBVIOUS
<1>2. (CHOOSE i \in DOMAIN tree.all : tree.all[i].id = writes[1].id) = 1
    <2>1. \A i \in DOMAIN writes : writes[i].id = writes[1].id <=> i = 1
        BY <1>1
    <2> QED
        BY <1>1, <2>1
<1>3. new = [all |-> rest, visible |-> shown]
    BY <1>2 DEF RemoveWrite
<1>4. /\ rest \in Seq(Records) /\ Len(rest) = n - 1
      /\ \A i \in 1..n - 1 : rest[i] = writes[i + 1]
      /\ DOMAIN rest = 1..n - 1
    BY <1>1, WithoutIs
<1>5. writes[1] \in Records /\ path \in Paths
    <2>1. writes[1] \in Records
        BY <1>1, ElementOfSeq
    <2> QED
        BY <2>1 DEF Records
<1>6. /\ visible \in Trees
      /\ \A r, s \in visible.roots : r \subseteq s => r = s
    BY DEF Layered
<1>7. \A j \in 2..n : j - 1 \in 1..n - 1 /\ rest[j - 1] = writes[j]
    BY <1>1, <1>4
<1>8. \A i \in 1..n - 1 : i + 1 \in 1..n /\ i + 1 \in 2..n /\ rest[i] \in Records
    BY <1>1, <1>4
<1> HIDE DEF rest, new
<1>9. CASE shadowed
    <2> PICK i \in 1..n - 1 : path \subseteq rest[i].path
        BY <1>4, <1>9 DEF Contains
    <2>1. ASSUME NEW r \in visible.roots
          PROVE  \E j \in 1..n - 1 : rest[j].path = r
        <3> PICK j \in 1..n : writes[j].path = r
            BY DEF Layered
        <3>1. CASE j # 1
            BY <1>7, <3>1
        <3>2. CASE j = 1
            <4> PICK s \in visible.roots : writes[i + 1].path \subseteq s
                BY <1>8 DEF Layered
            <4>1. rest[i].path \subseteq s
                BY <1>4
            <4>2. r \subseteq s
                BY <3>2, <4>1
            <4>3. r = s
                BY <1>6, <4>2
            <4>4. rest[i].path = r
                BY <3>2, <4>1, <4>3
            <4> QED
                BY <4>4
        <3> QED
            BY <3>1, <3>2
    <2>2. ASSUME NEW j \in 1..n - 1
          PROVE  \E r \in visible.roots : rest[j].path \subseteq r
        <3> PICK r \in visible.roots : writes[j + 1].path \subseteq r
            BY <1>8 DEF Layered
        <3>1. rest[j].path \subseteq r
            BY <1>4
        <3> QED
            BY <3>1
    <2>3. ASSUME NEW leaf \in Leaves
          PROVE  \/ /\ visible.value[leaf] = 0
                    /\ \A j \in 1..n - 1 : leaf \notin rest[j].path
                 \/ \E j \in 1..n - 1 :
                       /\ leaf \in rest[j].path
                       /\ visible.value[leaf] = rest[j].id
                       /\ \A k \in j + 1..n - 1 : leaf \notin rest[k].path
        <3>1. CASE /\ visible.value[leaf] = 0
                   /\ \A j \in 1..n : leaf \notin writes[j].path
            BY <1>4, <1>8, <3>1
        <3>2. ASSUME NEW j \in 1..n,
                     leaf \in writes[j].path, visible.value[leaf] = writes[j].id,
                     \A k \in j + 1..n : leaf \notin writes[k].path
              PROVE  \E h \in 1..n - 1 :
                       /\ leaf \in rest[h].path
                       /\ visible.value[leaf] = rest[h].id
                       /\ \A k \in h + 1..n - 1 : leaf \notin rest[k].path
            <4>1. j # 1
                <5>1. ASSUME j = 1 PROVE FALSE
                    <6>1. leaf \in writes[i + 1].path
                        BY <1>4, <3>2, <5>1
                    <6>2. i + 1 \in j + 1..n
                        BY <1>8, <5>1
                    <6> QED
                        BY <3>2, <6>1, <6>2
                <5> QED
                    BY <5>1
            <4>2. j - 1 \in 1..n - 1 /\ rest[j - 1] = writes[j]
                BY <1>7, <4>1
            <4>3. \A k \in (j - 1) + 1..n - 1 : k + 1 \in j + 1..n /\ rest[k] = writes[k + 1]
                BY <1>1, <1>4
            <4> QED
                BY <3>2, <4>2, <4>3
        <3> QED
            BY <3>1, <3>2 DEF Layered
    <2>4. Layered(visible, rest, n - 1)
        BY <1>6, <2>1, <2>2, <2>3 DEF Layered
    <2>5. shown = visible
        BY <1>9
    <2> HIDE DEF shown
    <2> QED
        BY <1>3, <1>4, <2>4, <2>5 DEF new
<1>10. CASE ~shadowed /\ overlaps
    <2>1. shown = LayerTree(rest)
        BY <1>10
    <2>2. Layered(LayerTree(rest), rest, Len(rest))
        BY <1>4, LayerTreeLayered
    <2> HIDE DEF shown
    <2> QED
        BY <1>3, <1>4, <2>1, <2>2 DEF new
<1>11. CASE ~shadowed /\ ~overlaps
    <2> DEFINE gone == {r \in visible.roots : r \subseteq path}
               left == RemoveWriteAtPath(visible, path)
    <2>1. ASSUME NEW i \in 1..n - 1
          PROVE  /\ rest[i].path \cap path = {}
                 /\ ~ rest[i].path \subseteq path
                 /\ ~ path \subseteq rest[i].path
        <3>1. rest[i].path \in Paths
            BY <1>8 DEF Records
        <3>2. i \in DOMAIN rest /\ i >= 1
            BY <1>4
        <3>3. ~ path \subseteq rest[i].path /\ ~ rest[i].path \subseteq path
            BY <1>11, <3>2 DEF Contains
        <3> QED
            BY <1>5, <3>1, <3>3, PathsAreATree
    <2>2. ASSUME NEW r \in visible.roots
          PROVE  \/ r = path
                 \/ \E j \in 1..n - 1 : rest[j].path = r /\ ~ r \subseteq path
        <3> PICK j \in 1..n : writes[j].path = r
            BY DEF Layered
        <3>1. CASE j = 1
            BY <3>1
        <3>2. CASE j # 1
            BY <1>7, <2>1, <3>2
        <3> QED
            BY <3>1, <3>2
    <2>3. path \in visible.roots
        <3> PICK r \in visible.roots : path \subseteq r
            BY <1>1 DEF Layered
        <3>1. r = path
            BY <2>1, <2>2
        <3> QED
            BY <3>1
    <2>4. gone = {path}
        BY <2>2, <2>3
    <2>5. UNION gone = path
        BY <2>4
    <2>5a. left = [roots |-> visible.roots \ gone,
                   value |-> [leaf \in Leaves |->
                      IF leaf \in UNION gone THEN 0 ELSE visible.value[leaf]]]
        BY DEF RemoveWriteAtPath
    <2> HIDE DEF gone
    <2>6. left = [roots |-> visible.roots \ {path},
                  value |-> [leaf \in Leaves |->
                     IF leaf \in path THEN 0 ELSE visible.value[leaf]]]
        BY <2>4, <2>5, <2>5a
    <2> HIDE DEF left
    <2>7. left \in Trees
        BY <1>6, <2>6 DEF Trees
    <2>8. \A r \in left.roots : \E j \in 1..n - 1 : rest[j].path = r
        BY <2>2, <2>6
    <2>9. \A r, s \in left.roots : r \subseteq s => r = s
        BY <1>6, <2>6
    <2>10. ASSUME NEW j \in 1..n - 1
           PROVE  \E r \in left.roots : rest[j].path \subseteq r
        <3> PICK r \in visible.roots : rest[j].path \subseteq r
            <4>1. PICK i \in 1..n : rest[j] = writes[i]
                BY <1>1, <1>4
            <4> QED
                BY <1>8, <4>1 DEF Layered
        <3>1. r # path
            BY <2>1
        <3> QED
            BY <2>6, <3>1
    <2>11. ASSUME NEW leaf \in Leaves
           PROVE  \/ /\ left.value[leaf] = 0
                     /\ \A j \in 1..n - 1 : leaf \notin rest[j].path
                  \/ \E j \in 1..n - 1 :
                        /\ leaf \in rest[j].path
                        /\ left.value[leaf] = rest[j].id
                        /\ \A k \in j + 1..n - 1 : leaf \notin rest[k].path
        <3>1. CASE leaf \in path
            <4>1. left.value[leaf] = 0
                BY <2>6, <3>1
            <4>2. \A j \in 1..n - 1 : leaf \notin rest[j].path
                BY <2>1, <3>1
            <4> QED
                BY <4>1, <4>2
        <3>2. CASE leaf \notin path
            <4>1. left.value[leaf] = visible.value[leaf]
                BY <2>6, <3>2
            <4>2. CASE /\ visible.value[leaf] = 0
                       /\ \A j \in 1..n : leaf \notin writes[j].path
                BY <1>4, <1>8, <4>1, <4>2
            <4>3. ASSUME NEW j \in 1..n,
                         leaf \in writes[j].path, visible.value[leaf] = writes[j].id,
                         \A k \in j + 1..n : leaf \notin writes[k].path
                  PROVE  \E h \in 1..n - 1 :
                           /\ leaf \in rest[h].path
                           /\ left.value[leaf] = rest[h].id
                           /\ \A k \in h + 1..n - 1 : leaf \notin rest[k].path
                <5>1. j # 1
                    BY <3>2, <4>3
                <5>2. j - 1 \in 1..n - 1 /\ rest[j - 1] = writes[j]
                    BY <1>7, <5>1
                <5>3. \A k \in (j - 1) + 1..n - 1 : k + 1 \in j + 1..n /\ rest[k] = writes[k + 1]
                    BY <1>1, <1>4
                <5> QED
                    BY <4>1, <4>3, <5>2, <5>3
            <4> QED
                BY <4>2, <4>3 DEF Layered
        <3> QED
            BY <3>1, <3>2
    <2>12. Layered(left, rest, n - 1)
        BY <2>7, <2>8, <2>9, <2>10, <2>11 DEF Layered
    <2>13. shown = left
        BY <1>11 DEF left
    <2> HIDE DEF shown
    <2> QED
        BY <1>3, <1>4, <2>12, <2>13 DEF new
<1> QED
    BY <1>9, <1>10, <1>11

\* The function that RemoveWrites defines
IsRemoved(f, tree, ids, n) ==
    f = [i \in 0..n |-> IF i = 0 THEN tree ELSE RemoveWrite(f[i - 1], ids[i])]

LEMMA RemovedExists ==
    ASSUME NEW tree, NEW ids
    PROVE  \A n \in Nat : \E f : IsRemoved(f, tree, ids, n)
<1> USE DEF IsRemoved
<1> DEFINE Fits(f, n) == IsRemoved(f, tree, ids, n)
           S == {n \in Nat : \E f : Fits(f, n)}
<1>1. 0 \in S
    <2> DEFINE f == [i \in 0..0 |-> tree]
    <2>1. Fits(f, 0)
        OBVIOUS
    <2> QED
        BY <2>1
<1>2. ASSUME NEW n \in S PROVE n + 1 \in S
    <2> PICK f : Fits(f, n)
        BY <1>2
    <2> DEFINE last == RemoveWrite(f[n], ids[n + 1])
    <2> HIDE DEF last
    <2> DEFINE g == [i \in 0..n + 1 |-> IF i = n + 1 THEN last ELSE f[i]]
    <2>1. n \in Nat /\ n + 1 \in Nat
        OBVIOUS
    <2>2. ASSUME NEW i \in 0..n + 1
          PROVE  g[i] = IF i = 0 THEN tree ELSE RemoveWrite(g[i - 1], ids[i])
        <3>1. CASE i = n + 1
            <4>1. g[i] = last /\ i # 0 /\ i - 1 = n /\ g[i - 1] = f[n]
                BY <2>1, <3>1
            <4> QED
                BY <3>1, <4>1 DEF last
        <3>2. CASE i # n + 1
            <4>1. i \in 0..n /\ g[i] = f[i]
                BY <2>1, <3>2
            <4>2. CASE i = 0
                BY <4>1, <4>2
            <4>3. CASE i # 0
                <5>1. i - 1 \in 0..n /\ i - 1 # n + 1 /\ i - 1 \in 0..n + 1
                    BY <2>1, <4>1, <4>3
                <5>2. g[i - 1] = f[i - 1]
                    BY <5>1
                <5>3. f[i] = RemoveWrite(f[i - 1], ids[i])
                    BY <4>1, <4>3
                <5> QED
                    BY <4>1, <4>3, <5>2, <5>3
            <4> QED
                BY <4>2, <4>3
        <3> QED
            BY <3>1, <3>2
    <2>3. Fits(g, n + 1)
        <3> DEFINE h == [i \in 0..n + 1 |->
                IF i = 0 THEN tree ELSE RemoveWrite(g[i - 1], ids[i])]
        <3>1. \A i \in 0..n + 1 : g[i] = h[i]
            BY <2>2
        <3>2. g = h
            BY <3>1
        <3> QED
            BY <3>2
    <2> QED
        BY <2>1, <2>3
<1>3. S = Nat
    <2> HIDE DEF Fits
    <2>1. S \in SUBSET Nat
        OBVIOUS
    <2> QED
        BY <1>1, <1>2, <2>1, NatSetInduction
<1> QED
    BY <1>3

LEMMA RemovedRecursion ==
    ASSUME NEW tree, NEW T, NEW ids \in Seq(T)
    PROVE  \E f : /\ f[0] = tree
                  /\ \A i \in 1..Len(ids) : f[i] = RemoveWrite(f[i - 1], ids[i])
                  /\ RemoveWrites(tree, ids) = f[Len(ids)]
<1> DEFINE f == CHOOSE removed : removed = [i \in 0..Len(ids) |->
               IF i = 0 THEN tree ELSE RemoveWrite(removed[i - 1], ids[i])]
<1>1. Len(ids) \in Nat
    OBVIOUS
<1>2. f = [i \in 0..Len(ids) |->
               IF i = 0 THEN tree ELSE RemoveWrite(f[i - 1], ids[i])]
    <2>1. \E g : IsRemoved(g, tree, ids, Len(ids))
        BY <1>1, RemovedExists
    <2> QED
        BY <2>1 DEF IsRemoved
<1>3. RemoveWrites(tree, ids) = f[Len(ids)]
    BY DEF RemoveWrites
<1> HIDE DEF f
<1>4. f[0] = tree
    BY <1>1, <1>2
<1>5. \A i \in 1..Len(ids) : f[i] = RemoveWrite(f[i - 1], ids[i])
    BY <1>1, <1>2
<1> QED
    BY <1>3, <1>4, <1>5

\* The oldest writes go, in their order: the others are there, and visible
LEMMA RemoveOldestWrites ==
    ASSUME NEW writes \in Seq(Records), NEW ids \in Seq(Nat),
           Len(ids) <= Len(writes),
           \A i \in 1..Len(ids) : ids[i] = writes[i].id,
           \A i, j \in 1..Len(writes) : i < j => writes[i].id # writes[j].id
    PROVE  LET new == RemoveWrites([all |-> writes, visible |-> LayerTree(writes)], ids)
           IN  /\ new.all \in Seq(Records)
               /\ Len(new.all) = Len(writes) - Len(ids)
               /\ \A i \in 1..Len(new.all) : new.all[i] = writes[Len(ids) + i]
               /\ new.visible = LayerTree(new.all)
<1> DEFINE tree == [all |-> writes, visible |-> LayerTree(writes)]
           n == Len(writes)
           Left(t, k) == /\ t = [all |-> t.all, visible |-> t.visible]
                         /\ t.all \in Seq(Records)
                         /\ Len(t.all) = n - k
                         /\ \A i \in 1..n - k : t.all[i] = writes[k + i]
                         /\ Layered(t.visible, t.all, Len(t.all))
<1> PICK f : /\ f[0] = tree
             /\ \A i \in 1..Len(ids) : f[i] = RemoveWrite(f[i - 1], ids[i])
             /\ RemoveWrites(tree, ids) = f[Len(ids)]
    <2> HIDE DEF tree, Left
    <2> QED
        BY RemovedRecursion
<1> DEFINE S == {k \in Nat : k <= Len(ids) => Left(f[k], k)}
<1>1. n \in Nat /\ Len(ids) \in 0..n
    OBVIOUS
<1>2. Left(tree, 0)
    BY <1>1, LayerTreeLayered
<1>3. ASSUME NEW k \in Nat, NEW t, Left(t, k), k + 1 <= Len(ids)
      PROVE  Left(RemoveWrite(t, ids[k + 1]), k + 1)
    <2>1. /\ t.all \in Seq(Records) /\ t.all # <<>>
          /\ Layered(t.visible, t.all, Len(t.all))
          /\ Len(t.all) = n - k
        BY <1>1, <1>3
    <2>1a. \A i \in 1..n - k : t.all[i] = writes[k + i]
        BY <1>3
    <2>2. /\ t.all[1] = writes[k + 1] /\ t.all[1].id = ids[k + 1]
          /\ \A i \in 2..Len(t.all) : t.all[i] = writes[k + i]
        <3>1. 1 \in 1..n - k /\ k + 1 \in 1..Len(ids)
            BY <1>1, <1>3
        <3>2. \A i \in 2..Len(t.all) : i \in 1..n - k
            BY <1>1, <2>1
        <3> QED
            BY <2>1a, <3>1, <3>2
    <2>3. \A i \in 2..Len(t.all) : t.all[i].id # t.all[1].id
        <3> SUFFICES ASSUME NEW i \in 2..Len(t.all)
                     PROVE  t.all[i].id # t.all[1].id
            OBVIOUS
        <3>1. k + 1 \in 1..n /\ k + i \in 1..n /\ k + 1 < k + i
            <4>1. i \in 2..n - k
                BY <2>1
            <4>2. k + 1 <= n
                BY <1>1, <1>3
            <4> HIDE DEF n, Left
            <4> QED
                BY <1>1, <4>1, <4>2
        <3>2. writes[k + 1].id # writes[k + i].id
            BY <3>1
        <3> QED
            BY <2>2, <3>2
    <2> DEFINE all == t.all
               visible == t.visible
               new == RemoveWrite([all |-> all, visible |-> visible], all[1].id)
    <2>4. /\ new = [all |-> new.all, visible |-> new.visible]
          /\ new.all \in Seq(Records)
          /\ Len(new.all) = Len(all) - 1
          /\ \A i \in 1..Len(all) - 1 : new.all[i] = all[i + 1]
          /\ Layered(new.visible, new.all, Len(new.all))
        <3> HIDE DEF all, visible
        <3> QED
            BY <2>1, <2>3, RemoveOldest DEF all, visible
    <2>5. new = RemoveWrite(t, ids[k + 1])
        BY <1>3, <2>2
    <2> HIDE DEF new
    <2>6. Len(all) = n - k
        BY <1>3
    <2>7. ASSUME NEW i \in 1..n - (k + 1) PROVE new.all[i] = writes[(k + 1) + i]
        <3>1. i \in 1..Len(all) - 1 /\ i + 1 \in 1..n - k /\ k + (i + 1) = (k + 1) + i
            <4>1. i \in Nat /\ 1 <= i /\ i <= n - (k + 1)
                <5> HIDE DEF all, n, Left
                <5> QED
                    BY <1>1
            <4> HIDE DEF all, n, Left
            <4> QED
                BY <1>1, <2>6, <4>1
        <3>2. new.all[i] = all[i + 1]
            BY <2>4, <3>1
        <3>3. all[i + 1] = writes[k + (i + 1)]
            BY <1>3, <3>1
        <3> QED
            BY <3>1, <3>2, <3>3
    <2>8. Len(new.all) = n - (k + 1)
        BY <1>1, <2>4, <2>6
    <2>9. Left(new, k + 1)
        BY <2>4, <2>7, <2>8
    <2> HIDE DEF Left
    <2> QED
        BY <2>5, <2>9
<1> HIDE DEF Left
<1>4. 0 \in S
    BY <1>2
<1>5. ASSUME NEW k \in S PROVE k + 1 \in S
    <2>1. CASE k + 1 <= Len(ids)
        <3>1. k \in Nat /\ Left(f[k], k) /\ f[k + 1] = RemoveWrite(f[k], ids[k + 1])
            BY <1>1, <1>5, <2>1
        <3> QED
            BY <1>3, <2>1, <3>1
    <2>2. CASE ~ k + 1 <= Len(ids)
        BY <2>2
    <2> QED
        BY <2>1, <2>2
<1>6. S = Nat
    <2>1. S \in SUBSET Nat
        OBVIOUS
    <2> HIDE DEF S
    <2> QED
        BY <1>4, <1>5, <2>1, NatSetInduction
<1> DEFINE new == RemoveWrites(tree, ids)
<1>7. Left(new, Len(ids))
    BY <1>1, <1>6
<1> HIDE DEF new
<1>8. /\ new.all \in Seq(Records)
      /\ Len(new.all) = n - Len(ids)
      /\ \A i \in 1..n - Len(ids) : new.all[i] = writes[Len(ids) + i]
      /\ Layered(new.visible, new.all, Len(new.all))
    BY <1>7 DEF Left
<1>9. new.visible = LayerTree(new.all)
    <2>1. Layered(LayerTree(new.all), new.all, Len(new.all))
        BY <1>8, LayerTreeLayered
    <2>2. Len(new.all) \in 0..Len(new.all)
        BY <1>8
    <2> QED
        BY <1>8, <2>1, <2>2, LayeredUnique
<1> QED
    BY <1>8, <1>9 DEF new

----------------------------------------------------------------------------
(* Types, for writes that go in any order                                  *)

RecordsTo(m) == [id : 1..m, path : Paths]
TreesTo(m) == [roots : SUBSET Paths, value : [Leaves -> 0..m]]

\* A write with that number is there
Has(all, id) == \E i \in 1..Len(all) : all[i].id = id

LEMMA LayerTreeTyped ==
    ASSUME NEW m \in Nat, NEW writes \in Seq(RecordsTo(m))
    PROVE  LayerTree(writes) \in TreesTo(m)
<1> DEFINE tree == LayerTree(writes)
<1>1. writes \in Seq(Records)
    <2>1. RecordsTo(m) \subseteq Records
        BY DEF RecordsTo, Records
    <2> QED
        BY <2>1, SeqMonotonic
<1>2. Layered(tree, writes, Len(writes))
    BY <1>1, LayerTreeLayered
<1> HIDE DEF tree
<1>3. \A i \in 1..Len(writes) : writes[i].id \in 0..m
    <2> SUFFICES ASSUME NEW i \in 1..Len(writes) PROVE writes[i].id \in 0..m
        OBVIOUS
    <2>1. writes[i] \in RecordsTo(m)
        BY ElementOfSeq
    <2> QED
        BY <2>1 DEF RecordsTo
<1>4. \A leaf \in Leaves : tree.value[leaf] \in 0..m
    BY <1>2, <1>3 DEF Layered
<1>5. tree \in Trees
    BY <1>2 DEF Layered
<1>6. tree.value \in [Leaves -> 0..m]
    BY <1>4, <1>5 DEF Trees
<1>7. tree \in TreesTo(m)
    BY <1>5, <1>6 DEF Trees, TreesTo
<1> QED
    BY <1>7 DEF tree

LEMMA RemoveWriteTyped ==
    ASSUME NEW m \in Nat, NEW all \in Seq(RecordsTo(m)),
           NEW visible \in TreesTo(m), NEW id, Has(all, id)
    PROVE  LET new == RemoveWrite([all |-> all, visible |-> visible], id)
           IN  /\ new = [all |-> new.all, visible |-> new.visible]
               /\ new.all \in Seq(RecordsTo(m))
               /\ new.visible \in TreesTo(m)
               /\ \A p : p # id /\ Has(all, p) => Has(new.all, p)
<1> DEFINE tree == [all |-> all, visible |-> visible]
           new == RemoveWrite(tree, id)
           at == CHOOSE i \in DOMAIN tree.all : tree.all[i].id = id
           path == all[at].path
           rest == Without(all, at)
           shadowed == \E i \in DOMAIN rest : i >= at /\ Contains(rest[i].path, path)
           overlaps == \E i \in DOMAIN rest : Contains(path, rest[i].path)
           shown == CASE shadowed -> visible
                      [] ~shadowed /\ overlaps -> LayerTree(rest)
                      [] OTHER -> RemoveWriteAtPath(visible, path)
<1>1. at \in 1..Len(all) /\ all[at].id = id
    BY DEF Has
<1>2. new = [all |-> rest, visible |-> shown]
    BY DEF RemoveWrite
<1> HIDE DEF new, at
<1>3. /\ rest \in Seq(RecordsTo(m)) /\ Len(rest) = Len(all) - 1
      /\ \A i \in 1..Len(all) - 1 : rest[i] = IF i < at THEN all[i] ELSE all[i + 1]
    BY <1>1, WithoutIs
<1> HIDE DEF rest
<1>4. shown \in TreesTo(m)
    <2>1. LayerTree(rest) \in TreesTo(m)
        BY <1>3, LayerTreeTyped
    <2>2. RemoveWriteAtPath(visible, path) \in TreesTo(m)
        BY DEF RemoveWriteAtPath, TreesTo
    <2> HIDE DEF path, overlaps, shadowed
    <2> QED
        BY <2>1, <2>2
<1> HIDE DEF shown
<1>5. ASSUME NEW p, p # id, Has(all, p) PROVE Has(rest, p)
    <2> PICK i \in 1..Len(all) : all[i].id = p
        BY <1>5 DEF Has
    <2>1. i # at
        BY <1>1, <1>5
    <2>2. CASE i < at
        <3>1. i \in 1..Len(rest) /\ rest[i] = all[i]
            BY <1>1, <1>3, <2>2
        <3> QED
            BY <3>1 DEF Has
    <2>3. CASE i > at
        <3>1. i - 1 \in 1..Len(rest) /\ ~ i - 1 < at /\ (i - 1) + 1 = i
            BY <1>1, <1>3, <2>3
        <3>2. rest[i - 1] = all[i]
            BY <1>3, <3>1
        <3> QED
            BY <3>1, <3>2 DEF Has
    <2> QED
        BY <1>1, <2>1, <2>2, <2>3
<1> QED
    BY <1>2, <1>3, <1>4, <1>5 DEF new

LEMMA RemoveWritesTyped ==
    ASSUME NEW m \in Nat, NEW all \in Seq(RecordsTo(m)),
           NEW visible \in TreesTo(m), NEW ids \in Seq(1..m),
           \A i \in 1..Len(ids) : Has(all, ids[i]),
           \A i, j \in 1..Len(ids) : i # j => ids[i] # ids[j]
    PROVE  LET new == RemoveWrites([all |-> all, visible |-> visible], ids)
           IN  /\ new.all \in Seq(RecordsTo(m))
               /\ new.visible \in TreesTo(m)
               /\ \A p : Has(all, p) /\ (\A i \in 1..Len(ids) : ids[i] # p) =>
                         Has(new.all, p)
<1> DEFINE tree == [all |-> all, visible |-> visible]
           Left(t, k) ==
               /\ t = [all |-> t.all, visible |-> t.visible]
               /\ t.all \in Seq(RecordsTo(m))
               /\ t.visible \in TreesTo(m)
               /\ \A p : Has(all, p) /\ (\A i \in 1..k : ids[i] # p) => Has(t.all, p)
<1> PICK f : /\ f[0] = tree
             /\ \A i \in 1..Len(ids) : f[i] = RemoveWrite(f[i - 1], ids[i])
             /\ RemoveWrites(tree, ids) = f[Len(ids)]
    <2> HIDE DEF tree, Left
    <2> QED
        BY RemovedRecursion
<1> DEFINE S == {k \in Nat : k <= Len(ids) => Left(f[k], k)}
<1>1. Len(ids) \in Nat
    OBVIOUS
<1>2. Left(tree, 0)
    OBVIOUS
<1>3. ASSUME NEW k \in Nat, NEW t, Left(t, k), k + 1 <= Len(ids)
      PROVE  Left(RemoveWrite(t, ids[k + 1]), k + 1)
    <2> DEFINE a == t.all
               v == t.visible
               id == ids[k + 1]
               new == RemoveWrite([all |-> a, visible |-> v], id)
    <2>1. /\ k + 1 \in 1..Len(ids) /\ id \in 1..m /\ Has(all, id)
          /\ \A i \in 1..k : i \in 1..Len(ids) /\ i # k + 1
        BY <1>1, <1>3
    <2>2. \A i \in 1..k : ids[i] # id
        BY <2>1
    <2>3. a \in Seq(RecordsTo(m)) /\ v \in TreesTo(m) /\ Has(a, id)
        BY <1>3, <2>1, <2>2
    <2>4. new = RemoveWrite(t, id)
        BY <1>3
    <2> HIDE DEF a, v, id
    <2>5. /\ new = [all |-> new.all, visible |-> new.visible]
          /\ new.all \in Seq(RecordsTo(m))
          /\ new.visible \in TreesTo(m)
          /\ \A p : p # id /\ Has(a, p) => Has(new.all, p)
        BY <2>3, RemoveWriteTyped
    <2> HIDE DEF new
    <2>6. ASSUME NEW p, Has(all, p), \A i \in 1..k + 1 : ids[i] # p
          PROVE  Has(new.all, p)
        <3>1. \A i \in 1..k : i \in 1..k + 1
            OBVIOUS
        <3>2. k + 1 \in 1..k + 1
            OBVIOUS
        <3>3. p # id
            BY <2>6, <3>2 DEF id
        <3>4. Has(a, p)
            BY <1>3, <2>6, <3>1 DEF a
        <3> QED
            BY <2>5, <3>3, <3>4
    <2>7. Left(new, k + 1)
        BY <2>5, <2>6
    <2> HIDE DEF Left
    <2> QED
        BY <2>4, <2>7 DEF id
<1> HIDE DEF Left
<1>4. 0 \in S
    BY <1>2
<1>5. ASSUME NEW k \in S PROVE k + 1 \in S
    <2>1. CASE k + 1 <= Len(ids)
        <3>1. k \in Nat /\ Left(f[k], k) /\ f[k + 1] = RemoveWrite(f[k], ids[k + 1])
            BY <1>1, <1>5, <2>1
        <3> QED
            BY <1>3, <2>1, <3>1
    <2>2. CASE ~ k + 1 <= Len(ids)
        BY <2>2
    <2> QED
        BY <2>1, <2>2
<1>6. S = Nat
    <2>1. S \in SUBSET Nat
        OBVIOUS
    <2> HIDE DEF S
    <2> QED
        BY <1>4, <1>5, <2>1, NatSetInduction
<1>7. Left(RemoveWrites(tree, ids), Len(ids))
    <2>1. Len(ids) \in S
        BY <1>1, <1>6
    <2>2. Left(f[Len(ids)], Len(ids))
        BY <1>1, <2>1
    <2> HIDE DEF S, tree
    <2> QED
        BY <2>2
<1> QED
    BY <1>7 DEF Left
=============================================================================
