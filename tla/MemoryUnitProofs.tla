-------------------------- MODULE MemoryUnitProofs --------------------------
(***************************************************************************)
(* What holds of the memory unit whatever it is composed with, for every   *)
(* depth of the tree and every size of the banks: one edge of the matcher  *)
(* tree, what a write does to the payload memory, and that the registers   *)
(* keep their types. MemoryProofs, HostProofs and InjectorProofs rest on   *)
(* it.                                                                     *)
(***************************************************************************)
EXTENDS MemoryUnit, TLAPS

\* The slots under a node, or the slot of a leaf.
Width(d) == 2 ^ (TreeDepth - d)
Under(d, p) == p * Width(d) .. (p + 1) * Width(d) - 1

First(e, S) == e \in S /\ \A f \in S : e <= f

\* out names the first slot of S that matches, if the identifier has come up to
\* it (known), and none otherwise.
Reports(out, S, matching, known) ==
    /\ out.match = 1 <=> known /\ S \cap matching /= {}
    /\ out.match = 1 => First(out.idx, S \cap matching)
    /\ known => out.ready = 1

\* What the tree says a edges after the identifier came: each node knows its
\* slots as soon as all levels below it have seen the identifier.
TreeOf(nodes, matching, a) ==
    \A d \in 0 .. TreeDepth - 1 : \A p \in 0 .. 2 ^ d - 1 :
        Reports(nodes[<< d, p >>], Under(d, p), matching, a >= TreeDepth - d)
-----------------------------------------------------------------------------
(* The tree: slots and merging *)

\* The two children of a node share its slots, the left one has the smaller.
LEMMA Halves ==
    ASSUME NEW d \in 0 .. TreeDepth - 1, NEW p \in 0 .. 2 ^ d - 1
    PROVE  /\ 2 * p \in 0 .. 2 ^ (d + 1) - 1 /\ 2 * p + 1 \in 0 .. 2 ^ (d + 1) - 1
           /\ Under(d, p) = Under(d + 1, 2 * p) \cup Under(d + 1, 2 * p + 1)
           /\ \A e \in Under(d + 1, 2 * p), f \in Under(d + 1, 2 * p + 1) : e < f
<1>1. TreeDepth \in Nat /\ d \in Int /\ TreeDepth - (d + 1) \in 0 .. TreeDepth
  BY MemoryAssumption
<1>2. 2 ^ d \in Nat /\ 2 ^ (d + 1) = 2 * 2 ^ d /\ p \in Int
  BY <1>1, PowersAssumption
<1>3. Width(d + 1) \in Nat \ {0} /\ Width(d) = 2 * Width(d + 1)
  <2>1. (TreeDepth - (d + 1)) + 1 = TreeDepth - d
    BY <1>1
  <2> QED
    BY <1>1, <2>1, PowersAssumption DEF Width
<1>4. 2 * p \in 0 .. 2 ^ (d + 1) - 1 /\ 2 * p + 1 \in 0 .. 2 ^ (d + 1) - 1
  BY <1>2
<1> DEFINE w == Width(d + 1)
           first == 2 * p * w
<1>5. first \in Int /\ w \in Nat \ {0}
  BY <1>2, <1>3
<1>6. /\ Under(d + 1, 2 * p) = first .. first + w - 1
      /\ Under(d + 1, 2 * p + 1) = first + w .. first + w + w - 1
      /\ Under(d, p) = first .. first + w + w - 1
  <2>1. (2 * p + 1) * w = first + w /\ (2 * p + 1 + 1) * w = first + w + w
    BY <1>2, <1>3
  <2>2. p * (2 * w) = first /\ (p + 1) * (2 * w) = first + w + w
    BY <1>2, <1>3
  <2> QED
    BY <1>3, <2>1, <2>2 DEF Under
<1> HIDE DEF w, first
<1>7. Under(d, p) = Under(d + 1, 2 * p) \cup Under(d + 1, 2 * p + 1)
  BY <1>5, <1>6
<1>8. \A e \in Under(d + 1, 2 * p), f \in Under(d + 1, 2 * p + 1) : e < f
  BY <1>5, <1>6
<1> QED
  BY <1>4, <1>7, <1>8

\* The root has all slots under it and a leaf its own.
LEMMA Ends ==
    /\ Under(0, 0) = Entries /\ 0 \in 0 .. 2 ^ 0 - 1
    /\ \A e \in Int : Under(TreeDepth, e) = {e}
    /\ Entries \subseteq Int
<1>1. TreeDepth \in Nat /\ TreeDepth - 0 = TreeDepth /\ TreeDepth - TreeDepth = 0
  BY MemoryAssumption
<1>2. 2 ^ 0 = 1
  OBVIOUS
<1>3. 2 ^ TreeDepth \in Nat \ {0}
  BY <1>1, PowersAssumption
<1>4. Under(0, 0) = Entries
  <2>1. Width(0) = 2 ^ TreeDepth
    BY <1>1 DEF Width
  <2> QED
    BY <1>3, <2>1 DEF Under, Entries
<1>5. ASSUME NEW e \in Int
      PROVE  Under(TreeDepth, e) = {e}
  <2>1. Width(TreeDepth) = 1
    BY <1>1, <1>2 DEF Width
  <2> QED
    BY <2>1 DEF Under
<1> QED
  BY <1>2, <1>3, <1>4, <1>5 DEF Entries

\* Merging keeps the meaning of a report: the first of both halves.
LEMMA MergeReports ==
    ASSUME NEW l, NEW r, NEW L \in SUBSET Int, NEW R \in SUBSET Int,
           NEW matching, NEW known,
           \A e \in L, f \in R : e < f,
           Reports(l, L, matching, known), Reports(r, R, matching, known)
    PROVE  Reports(Merge(l, r), L \cup R, matching, known)
<1> DEFINE out == Merge(l, r)
<1>1. /\ out.match = IF l.match = 1 \/ r.match = 1 THEN 1 ELSE 0
      /\ out.ready = IF l.ready = 1 /\ r.ready = 1 THEN 1 ELSE 0
      /\ out.idx = IF l.match = 1 THEN l.idx ELSE r.idx
  BY DEF Merge
<1> HIDE DEF out
<1>2. out.match = 1 <=> known /\ (L \cup R) \cap matching /= {}
  BY <1>1 DEF Reports
<1>3. ASSUME l.match = 1
      PROVE  First(out.idx, (L \cup R) \cap matching)
  <2>1. out.idx = l.idx /\ First(l.idx, L \cap matching)
    BY <1>1, <1>3 DEF Reports
  <2>2. ASSUME NEW f \in (L \cup R) \cap matching
        PROVE  l.idx <= f
    <3>1. l.idx \in L /\ l.idx \in Int /\ f \in Int
      BY <2>1 DEF First
    <3>2. CASE f \in L
      BY <2>1, <2>2, <3>2 DEF First
    <3>3. CASE f \in R
      <4>1. l.idx < f
        BY <3>1, <3>3
      <4> QED
        BY <3>1, <4>1
    <3> QED
      BY <2>2, <3>2, <3>3
  <2> QED
    BY <2>1, <2>2 DEF First
<1>4. ASSUME l.match /= 1, r.match = 1
      PROVE  First(out.idx, (L \cup R) \cap matching)
  <2>1. out.idx = r.idx /\ First(r.idx, R \cap matching) /\ L \cap matching = {}
    BY <1>1, <1>4 DEF Reports
  <2> QED
    BY <2>1 DEF First
<1>5. known => out.ready = 1
  BY <1>1 DEF Reports
<1> QED
  BY <1>1, <1>2, <1>3, <1>4, <1>5 DEF Reports, out

\* A leaf compares its slot as soon as the identifier is there.
LEMMA LeafReports ==
    ASSUME NEW e \in Entries, NEW i, NEW ready
    PROVE  Reports(Leaf(e, i, ready), {e}, { f \in Entries : Matches(i, id_mem[f]) },
                   ready = 1)
<1>1. e \in Int /\ e <= e
  BY Ends
<1>2. e \in { f \in Entries : Matches(i, id_mem[f]) } <=> Matches(i, id_mem[e])
  OBVIOUS
<1> HIDE DEF Matches
<1> QED
  BY <1>1, <1>2 DEF Leaf, Reports, First

\* One edge: each node merges what its children said one edge earlier.
LEMMA TreeEdge ==
    ASSUME NEW nodes, NEW next, NEW leaf, NEW matching, NEW ready,
           NEW a \in Int, NEW b \in Int,
           TreeOf(nodes, matching, a),
           \A e \in Entries : Reports(leaf[e], {e}, matching, ready),
           \A d \in 0 .. TreeDepth - 1 : \A p \in 0 .. 2 ^ d - 1 :
              next[<< d, p >>] =
                IF d + 1 = TreeDepth THEN Merge(leaf[2 * p], leaf[2 * p + 1])
                ELSE Merge(nodes[<< d + 1, 2 * p >>], nodes[<< d + 1, 2 * p + 1 >>]),
           b >= 1 <=> ready,
           \A k \in 1 .. TreeDepth - 1 : b >= k + 1 <=> a >= k
    PROVE  TreeOf(next, matching, b)
<1>1. SUFFICES ASSUME NEW d \in 0 .. TreeDepth - 1, NEW p \in 0 .. 2 ^ d - 1
      PROVE  Reports(next[<< d, p >>], Under(d, p), matching, b >= TreeDepth - d)
  BY DEF TreeOf
<1>2. TreeDepth \in Nat \ {0} /\ d \in Int /\ d + 1 \in Int
  BY MemoryAssumption
<1> DEFINE Child(q) == IF d + 1 = TreeDepth THEN leaf[q] ELSE nodes[<< d + 1, q >>]
           known == b >= TreeDepth - d
<1>3. next[<< d, p >>] = Merge(Child(2 * p), Child(2 * p + 1))
  OBVIOUS
<1>4. ASSUME NEW q \in 0 .. 2 ^ (d + 1) - 1
      PROVE  Reports(Child(q), Under(d + 1, q), matching, known)
  <2>1. CASE d + 1 = TreeDepth
    <3>1. q \in Entries /\ q \in Int
      BY <2>1, Ends DEF Entries
    <3>2. Under(d + 1, q) = {q}
      BY <2>1, <3>1, Ends
    <3>3. TreeDepth - d = 1
      BY <1>2, <2>1
    <3>4. known <=> ready
      BY <3>3
    <3>5. Reports(leaf[q], {q}, matching, ready)
      BY <3>1
    <3> QED
      BY <2>1, <3>2, <3>4, <3>5 DEF Reports
  <2>2. CASE d + 1 /= TreeDepth
    <3>1. d + 1 \in 0 .. TreeDepth - 1 /\ TreeDepth - (d + 1) \in 1 .. TreeDepth - 1
      BY <1>2, <2>2
    <3>2. TreeDepth - d = TreeDepth - (d + 1) + 1
      BY <1>2
    <3>3. known <=> a >= TreeDepth - (d + 1)
      BY <3>1, <3>2
    <3>4. Reports(nodes[<< d + 1, q >>], Under(d + 1, q), matching, a >= TreeDepth - (d + 1))
      BY <3>1 DEF TreeOf
    <3> QED
      BY <2>2, <3>3, <3>4 DEF Reports
  <2> QED
    BY <2>1, <2>2
<1>5. Under(d + 1, 2 * p) \in SUBSET Int /\ Under(d + 1, 2 * p + 1) \in SUBSET Int
  BY DEF Under
<1> HIDE DEF Child, known
<1>6. Reports(Merge(Child(2 * p), Child(2 * p + 1)),
              Under(d + 1, 2 * p) \cup Under(d + 1, 2 * p + 1), matching, known)
  BY <1>4, <1>5, Halves, MergeReports
<1> QED
  BY <1>3, <1>6, Halves DEF known

\* What the root tells the memory unit.
LEMMA RootReports ==
    ASSUME NEW matching \in SUBSET Entries, NEW a \in Int, TreeOf(node, matching, a)
    PROVE  /\ Root.match = 1 <=> a >= TreeDepth /\ matching /= {}
           /\ Root.match = 1 => First(Root.idx, matching) /\ Root.ready = 1
<1>1. 0 \in 0 .. TreeDepth - 1 /\ TreeDepth - 0 = TreeDepth
  BY MemoryAssumption
<1>2. Reports(Root, Entries, matching, a >= TreeDepth)
  BY <1>1, Ends DEF TreeOf, Root
<1>3. Entries \cap matching = matching
  OBVIOUS
<1> QED
  BY <1>2, <1>3 DEF Reports

\* One edge of an awake unit: the leaves see the identifier as it is, a is the
\* age that it has at the nodes and b the age after the edge.
Hits(i) == { e \in Entries : Matches(i, id_mem[e]) }
Ages(ready, a, b) ==
    /\ a \in Int /\ b \in Int
    /\ b >= 1 <=> ready = 1
    /\ \A k \in 1 .. TreeDepth - 1 : b >= k + 1 <=> a >= k

LEMMA TreeAdvances ==
    ASSUME NEW i, NEW ready, NEW a, NEW b, Ages(ready, a, b),
           ChildNodeIntegrate(0, i, ready), TreeOf(node, Hits(i), a)
    PROVE  TreeOf(node', Hits(i), b)
<1> DEFINE leaf == [e \in Entries |-> Leaf(e, i, ready)]
<1>1. \A e \in Entries : Reports(leaf[e], {e}, Hits(i), ready = 1)
  <2>1. SUFFICES ASSUME NEW e \in Entries
        PROVE  Reports(Leaf(e, i, ready), {e}, Hits(i), ready = 1)
    BY DEF leaf
  <2> QED
    BY LeafReports DEF Hits
<1>2. ASSUME NEW d \in 0 .. TreeDepth - 1, NEW p \in 0 .. 2 ^ d - 1
      PROVE  node'[<< d, p >>] =
               IF d + 1 = TreeDepth THEN Merge(leaf[2 * p], leaf[2 * p + 1])
               ELSE Merge(node[<< d + 1, 2 * p >>], node[<< d + 1, 2 * p + 1 >>])
  <2>1. node'[<< d, p >>] = Merge(NodeOutput(d + 1, 2 * p, i, ready),
                                  NodeOutput(d + 1, 2 * p + 1, i, ready))
    BY DEF ChildNodeIntegrate, Nodes
  <2>2. CASE d + 1 = TreeDepth
    BY <2>1, <2>2, Halves DEF NodeOutput, Entries, leaf
  <2>3. CASE d + 1 /= TreeDepth
    BY <2>1, <2>3 DEF NodeOutput
  <2> QED
    BY <2>2, <2>3
<1> HIDE DEF leaf
<1> QED
  BY <1>1, <1>2, TreeEdge DEF Ages

\* The sleep branches clear the tree.
LEMMA TreeCleared ==
    ASSUME NEW nodes, NEW matching, NEW a \in Int, a < 1,
           \A n \in Nodes : nodes[n] = NodeReset
    PROVE  TreeOf(nodes, matching, a)
<1>1. SUFFICES ASSUME NEW d \in 0 .. TreeDepth - 1, NEW p \in 0 .. 2 ^ d - 1
      PROVE  Reports(nodes[<< d, p >>], Under(d, p), matching, a >= TreeDepth - d)
  BY DEF TreeOf
<1>2. << d, p >> \in Nodes
  BY DEF Nodes
<1>3. nodes[<< d, p >>].match = 0
  BY <1>2 DEF NodeReset
<1>4. ~(a >= TreeDepth - d)
  BY MemoryAssumption
<1> QED
  BY <1>3, <1>4 DEF Reports
-----------------------------------------------------------------------------
(* The payload memory *)

\* Rows of n words side by side: the words of a row have addresses of their own.
LEMMA RowsApart ==
    ASSUME NEW n \in Nat, NEW e \in Int, NEW f \in Int,
           NEW s \in 0 .. n - 1, NEW t \in 0 .. n - 1, e < f
    PROVE  e * n + s < f * n + t
<1>1. f - (e + 1) \in Nat
  OBVIOUS
<1>2. (f - (e + 1)) * n >= 0
  BY <1>1
<1>3. (f - (e + 1)) * n = f * n - e * n - n
  OBVIOUS
<1> QED
  BY <1>2, <1>3

LEMMA RowAddresses ==
    ASSUME NEW n \in Nat, NEW e \in Int, NEW f \in Int,
           NEW s \in 0 .. n - 1, NEW t \in 0 .. n - 1, e * n + s = f * n + t
    PROVE  e = f /\ s = t
<1>1. ~(e < f)
  BY RowsApart
<1>2. ~(f < e)
  BY RowsApart
<1> QED
  BY <1>1, <1>2

LEMMA RowInBank ==
    ASSUME NEW n \in Nat, NEW e \in Entries, NEW s \in 0 .. n - 1
    PROVE  e * n + s \in 0 .. 2 ^ TreeDepth * n - 1
<1>1. 2 ^ TreeDepth \in Nat
  BY MemoryAssumption, PowersAssumption
<1>2. e \in Nat /\ e < 2 ^ TreeDepth
  BY <1>1 DEF Entries
<1>3. e * n >= 0
  BY <1>2
<1> DEFINE all == 2 ^ TreeDepth
<1>4. e * n + s < all * n + 0
  <2>1. all \in Int /\ e \in Int /\ e < all /\ 0 \in 0 .. n - 1
    BY <1>1, <1>2
  <2> HIDE DEF all
  <2> QED
    BY <2>1, RowsApart
<1>5. all * n \in Int /\ e * n \in Int /\ s \in Int /\ s >= 0
  BY <1>1, <1>2
<1> HIDE DEF all
<1>6. e * n + s \in 0 .. all * n - 1
  <2>1. all * n + 0 = all * n
    BY <1>5
  <2> QED
    BY <1>3, <1>4, <1>5, <2>1
<1> QED
  BY <1>6 DEF all

Banks == /\ bank0 \in [0 .. 2 ^ TreeDepth * Bank0Segs - 1 -> Words]
         /\ bank1 \in [0 .. 2 ^ TreeDepth * Bank1Segs - 1 -> Words]

\* A write changes the one segment of the one entry that the host addressed, in
\* either bank, and no other word that the unit may fetch; without a write no
\* word changes.
THEOREM SegmentStored ==
    ASSUME Banks, WriteRoute,
           bram_write \in [en : Bit, entry : Entries, seg : Segments, data : Words],
           NEW e \in Entries, NEW s \in Segments
    PROVE  WideWord(e)'[s] =
             IF bram_write.en = 1 /\ bram_write.entry = e /\ bram_write.seg = s
             THEN bram_write.data ELSE WideWord(e)[s]
<1>1. Bank0Segs \in Nat /\ Bank1Segs \in Nat /\ Bank1Segs = SegCnt - Bank0Segs
  BY MemoryAssumption DEF Bank1Segs
<1> DEFINE f == bram_write.entry
           t == bram_write.seg
<1>2. /\ f \in Entries /\ t \in Segments /\ bram_write.en \in {0, 1}
      /\ e \in Int /\ f \in Int /\ s \in Int /\ t \in Int /\ SegCnt \in Int
  <2>1. f \in Entries /\ t \in Segments /\ bram_write.en \in {0, 1}
    BY DEF Bit
  <2>2. f \in Int /\ e \in Int
    BY <2>1 DEF Entries
  <2>3. s \in Int /\ t \in Int /\ SegCnt \in Int
    BY <2>1, MemoryAssumption DEF Segments
  <2> QED
    BY <2>1, <2>2, <2>3
<1> HIDE DEF f, t
<1>3. CASE s < Bank0Segs
  <2>1. WideWord(e)[s] = bank0[e * Bank0Segs + s]
        /\ WideWord(e)'[s] = bank0'[e * Bank0Segs + s]
    BY <1>3 DEF WideWord
  <2>2. CASE bram_write.en = 1 /\ t < Bank0Segs
    <3>1. bank0' = [bank0 EXCEPT ![f * Bank0Segs + t] = bram_write.data]
      BY <2>2 DEF WriteRoute, Bank0Addr, f, t
    <3>2. s \in 0 .. Bank0Segs - 1 /\ t \in 0 .. Bank0Segs - 1
      BY <1>1, <1>2, <1>3, <2>2 DEF Segments
    <3>3. e * Bank0Segs + s \in 0 .. 2 ^ TreeDepth * Bank0Segs - 1
      BY <1>1, <3>2, RowInBank
    <3>4. e * Bank0Segs + s = f * Bank0Segs + t <=> e = f /\ s = t
      BY <1>1, <1>2, <3>2, RowAddresses
    <3> QED
      BY <2>1, <2>2, <3>1, <3>3, <3>4 DEF Banks, f, t
  <2>3. CASE ~(bram_write.en = 1 /\ t < Bank0Segs)
    <3>1. bank0' = bank0 /\ (bram_write.en = 1 => t /= s)
      BY <1>3, <2>3 DEF WriteRoute, t
    <3> QED
      BY <2>1, <3>1 DEF f, t
  <2> QED
    BY <2>2, <2>3
<1>4. CASE ~(s < Bank0Segs)
  <2>1. WideWord(e)[s] = bank1[e * Bank1Segs + (s - Bank0Segs)]
        /\ WideWord(e)'[s] = bank1'[e * Bank1Segs + (s - Bank0Segs)]
    BY <1>4 DEF WideWord
  <2>2. CASE bram_write.en = 1 /\ t >= Bank0Segs
    <3>1. bank1' = [bank1 EXCEPT
                      ![f * Bank1Segs + (t - Bank0Segs)] = bram_write.data]
      BY <2>2 DEF WriteRoute, Bank1Addr, f, t
    <3>2. s - Bank0Segs \in 0 .. Bank1Segs - 1 /\ t - Bank0Segs \in 0 .. Bank1Segs - 1
      BY <1>1, <1>2, <1>4, <2>2 DEF Segments
    <3>3. e * Bank1Segs + (s - Bank0Segs) \in 0 .. 2 ^ TreeDepth * Bank1Segs - 1
      BY <1>1, <3>2, RowInBank
    <3>4. e * Bank1Segs + (s - Bank0Segs) = f * Bank1Segs + (t - Bank0Segs)
            <=> e = f /\ s = t
      <4>1. s - Bank0Segs = t - Bank0Segs <=> s = t
        BY <1>1, <1>2
      <4> QED
        BY <1>1, <1>2, <3>2, <4>1, RowAddresses
    <3> QED
      BY <2>1, <2>2, <3>1, <3>3, <3>4 DEF Banks, f, t
  <2>3. CASE ~(bram_write.en = 1 /\ t >= Bank0Segs)
    <3>1. bank1' = bank1 /\ (bram_write.en = 1 => t /= s)
      BY <1>1, <1>2, <1>4, <2>3 DEF WriteRoute, t
    <3> QED
      BY <2>1, <3>1 DEF f, t
  <2> QED
    BY <1>1, <1>2, <2>2, <2>3
<1> QED
  BY <1>3, <1>4
-----------------------------------------------------------------------------
(* The types of the unit's registers *)

\* What a node of the tree and a slot hold.
NodeTypes == [match : Bit, ready : Bit, idx : Entries]
SlotTypes == [Entries -> [value : Nat, mask : Nat, fi : FiFrames]]

\* The registers that a reset clears, cleared.
LEMMA ClearedTypes ==
    /\ NodeReset \in NodeTypes /\ FiNull \in FiFrames /\ 0 \in Entries
    /\ NoWrite \in [en : Bit, entry : Entries, seg : Segments, data : Words]
    /\ << 0, 0 >> \in Nodes
<1>1. 0 \in Entries /\ << 0, 0 >> \in Nodes
  <2>1. 0 \in 0 .. TreeDepth - 1 /\ TreeDepth \in 0 .. TreeDepth
    BY MemoryAssumption
  <2>2. 2 ^ TreeDepth \in Nat \ {0}
    BY <2>1, PowersAssumption
  <2>3. 0 \in Entries
    BY <2>2 DEF Entries
  <2>4. << 0, 0 >> \in {0} \X (0 .. 2 ^ 0 - 1)
    BY Ends
  <2> QED
    BY <2>1, <2>3, <2>4 DEF Nodes
<1>2. 0 \in Segments /\ 0 \in Words
  BY MemoryAssumption DEF Segments
<1> QED
  BY <1>1, <1>2 DEF NodeReset, NodeTypes, FiNull, FiFrames, FiTypes, NoWrite, Bit

\* Each level of the tree hands on what it merges.
LEMMA TreeTypes ==
    ASSUME node \in [Nodes -> NodeTypes], NEW sleep, NEW i, NEW ready,
           ChildNodeIntegrate(sleep, i, ready)
    PROVE  node' \in [Nodes -> NodeTypes]
<1>1. NodeReset \in NodeTypes
  BY ClearedTypes
<1>2. ASSUME NEW l \in NodeTypes, NEW r \in NodeTypes PROVE Merge(l, r) \in NodeTypes
  BY DEF Merge, NodeTypes, Bit
<1>3. ASSUME NEW e \in Entries PROVE Leaf(e, i, ready) \in NodeTypes
  BY DEF Leaf, NodeTypes, Bit
<1>4. ASSUME NEW d \in 0 .. TreeDepth - 1, NEW p \in 0 .. 2 ^ (d + 1) - 1
      PROVE  NodeOutput(d + 1, p, i, ready) \in NodeTypes
  <2>1. CASE d + 1 = TreeDepth
    BY <1>3, <2>1 DEF NodeOutput, Entries
  <2>2. CASE d + 1 /= TreeDepth
    <3>1. d + 1 \in 0 .. TreeDepth - 1
      BY <2>2, MemoryAssumption
    <3>2. << d + 1, p >> \in Nodes
      BY <3>1 DEF Nodes
    <3> QED
      BY <2>2, <3>2 DEF NodeOutput
  <2> QED
    BY <2>1, <2>2
<1>5. ASSUME NEW n \in Nodes
      PROVE  Merge(NodeOutput(n[1] + 1, 2 * n[2], i, ready),
                   NodeOutput(n[1] + 1, 2 * n[2] + 1, i, ready)) \in NodeTypes
  <2>0. PICK d \in 0 .. TreeDepth - 1 : n \in {d} \X (0 .. 2 ^ d - 1)
    BY DEF Nodes
  <2>1. PICK p \in 0 .. 2 ^ d - 1 : n = << d, p >>
    BY <2>0
  <2>2. n[1] = d /\ n[2] = p
    BY <2>1
  <2>3. 2 * p \in 0 .. 2 ^ (d + 1) - 1 /\ 2 * p + 1 \in 0 .. 2 ^ (d + 1) - 1
    BY <2>1, Halves
  <2> QED
    BY <1>2, <1>4, <2>1, <2>2, <2>3
<1> QED
  BY <1>1, <1>5 DEF ChildNodeIntegrate

\* A word of either bank is found at every entry.
LEMMA WideWordTypes ==
    ASSUME Banks, NEW e \in Entries
    PROVE  WideWord(e) \in [Segments -> Words]
<1>1. Bank0Segs \in Nat /\ Bank1Segs \in Nat /\ Bank1Segs = SegCnt - Bank0Segs /\ SegCnt \in Nat
  BY MemoryAssumption DEF Bank1Segs
<1>2. ASSUME NEW s \in Segments, s < Bank0Segs PROVE bank0[e * Bank0Segs + s] \in Words
  <2>1. s \in 0 .. Bank0Segs - 1
    BY <1>1, <1>2 DEF Segments
  <2>2. e * Bank0Segs + s \in 0 .. 2 ^ TreeDepth * Bank0Segs - 1
    BY <1>1, <2>1, RowInBank
  <2> QED
    BY <2>2 DEF Banks
<1>3. ASSUME NEW s \in Segments, ~(s < Bank0Segs)
      PROVE bank1[e * Bank1Segs + (s - Bank0Segs)] \in Words
  <2>1. s - Bank0Segs \in 0 .. Bank1Segs - 1
    BY <1>1, <1>3 DEF Segments
  <2>2. e * Bank1Segs + (s - Bank0Segs) \in 0 .. 2 ^ TreeDepth * Bank1Segs - 1
    BY <1>1, <2>1, RowInBank
  <2> QED
    BY <2>2 DEF Banks
<1> QED
  BY <1>2, <1>3 DEF WideWord

\* The payload memory: nothing but words in it and in its registers.
LEMMA BankTypes ==
    ASSUME MuTypeOK, WriteRoute, ReadBanks
    PROVE  Banks' /\ ram_latch' \in [Segments -> Words] /\ ram_out' \in [Segments -> Words]
<1>1. Banks /\ bram_write.data \in Words /\ bram_addrb \in Entries
  BY DEF MuTypeOK, Banks
<1>2. Banks'
  BY <1>1 DEF Banks, WriteRoute
<1>3. WideWord(bram_addrb) \in [Segments -> Words]
  BY <1>1, WideWordTypes
<1>4. NoData \in [Segments -> Words]
  BY MemoryAssumption DEF NoData
<1> QED
  BY <1>2, <1>3, <1>4 DEF MuTypeOK, ReadBanks

\* One edge of the memory unit while the host does not write.
LEMMA MemoryTypes ==
    ASSUME MuTypeOK, id_mem \in SlotTypes, NEW sleep \in Bit, NEW i, NEW ready,
           NEW write, NEW req, NEW resp, MuClock(sleep, i, ready, 0, write, req, resp)
    PROVE  MuTypeOK'
<1>1. node' \in [Nodes -> NodeTypes]
  BY TreeTypes DEF MuTypeOK, MuClock, NodeTypes
<1>2. fi_frame' \in FiFrames /\ fi_frame_ready' \in Bit
  <2>1. Root.idx \in Entries
    BY ClearedTypes DEF MuTypeOK, Root
  <2>2. id_mem[Root.idx].fi \in FiFrames
    BY <2>1 DEF SlotTypes
  <2> QED
    BY <2>2, ClearedTypes DEF MuClock, ExtractFiFrame, MuTypeOK, Bit
<1>3. bram_write' \in [en : Bit, entry : Entries, seg : Segments, data : Words]
      /\ ram_write_err' \in Bit
  BY ClearedTypes DEF MuClock, WriteAxiToRam, WriteStrobe, MuTypeOK
<1>4. /\ data_vector_ready' \in Bit /\ mem_rd_latency' \in Bit
      /\ ram_read_state' \in {"AWAIT_MATCH", "AWAIT_MEM", "READY", "SKIP_READ"}
      /\ bram_addrb' \in Entries /\ bram_enb' \in Bit /\ bram_rstb' \in Bit
  <2>1. Root.idx \in Entries
    BY ClearedTypes DEF MuTypeOK, Root
  <2> QED
    BY <2>1 DEF MuClock, WriteRamToBuffer, ReadSleep, AwaitMatch, AwaitMem, VectorReady,
       MuTypeOK, Bit
<1>5. interrupt_hold' \in Bit
  BY DEF MuClock, InterruptMgmt, MuTypeOK, Bit
<1>6. Banks' /\ ram_latch' \in [Segments -> Words] /\ ram_out' \in [Segments -> Words]
  BY BankTypes DEF MuClock
<1> QED
  BY <1>1, <1>2, <1>3, <1>4, <1>5, <1>6 DEF MuTypeOK, NodeTypes, Banks

\* Its reset.
LEMMA MemoryResetTypes ==
    ASSUME MuTypeOK, MuReset
    PROVE  MuTypeOK'
<1>1. Banks' /\ ram_latch' \in [Segments -> Words] /\ ram_out' \in [Segments -> Words]
  BY BankTypes DEF MuReset
<1>2. node' \in [Nodes -> NodeTypes]
  BY ClearedTypes DEF MuReset
<1> QED
  BY <1>1, <1>2, ClearedTypes DEF MuReset, MuTypeOK, NodeTypes, Banks, Bit
=============================================================================
