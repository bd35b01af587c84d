------------------------------- MODULE PrefixTree -------------------------------
(***************************************************************************)
(* The lookup program of lab 09 (09-lookup/src): a forwarding table read   *)
(* into a binary tree (PTree) and a tree of two bits per level (MulPTree), *)
(* the second leaf-pushed and compressed into vectors (CVTree), and every  *)
(* address looked up in the three.                                         *)
(*                                                                         *)
(* An address has W bits.  A tree is a function from the paths of its      *)
(* nodes: a path is the sequence of children taken from the root.  Leaf    *)
(* pushing hangs one object below several nodes and goes on writing to it, *)
(* so the nodes of the MulPTree are objects of a heap.                     *)
(***************************************************************************)
EXTENDS Integers, Sequences, FiniteSets, SequencesExt, TLC

CONSTANTS
    W,          \* bits of an address, even
    Files,      \* forwarding tables: sequences of [SubNet, PreLen, Port]
    MaxAsked    \* bound: how many addresses are looked up

ASSUME WidthAssumption == W \in Nat \ {0} /\ W % 2 = 0
ASSUME FileAssumption ==
    \A f \in Files : \A i \in DOMAIN f :
        /\ f[i].PreLen \in 0 .. W
        /\ f[i].SubNet \in 0 .. 2^W - 1
        /\ f[i].SubNet % 2^(W - f[i].PreLen) = 0

Ip == 0 .. 2^W - 1
Blank == [SubNet |-> 0, PreLen |-> 0, Port |-> 0]

Top(ip, n) == ip \div 2^(W - n)     \* the first n bits

\* The children an address leads through, one bit or two bits at a time.
Bits(ip) == [i \in 1 .. W |-> Top(ip, i) % 2]
Pairs(ip) == [i \in 1 .. W \div 2 |-> Top(ip, 2 * i) % 4]

VARIABLES
    file,       \* the forwarding table
    phase,      \* what main does next
    line,       \* lines of the file inserted in this phase
    tree2,      \* PTree: path -> node
    mtree,      \* MulPTree, until it is pushed: path -> node
    tree1,      \* ... and from then on: path -> object
    heap,       \* object -> node
    tree3,      \* CVTree
    answer,     \* the last address and the three results
    num,        \* lookups whose results differ
    asked       \* lookups so far

vars == <<file, phase, line, tree2, mtree, tree1, heap, tree3, answer, num, asked>>

--------------------------------------------------------------------------------
(* Insertion                                                                   *)

\* Mutant: the nodes on the way are copies of the new one.
PInserted_copies(tree, path, x) ==
    [p \in DOMAIN tree \cup Prefixes(path) |->
        IF p = path \/ p \notin DOMAIN tree THEN x ELSE tree[p]]

\* The tree with the node x at path, and blank nodes on the way there.
PInserted(tree, path, x) ==
    [p \in DOMAIN tree \cup Prefixes(path) |->
        IF p = path THEN x ELSE IF p \in DOMAIN tree THEN tree[p] ELSE Blank]

\* PTree::Insert.
PInsert(tree, x) == PInserted(tree, SubSeq(Bits(x.SubNet), 1, x.PreLen), x)

\* MulPTree::Insert, on the nodes.  A prefix of odd length is put below the last
\* node its pairs lead to, in the two children that start with its last bit, where
\* there is no child yet.
MInsert(tree, x) ==
    LET n == x.PreLen \div 2
        path == SubSeq(Pairs(x.SubNet), 1, n)
        way == [p \in DOMAIN tree \cup Prefixes(path) |->
                   IF p \in DOMAIN tree THEN tree[p] ELSE Blank]
        first == Pairs(x.SubNet)[n + 1]
        new == {Append(path, first), Append(path, first + 1)} \ DOMAIN tree
    IN  IF x.PreLen % 2 = 0 THEN PInserted(tree, path, x)
        ELSE [p \in DOMAIN way \cup new |-> IF p \in new THEN x ELSE way[p]]

\* Whether node x holds the first PreLen bits of ip.
Fits(x, ip) == Top(x.SubNet, x.PreLen) = Top(ip, x.PreLen)

\* The last node on the path of an address.
Deepest(tree, way) ==
    SubSeq(way, 1, CHOOSE n \in 0 .. Len(way) :
                      /\ SubSeq(way, 1, n) \in DOMAIN tree
                      /\ n = Len(way) \/ SubSeq(way, 1, n + 1) \notin DOMAIN tree)

\* PTree::Search: the last node, or the root if that one does not fit.
PSearch(tree, ip) ==
    LET q == tree[Deepest(tree, Bits(ip))]
    IN  IF Fits(q, ip) THEN q ELSE tree[<<>>]

\* MulPTree::Search, on the pushed tree.
MSearch(tree, h, ip) ==
    LET q == h[tree[Deepest(tree, Pairs(ip))]]
    IN  IF Fits(q, ip) THEN q ELSE h[tree[<<>>]]

--------------------------------------------------------------------------------
(* Leaf pushing                                                                *)

Child(path, i) == Append(path, i)
Object(made, path) == <<made, path>>    \* an object, by who made it, for which path
isLeaf(tree, path) == \A i \in 0 .. 3 : Child(path, i) \notin DOMAIN tree

\* MulPTree::MleafPush of the object `node' into the node at path: s is the tree
\* and the heap, and what it returns is what they are afterwards.
RECURSIVE MleafPush(_, _, _), PushChildren(_, _, _, _, _)
MleafPush(s, path, node) ==
    LET me == s.heap[s.tree[path]]
        heap1 == IF me.SubNet # 0 THEN [s.heap EXCEPT ![node] = me] ELSE s.heap
        full == \A i \in 0 .. 3 : Child(path, i) \in DOMAIN s.tree
        copy == Object("new", path)
        heap2 == IF full THEN heap1
                 ELSE [o \in DOMAIN heap1 \cup {copy} |->
                          IF o = copy THEN heap1[node] ELSE heap1[o]]
    IN  IF isLeaf(s.tree, path) THEN s
        ELSE PushChildren([tree |-> s.tree, heap |-> heap2], path, 0, node,
                          IF full THEN node ELSE copy)

\* Mutant: leaves that are there are filled, too.
PushChildren_over(s, path, i, node, passed) ==
    LET c == Child(path, i)
    IN  IF i = 4 THEN s
        ELSE PushChildren(
                IF c \in DOMAIN s.tree /\ ~ isLeaf(s.tree, c) THEN MleafPush(s, c, passed)
                ELSE [s EXCEPT !.tree = [p \in DOMAIN @ \cup {c} |->
                                            IF p = c THEN node ELSE @[p]]],
                path, i + 1, node, passed)

\* ... its loop over the children from i on: `node' fills the places that are
\* free, `passed' is handed to the children that are there.
PushChildren(s, path, i, node, passed) ==
    LET c == Child(path, i)
    IN  IF i = 4 THEN s
        ELSE PushChildren(
                IF c \in DOMAIN s.tree THEN MleafPush(s, c, passed)
                ELSE [s EXCEPT !.tree = [p \in DOMAIN @ \cup {c} |->
                                            IF p = c THEN node ELSE @[p]]],
                path, i + 1, node, passed)

--------------------------------------------------------------------------------
(* Vector compression                                                          *)

NoTree == [NotLeaf |-> [i \in 0 .. 3 |-> FALSE], LeafVec |-> <<>>, ChildVec |-> <<>>]

\* CVTree::ConstructCVTree.  (After leaf pushing an inner node has four children.)
RECURSIVE ConstructCVTree(_, _, _)
ConstructCVTree(tree, h, path) ==
    LET inner(i) == ~ isLeaf(tree, Child(path, i))
        all == <<0, 1, 2, 3>>
        leaves == SelectSeq(all, LAMBDA i : ~ inner(i))
        kids == SelectSeq(all, inner)
    IN  [NotLeaf |-> [i \in 0 .. 3 |-> inner(i)],
         LeafVec |-> [j \in DOMAIN leaves |-> h[tree[Child(path, leaves[j])]]],
         ChildVec |-> [j \in DOMAIN kids |-> ConstructCVTree(tree, h, Child(path, kids[j]))]]

\* CVTree::Count: the inner children before loc.
Count(t, loc) == Cardinality({i \in 0 .. loc - 1 : t.NotLeaf[i]})

\* CVTree::Search.  The vectors are indexed from 0 in the code.
RECURSIVE CvLeaf(_, _)
CvLeaf(t, way) ==
    LET loc == Head(way)
    IN  IF t.NotLeaf[loc] THEN CvLeaf(t.ChildVec[Count(t, loc) + 1], Tail(way))
        ELSE t.LeafVec[loc - Count(t, loc) + 1]

\* Mutant: the leaf, whatever it holds.
CvSearch_unchecked(t, ip) == CvLeaf(t, Pairs(ip))

CvSearch(t, ip) ==
    LET leaf == CvLeaf(t, Pairs(ip)) IN IF Fits(leaf, ip) THEN leaf ELSE Blank

--------------------------------------------------------------------------------
(* main                                                                        *)

Init ==
    /\ file \in Files
    /\ phase = "Tree1" /\ line = 0
    /\ tree2 = (<<>> :> Blank) /\ mtree = (<<>> :> Blank)
    /\ tree1 = <<>> /\ heap = <<>> /\ tree3 = NoTree
    /\ answer = <<>> /\ num = 0 /\ asked = 0

Phases == <<"Tree1", "Tree1 again", "Tree2", "push", "construct", "ask", "end">>
After(ph) == Phases[(CHOOSE i \in DOMAIN Phases : Phases[i] = ph) + 1]

\* ConstructTree reads the next line of the file, or finds its end.
NextLine ==
    \/ line < Len(file) /\ line' = line + 1 /\ UNCHANGED phase
    \/ line = Len(file) /\ line' = 0 /\ phase' = After(phase)

\* MulPTree::ConstructTree, which main calls twice.
ConstructTree1 ==
    /\ phase \in {"Tree1", "Tree1 again"}
    /\ NextLine
    /\ mtree' = IF line = Len(file) THEN mtree ELSE MInsert(mtree, file[line + 1])
    /\ UNCHANGED <<file, tree2, tree1, heap, tree3, answer, num, asked>>

\* PTree::ConstructTree.
ConstructTree2 ==
    /\ phase = "Tree2"
    /\ NextLine
    /\ tree2' = IF line = Len(file) THEN tree2 ELSE PInsert(tree2, file[line + 1])
    /\ UNCHANGED <<file, mtree, tree1, heap, tree3, answer, num, asked>>

\* Tree1->MleafPush(MNode).
Push ==
    LET mnode == Object("main", <<>>)
        nodes == {Object("line", p) : p \in DOMAIN mtree}
        s == [tree |-> [p \in DOMAIN mtree |-> Object("line", p)],
              heap |-> [o \in nodes \cup {mnode} |->
                           IF o = mnode THEN Blank ELSE mtree[o[2]]]]
        pushed == MleafPush(s, <<>>, mnode)
    IN  /\ phase = "push"
        /\ tree1' = pushed.tree /\ heap' = pushed.heap
        /\ phase' = After(phase)
        /\ UNCHANGED <<file, line, mtree, tree2, tree3, answer, num, asked>>

\* Tree3->ConstructCVTree(Tree1): main ends when the root has no children.
Construct ==
    /\ phase = "construct"
    /\ \/ isLeaf(tree1, <<>>) /\ phase' = "end" /\ UNCHANGED tree3
       \/ /\ ~ isLeaf(tree1, <<>>)
          /\ tree3' = ConstructCVTree(tree1, heap, <<>>)
          /\ phase' = After(phase)
    /\ UNCHANGED <<file, line, mtree, tree2, tree1, heap, answer, num, asked>>

\* An address is looked up in the three trees.
Ask(ip) ==
    LET r1 == MSearch(tree1, heap, ip)
        r2 == PSearch(tree2, ip)
        r3 == CvSearch(tree3, ip)
    IN  /\ phase = "ask" /\ asked < MaxAsked
        /\ asked' = asked + 1
        /\ answer' = [ip |-> ip, mul |-> r1, single |-> r2, cv |-> r3]
        /\ num' = IF r1 = r2 /\ r1 = r3 THEN num ELSE num + 1
        /\ UNCHANGED <<file, phase, line, mtree, tree2, tree1, heap, tree3>>

\* The end of the input.
Quit ==
    /\ phase = "ask" /\ phase' = "end"
    /\ UNCHANGED <<file, line, mtree, tree2, tree1, heap, tree3, answer, num, asked>>

Next ==
    \/ ConstructTree1 \/ ConstructTree2
    \/ Push \/ Construct
    \/ \E ip \in Ip : Ask(ip)
    \/ Quit

Spec == Init /\ [][Next]_vars

--------------------------------------------------------------------------------
(* Properties                                                                  *)

\* The lines of the file that cover ip, and the longest of them.
Matching(ip) == {x \in ToSet(file) : x.SubNet \div 2^(W - x.PreLen) = ip \div 2^(W - x.PreLen)}
Longest(ip) == {x \in Matching(ip) : \A y \in Matching(ip) : y.PreLen <= x.PreLen}

\* The binary tree never gives a wrong route: the last node on the path holds the
\* longest prefix, or it is one of the blank nodes insertion made, and the answer is
\* blank even if a shorter prefix covers the address.
SingleNeverWrong ==
    answer # <<>> => answer.single \in Longest(answer.ip) \cup {Blank}

\* The two-bit tree gives the longest prefix to every address whose path ends in a node
\* that insertion made: no order of the lines, no prefix of odd length that takes two
\* places, and no object that MleafPush hangs in several places and writes to afterwards
\* changes that.  (In the places leaf pushing filled the report's claim of a longest
\* match, DesignDocument.tex:36, does not hold: one may show another subtree's prefix.)
LongestAtLeaves ==
    answer # <<>> /\ isLeaf(mtree, Deepest(mtree, Pairs(answer.ip))) =>
        answer.mul \in Longest(answer.ip)

\* The compressed tree finds what the tree it was made from finds; only where no
\* leaf fits, one gives the root, which may hold a default route, the other blank.
CvLikeMul ==
    answer # <<>> => \/ answer.cv = answer.mul
                     \/ answer.cv = Blank /\ answer.mul = mtree[<<>>]
================================================================================
