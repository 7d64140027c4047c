------------------------- MODULE SealExchangeProofs -------------------------
(***************************************************************************)
(* Every invariant of SealExchange, for every tree, seal, message and      *)
(* number of damages.                                                      *)
(*                                                                         *)
(* ExchangeInv says what a message under way may be: the cells of what was *)
(* written, in which, in a binary seal, a byte stands for each byte and    *)
(* the hash or a damaged one for each hash; with no damage, what was       *)
(* written.  What the reader makes of such cells follows from the codec's  *)
(* own laws, and what the verifiers accept from the hashes' being          *)
(* symbolic:                                                               *)
(*                                                                         *)
(*   Trees     a climb from one leaf meets another's only leaf by leaf     *)
(*             (ClimbsMeet, by induction on the siblings)                  *)
(*   Codec     two bodies that begin the same cells are of one seal        *)
(*             (SelfDelimiting); decoding accepts encodings only           *)
(*             (DecodeAccepts), and its own (DecodeFinds)                  *)
(*   Payloads  a digest binds chain, txid and output (DigestBinds), and    *)
(*             what is accepted ends in its own (StrippedDigest)           *)
(***************************************************************************)
EXTENDS SealExchange, Integers, WellFoundedInduction, SequenceTheorems, FiniteSetTheorems, TLAPS

-----------------------------------------------------------------------------
(* Induction.  NatInduction takes an operator as its parameter; a set does  *)
(* as well: a number that is missing from it would have a least one.        *)

\* A set of numbers that holds 0 and each member's successor holds them all.
LEMMA SetInduction ==
  ASSUME NEW S, 0 \in S, \A n \in Nat : n \in S => n + 1 \in S
  PROVE  Nat \subseteq S
<1> DEFINE R == OpToRel(<, Nat)
           T == Nat \ S
<1> SUFFICES ASSUME T # {} PROVE FALSE
    OBVIOUS
<1>1. IsWellFoundedOn(R, Nat)
    BY NatLessThanWellFounded
<1>2. T \subseteq Nat
    OBVIOUS
<1> HIDE DEF R
<1>3. \E x \in T : \A y \in T : ~ (<<y, x>> \in R)
    <2> HIDE DEF T
    <2> QED BY <1>1, <1>2, WFMin
<1>4. PICK x \in T : \A y \in T : ~ (<<y, x>> \in R)
    BY <1>3
<1>5. x # 0 /\ x - 1 \in Nat /\ x - 1 < x
    OBVIOUS
<1>6. x - 1 \in T
    BY <1>5
<1>7. <<x - 1, x>> \in R
    BY <1>5 DEF R, OpToRel
<1>8. QED BY <1>4, <1>6, <1>7

-----------------------------------------------------------------------------
(* Hashes and nodes *)

\* Symbolic hashes are equal only if made from the same things.
LEMMA HashesDiffer ==
    /\ \A v, w, s, t : Leaf(v, s) = Leaf(w, t) => v = w /\ s = t
    /\ \A a, b, c, d : Branch(a, b) = Branch(c, d) <=> (a = c /\ b = d) \/ (a = d /\ b = c)
    /\ \A v, s, a, b : Leaf(v, s) # Branch(a, b)
<1>1. \A a, b, c, d : {a, b} = {c, d} <=> (a = c /\ b = d) \/ (a = d /\ b = c)
    OBVIOUS
<1>2. \A a, b, c, d : Branch(a, b) = Branch(c, d) <=> {a, b} = {c, d}
    BY DEF Branch
<1>3. /\ \A v, w, s, t : Leaf(v, s) = Leaf(w, t) => v = w /\ s = t
      /\ \A v, s, a, b : Leaf(v, s) # Branch(a, b)
    BY DEF Leaf, Branch
<1>4. QED BY <1>1, <1>2, <1>3

\* What the recursion of NodesAbove says of a function.
Ascends(node, start, siblings, n) ==
    node = [i \in 0..n |-> IF i = 0 THEN start ELSE Branch(node[i - 1], siblings[i])]

\* The nodes above a leaf exist, so that NodesAbove is what it is written as.
LEMMA NodesExist ==
    ASSUME NEW start, NEW siblings, Len(siblings) \in Nat
    PROVE  Ascends(NodesAbove(start, siblings), start, siblings, Len(siblings))
<1> DEFINE S == {n \in Nat : \E node : Ascends(node, start, siblings, n)}
<1>1. 0 \in S
    <2> DEFINE node == [i \in 0..0 |-> start]
    <2>1. Ascends(node, start, siblings, 0)
        BY DEF Ascends
    <2>2. QED BY <2>1
<1>2. ASSUME NEW n \in Nat, n \in S
      PROVE  n + 1 \in S
    <2>1. PICK node : Ascends(node, start, siblings, n)
        BY <1>2
    <2> DEFINE more == [i \in 0..n + 1 |-> IF i = n + 1 THEN Branch(node[n], siblings[n + 1]) ELSE node[i]]
    <2>2. \A i \in 0..n + 1 :
              more[i] = IF i = 0 THEN start ELSE Branch(more[i - 1], siblings[i])
        <3> TAKE i \in 0..n + 1
        <3>1. CASE i = n + 1
            BY <3>1
        <3>2. CASE i \in 0..n
            BY <2>1, <3>2 DEF Ascends
        <3>3. QED BY <3>1, <3>2
    <2>3. more = [i \in 0..n + 1 |-> IF i = 0 THEN start ELSE Branch(more[i - 1], siblings[i])]
        <3> DEFINE rhs == [i \in 0..n + 1 |-> IF i = 0 THEN start ELSE Branch(more[i - 1], siblings[i])]
        <3>1. \A i \in 0..n + 1 : more[i] = rhs[i]
            BY <2>2
        <3>2. DOMAIN more = 0..n + 1 /\ DOMAIN rhs = 0..n + 1
            OBVIOUS
        <3>3. more = [i \in 0..n + 1 |-> more[i]] /\ rhs = [i \in 0..n + 1 |-> rhs[i]]
            OBVIOUS
        <3> HIDE DEF more, rhs
        <3>4. QED BY <3>1, <3>3
    <2>4. Ascends(more, start, siblings, n + 1)
        BY <2>3 DEF Ascends
    <2>5. QED BY <2>4
<1>3. Len(siblings) \in S
    BY <1>1, <1>2, SetInduction
<1>4. \E node : Ascends(node, start, siblings, Len(siblings))
    BY <1>3
<1>5. QED BY <1>4 DEF Ascends, NodesAbove

\* Each node joins the one below with a sibling.
Joins(node, start, siblings) ==
    /\ node[0] = start
    /\ \A i \in 1..Len(siblings) : node[i] = Branch(node[i - 1], siblings[i])

\* A climb is the last of its nodes.
LEMMA ClimbNodes ==
    ASSUME NEW start, NEW siblings, Len(siblings) \in Nat
    PROVE  \E node : Joins(node, start, siblings) /\ Climb(start, siblings) = node[Len(siblings)]
<1> DEFINE node == NodesAbove(start, siblings)
<1>1. Ascends(node, start, siblings, Len(siblings))
    BY NodesExist
<1>2. Joins(node, start, siblings)
    <2> HIDE DEF node
    <2>1. QED BY <1>1 DEF Ascends, Joins
<1>3. QED BY <1>2 DEF Climb

\* Every sibling is a leaf.
LeafValues(siblings) == \A i \in 1..Len(siblings) : \E s : siblings[i] = Leaf(LeafVersion, s)

\* What is climbed from is a pair of leaves.
IsPair(start) == \E s, t : start = Branch(Leaf(LeafVersion, s), Leaf(LeafVersion, t))

\* Two climbs from pairs of leaves past leaves that meet are the same climb.
LEMMA ClimbsMeet ==
    ASSUME NEW f, NEW a, NEW A, Len(A) \in Nat, Joins(f, a, A), LeafValues(A), IsPair(a),
           NEW g, NEW b, NEW B, Len(B) \in Nat, Joins(g, b, B), LeafValues(B), IsPair(b)
    PROVE  f[Len(A)] = g[Len(B)] => Len(A) = Len(B) /\ a = b /\ \A i \in 1..Len(A) : A[i] = B[i]
<1> DEFINE Same(i, j) == i = j /\ a = b /\ \A k \in 1..i : A[k] = B[k]
           S == {i \in Nat : i <= Len(A) => \A j \in 0..Len(B) : f[i] = g[j] => Same(i, j)}
<1>1. /\ \A i \in 0..Len(A) : \E x, y : f[i] = Branch(x, y)
      /\ \A j \in 0..Len(B) : \E x, y : g[j] = Branch(x, y)
    BY DEF Joins, IsPair
<1>2. \A j \in 1..Len(B) : \A s, t : Branch(Leaf(LeafVersion, s), Leaf(LeafVersion, t)) # g[j]
    BY <1>1, HashesDiffer DEF Joins
<1>3. \A i \in 1..Len(A) : \A s, t : Branch(Leaf(LeafVersion, s), Leaf(LeafVersion, t)) # f[i]
    BY <1>1, HashesDiffer DEF Joins
<1>4. 0 \in S
    BY <1>2 DEF Joins, IsPair
<1>5. ASSUME NEW i \in Nat, i \in S
      PROVE  i + 1 \in S
    <2> SUFFICES ASSUME i + 1 <= Len(A), NEW j \in 0..Len(B), f[i + 1] = g[j]
                 PROVE  Same(i + 1, j)
        OBVIOUS
    <2>1. j \in 1..Len(B)
        BY <1>3 DEF Joins, IsPair
    <2>2. f[i + 1] = Branch(f[i], A[i + 1]) /\ g[j] = Branch(g[j - 1], B[j])
        BY <2>1 DEF Joins
    <2>3. PICK s, t : A[i + 1] = Leaf(LeafVersion, s) /\ B[j] = Leaf(LeafVersion, t)
        BY <2>1 DEF LeafValues
    <2>4. f[i] # Leaf(LeafVersion, t) /\ g[j - 1] # Leaf(LeafVersion, s)
        BY <1>1, <2>1, HashesDiffer
    <2>5. f[i] = g[j - 1] /\ A[i + 1] = B[j]
        <3>1. Branch(f[i], A[i + 1]) = Branch(g[j - 1], B[j])
            BY <2>2
        <3>2. \/ f[i] = g[j - 1] /\ A[i + 1] = B[j]
              \/ f[i] = B[j] /\ A[i + 1] = g[j - 1]
            BY <3>1, HashesDiffer
        <3>3. QED BY <2>3, <2>4, <3>2
    <2>6. Same(i, j - 1)
        BY <1>5, <2>1, <2>5
    <2>7. QED BY <2>1, <2>5, <2>6
<1>6. Len(A) \in S
    <2> HIDE DEF S
    <2>1. QED BY <1>4, <1>5, SetInduction DEF S
<1>7. QED BY <1>6

\* A climb from a leaf, past anything, that meets a climb from a pair of
\* leaves past leaves, started at one of those.
LEMMA LeafBelow ==
    ASSUME NEW f, NEW p, NEW q, NEW A, Len(A) \in Nat, LeafValues(A),
           Joins(f, Branch(Leaf(LeafVersion, p), Leaf(LeafVersion, q)), A),
           NEW g, NEW s, NEW B, Len(B) \in Nat, Joins(g, Leaf(LeafVersion, s), B)
    PROVE  f[Len(A)] = g[Len(B)] =>
               s \in {p, q} \/ \E i \in 1..Len(A) : A[i] = Leaf(LeafVersion, s)
<1> DEFINE Below == s \in {p, q} \/ \E i \in 1..Len(A) : A[i] = Leaf(LeafVersion, s)
           S == {j \in Nat : j <= Len(B) => \A i \in 0..Len(A) : f[i] = g[j] => Below}
<1>1. /\ \A i \in 0..Len(A) : \E x, y : f[i] = Branch(x, y)
      /\ \A j \in 1..Len(B) : \E x, y : g[j] = Branch(x, y)
    BY DEF Joins
<1>2. 0 \in S
    BY <1>1, HashesDiffer DEF Joins
<1>3. ASSUME NEW j \in Nat, j \in S
      PROVE  j + 1 \in S
    <2> SUFFICES ASSUME j + 1 <= Len(B), NEW i \in 0..Len(A), f[i] = g[j + 1]
                 PROVE  Below
        OBVIOUS
    <2>1. g[j + 1] = Branch(g[j], B[j + 1])
        BY DEF Joins
    <2>2. ASSUME NEW t, g[j] = Leaf(LeafVersion, t)
          PROVE  t = s
        <3>1. j = 0
            BY <1>1, <2>2, HashesDiffer
        <3>2. QED BY <2>2, <3>1, HashesDiffer DEF Joins
    <2>3. CASE i = 0
        <3>1. g[j] \in {Leaf(LeafVersion, p), Leaf(LeafVersion, q)}
            BY <2>1, <2>3, HashesDiffer DEF Joins
        <3>2. QED BY <2>2, <3>1
    <2>4. CASE i \in 1..Len(A)
        <3>1. f[i] = Branch(f[i - 1], A[i])
            BY <2>4 DEF Joins
        <3>2. g[j] \in {f[i - 1], A[i]}
            BY <2>1, <3>1, HashesDiffer
        <3>3. PICK t : A[i] = Leaf(LeafVersion, t)
            BY <2>4 DEF LeafValues
        <3>4. CASE g[j] = f[i - 1]
            BY <1>3, <2>4, <3>4
        <3>5. CASE g[j] = A[i]
            BY <2>2, <2>4, <3>3, <3>5
        <3>6. QED BY <3>2, <3>4, <3>5
    <2>5. QED BY <2>3, <2>4
<1>4. Len(B) \in S
    <2> HIDE DEF S
    <2>1. QED BY <1>2, <1>3, SetInduction DEF S
<1>5. QED BY <1>4

-----------------------------------------------------------------------------
(* The tree of a state *)

\* The tree is the one BuildMultiTree makes of some scripts.
Built == \E pq \in PqScripts, scripts \in ScriptLists : tree = BuildMultiTree(pq, scripts)

\* The lists of commitments are sequences with a first member.
LEMMA ScriptListsAre ==
    ASSUME NEW scripts \in ScriptLists
    PROVE  scripts \in Seq(Scripts) /\ Len(scripts) \in 1..MaxLeaves /\ scripts # <<>>
           /\ scripts = [i \in 1..Len(scripts) |-> scripts[i]]
<1>1. PICK n \in 1..MaxLeaves : scripts \in [1..n -> Scripts]
    BY DEF ScriptLists
<1>2. scripts \in Seq(Scripts) /\ Len(scripts) = n
    BY <1>1, ExchangeAssumption
<1>3. QED BY <1>1, <1>2

\* The leaves behind the first commitment.
LEMMA TailLeaves ==
    ASSUME NEW scripts \in ScriptLists
    PROVE  /\ Len(LeavesOf(Tail(scripts))) = Len(scripts) - 1
           /\ \A i \in 1..Len(scripts) - 1 :
                 LeavesOf(Tail(scripts))[i] = Leaf(LeafVersion, scripts[i + 1])
           /\ LeafValues(LeavesOf(Tail(scripts)))
<1>1. scripts \in Seq(Scripts) /\ Len(scripts) \in Nat \ {0} /\ scripts # <<>>
    BY ScriptListsAre
<1>2. /\ Tail(scripts) \in Seq(Scripts) /\ Len(Tail(scripts)) = Len(scripts) - 1
      /\ \A i \in 1..Len(scripts) - 1 : Tail(scripts)[i] = scripts[i + 1]
    BY <1>1, HeadTailProperties
<1>3. DOMAIN Tail(scripts) = 1..Len(scripts) - 1
    BY <1>2
<1>4. LeavesOf(Tail(scripts)) = [i \in 1..Len(scripts) - 1 |-> Leaf(LeafVersion, Tail(scripts)[i])]
    BY <1>3 DEF LeavesOf
<1>5. Len(LeavesOf(Tail(scripts))) = Len(scripts) - 1
    BY <1>1, <1>4
<1>6. QED BY <1>2, <1>4, <1>5 DEF LeafValues

\* The parts of a tree are what it was built of.
LEMMA BuiltTree ==
    ASSUME NEW pq \in PqScripts, NEW scripts \in ScriptLists, tree = BuildMultiTree(pq, scripts)
    PROVE  /\ PqScript = pq /\ Committed = scripts
           /\ tree.root = JoinAll(pq, scripts)
           /\ tree.pq_leaf = Placed(1, LeafVersion, pq)
           /\ tree.commitment_leaves = [i \in 1..Len(scripts) |-> Placed(i % 256, LeafVersion, scripts[i])]
<1>1. scripts \in Seq(Scripts) /\ scripts = [i \in 1..Len(scripts) |-> scripts[i]]
    BY ScriptListsAre
<1>2. DOMAIN scripts = 1..Len(scripts)
    BY <1>1
<1>3. /\ tree.root = JoinAll(pq, scripts)
      /\ tree.pq_leaf = Placed(1, LeafVersion, pq)
      /\ tree.commitment_leaves = [i \in 1..Len(scripts) |-> Placed(i % 256, LeafVersion, scripts[i])]
    BY <1>2 DEF BuildMultiTree
<1>4. PqScript = pq
    BY <1>3 DEF PqScript, Placed
<1>5. Committed = [i \in 1..Len(scripts) |-> scripts[i]]
    BY <1>3 DEF Committed, Placed
<1>6. QED BY <1>1, <1>3, <1>4, <1>5

\* The root of a tree is a branch, of two leaves if it holds one commitment,
\* of a branch and a leaf if it holds more.
LEMMA RootIs ==
    ASSUME NEW pq, NEW scripts \in ScriptLists
    PROVE  /\ Len(scripts) = 1 =>
                JoinAll(pq, scripts) = Branch(Leaf(LeafVersion, pq), Leaf(LeafVersion, scripts[1]))
           /\ Len(scripts) # 1 =>
                \E a, b, s : JoinAll(pq, scripts) = Branch(Branch(a, b), Leaf(LeafVersion, s))
<1> DEFINE L == LeavesOf(Tail(scripts))
<1>1. Len(L) = Len(scripts) - 1 /\ Len(scripts) \in Nat \ {0} /\ LeafValues(L)
    BY TailLeaves, ScriptListsAre
<1> HIDE DEF L
<1>2. PICK node : Joins(node, FirstPair(pq, scripts), L)
                  /\ Climb(FirstPair(pq, scripts), L) = node[Len(L)]
    BY <1>1, ClimbNodes
<1>3. JoinAll(pq, scripts) = node[Len(L)]
    BY <1>2 DEF JoinAll, L
<1>4. Len(scripts) = 1 => JoinAll(pq, scripts) = FirstPair(pq, scripts)
    BY <1>1, <1>2, <1>3 DEF Joins
<1>5. ASSUME Len(scripts) # 1
      PROVE  \E a, b, s : JoinAll(pq, scripts) = Branch(Branch(a, b), Leaf(LeafVersion, s))
    <2> DEFINE n == Len(L)
    <2>1. n \in 1..Len(L)
        BY <1>1, <1>5
    <2>2. node[n] = Branch(node[n - 1], L[n]) /\ \E s : L[n] = Leaf(LeafVersion, s)
        BY <1>1, <1>2, <2>1 DEF Joins, LeafValues
    <2>3. \E a, b : node[n - 1] = Branch(a, b)
        <3>1. CASE n = 1
            BY <1>2, <3>1 DEF Joins, FirstPair
        <3>2. CASE n # 1
            <4>1. n - 1 \in 1..Len(L)
                BY <1>1, <1>5, <3>2
            <4> HIDE DEF n
            <4>2. QED BY <1>2, <4>1 DEF Joins
        <3>3. QED BY <3>1, <3>2
    <2>4. QED BY <1>3, <2>2, <2>3
<1>6. QED BY <1>4, <1>5 DEF FirstPair

-----------------------------------------------------------------------------
(* What trees bind *)

\* What VerifyMulti accepts climbs to the root of the tree, as the tree does.
LEMMA BuiltMulti == Built => MultiBindsTheList
<1> SUFFICES ASSUME Built, NEW p \in PqScripts \cup Scripts, NEW theirs \in ScriptLists,
                    VerifyMulti(tree.root, p, theirs)
             PROVE  Tail(theirs) = Tail(Committed) /\ {p, theirs[1]} = {PqScript, Committed[1]}
    BY DEF MultiBindsTheList
<1>1. PICK pq \in PqScripts, scripts \in ScriptLists : tree = BuildMultiTree(pq, scripts)
    BY DEF Built
<1>2. PqScript = pq /\ Committed = scripts /\ JoinAll(p, theirs) = JoinAll(pq, scripts)
    BY <1>1, BuiltTree DEF VerifyMulti
<1> DEFINE A == LeavesOf(Tail(theirs))
           B == LeavesOf(Tail(scripts))
<1>3. Len(A) \in Nat /\ LeafValues(A) /\ Len(B) \in Nat /\ LeafValues(B)
      /\ Len(A) = Len(theirs) - 1 /\ Len(B) = Len(scripts) - 1
    BY TailLeaves, ScriptListsAre
<1>4. IsPair(FirstPair(p, theirs)) /\ IsPair(FirstPair(pq, scripts))
    BY DEF IsPair, FirstPair
<1>5. /\ Len(A) = Len(B) /\ FirstPair(p, theirs) = FirstPair(pq, scripts)
      /\ \A i \in 1..Len(A) : A[i] = B[i]
    <2>1. Climb(FirstPair(p, theirs), A) = Climb(FirstPair(pq, scripts), B)
        BY <1>2 DEF JoinAll
    <2> HIDE DEF A, B
    <2>2. PICK f : Joins(f, FirstPair(p, theirs), A) /\ Climb(FirstPair(p, theirs), A) = f[Len(A)]
        BY <1>3, ClimbNodes
    <2>3. PICK g : Joins(g, FirstPair(pq, scripts), B) /\ Climb(FirstPair(pq, scripts), B) = g[Len(B)]
        BY <1>3, ClimbNodes
    <2>4. f[Len(A)] = g[Len(B)]
        BY <2>1, <2>2, <2>3
    <2>5. Joins(f, FirstPair(p, theirs), A) /\ Joins(g, FirstPair(pq, scripts), B)
        BY <2>2, <2>3
    <2>6. QED
        <3> HIDE DEF FirstPair
        <3>1. QED BY <1>3, <1>4, <2>4, <2>5, ClimbsMeet
<1>6. \A i \in 1..Len(theirs) - 1 : theirs[i + 1] = scripts[i + 1]
    <2>1. \A i \in 1..Len(theirs) - 1 : Leaf(LeafVersion, theirs[i + 1]) = Leaf(LeafVersion, scripts[i + 1])
        BY <1>3, <1>5, TailLeaves
    <2>2. QED BY <2>1, HashesDiffer
<1>7. Tail(theirs) = Tail(scripts)
    <2>1. /\ Tail(theirs) \in Seq(Scripts) /\ Tail(scripts) \in Seq(Scripts)
          /\ Len(Tail(theirs)) = Len(theirs) - 1 /\ Len(Tail(scripts)) = Len(scripts) - 1
          /\ \A i \in 1..Len(theirs) - 1 : Tail(theirs)[i] = theirs[i + 1]
          /\ \A i \in 1..Len(scripts) - 1 : Tail(scripts)[i] = scripts[i + 1]
        BY ScriptListsAre, HeadTailProperties
    <2>2. Len(Tail(theirs)) = Len(Tail(scripts))
        BY <1>3, <1>5, <2>1
    <2>3. \A i \in 1..Len(Tail(theirs)) : Tail(theirs)[i] = Tail(scripts)[i]
        BY <1>3, <1>5, <1>6, <2>1
    <2>4. QED BY <2>1, <2>2, <2>3, SeqEqual
<1>8. {p, theirs[1]} = {pq, scripts[1]}
    BY <1>5, HashesDiffer DEF FirstPair
<1>9. QED BY <1>2, <1>7, <1>8

\* The leaf of an accepted proof is below the root.
LEMMA BuiltProven == Built => ProvenIsLeaf
<1> SUFFICES ASSUME Built, NEW s, NEW n \in Nat, NEW branch, Len(branch) = n,
                    VerifyAgainst([leaf |-> Placed(0, LeafVersion, s), branch |-> branch], tree.root)
             PROVE  s \in {PqScript} \cup {Committed[i] : i \in DOMAIN Committed}
    <2>1. \A n \in 0..MaxLeaves : \A S : \A branch \in [1..n -> S] : n \in Nat /\ Len(branch) = n
        BY ExchangeAssumption
    <2>2. QED BY <2>1 DEF ProvenIsLeaf
<1>1. PICK pq \in PqScripts, scripts \in ScriptLists : tree = BuildMultiTree(pq, scripts)
    BY DEF Built
<1>2. PqScript = pq /\ Committed = scripts /\ DOMAIN scripts = 1..Len(scripts)
    BY <1>1, BuiltTree, ScriptListsAre
<1>3. Climb(Leaf(LeafVersion, s), branch) = JoinAll(pq, scripts)
    BY <1>1, BuiltTree DEF VerifyAgainst, TapLeaf, Placed
<1> DEFINE A == LeavesOf(Tail(scripts))
<1>4. Len(A) = Len(scripts) - 1 /\ Len(scripts) \in Nat \ {0} /\ LeafValues(A)
      /\ \A i \in 1..Len(A) : A[i] = Leaf(LeafVersion, scripts[i + 1])
    BY TailLeaves, ScriptListsAre
<1>5. s \in {pq, scripts[1]} \/ \E i \in 1..Len(A) : A[i] = Leaf(LeafVersion, s)
    <2>1. Climb(Leaf(LeafVersion, s), branch) = Climb(FirstPair(pq, scripts), A)
        BY <1>3 DEF JoinAll
    <2> HIDE DEF A
    <2>2. PICK f : Joins(f, FirstPair(pq, scripts), A) /\ Climb(FirstPair(pq, scripts), A) = f[Len(A)]
        BY <1>4, ClimbNodes
    <2>3. PICK g : Joins(g, Leaf(LeafVersion, s), branch)
                   /\ Climb(Leaf(LeafVersion, s), branch) = g[Len(branch)]
        BY ClimbNodes
    <2>4. QED BY <1>4, <2>1, <2>2, <2>3, LeafBelow DEF FirstPair
<1>6. CASE s \in {pq, scripts[1]}
    BY <1>2, <1>4, <1>6
<1>7. ASSUME NEW i \in 1..Len(A), A[i] = Leaf(LeafVersion, s)
      PROVE  s = scripts[i + 1] /\ i + 1 \in DOMAIN scripts
    <2>1. Leaf(LeafVersion, s) = Leaf(LeafVersion, scripts[i + 1])
        BY <1>4, <1>7
    <2>2. QED BY <1>2, <1>4, <2>1, HashesDiffer
<1>8. QED BY <1>2, <1>5, <1>6, <1>7

\* Each leaf of a pair is the other's one sibling.
LEMMA BuiltDepths == Built /\ Len(Committed) = 1 => DepthsReachTheRoot
<1> SUFFICES ASSUME Built, Len(Committed) = 1
             PROVE  DepthsReachTheRoot
    OBVIOUS
<1>1. PICK pq \in PqScripts, scripts \in ScriptLists : tree = BuildMultiTree(pq, scripts)
    BY DEF Built
<1>2. /\ PqScript = pq /\ Committed = scripts /\ tree.root = JoinAll(pq, scripts)
      /\ tree.pq_leaf = Placed(1, LeafVersion, pq)
      /\ tree.commitment_leaves = [i \in 1..Len(scripts) |-> Placed(i % 256, LeafVersion, scripts[i])]
    BY <1>1, BuiltTree
<1>3. Len(scripts) = 1 /\ scripts[1] \in Scripts /\ DOMAIN scripts = 1..1
    BY <1>2, ScriptListsAre
<1> DEFINE a == Leaf(LeafVersion, pq)
           b == Leaf(LeafVersion, scripts[1])
<1>4. tree.root = Branch(a, b) /\ tree.root = Branch(b, a)
    BY <1>2, <1>3, RootIs DEF Branch
<1>5. tree.commitment_leaves[1] = Placed(1, LeafVersion, scripts[1])
    BY <1>2, <1>3
<1>6. a \in Siblings /\ b \in Siblings
    BY <1>1, <1>3 DEF Siblings
<1>7. ASSUME NEW s, NEW leaf \in Siblings, tree.root = Branch(Leaf(LeafVersion, s), leaf)
      PROVE  \E branch \in [1..1 -> Siblings] :
                 VerifyAgainst([leaf |-> Placed(1, LeafVersion, s), branch |-> branch], tree.root)
    <2> DEFINE branch == [i \in 1..1 |-> leaf]
               start == Leaf(LeafVersion, s)
    <2>1. branch \in [1..1 -> Siblings] /\ Len(branch) = 1 /\ branch[1] = leaf
        BY <1>7
    <2> HIDE DEF branch
    <2>2. PICK f : Joins(f, start, branch) /\ Climb(start, branch) = f[Len(branch)]
        BY ClimbNodes
    <2>3. Climb(start, branch) = Branch(start, leaf)
        BY <2>1, <2>2 DEF Joins
    <2>4. VerifyAgainst([leaf |-> Placed(1, LeafVersion, s), branch |-> branch], tree.root)
        BY <1>7, <2>3 DEF VerifyAgainst, TapLeaf, Placed
    <2>5. QED BY <2>1, <2>4
<1>8. /\ tree.pq_leaf = Placed(1, LeafVersion, pq) /\ DOMAIN Committed = 1..1
      /\ \A t : Placed(1, LeafVersion, t).depth = 1
    BY <1>2, <1>3 DEF Placed
<1>9. /\ \E branch \in [1..1 -> Siblings] :
              VerifyAgainst([leaf |-> Placed(1, LeafVersion, pq), branch |-> branch], tree.root)
      /\ \E branch \in [1..1 -> Siblings] :
              VerifyAgainst([leaf |-> Placed(1, LeafVersion, scripts[1]), branch |-> branch], tree.root)
    BY <1>4, <1>6, <1>7
<1>10. \A leaf \in {tree.pq_leaf} \cup {tree.commitment_leaves[i] : i \in DOMAIN Committed} :
           leaf = Placed(1, LeafVersion, pq) \/ leaf = Placed(1, LeafVersion, scripts[1])
    BY <1>5, <1>8
<1> HIDE DEF a, b
<1>11. QED BY <1>8, <1>9, <1>10 DEF DepthsReachTheRoot

\* verify_p2mr_ret compares the root with the one it builds; the proof of the
\* tree it built always holds.
LEMMA VerifyRetIs ==
    ASSUME NEW root, NEW chain, NEW m, NEW pq
    PROVE  VerifyRet(root, chain, m, pq) <=>
               /\ pq \notin Oversized /\ <<"ret", chain, m>> \notin Oversized
               /\ root = Branch(Leaf(LeafVersion, pq), Leaf(LeafVersion, <<"ret", chain, m>>))
<1> DEFINE a == Leaf(LeafVersion, pq)
           c == Leaf(LeafVersion, <<"ret", chain, m>>)
<1>1. Climb(c, <<a>>) = Branch(a, c)
    <2>1. Len(<<a>>) = 1 /\ <<a>>[1] = a
        OBVIOUS
    <2> HIDE DEF a, c
    <2>2. PICK node : Joins(node, c, <<a>>) /\ Climb(c, <<a>>) = node[Len(<<a>>)]
        BY <2>1, ClimbNodes
    <2>3. node[0] = c /\ node[1] = Branch(node[0], a)
        BY <2>1, <2>2 DEF Joins
    <2>4. QED BY <2>1, <2>2, <2>3, HashesDiffer
<1> DEFINE built == BuildRetTree(pq, LeafVersion, CommitmentLeafScript(chain, m))
<1>2. /\ built.root = Branch(a, c)
      /\ built.commitment_leaf.script = <<"ret", chain, m>>
      /\ TapLeaf(built.proof.leaf) = c /\ built.proof.branch = <<a>>
    BY DEF BuildRetTree, TapLeaf, Placed, CommitmentLeafScript
<1>3. VerifyRet(root, chain, m, pq) <=>
          /\ pq \notin Oversized /\ built.commitment_leaf.script \notin Oversized
          /\ built.root = root
          /\ Climb(TapLeaf(built.proof.leaf), built.proof.branch) = built.root
    BY DEF VerifyRet, VerifyAgainst
<1> HIDE DEF built
<1>4. QED BY <1>1, <1>2, <1>3

\* A script's first field names its kind.
LEMMA ScriptKinds ==
    /\ \A s \in PqScripts : s[1] = "pq"
    /\ \A s \in Scripts : s[1] \in {"ret", "multi"}
    /\ \A s \in Scripts : s[1] = "ret" /\ Len(s) = 3 =>
          \E c \in Chains, m \in Mpcs : s = <<"ret", c, m>>
<1>1. ASSUME NEW s \in Scripts
      PROVE  /\ s[1] \in {"ret", "multi"}
             /\ s[1] = "ret" /\ Len(s) = 3 => \E c \in Chains, m \in Mpcs : s = <<"ret", c, m>>
    <2>1. s \in CommitmentScripts
        BY ExchangeAssumption
    <2>2. \/ \E c \in Chains, m \in Mpcs : s = <<"ret", c, m>>
          \/ \E c \in Chains, m \in Mpcs : s = <<"ret", c, m, "trailing">>
          \/ \E c \in Chains, m \in Mpcs, n \in 0..255 : s = <<"multi", n, c, m>>
        BY <2>1 DEF CommitmentScripts, CommitmentLeafScript, TrailedLeafScript, MultiProtocolLeaf
    <2>3. QED BY <2>2
<1>2. QED BY <1>1, ExchangeAssumption

\* The root of a tree that verify_p2mr_ret accepts was built of its two leaves.
LEMMA RetRoot ==
    ASSUME NEW pq \in PqScripts, NEW scripts \in ScriptLists, NEW p \in PqScripts, NEW chain, NEW m
    PROVE  JoinAll(pq, scripts) = Branch(Leaf(LeafVersion, p), Leaf(LeafVersion, <<"ret", chain, m>>))
           <=> p = pq /\ scripts = << <<"ret", chain, m>> >>
<1>1. Len(scripts) # 1 =>
          JoinAll(pq, scripts) # Branch(Leaf(LeafVersion, p), Leaf(LeafVersion, <<"ret", chain, m>>))
    BY RootIs, HashesDiffer
<1>2. ASSUME Len(scripts) = 1
      PROVE  JoinAll(pq, scripts) = Branch(Leaf(LeafVersion, p), Leaf(LeafVersion, <<"ret", chain, m>>))
             <=> p = pq /\ scripts[1] = <<"ret", chain, m>>
    <2>1. scripts[1] \in Scripts
        BY <1>2, ScriptListsAre
    <2>2. scripts[1] # p /\ <<"ret", chain, m>> # pq
        <3>1. <<"ret", chain, m>>[1] = "ret"
            OBVIOUS
        <3>2. QED BY <2>1, <3>1, ScriptKinds
    <2>3. JoinAll(pq, scripts) = Branch(Leaf(LeafVersion, pq), Leaf(LeafVersion, scripts[1]))
        BY <1>2, RootIs
    <2>4. QED BY <2>2, <2>3, HashesDiffer
<1>3. Len(scripts) = 1 => scripts = <<scripts[1]>>
    BY ScriptListsAre
<1>4. \A x : Len(<<x>>) = 1 /\ <<x>>[1] = x
    OBVIOUS
<1>5. QED BY <1>1, <1>2, <1>3, <1>4

\* VerifyRet accepts what was built of its two leaves, and a damaged root is
\* the hash of no tree.
LEMMA BuiltRet ==
    ASSUME Built, SealRead => \A s \in got : s.p2mr_root \in {Junk, tree.root}
    PROVE  RetBindsOneCommitment
<1> SUFFICES ASSUME SealRead, NEW s \in got, NEW m \in Mpcs, NEW p \in PqScripts
             PROVE  VerifyRet(s.p2mr_root, s.chain, m, p) <=>
                        /\ s.p2mr_root = tree.root
                        /\ p = PqScript /\ Committed = << <<"ret", s.chain, m>> >>
                        /\ {PqScript, Committed[1]} \cap Oversized = {}
    BY DEF RetBindsOneCommitment
<1>1. PICK pq \in PqScripts, scripts \in ScriptLists : tree = BuildMultiTree(pq, scripts)
    BY DEF Built
<1>2. PqScript = pq /\ Committed = scripts /\ tree.root = JoinAll(pq, scripts)
    BY <1>1, BuiltTree
<1>3. \A a, b : Junk # Branch(a, b)
    <2>1. DOMAIN Junk = 1..1
        BY ExchangeAssumption DEF Opaque
    <2>2. \A a, b : DOMAIN Branch(a, b) = 1..2
        BY DEF Branch
    <2>3. QED BY <2>1, <2>2
<1>4. s.p2mr_root = Branch(Leaf(LeafVersion, p), Leaf(LeafVersion, <<"ret", s.chain, m>>))
          <=> /\ s.p2mr_root = tree.root
              /\ p = pq /\ scripts = << <<"ret", s.chain, m>> >>
    BY <1>2, <1>3, RetRoot
<1>5. QED BY <1>2, <1>4, VerifyRetIs

\* A payload found in a tree of two leaves is the one VerifyRet accepts.
LEMMA BuiltFound == Built => FoundIsVerified
<1> SUFFICES ASSUME Built, Len(Committed) = 1,
                    Committed[1][1] = "ret" => Len(Committed[1]) = 3,
                    {PqScript, Committed[1]} \cap Oversized = {},
                    NEW chain \in Chains
             PROVE  FindCommitment(chain, Leaves).mpcs =
                        {m \in Mpcs : VerifyRet(tree.root, chain, m, PqScript)}
    BY DEF FoundIsVerified
<1>1. PICK pq \in PqScripts, scripts \in ScriptLists : tree = BuildMultiTree(pq, scripts)
    BY DEF Built
<1>2. PqScript = pq /\ Committed = scripts /\ tree.root = JoinAll(pq, scripts)
    BY <1>1, BuiltTree
<1> DEFINE c1 == scripts[1]
<1>3. c1 \in Scripts /\ scripts = <<c1>>
    BY <1>2, ScriptListsAre
<1>4. \A m : VerifyRet(tree.root, chain, m, pq) <=> c1 = <<"ret", chain, m>>
    <2>1. \A m : scripts = << <<"ret", chain, m>> >> <=> c1 = <<"ret", chain, m>>
        BY <1>3
    <2>2. pq \notin Oversized /\ c1 \notin Oversized
        BY <1>2
    <2>3. \A m : tree.root = Branch(Leaf(LeafVersion, pq), Leaf(LeafVersion, <<"ret", chain, m>>))
                 <=> scripts = << <<"ret", chain, m>> >>
        BY <1>2, RetRoot
    <2>4. \A m : VerifyRet(tree.root, chain, m, pq) <=>
              <<"ret", chain, m>> \notin Oversized /\ scripts = << <<"ret", chain, m>> >>
        BY <2>2, <2>3, VerifyRetIs
    <2>5. QED BY <2>1, <2>2, <2>4
<1>5. Leaves = <<Placed(1, LeafVersion, pq), Placed(1 % 256, LeafVersion, c1)>>
    <2>1. Len(scripts) = 1
        BY <1>2
    <2>2. tree.pq_leaf = Placed(1, LeafVersion, pq)
          /\ tree.commitment_leaves = [i \in 1..1 |-> Placed(i % 256, LeafVersion, scripts[i])]
        BY <1>1, <2>1, BuiltTree
    <2>3. tree.commitment_leaves = <<Placed(1 % 256, LeafVersion, c1)>>
        BY <2>2
    <2>4. ASSUME NEW a, NEW b
          PROVE  <<a>> \o <<b>> = <<a, b>>
        <3> DEFINE S == {a, b}
        <3>1. <<a>> \in Seq(S) /\ <<b>> \in Seq(S) /\ <<a, b>> \in Seq(S)
            OBVIOUS
        <3>2. /\ Len(<<a>> \o <<b>>) = 2 /\ (<<a>> \o <<b>>) \in Seq(S)
              /\ (<<a>> \o <<b>>)[1] = a /\ (<<a>> \o <<b>>)[2] = b
            BY <3>1, ConcatProperties
        <3> HIDE DEF S
        <3>3. \A i \in 1..2 : (<<a>> \o <<b>>)[i] = <<a, b>>[i]
            BY <3>2
        <3>4. Len(<<a, b>>) = 2
            OBVIOUS
        <3>5. QED BY <3>1, <3>2, <3>3, <3>4, SeqEqual
    <2>5. QED BY <2>2, <2>3, <2>4 DEF Leaves
<1>6. DOMAIN Leaves = {1, 2} /\ Leaves[1].script = pq /\ Leaves[2].script = c1
    BY <1>5 DEF Placed
<1>7. ~HoldsFor(chain, StripOpReturn(pq))
    BY ScriptKinds DEF HoldsFor, StripOpReturn
<1> DEFINE hits == {i \in DOMAIN Leaves : HoldsFor(chain, StripOpReturn(Leaves[i].script))}
<1>8. FindCommitment(chain, Leaves).mpcs = {StripOpReturn(Leaves[i].script)[3] : i \in hits}
    BY DEF FindCommitment
<1>9. hits = IF HoldsFor(chain, StripOpReturn(c1)) THEN {2} ELSE {}
    BY <1>6, <1>7
<1>10. CASE c1[1] = "ret"
    <2>1. PICK c \in Chains, m \in Mpcs : c1 = <<"ret", c, m>>
        BY <1>2, <1>3, <1>10, ScriptKinds
    <2>2. StripOpReturn(c1) = <<"payload", c, m>>
        BY <2>1 DEF StripOpReturn
    <2>3. HoldsFor(chain, StripOpReturn(c1)) <=> c = chain
        BY <2>2 DEF HoldsFor
    <2>4. {x \in Mpcs : VerifyRet(tree.root, chain, x, pq)} = IF c = chain THEN {m} ELSE {}
        BY <1>4, <2>1
    <2>5. FindCommitment(chain, Leaves).mpcs = IF c = chain THEN {m} ELSE {}
        BY <1>6, <1>8, <1>9, <2>2, <2>3
    <2>6. QED BY <1>2, <2>4, <2>5
<1>11. CASE c1[1] = "multi"
    <2>1. ~HoldsFor(chain, StripOpReturn(c1))
        BY <1>11 DEF HoldsFor, StripOpReturn
    <2>2. \A m : c1 # <<"ret", chain, m>>
        BY <1>11
    <2>3. FindCommitment(chain, Leaves).mpcs = {}
        BY <1>8, <1>9, <2>1
    <2>4. QED BY <1>2, <1>4, <2>2, <2>3
<1>12. QED BY <1>3, <1>10, <1>11, ScriptKinds

-----------------------------------------------------------------------------
(* Sequences of cells *)

\* A message has no set its cells are taken from: it is a sequence of its own.
IsCells(p) == Len(p) \in Nat /\ p = [i \in 1..Len(p) |-> p[i]]

\* Cells are sequences over some set.
LEMMA CellsAreSeq ==
    ASSUME NEW p, NEW q, IsCells(p), IsCells(q)
    PROVE  \E S : p \in Seq(S) /\ q \in Seq(S)
<1> DEFINE S == {p[i] : i \in 1..Len(p)} \cup {q[i] : i \in 1..Len(q)}
<1>1. p \in [1..Len(p) -> S] /\ q \in [1..Len(q) -> S]
    BY DEF IsCells
<1>2. p \in Seq(S) /\ q \in Seq(S)
    <2> HIDE DEF S
    <2>1. QED BY <1>1, IsASeq DEF IsCells
<1>3. QED BY <1>2

\* Sequences are cells.
LEMMA SeqIsCells == ASSUME NEW S, NEW p \in Seq(S) PROVE IsCells(p)
BY DEF IsCells

\* The cells of a concatenation.
LEMMA ConcatAt ==
    ASSUME NEW p, NEW q, IsCells(p), IsCells(q)
    PROVE  /\ IsCells(p \o q) /\ Len(p \o q) = Len(p) + Len(q)
           /\ \A i \in 1..Len(p) : (p \o q)[i] = p[i]
           /\ \A i \in 1..Len(q) : (p \o q)[Len(p) + i] = q[i]
<1>1. PICK S : p \in Seq(S) /\ q \in Seq(S)
    BY CellsAreSeq
<1>2. /\ p \o q \in Seq(S) /\ Len(p \o q) = Len(p) + Len(q)
      /\ \A i \in 1..Len(p) + Len(q) : (p \o q)[i] = IF i <= Len(p) THEN p[i] ELSE q[i - Len(p)]
    BY <1>1, ConcatProperties
<1>3. IsCells(p \o q)
    BY <1>2, SeqIsCells
<1>4. QED BY <1>2, <1>3 DEF IsCells

\* Cells are equal one by one.
LEMMA CellsEqual ==
    ASSUME NEW p, NEW q, IsCells(p), IsCells(q), Len(p) = Len(q), \A i \in 1..Len(p) : p[i] = q[i]
    PROVE  p = q
BY DEF IsCells

\* The cells of short tuples.
LEMMA TuplesAreCells ==
    /\ \A a : IsCells(<<a>>) /\ Len(<<a>>) = 1 /\ <<a>>[1] = a
    /\ \A a, b : IsCells(<<a, b>>) /\ Len(<<a, b>>) = 2 /\ <<a, b>>[1] = a /\ <<a, b>>[2] = b
    /\ \A a, b, c : IsCells(<<a, b, c>>) /\ Len(<<a, b, c>>) = 3
                    /\ <<a, b, c>>[1] = a /\ <<a, b, c>>[2] = b /\ <<a, b, c>>[3] = c
    /\ \A a, b, c, d : IsCells(<<a, b, c, d>>) /\ Len(<<a, b, c, d>>) = 4
                    /\ <<a, b, c, d>>[1] = a /\ <<a, b, c, d>>[2] = b
                    /\ <<a, b, c, d>>[3] = c /\ <<a, b, c, d>>[4] = d
BY DEF IsCells

\* The cells of a slice.
LEMMA SubSeqAt ==
    ASSUME NEW p, IsCells(p), NEW m \in 1..Len(p) + 1, NEW n \in m - 1..Len(p)
    PROVE  /\ IsCells(SubSeq(p, m, n)) /\ Len(SubSeq(p, m, n)) = 1 + n - m
           /\ \A i \in 1..1 + n - m : SubSeq(p, m, n)[i] = p[m + i - 1]
<1>1. PICK S : p \in Seq(S)
    BY CellsAreSeq
<1>2. m \in Int /\ n \in Int /\ \A i \in m..n : p[i] \in S
    BY <1>1, ElementOfSeq DEF IsCells
<1>3. /\ SubSeq(p, m, n) \in Seq(S)
      /\ Len(SubSeq(p, m, n)) = IF m <= n THEN n - m + 1 ELSE 0
      /\ \A i \in 1..n - m + 1 : SubSeq(p, m, n)[i] = p[m + i - 1]
    BY <1>2, SubSeqProperties
<1>4. Len(p) \in Nat /\ 1 + n - m = n - m + 1 /\ (m <= n \/ n - m + 1 = 0)
    BY DEF IsCells
<1>5. QED BY <1>3, <1>4, SeqIsCells

\* A prefix, cell by cell.
LEMMA PrefixAt ==
    ASSUME NEW p, NEW q, IsCells(p), IsCells(q)
    PROVE  IsPrefix(p, q) <=> Len(p) <= Len(q) /\ \A i \in 1..Len(p) : p[i] = q[i]
<1>1. /\ IsCells(SubSeq(p, 1, Len(p))) /\ Len(SubSeq(p, 1, Len(p))) = Len(p)
      /\ \A i \in 1..Len(p) : SubSeq(p, 1, Len(p))[i] = p[i]
    BY SubSeqAt DEF IsCells
<1>2. ASSUME Len(p) <= Len(q)
      PROVE  /\ IsCells(SubSeq(q, 1, Len(p))) /\ Len(SubSeq(q, 1, Len(p))) = Len(p)
             /\ \A i \in 1..Len(p) : SubSeq(q, 1, Len(p))[i] = q[i]
    BY <1>2, SubSeqAt DEF IsCells
<1>3. QED BY <1>1, <1>2, CellsEqual DEF IsPrefix

-----------------------------------------------------------------------------
(* The codec *)

\* The codes of the tables.
LEMMA Tables ==
    /\ DOMAIN Chain = {"regtest", "testnet"} /\ Chain["regtest"] = 1 /\ Chain["testnet"] = 2
    /\ DOMAIN Algo = {"Dilithium2", "Dilithium5"} /\ Algo["Dilithium2"] = 1 /\ Algo["Dilithium5"] = 2
    /\ DOMAIN LocatorTag = {"OpretVout", "OpretFirst", "P2mrRetLeaf"}
    /\ LocatorTag["OpretVout"] = 1 /\ LocatorTag["OpretFirst"] = 2 /\ LocatorTag["P2mrRetLeaf"] = 3
    /\ DOMAIN PolicyTag = {"OneConf", "Depth"} /\ PolicyTag["OneConf"] = 1 /\ PolicyTag["Depth"] = 2
BY DEF Chain, Algo, LocatorTag, PolicyTag

\* The tables tell their keys apart.
LEMMA TablesInjective ==
    /\ \A j, k \in DOMAIN Chain : Chain[j] = Chain[k] => j = k
    /\ \A j, k \in DOMAIN Algo : Algo[j] = Algo[k] => j = k
    /\ \A j, k \in DOMAIN LocatorTag : LocatorTag[j] = LocatorTag[k] => j = k
    /\ \A j, k \in DOMAIN PolicyTag : PolicyTag[j] = PolicyTag[k] => j = k
BY Tables

\* A tagged value of a table.
IsTagged(table, x) == \E k \in DOMAIN table, m \in Nat : x = Tagged(k, m)

\* A seal, of whatever root and script hash.
IsSeal(s) ==
    /\ s = [chain |-> s.chain, txid |-> s.txid, vout |-> s.vout, p2mr_root |-> s.p2mr_root,
            script_leaf_hash |-> s.script_leaf_hash, owner_algo |-> s.owner_algo,
            locator |-> s.locator, policy |-> s.policy]
    /\ s.chain \in Chains /\ s.txid \in [1..TxidLength -> Nat] /\ s.vout \in Nat
    /\ s.owner_algo \in DOMAIN Algo
    /\ IsTagged(LocatorTag, s.locator) /\ IsTagged(PolicyTag, s.policy)

\* The cells a tagged value takes.
Size(x) == IF x.kind \in Numbered THEN 2 ELSE 1

\* What a tagged value is written as.
LEMMA EncodingOf ==
    ASSUME NEW table, NEW x, IsTagged(table, x)
    PROVE  LET e == EncodeTagged(table, x)
           IN  /\ x.kind \in DOMAIN table /\ x.number \in Nat
               /\ x = [kind |-> x.kind, number |-> x.number]
               /\ IsCells(e) /\ Len(e) = Size(x) /\ e[1] = table[x.kind]
               /\ x.kind \in Numbered => e[2] = x.number
               /\ x.kind \notin Numbered => x.number = 0
<1>1. PICK k \in DOMAIN table, m \in Nat : x = Tagged(k, m)
    BY DEF IsTagged
<1>2. /\ x = [kind |-> x.kind, number |-> x.number] /\ x.kind = k /\ x.number \in Nat
      /\ x.kind \notin Numbered => x.number = 0
    BY <1>1 DEF Tagged
<1>3. QED BY <1>2, TuplesAreCells DEF EncodeTagged, Size

\* The cells of what has its length before it.
LEMMA PrefixedAt ==
    ASSUME NEW e, IsCells(e)
    PROVE  /\ IsCells(Prefixed(e)) /\ Len(Prefixed(e)) = 1 + Len(e) /\ Prefixed(e)[1] = Len(e)
           /\ \A i \in 1..Len(e) : Prefixed(e)[1 + i] = e[i]
<1>1. IsCells(<<Len(e)>>) /\ Len(<<Len(e)>>) = 1 /\ <<Len(e)>>[1] = Len(e) /\ Len(e) \in Nat
    BY TuplesAreCells DEF IsCells
<1>2. QED BY <1>1, ConcatAt DEF Prefixed

\* The cells of a seal.
LEMMA BodyAt ==
    ASSUME NEW s, IsSeal(s)
    PROVE  LET b == BodyBytes(s)
               n == TxidLength
               j == Size(s.locator)
               k == Size(s.policy)
           IN  /\ IsCells(b) /\ Len(b) = n + 7 + j + k
               /\ b[1] = Chain[s.chain] /\ \A i \in 1..n : b[1 + i] = s.txid[i]
               /\ b[n + 2] = s.vout /\ b[n + 3] = s.p2mr_root /\ b[n + 4] = s.script_leaf_hash
               /\ b[n + 5] = Algo[s.owner_algo]
               /\ b[n + 6] = j /\ b[n + 7] = LocatorTag[s.locator.kind]
               /\ s.locator.kind \in Numbered => b[n + 8] = s.locator.number
               /\ b[n + 7 + j] = k /\ b[n + 8 + j] = PolicyTag[s.policy.kind]
               /\ s.policy.kind \in Numbered => b[n + 9 + j] = s.policy.number
<1> DEFINE n == TxidLength
           e1 == EncodeTagged(LocatorTag, s.locator)
           e2 == EncodeTagged(PolicyTag, s.policy)
           four == <<s.vout, s.p2mr_root, s.script_leaf_hash, Algo[s.owner_algo]>>
           p1 == <<Chain[s.chain]>>
           p2 == p1 \o s.txid
           p3 == p2 \o four
           p4 == p3 \o Prefixed(e1)
           p5 == p4 \o Prefixed(e2)
<1>1. n \in Nat \ {0} /\ IsCells(s.txid) /\ Len(s.txid) = n
    BY CodecAssumption DEF IsSeal, IsCells
<1>2. /\ IsCells(e1) /\ Len(e1) = Size(s.locator) /\ e1[1] = LocatorTag[s.locator.kind]
      /\ s.locator.kind \in Numbered => e1[2] = s.locator.number
    BY EncodingOf DEF IsSeal
<1>3. /\ IsCells(e2) /\ Len(e2) = Size(s.policy) /\ e2[1] = PolicyTag[s.policy.kind]
      /\ s.policy.kind \in Numbered => e2[2] = s.policy.number
    BY EncodingOf DEF IsSeal
<1>4. /\ IsCells(four) /\ Len(four) = 4 /\ four[1] = s.vout /\ four[2] = s.p2mr_root
      /\ four[3] = s.script_leaf_hash /\ four[4] = Algo[s.owner_algo]
    BY TuplesAreCells
<1>5. IsCells(p1) /\ Len(p1) = 1 /\ p1[1] = Chain[s.chain]
    BY TuplesAreCells
<1>6. BodyBytes(s) = p5
    BY DEF BodyBytes
<1> DEFINE q1 == Prefixed(e1)
           q2 == Prefixed(e2)
           j == Len(e1)
           k == Len(e2)
<1>7. /\ IsCells(q1) /\ Len(q1) = 1 + j /\ q1[1] = j
      /\ \A i \in 1..j : q1[1 + i] = e1[i]
    BY <1>2, PrefixedAt
<1>8. /\ IsCells(q2) /\ Len(q2) = 1 + k /\ q2[1] = k
      /\ \A i \in 1..k : q2[1 + i] = e2[i]
    BY <1>3, PrefixedAt
<1>9. j \in {1, 2} /\ k \in {1, 2}
    BY <1>2, <1>3 DEF Size
<1> HIDE DEF n, e1, e2, q1, q2, four, p1
<1>10. /\ IsCells(p2) /\ Len(p2) = 1 + n
       /\ \A i \in 1..1 : p2[i] = p1[i]
       /\ \A i \in 1..n : p2[1 + i] = s.txid[i]
    <2>1. /\ IsCells(p2) /\ Len(p2) = Len(p1) + Len(s.txid)
          /\ \A i \in 1..Len(p1) : p2[i] = p1[i]
          /\ \A i \in 1..Len(s.txid) : p2[Len(p1) + i] = s.txid[i]
        <3>1. IsCells(p1) /\ IsCells(s.txid)
            BY <1>1, <1>5
        <3>2. QED BY <3>1, ConcatAt
    <2> HIDE DEF p2
    <2>2. QED BY <1>1, <1>5, <2>1
<1> HIDE DEF p2
<1>11. /\ IsCells(p3) /\ Len(p3) = (1 + n) + 4
       /\ \A i \in 1..(1 + n) : p3[i] = p2[i]
       /\ \A i \in 1..4 : p3[(1 + n) + i] = four[i]
    <2>1. /\ IsCells(p3) /\ Len(p3) = Len(p2) + Len(four)
          /\ \A i \in 1..Len(p2) : p3[i] = p2[i]
          /\ \A i \in 1..Len(four) : p3[Len(p2) + i] = four[i]
        <3>1. IsCells(p2) /\ IsCells(four)
            BY <1>4, <1>10
        <3>2. QED BY <3>1, ConcatAt
    <2> HIDE DEF p3
    <2>2. QED BY <1>4, <1>10, <2>1
<1> HIDE DEF p3, j, k
<1>12. /\ IsCells(p4) /\ Len(p4) = ((1 + n) + 4) + (1 + j)
       /\ \A i \in 1..((1 + n) + 4) : p4[i] = p3[i]
       /\ \A i \in 1..(1 + j) : p4[((1 + n) + 4) + i] = q1[i]
    <2>1. /\ IsCells(p4) /\ Len(p4) = Len(p3) + Len(q1)
          /\ \A i \in 1..Len(p3) : p4[i] = p3[i]
          /\ \A i \in 1..Len(q1) : p4[Len(p3) + i] = q1[i]
        BY <1>7, <1>11, ConcatAt DEF q1
    <2> HIDE DEF p4
    <2>2. QED BY <1>7, <1>11, <2>1
<1> HIDE DEF p4
<1>13. /\ IsCells(p5) /\ Len(p5) = (((1 + n) + 4) + (1 + j)) + (1 + k)
       /\ \A i \in 1..(((1 + n) + 4) + (1 + j)) : p5[i] = p4[i]
       /\ \A i \in 1..(1 + k) : p5[(((1 + n) + 4) + (1 + j)) + i] = q2[i]
    <2>1. /\ IsCells(p5) /\ Len(p5) = Len(p4) + Len(q2)
          /\ \A i \in 1..Len(p4) : p5[i] = p4[i]
          /\ \A i \in 1..Len(q2) : p5[Len(p4) + i] = q2[i]
        BY <1>8, <1>12, ConcatAt DEF q2
    <2> HIDE DEF p5
    <2>2. QED BY <1>8, <1>12, <2>1
<1> HIDE DEF p5
<1>14. /\ p5[1] = Chain[s.chain] /\ \A i \in 1..n : p5[1 + i] = s.txid[i]
    <2>1. \A i \in 1..1 + n : p5[i] = p2[i]
        BY <1>1, <1>11, <1>12, <1>9, <1>13
    <2>2. 1 \in 1..1 + n /\ \A i \in 1..n : 1 + i \in 1..1 + n
        BY <1>1
    <2>3. QED BY <1>5, <1>10, <2>1, <2>2
<1>15. \A i \in 1..4 : p5[n + 1 + i] = four[i]
    <2>1. \A i \in 1..4 : (1 + n) + i \in 1..(1 + n) + 4 /\ (1 + n) + i \in 1..((1 + n) + 4) + (1 + j)
        BY <1>1, <1>9
    <2>2. \A i \in 1..4 : p5[(1 + n) + i] = four[i]
        BY <1>11, <1>12, <1>13, <2>1
    <2>3. QED BY <1>1, <2>2
<1>16. p5[n + 6] = j /\ \A i \in 1..j : p5[n + 6 + i] = e1[i]
    <2>1. \A i \in 1..1 + j : ((1 + n) + 4) + i \in 1..((1 + n) + 4) + (1 + j)
        BY <1>1, <1>9
    <2>2. \A i \in 1..1 + j : p5[((1 + n) + 4) + i] = q1[i]
        BY <1>12, <1>13, <2>1
    <2>3. 1 \in 1..1 + j /\ \A i \in 1..j : 1 + i \in 1..1 + j
        BY <1>9
    <2>4. p5[((1 + n) + 4) + 1] = j /\ \A i \in 1..j : p5[((1 + n) + 4) + (1 + i)] = e1[i]
        BY <1>7, <2>2, <2>3
    <2>5. QED BY <1>1, <1>9, <2>4
<1>17. p5[n + 7 + j] = k /\ \A i \in 1..k : p5[n + 7 + j + i] = e2[i]
    <2>1. 1 \in 1..1 + k /\ \A i \in 1..k : 1 + i \in 1..1 + k
        BY <1>9
    <2>2. /\ p5[(((1 + n) + 4) + (1 + j)) + 1] = k
          /\ \A i \in 1..k : p5[(((1 + n) + 4) + (1 + j)) + (1 + i)] = e2[i]
        BY <1>8, <1>13, <2>1
    <2>3. QED BY <1>1, <1>9, <2>2
<1>18. j = Size(s.locator) /\ k = Size(s.policy)
    BY <1>2, <1>3 DEF j, k
<1>19. p5[n + 2] = four[1] /\ p5[n + 3] = four[2] /\ p5[n + 4] = four[3] /\ p5[n + 5] = four[4]
    BY <1>1, <1>15
<1>20. p5[n + 7] = e1[1] /\ (s.locator.kind \in Numbered => p5[n + 8] = e1[2])
    BY <1>1, <1>9, <1>16, <1>18 DEF Size
<1>21. p5[n + 8 + j] = e2[1] /\ (s.policy.kind \in Numbered => p5[n + 9 + j] = e2[2])
    BY <1>1, <1>9, <1>17, <1>18 DEF Size
<1>22. Len(p5) = n + 7 + j + k
    BY <1>1, <1>9, <1>13
<1>23. QED
    BY <1>2, <1>3, <1>4, <1>6, <1>13, <1>14, <1>16, <1>17, <1>18, <1>19, <1>20, <1>21, <1>22 DEF n

\* A seal is told by its cells, whatever follows them.
LEMMA SelfDelimiting ==
    ASSUME NEW s, NEW t, NEW b, IsSeal(s), IsSeal(t), IsCells(b),
           IsPrefix(BodyBytes(s), b), IsPrefix(BodyBytes(t), b)
    PROVE  s = t
<1> DEFINE n == TxidLength
<1>1. n \in Nat \ {0}
    BY CodecAssumption
<1>2. ASSUME NEW x, IsSeal(x), IsPrefix(BodyBytes(x), b)
      PROVE  LET j == Size(x.locator)
             IN  /\ b[1] = Chain[x.chain] /\ \A i \in 1..n : b[1 + i] = x.txid[i]
                 /\ b[n + 2] = x.vout /\ b[n + 3] = x.p2mr_root /\ b[n + 4] = x.script_leaf_hash
                 /\ b[n + 5] = Algo[x.owner_algo]
                 /\ b[n + 6] = j /\ b[n + 7] = LocatorTag[x.locator.kind]
                 /\ x.locator.kind \in Numbered => b[n + 8] = x.locator.number
                 /\ b[n + 8 + j] = PolicyTag[x.policy.kind]
                 /\ x.policy.kind \in Numbered => b[n + 9 + j] = x.policy.number
    <2> DEFINE c == BodyBytes(x)
               j == Size(x.locator)
               k == Size(x.policy)
    <2>1. j \in {1, 2} /\ k \in {1, 2}
        BY DEF Size
    <2>2. /\ IsCells(c) /\ Len(c) = n + 7 + j + k
          /\ c[1] = Chain[x.chain] /\ \A i \in 1..n : c[1 + i] = x.txid[i]
          /\ c[n + 2] = x.vout /\ c[n + 3] = x.p2mr_root /\ c[n + 4] = x.script_leaf_hash
          /\ c[n + 5] = Algo[x.owner_algo]
          /\ c[n + 6] = j /\ c[n + 7] = LocatorTag[x.locator.kind]
          /\ x.locator.kind \in Numbered => c[n + 8] = x.locator.number
          /\ c[n + 8 + j] = PolicyTag[x.policy.kind]
          /\ x.policy.kind \in Numbered => c[n + 9 + j] = x.policy.number
        BY <1>2, BodyAt
    <2> HIDE DEF c
    <2>3. \A i \in 1..Len(c) : c[i] = b[i]
        BY <1>2, <2>2, PrefixAt DEF c
    <2> HIDE DEF j, k, n
    <2>4. /\ {1, n + 2, n + 3, n + 4, n + 5, n + 6, n + 7, n + 8, n + 8 + j} \subseteq 1..Len(c)
          /\ \A i \in 1..n : 1 + i \in 1..Len(c)
        BY <1>1, <2>1, <2>2
    <2>5. x.policy.kind \in Numbered => n + 9 + j \in 1..Len(c)
        BY <1>1, <2>1, <2>2 DEF k, Size
    <2>6. QED BY <2>2, <2>3, <2>4, <2>5 DEF j
<1>3. /\ s.vout = t.vout /\ s.p2mr_root = t.p2mr_root /\ s.script_leaf_hash = t.script_leaf_hash
      /\ s.chain = t.chain /\ s.owner_algo = t.owner_algo
    <2>1. /\ s.chain \in DOMAIN Chain /\ t.chain \in DOMAIN Chain
          /\ s.owner_algo \in DOMAIN Algo /\ t.owner_algo \in DOMAIN Algo
        BY DEF IsSeal, Chains
    <2>2. /\ Chain[s.chain] = Chain[t.chain] /\ Algo[s.owner_algo] = Algo[t.owner_algo]
          /\ s.vout = t.vout /\ s.p2mr_root = t.p2mr_root /\ s.script_leaf_hash = t.script_leaf_hash
        BY <1>2
    <2>3. QED BY <2>1, <2>2, TablesInjective
<1>4. s.txid = t.txid
    <2>1. \A i \in 1..n : s.txid[i] = t.txid[i]
        BY <1>2
    <2>2. s.txid = [i \in 1..n |-> s.txid[i]] /\ t.txid = [i \in 1..n |-> t.txid[i]]
        BY DEF IsSeal
    <2> HIDE DEF n
    <2>3. [i \in 1..n |-> s.txid[i]] = [i \in 1..n |-> t.txid[i]]
        BY <2>1
    <2>4. QED BY <2>2, <2>3
<1>5. /\ s.locator.kind \in DOMAIN LocatorTag /\ t.locator.kind \in DOMAIN LocatorTag
      /\ s.policy.kind \in DOMAIN PolicyTag /\ t.policy.kind \in DOMAIN PolicyTag
    BY EncodingOf DEF IsSeal
<1>6. s.locator.kind = t.locator.kind
    <2>1. LocatorTag[s.locator.kind] = LocatorTag[t.locator.kind]
        BY <1>2
    <2>2. QED BY <1>5, <2>1, TablesInjective
<1>7. s.policy.kind = t.policy.kind
    <2>1. Size(s.locator) = Size(t.locator)
        BY <1>2
    <2>2. PolicyTag[s.policy.kind] = PolicyTag[t.policy.kind]
        BY <1>2, <2>1
    <2>3. QED BY <1>5, <2>2, TablesInjective
<1>8. s.locator.number = t.locator.number /\ s.policy.number = t.policy.number
    <2>1. /\ s.locator.kind \in Numbered => s.locator.number = t.locator.number
          /\ s.policy.kind \in Numbered => s.policy.number = t.policy.number
        BY <1>2, <1>6, <1>7
    <2>2. /\ s.locator.kind \notin Numbered => s.locator.number = 0 /\ t.locator.number = 0
          /\ s.policy.kind \notin Numbered => s.policy.number = 0 /\ t.policy.number = 0
        BY <1>6, <1>7, EncodingOf DEF IsSeal
    <2>3. QED BY <2>1, <2>2
<1>9. s.locator = t.locator /\ s.policy = t.policy
    <2>1. /\ s.locator = [kind |-> s.locator.kind, number |-> s.locator.number]
          /\ t.locator = [kind |-> t.locator.kind, number |-> t.locator.number]
          /\ s.policy = [kind |-> s.policy.kind, number |-> s.policy.number]
          /\ t.policy = [kind |-> t.policy.kind, number |-> t.policy.number]
        BY EncodingOf DEF IsSeal
    <2>2. QED BY <1>6, <1>7, <1>8, <2>1
<1>10. QED BY <1>3, <1>4, <1>9 DEF IsSeal

-----------------------------------------------------------------------------
(* Decoding *)

\* Cells that are bytes but for the two hashes of a seal.
SealCells(b) ==
    IsCells(b) /\ \A i \in 1..Len(b) : i \notin {TxidLength + 3, TxidLength + 4} => b[i] \in Nat

\* What is decoded of cells starts them, takes what it used, and is a value
\* of the table.
LEMMA DecodedTagged ==
    ASSUME NEW table, NEW c, IsCells(c), \A i \in 1..Len(c) : c[i] \in Nat,
           NEW d \in DecodeTagged(table, c)
    PROVE  /\ IsTagged(table, d.value) /\ d.used = Size(d.value) /\ d.used <= Len(c)
           /\ c[1] = table[d.value.kind]
           /\ d.value.kind \in Numbered => c[2] = d.value.number
<1>1. c # <<>>
    BY DEF DecodeTagged
<1>2. Len(c) \in Nat /\ Len(c) # 0
    BY <1>1 DEF IsCells
<1>3. PICK k \in DOMAIN table :
          /\ table[k] = Head(c) /\ (k \in Numbered => Len(c) >= 2)
          /\ d = [value |-> Tagged(k, IF k \in Numbered THEN c[2] ELSE 0),
                  used |-> IF k \in Numbered THEN 2 ELSE 1]
    BY <1>1 DEF DecodeTagged, FromByte
<1>4. Head(c) = c[1]
    BY <1>1, <1>2 DEF IsCells
<1>5. d.value.kind = k /\ d.used = Size(d.value) /\ d.used = (IF k \in Numbered THEN 2 ELSE 1)
      /\ d.value = Tagged(k, IF k \in Numbered THEN c[2] ELSE 0)
    BY <1>3 DEF Tagged, Size
<1>6. IsTagged(table, d.value)
    <2>1. k \in Numbered => c[2] \in Nat
        BY <1>2, <1>3
    <2>2. QED BY <1>5, <2>1 DEF IsTagged
<1>7. k \in Numbered => d.value.number = c[2]
    BY <1>5 DEF Tagged
<1>8. QED BY <1>2, <1>3, <1>4, <1>5, <1>6, <1>7

\* A field that is read stands there in full, with its length before it.
LEMMA FieldRead ==
    ASSUME NEW table, NEW b, IsCells(b), NEW pos \in Nat \ {0},
           \A i \in pos..Len(b) : b[i] \in Nat,
           NEW d \in Field(table, b, pos)
    PROVE  /\ IsTagged(table, d.value) /\ d.used = Size(d.value)
           /\ pos + d.used <= Len(b) /\ b[pos] = d.used
           /\ b[pos + 1] = table[d.value.kind]
           /\ d.value.kind \in Numbered => b[pos + 2] = d.value.number
<1> DEFINE c == SubSeq(b, pos + 1, pos + b[pos])
<1>1. Len(b) \in Nat
    BY DEF IsCells
<1>2. /\ ~(Len(b) < pos) /\ ~(Len(b) < pos + b[pos])
      /\ d \in DecodeTagged(table, c) /\ d.used = b[pos]
    BY DEF Field
<1>3. b[pos] \in Nat /\ pos + b[pos] <= Len(b)
    BY <1>1, <1>2
<1>4. /\ IsCells(c) /\ Len(c) = b[pos]
      /\ \A i \in 1..b[pos] : c[i] = b[pos + i]
    <2>1. pos + 1 \in 1..Len(b) + 1 /\ pos + b[pos] \in (pos + 1) - 1..Len(b)
        BY <1>1, <1>3
    <2>2. /\ IsCells(c) /\ Len(c) = 1 + (pos + b[pos]) - (pos + 1)
          /\ \A i \in 1..1 + (pos + b[pos]) - (pos + 1) : c[i] = b[(pos + 1) + i - 1]
        BY <2>1, SubSeqAt
    <2> HIDE DEF c
    <2>3. 1 + (pos + b[pos]) - (pos + 1) = b[pos]
        BY <1>3
    <2>4. \A i \in 1..b[pos] : (pos + 1) + i - 1 = pos + i
        BY <1>3
    <2>5. QED BY <2>2, <2>3, <2>4
<1> HIDE DEF c
<1>5. \A i \in 1..Len(c) : c[i] \in Nat
    <2>1. \A i \in 1..b[pos] : pos + i \in pos..Len(b)
        BY <1>1, <1>3
    <2>2. QED BY <1>4, <2>1
<1>6. /\ IsTagged(table, d.value) /\ d.used = Size(d.value) /\ d.used <= Len(c)
      /\ c[1] = table[d.value.kind]
      /\ d.value.kind \in Numbered => c[2] = d.value.number
    BY <1>2, <1>4, <1>5, DecodedTagged
<1>7. d.used = IF d.value.kind \in Numbered THEN 2 ELSE 1
    BY <1>6 DEF Size
<1>8. c[1] = b[pos + 1] /\ (d.value.kind \in Numbered => c[2] = b[pos + 2])
    BY <1>2, <1>4, <1>7
<1>9. QED BY <1>2, <1>3, <1>6, <1>8

\* A field written at a position is read from there.
LEMMA FieldWritten ==
    ASSUME NEW table, NEW b, IsCells(b), NEW pos \in Nat \ {0}, NEW x, IsTagged(table, x),
           pos + Size(x) <= Len(b), b[pos] = Size(x), b[pos + 1] = table[x.kind],
           x.kind \in Numbered => b[pos + 2] = x.number
    PROVE  [value |-> x, used |-> Size(x)] \in Field(table, b, pos)
<1> DEFINE c == SubSeq(b, pos + 1, pos + b[pos])
           d == [value |-> x, used |-> Size(x)]
<1>1. Len(b) \in Nat /\ Size(x) \in {1, 2}
    BY DEF IsCells, Size
<1>2. /\ IsCells(c) /\ Len(c) = Size(x)
      /\ \A i \in 1..Size(x) : c[i] = b[pos + i]
    <2>1. pos + 1 \in 1..Len(b) + 1 /\ pos + b[pos] \in (pos + 1) - 1..Len(b)
        BY <1>1
    <2>2. /\ IsCells(c) /\ Len(c) = 1 + (pos + b[pos]) - (pos + 1)
          /\ \A i \in 1..1 + (pos + b[pos]) - (pos + 1) : c[i] = b[(pos + 1) + i - 1]
        BY <2>1, SubSeqAt
    <2> HIDE DEF c
    <2>3. 1 + (pos + b[pos]) - (pos + 1) = Size(x)
        BY <1>1
    <2>4. \A i \in 1..Size(x) : (pos + 1) + i - 1 = pos + i
        BY <1>1
    <2>5. QED BY <2>2, <2>3, <2>4
<1> HIDE DEF c
<1>3. c # <<>> /\ Head(c) = c[1]
    BY <1>1, <1>2 DEF IsCells
<1>4. Head(c) = table[x.kind] /\ (x.kind \in Numbered => Len(c) >= 2 /\ c[2] = x.number)
    BY <1>1, <1>2, <1>3 DEF Size
<1>5. x = Tagged(x.kind, IF x.kind \in Numbered THEN c[2] ELSE 0) /\ x.kind \in DOMAIN table
    <2>1. /\ x.kind \in DOMAIN table /\ x = [kind |-> x.kind, number |-> x.number]
          /\ x.kind \notin Numbered => x.number = 0
        BY EncodingOf
    <2>2. QED BY <1>4, <2>1 DEF Tagged
<1>6. d \in DecodeTagged(table, c)
    <2>1. x.kind \in {k \in FromByte(table, Head(c)) : k \in Numbered => Len(c) >= 2}
        BY <1>4, <1>5 DEF FromByte
    <2>2. d = [value |-> Tagged(x.kind, IF x.kind \in Numbered THEN c[2] ELSE 0),
               used |-> IF x.kind \in Numbered THEN 2 ELSE 1]
        BY <1>5 DEF Size
    <2>3. QED BY <1>3, <2>1, <2>2 DEF DecodeTagged
<1>7. QED BY <1>1, <1>6 DEF Field, c

\* The positions of a body whose tagged values take j and k cells.
LEMMA BodyIndex ==
    ASSUME NEW n \in Nat, NEW j \in 1..2, NEW k \in 1..2
    PROVE  \A i \in 1..n + 7 + j + k :
               \/ i = 1 \/ i \in 2..n + 1 \/ i = n + 2 \/ i = n + 3 \/ i = n + 4 \/ i = n + 5
               \/ i = n + 6 \/ i = n + 7 \/ (i = n + 8 /\ j = 2)
               \/ i = n + 7 + j \/ i = n + 8 + j \/ (i = n + 9 + j /\ k = 2)
OBVIOUS

\* Whatever is decoded is a seal, gated by the feature, and its encoding
\* starts the cells.
LEMMA DecodeAccepts ==
    ASSUME NEW b, SealCells(b), NEW s \in DecodeBody(b)
    PROVE  /\ IsSeal(s) /\ IsPrefix(BodyBytes(s), b)
           /\ s.owner_algo = "Dilithium5" => Dilithium5
           /\ s.p2mr_root = b[TxidLength + 3]
<1> DEFINE n == TxidLength
<1>1. n \in Nat \ {0} /\ IsCells(b) /\ Len(b) \in Nat
    BY CodecAssumption DEF SealCells, IsCells
<1>2. ~(Len(b) < LocatorAt - 1)
    BY DEF DecodeBody
<1>3. PICK locator \in Field(LocatorTag, b, LocatorAt) :
          s \in {[chain |-> chain,
                  txid |-> SubSeq(b, 2, TxidLength + 1),
                  vout |-> b[TxidLength + 2],
                  p2mr_root |-> b[TxidLength + 3],
                  script_leaf_hash |-> b[TxidLength + 4],
                  owner_algo |-> algo,
                  locator |-> locator.value,
                  policy |-> policy.value] :
                    chain \in FromByte(Chain, b[1]),
                    algo \in AlgoFromByte(b[LocatorAt - 1]),
                    policy \in Field(PolicyTag, b, LocatorAt + 1 + locator.used)}
    BY <1>2 DEF DecodeBody
<1>4. /\ IsTagged(LocatorTag, locator.value) /\ locator.used = Size(locator.value)
      /\ LocatorAt + locator.used <= Len(b) /\ b[LocatorAt] = locator.used
      /\ b[LocatorAt + 1] = LocatorTag[locator.value.kind]
      /\ locator.value.kind \in Numbered => b[LocatorAt + 2] = locator.value.number
    <2> DEFINE pos == LocatorAt
    <2>1. pos \in Nat \ {0} /\ \A i \in pos..Len(b) : b[i] \in Nat
        BY <1>1 DEF LocatorAt, SealCells
    <2>2. IsCells(b) /\ locator \in Field(LocatorTag, b, pos)
        BY <1>1
    <2> HIDE DEF pos
    <2>3. /\ IsTagged(LocatorTag, locator.value) /\ locator.used = Size(locator.value)
          /\ pos + locator.used <= Len(b) /\ b[pos] = locator.used
          /\ b[pos + 1] = LocatorTag[locator.value.kind]
          /\ locator.value.kind \in Numbered => b[pos + 2] = locator.value.number
        BY <2>1, <2>2, FieldRead
    <2>4. QED BY <2>3 DEF pos
<1>5. PICK chain \in FromByte(Chain, b[1]), algo \in AlgoFromByte(b[LocatorAt - 1]),
           policy \in Field(PolicyTag, b, LocatorAt + 1 + locator.used) :
          s = [chain |-> chain,
               txid |-> SubSeq(b, 2, TxidLength + 1),
               vout |-> b[TxidLength + 2],
               p2mr_root |-> b[TxidLength + 3],
               script_leaf_hash |-> b[TxidLength + 4],
               owner_algo |-> algo,
               locator |-> locator.value,
               policy |-> policy.value]
    BY <1>3
<1>6. /\ s.chain = chain /\ s.txid = SubSeq(b, 2, n + 1) /\ s.vout = b[n + 2]
      /\ s.p2mr_root = b[n + 3] /\ s.script_leaf_hash = b[n + 4] /\ s.owner_algo = algo
      /\ s.locator = locator.value /\ s.policy = policy.value
      /\ s = [chain |-> s.chain, txid |-> s.txid, vout |-> s.vout, p2mr_root |-> s.p2mr_root,
              script_leaf_hash |-> s.script_leaf_hash, owner_algo |-> s.owner_algo,
              locator |-> s.locator, policy |-> s.policy]
    BY <1>5
<1>7. /\ chain \in Chains /\ Chain[chain] = b[1]
      /\ algo \in DOMAIN Algo /\ Algo[algo] = b[n + 5] /\ (algo = "Dilithium5" => Dilithium5)
    <2>1. LocatorAt - 1 = n + 5
        BY <1>1 DEF LocatorAt
    <2>2. QED BY <2>1 DEF FromByte, AlgoFromByte, Chains
<1>8. \A i \in n + 6..Len(b) : b[i] \in Nat
    BY <1>1 DEF SealCells
<1>9. /\ IsTagged(LocatorTag, s.locator) /\ locator.used = Size(s.locator)
      /\ n + 6 + Size(s.locator) <= Len(b) /\ b[n + 6] = Size(s.locator)
      /\ b[n + 7] = LocatorTag[s.locator.kind]
      /\ s.locator.kind \in Numbered => b[n + 8] = s.locator.number
    <2>1. LocatorAt = n + 6 /\ LocatorAt + 1 = n + 7 /\ LocatorAt + 2 = n + 8
        BY <1>1 DEF LocatorAt
    <2>2. s.locator = locator.value
        BY <1>6
    <2>3. /\ LocatorAt + Size(s.locator) <= Len(b) /\ b[LocatorAt] = Size(s.locator)
          /\ b[LocatorAt + 1] = LocatorTag[s.locator.kind]
          /\ s.locator.kind \in Numbered => b[LocatorAt + 2] = s.locator.number
        BY <1>4, <2>2
    <2>4. IsTagged(LocatorTag, s.locator) /\ locator.used = Size(s.locator)
        BY <1>4, <2>2
    <2> HIDE DEF n
    <2>5. QED BY <2>1, <2>3, <2>4
<1> DEFINE j == Size(s.locator)
           k == Size(s.policy)
<1>10. j \in {1, 2} /\ k \in {1, 2}
    BY DEF Size
<1>11. /\ IsTagged(PolicyTag, s.policy) /\ n + 7 + j + k <= Len(b) /\ b[n + 7 + j] = k
       /\ b[n + 8 + j] = PolicyTag[s.policy.kind]
       /\ s.policy.kind \in Numbered => b[n + 9 + j] = s.policy.number
    <2> DEFINE pos == LocatorAt + 1 + locator.used
    <2>1. pos \in Nat \ {0} /\ pos = n + 7 + j /\ pos + 1 = n + 8 + j /\ pos + 2 = n + 9 + j
        BY <1>1, <1>9, <1>10 DEF LocatorAt
    <2>2. \A i \in pos..Len(b) : b[i] \in Nat
        BY <1>1, <1>8, <1>10, <2>1
    <2>3. policy \in Field(PolicyTag, b, pos)
        BY <1>5
    <2> HIDE DEF pos, j, k
    <2>4. /\ IsTagged(PolicyTag, policy.value) /\ policy.used = Size(policy.value)
          /\ pos + policy.used <= Len(b) /\ b[pos] = policy.used
          /\ b[pos + 1] = PolicyTag[policy.value.kind]
          /\ policy.value.kind \in Numbered => b[pos + 2] = policy.value.number
        <3>1. IsCells(b) /\ pos \in Nat \ {0}
            BY <1>1, <2>1
        <3>2. QED BY <2>2, <2>3, <3>1, FieldRead
    <2>5. QED BY <1>1, <1>6, <1>10, <2>1, <2>4 DEF k
<1>12. Len(b) >= n + 9
    BY <1>1, <1>10, <1>11
<1>13. s.txid \in [1..n -> Nat] /\ \A i \in 1..n : s.txid[i] = b[1 + i]
    <2>1. /\ IsCells(SubSeq(b, 2, n + 1)) /\ Len(SubSeq(b, 2, n + 1)) = 1 + (n + 1) - 2
          /\ \A i \in 1..1 + (n + 1) - 2 : SubSeq(b, 2, n + 1)[i] = b[2 + i - 1]
        <3>1. 2 \in 1..Len(b) + 1 /\ n + 1 \in 2 - 1..Len(b)
            BY <1>1, <1>12
        <3>2. IsCells(b)
            BY <1>1
        <3>3. QED BY <3>1, <3>2, SubSeqAt
    <2>2. 1 + (n + 1) - 2 = n /\ \A i \in 1..n : 2 + i - 1 = 1 + i
        BY <1>1
    <2>3. \A i \in 1..n : b[1 + i] \in Nat
        BY <1>1, <1>12 DEF SealCells
    <2> HIDE DEF n
    <2>4. \A i \in 1..n : s.txid[i] = b[1 + i]
        BY <1>6, <2>1, <2>2
    <2>5. s.txid = [i \in 1..n |-> s.txid[i]]
        BY <1>6, <2>1, <2>2 DEF IsCells
    <2>6. QED BY <2>3, <2>4, <2>5
<1>14. IsSeal(s)
    <2>1. b[n + 2] \in Nat
        BY <1>1, <1>12 DEF SealCells
    <2>2. QED BY <1>6, <1>7, <1>9, <1>11, <1>13, <2>1 DEF IsSeal
<1>15. IsPrefix(BodyBytes(s), b)
    <2> DEFINE c == BodyBytes(s)
    <2>1. /\ IsCells(c) /\ Len(c) = n + 7 + j + k
          /\ c[1] = Chain[s.chain] /\ \A i \in 1..n : c[1 + i] = s.txid[i]
          /\ c[n + 2] = s.vout /\ c[n + 3] = s.p2mr_root /\ c[n + 4] = s.script_leaf_hash
          /\ c[n + 5] = Algo[s.owner_algo]
          /\ c[n + 6] = j /\ c[n + 7] = LocatorTag[s.locator.kind]
          /\ s.locator.kind \in Numbered => c[n + 8] = s.locator.number
          /\ c[n + 7 + j] = k /\ c[n + 8 + j] = PolicyTag[s.policy.kind]
          /\ s.policy.kind \in Numbered => c[n + 9 + j] = s.policy.number
        BY <1>14, BodyAt
    <2> HIDE DEF c
    <2>2. \A i \in 2..n + 1 : c[i] = b[i]
        <3>1. \A i \in 2..n + 1 : i - 1 \in 1..n /\ i = 1 + (i - 1)
            BY <1>1
        <3>2. QED BY <1>13, <2>1, <3>1
    <2>3. c[1] = b[1] /\ c[n + 2] = b[n + 2] /\ c[n + 3] = b[n + 3] /\ c[n + 4] = b[n + 4]
          /\ c[n + 5] = b[n + 5] /\ c[n + 6] = b[n + 6] /\ c[n + 7] = b[n + 7]
        BY <1>6, <1>7, <1>9, <2>1
    <2>4. j = 2 => c[n + 8] = b[n + 8]
        BY <1>9, <2>1 DEF Size
    <2>5. c[n + 7 + j] = b[n + 7 + j] /\ c[n + 8 + j] = b[n + 8 + j]
        BY <1>11, <2>1
    <2>6. k = 2 => c[n + 9 + j] = b[n + 9 + j]
        BY <1>11, <2>1 DEF Size
    <2> HIDE DEF j, k
    <2>7. \A i \in 1..Len(c) : c[i] = b[i]
        <3>1. n \in Nat /\ j \in 1..2 /\ k \in 1..2
            BY <1>1, <1>10
        <3> HIDE DEF n
        <3>2. \A i \in 1..n + 7 + j + k :
                  \/ i = 1 \/ i \in 2..n + 1 \/ i = n + 2 \/ i = n + 3 \/ i = n + 4 \/ i = n + 5
                  \/ i = n + 6 \/ i = n + 7 \/ (i = n + 8 /\ j = 2)
                  \/ i = n + 7 + j \/ i = n + 8 + j \/ (i = n + 9 + j /\ k = 2)
            BY <3>1, BodyIndex
        <3>3. QED BY <2>1, <2>2, <2>3, <2>4, <2>5, <2>6, <3>2
    <2>8. QED BY <1>1, <1>11, <2>1, <2>7, PrefixAt DEF c
<1>16. QED BY <1>6, <1>7, <1>14, <1>15

\* A seal's own cells are decoded as that seal, unless the feature is off.
LEMMA DecodeFinds ==
    ASSUME NEW s, IsSeal(s), s.owner_algo = "Dilithium5" => Dilithium5
    PROVE  s \in DecodeBody(BodyBytes(s))
<1> DEFINE n == TxidLength
           b == BodyBytes(s)
           j == Size(s.locator)
           k == Size(s.policy)
<1>1. n \in Nat \ {0}
    BY CodecAssumption
<1>2. j \in {1, 2} /\ k \in {1, 2}
    BY DEF Size
<1>3. /\ IsCells(b) /\ Len(b) = n + 7 + j + k
      /\ b[1] = Chain[s.chain] /\ \A i \in 1..n : b[1 + i] = s.txid[i]
      /\ b[n + 2] = s.vout /\ b[n + 3] = s.p2mr_root /\ b[n + 4] = s.script_leaf_hash
      /\ b[n + 5] = Algo[s.owner_algo]
      /\ b[n + 6] = j /\ b[n + 7] = LocatorTag[s.locator.kind]
      /\ s.locator.kind \in Numbered => b[n + 8] = s.locator.number
      /\ b[n + 7 + j] = k /\ b[n + 8 + j] = PolicyTag[s.policy.kind]
      /\ s.policy.kind \in Numbered => b[n + 9 + j] = s.policy.number
    BY BodyAt
<1> HIDE DEF b
<1>4. SubSeq(b, 2, n + 1) = s.txid
    <2>1. /\ IsCells(SubSeq(b, 2, n + 1)) /\ Len(SubSeq(b, 2, n + 1)) = 1 + (n + 1) - 2
          /\ \A i \in 1..1 + (n + 1) - 2 : SubSeq(b, 2, n + 1)[i] = b[2 + i - 1]
        <3>1. 2 \in 1..Len(b) + 1 /\ n + 1 \in 2 - 1..Len(b)
            BY <1>1, <1>2, <1>3
        <3>2. QED BY <1>3, <3>1, SubSeqAt
    <2>2. 1 + (n + 1) - 2 = n /\ \A i \in 1..n : 2 + i - 1 = 1 + i
        BY <1>1
    <2>3. IsCells(s.txid) /\ Len(s.txid) = n
        BY <1>1 DEF IsSeal, IsCells
    <2> HIDE DEF n
    <2>4. \A i \in 1..n : SubSeq(b, 2, n + 1)[i] = s.txid[i]
        BY <1>3, <2>1, <2>2
    <2>5. QED BY <2>1, <2>2, <2>3, <2>4, CellsEqual
<1>5. LocatorAt = n + 6 /\ LocatorAt - 1 = n + 5 /\ LocatorAt + 1 = n + 7
    BY <1>1 DEF LocatorAt
<1> DEFINE l == [value |-> s.locator, used |-> j]
           p == [value |-> s.policy, used |-> k]
<1>6. l \in Field(LocatorTag, b, LocatorAt)
    <2>1. LocatorAt \in Nat \ {0} /\ LocatorAt + j <= Len(b) /\ LocatorAt + 2 = n + 8
        BY <1>1, <1>2, <1>3, <1>5
    <2>2. IsTagged(LocatorTag, s.locator)
        BY DEF IsSeal
    <2>3. QED BY <1>3, <1>5, <2>1, <2>2, FieldWritten
<1>7. p \in Field(PolicyTag, b, LocatorAt + 1 + l.used)
    <2> DEFINE pos == LocatorAt + 1 + l.used
    <2>1. pos \in Nat \ {0} /\ pos = n + 7 + j /\ pos + 1 = n + 8 + j /\ pos + 2 = n + 9 + j
          /\ pos + k <= Len(b)
        BY <1>1, <1>2, <1>3, <1>5
    <2>2. IsTagged(PolicyTag, s.policy)
        BY DEF IsSeal
    <2> HIDE DEF pos, l
    <2>3. p \in Field(PolicyTag, b, pos)
        BY <1>3, <2>1, <2>2, FieldWritten
    <2>4. QED BY <2>3 DEF pos
<1>8. s.chain \in FromByte(Chain, b[1]) /\ s.owner_algo \in AlgoFromByte(b[LocatorAt - 1])
    BY <1>3, <1>5 DEF FromByte, AlgoFromByte, IsSeal, Chains
<1>9. s = [chain |-> s.chain,
           txid |-> SubSeq(b, 2, TxidLength + 1),
           vout |-> b[TxidLength + 2],
           p2mr_root |-> b[TxidLength + 3],
           script_leaf_hash |-> b[TxidLength + 4],
           owner_algo |-> s.owner_algo,
           locator |-> l.value,
           policy |-> p.value]
    BY <1>3, <1>4 DEF IsSeal
<1>10. ~(Len(b) < LocatorAt - 1)
    BY <1>1, <1>2, <1>3, <1>5
<1> HIDE DEF l, p
<1>11. s \in {[chain |-> chain,
               txid |-> SubSeq(b, 2, TxidLength + 1),
               vout |-> b[TxidLength + 2],
               p2mr_root |-> b[TxidLength + 3],
               script_leaf_hash |-> b[TxidLength + 4],
               owner_algo |-> algo,
               locator |-> l.value,
               policy |-> policy.value] :
                 chain \in FromByte(Chain, b[1]),
                 algo \in AlgoFromByte(b[LocatorAt - 1]),
                 policy \in Field(PolicyTag, b, LocatorAt + 1 + l.used)}
    BY <1>7, <1>8, <1>9
<1>12. s \in DecodeBody(b)
    BY <1>6, <1>10, <1>11 DEF DecodeBody
<1>13. QED BY <1>12 DEF b

\* The cells of a seal's body are bytes but for its two hashes.
LEMMA BodyIsSealCells ==
    ASSUME NEW s, IsSeal(s)
    PROVE  SealCells(BodyBytes(s)) /\ BodyBytes(s) # <<>>
<1> DEFINE n == TxidLength
           b == BodyBytes(s)
           j == Size(s.locator)
           k == Size(s.policy)
<1>1. n \in Nat \ {0} /\ j \in 1..2 /\ k \in 1..2
    BY CodecAssumption DEF Size
<1>2. /\ IsCells(b) /\ Len(b) = n + 7 + j + k
      /\ b[1] = Chain[s.chain] /\ \A i \in 1..n : b[1 + i] = s.txid[i]
      /\ b[n + 2] = s.vout
      /\ b[n + 5] = Algo[s.owner_algo]
      /\ b[n + 6] = j /\ b[n + 7] = LocatorTag[s.locator.kind]
      /\ s.locator.kind \in Numbered => b[n + 8] = s.locator.number
      /\ b[n + 7 + j] = k /\ b[n + 8 + j] = PolicyTag[s.policy.kind]
      /\ s.policy.kind \in Numbered => b[n + 9 + j] = s.policy.number
    BY BodyAt
<1>3. /\ \A key \in DOMAIN Chain : Chain[key] \in Nat
      /\ \A key \in DOMAIN Algo : Algo[key] \in Nat
      /\ \A key \in DOMAIN LocatorTag : LocatorTag[key] \in Nat
      /\ \A key \in DOMAIN PolicyTag : PolicyTag[key] \in Nat
    BY Tables
<1>4. /\ s.locator.kind \in DOMAIN LocatorTag /\ s.locator.number \in Nat
      /\ s.policy.kind \in DOMAIN PolicyTag /\ s.policy.number \in Nat
    BY EncodingOf DEF IsSeal
<1>5. s.chain \in DOMAIN Chain /\ s.owner_algo \in DOMAIN Algo /\ s.vout \in Nat
      /\ \A i \in 1..n : s.txid[i] \in Nat
    BY DEF IsSeal, Chains
<1> HIDE DEF b
<1>6. \A i \in 2..n + 1 : b[i] \in Nat
    <2>1. \A i \in 2..n + 1 : i - 1 \in 1..n /\ i = 1 + (i - 1)
        BY <1>1
    <2>2. QED BY <1>2, <1>5, <2>1
<1>7. /\ b[1] \in Nat /\ b[n + 2] \in Nat /\ b[n + 5] \in Nat
      /\ b[n + 6] \in Nat /\ b[n + 7] \in Nat /\ b[n + 7 + j] \in Nat /\ b[n + 8 + j] \in Nat
    <2>1. /\ Chain[s.chain] \in Nat /\ Algo[s.owner_algo] \in Nat
          /\ LocatorTag[s.locator.kind] \in Nat /\ PolicyTag[s.policy.kind] \in Nat
        BY <1>3, <1>4, <1>5
    <2>2. j \in Nat /\ k \in Nat
        BY <1>1
    <2> HIDE DEF n, j, k
    <2>3. QED BY <1>2, <1>5, <2>1, <2>2
<1>8. /\ j = 2 => b[n + 8] \in Nat
      /\ k = 2 => b[n + 9 + j] \in Nat
    BY <1>2, <1>4 DEF Size
<1> HIDE DEF n, j, k
<1>9. \A i \in 1..n + 7 + j + k :
          \/ i = 1 \/ i \in 2..n + 1 \/ i = n + 2 \/ i = n + 3 \/ i = n + 4 \/ i = n + 5
          \/ i = n + 6 \/ i = n + 7 \/ (i = n + 8 /\ j = 2)
          \/ i = n + 7 + j \/ i = n + 8 + j \/ (i = n + 9 + j /\ k = 2)
    BY <1>1, BodyIndex
<1>10. \A i \in 1..Len(b) : i \notin {n + 3, n + 4} => b[i] \in Nat
    BY <1>2, <1>6, <1>7, <1>8, <1>9
<1>11. Len(b) # 0
    BY <1>1, <1>2
<1>12. QED BY <1>2, <1>10, <1>11 DEF SealCells, b, n

\* What DecodeBody makes of a seal's own cells.
LEMMA DecodeOwn ==
    ASSUME NEW s, IsSeal(s)
    PROVE  DecodeBody(BodyBytes(s)) =
               IF s.owner_algo = "Dilithium5" /\ ~Dilithium5 THEN {} ELSE {s}
<1> DEFINE b == BodyBytes(s)
<1>1. SealCells(b) /\ IsCells(b)
    BY BodyIsSealCells DEF SealCells
<1>2. IsPrefix(b, b)
    <2>1. Len(b) \in Nat
        BY <1>1 DEF IsCells
    <2>2. QED BY <1>1, <2>1, PrefixAt
<1>3. ASSUME NEW t \in DecodeBody(b)
      PROVE  t = s /\ (s.owner_algo = "Dilithium5" => Dilithium5)
    <2>1. IsSeal(t) /\ IsPrefix(BodyBytes(t), b) /\ (t.owner_algo = "Dilithium5" => Dilithium5)
        BY <1>1, DecodeAccepts
    <2>2. t = s
        BY <1>1, <1>2, <2>1, SelfDelimiting
    <2>3. QED BY <2>1, <2>2
<1>4. (s.owner_algo = "Dilithium5" => Dilithium5) => s \in DecodeBody(b)
    BY DecodeFinds
<1>5. QED BY <1>3, <1>4

\* At most one seal is decoded.
LEMMA DecodeOne ==
    ASSUME NEW b, SealCells(b), NEW s \in DecodeBody(b), NEW t \in DecodeBody(b)
    PROVE  s = t
<1>1. IsSeal(s) /\ IsPrefix(BodyBytes(s), b) /\ IsSeal(t) /\ IsPrefix(BodyBytes(t), b)
    BY DecodeAccepts
<1>2. QED BY <1>1, SelfDelimiting DEF SealCells

-----------------------------------------------------------------------------
(* The binary form *)

\* What stands before the body in the binary form.
Header == <<BinMagic, V0, DomainTag, DomainVersion>>

\* Cells that are bytes but for the two hashes of a seal's binary form.
BinaryCells(b) ==
    IsCells(b) /\ \A i \in 1..Len(b) : i \notin {TxidLength + 7, TxidLength + 8} => b[i] \in Nat

\* The cells behind the header.
LEMMA BehindHeader ==
    ASSUME NEW b, BinaryCells(b), Len(b) >= 4
    PROVE  /\ SealCells(SubSeq(b, 5, Len(b))) /\ Len(SubSeq(b, 5, Len(b))) = Len(b) - 4
           /\ \A i \in 1..Len(b) - 4 : SubSeq(b, 5, Len(b))[i] = b[4 + i]
<1> DEFINE c == SubSeq(b, 5, Len(b))
<1>1. IsCells(b) /\ Len(b) \in Nat /\ TxidLength \in Nat
    BY CodecAssumption DEF BinaryCells, IsCells
<1>2. 5 \in 1..Len(b) + 1 /\ Len(b) \in 5 - 1..Len(b)
    BY <1>1
<1>3. /\ IsCells(c) /\ Len(c) = 1 + Len(b) - 5
      /\ \A i \in 1..1 + Len(b) - 5 : c[i] = b[5 + i - 1]
    BY <1>1, <1>2, SubSeqAt
<1> HIDE DEF c
<1>4. 1 + Len(b) - 5 = Len(b) - 4 /\ \A i \in 1..Len(b) - 4 : 5 + i - 1 = 4 + i
    BY <1>1
<1>5. Len(c) = Len(b) - 4 /\ \A i \in 1..Len(b) - 4 : c[i] = b[4 + i]
    BY <1>3, <1>4
<1>6. \A i \in 1..Len(c) : i \notin {TxidLength + 3, TxidLength + 4} => c[i] \in Nat
    <2>1. \A i \in 1..Len(b) - 4 : /\ 4 + i \in 1..Len(b)
                                   /\ i \notin {TxidLength + 3, TxidLength + 4}
                                         => 4 + i \notin {TxidLength + 7, TxidLength + 8}
        BY <1>1
    <2>2. QED BY <1>5, <2>1 DEF BinaryCells
<1>7. QED BY <1>3, <1>5, <1>6 DEF c, SealCells

\* A seal's binary form is the header and its body.
LEMMA BinaryAt ==
    ASSUME NEW s, IsSeal(s)
    PROVE  LET b == ToBinary(s)
           IN  /\ BinaryCells(b) /\ Len(b) = 4 + Len(BodyBytes(s))
               /\ SubSeq(b, 1, 4) = Header /\ SubSeq(b, 5, Len(b)) = BodyBytes(s)
               /\ b[1] = BinMagic /\ b[2] = V0 /\ b[3] = DomainTag /\ b[4] = DomainVersion
               /\ \A i \in 1..Len(BodyBytes(s)) : b[4 + i] = BodyBytes(s)[i]
<1> DEFINE b == ToBinary(s)
           c == BodyBytes(s)
<1>1. SealCells(c) /\ IsCells(c) /\ Len(c) \in Nat
    BY BodyIsSealCells DEF SealCells, IsCells
<1>2. /\ IsCells(Header) /\ Len(Header) = 4
      /\ Header[1] = BinMagic /\ Header[2] = V0 /\ Header[3] = DomainTag /\ Header[4] = DomainVersion
    BY TuplesAreCells DEF Header
<1>3. b = Header \o c
    BY DEF ToBinary, Header
<1>4. /\ IsCells(b) /\ Len(b) = 4 + Len(c)
      /\ \A i \in 1..4 : b[i] = Header[i]
      /\ \A i \in 1..Len(c) : b[4 + i] = c[i]
    <2> HIDE DEF b, c
    <2>1. IsCells(Header) /\ IsCells(c)
        BY <1>1, <1>2
    <2>2. /\ IsCells(b) /\ Len(b) = Len(Header) + Len(c)
          /\ \A i \in 1..Len(Header) : b[i] = Header[i]
          /\ \A i \in 1..Len(c) : b[Len(Header) + i] = c[i]
        BY <1>3, <2>1, ConcatAt
    <2>3. QED BY <1>2, <2>2
<1>5. b[1] = BinMagic /\ b[2] = V0 /\ b[3] = DomainTag /\ b[4] = DomainVersion
    BY <1>2, <1>4
<1>6. BinaryCells(b)
    <2>1. TxidLength \in Nat
        BY CodecAssumption
    <2>2. \A i \in 1..4 : b[i] \in Nat
        BY <1>5 DEF BinMagic, V0, DomainTag, DomainVersion
    <2>3. \A i \in 5..4 + Len(c) : /\ i - 4 \in 1..Len(c) /\ 4 + (i - 4) = i
                                   /\ i \notin {TxidLength + 7, TxidLength + 8}
                                        => i - 4 \notin {TxidLength + 3, TxidLength + 4}
        BY <1>1, <2>1
    <2>4. \A i \in 5..4 + Len(c) : i \notin {TxidLength + 7, TxidLength + 8} => b[i] \in Nat
        <3> HIDE DEF b, c
        <3>1. QED BY <1>1, <1>4, <2>3 DEF SealCells
    <2>5. \A i \in 1..4 + Len(c) : i \in 1..4 \/ i \in 5..4 + Len(c)
        BY <1>1
    <2> HIDE DEF b, c
    <2>6. QED BY <1>4, <2>2, <2>4, <2>5 DEF BinaryCells
<1>7. SubSeq(b, 5, Len(b)) = c
    <2>1. Len(b) >= 4 /\ Len(b) - 4 = Len(c)
        BY <1>1, <1>4
    <2> HIDE DEF b, c
    <2>2. /\ IsCells(SubSeq(b, 5, Len(b))) /\ Len(SubSeq(b, 5, Len(b))) = Len(c)
          /\ \A i \in 1..Len(c) : SubSeq(b, 5, Len(b))[i] = b[4 + i]
        BY <1>6, <2>1, BehindHeader DEF SealCells
    <2>3. QED BY <1>1, <1>4, <2>2, CellsEqual
<1>8. SubSeq(b, 1, 4) = Header
    <2>1. 1 \in 1..Len(b) + 1 /\ 4 \in 1 - 1..Len(b)
        BY <1>1, <1>4
    <2> HIDE DEF b, c
    <2>2. /\ IsCells(SubSeq(b, 1, 4)) /\ Len(SubSeq(b, 1, 4)) = 1 + 4 - 1
          /\ \A i \in 1..1 + 4 - 1 : SubSeq(b, 1, 4)[i] = b[1 + i - 1]
        BY <1>4, <2>1, SubSeqAt
    <2>3. 1 + 4 - 1 = 4 /\ \A i \in 1..4 : 1 + i - 1 = i
        OBVIOUS
    <2>4. Len(SubSeq(b, 1, 4)) = 4 /\ \A i \in 1..4 : SubSeq(b, 1, 4)[i] = Header[i]
        BY <1>4, <2>2, <2>3
    <2>5. QED BY <1>2, <2>2, <2>4, CellsEqual
<1>9. QED BY <1>4, <1>5, <1>6, <1>7, <1>8

\* What is read of cells is a seal whose binary form starts them.
LEMMA BinaryAccepts ==
    ASSUME NEW b, BinaryCells(b), NEW s \in FromBinary(b)
    PROVE  /\ IsSeal(s) /\ IsPrefix(ToBinary(s), b)
           /\ s.owner_algo = "Dilithium5" => Dilithium5
           /\ s.p2mr_root = b[TxidLength + 7]
           /\ \A t \in FromBinary(b) : t = s
<1> DEFINE c == SubSeq(b, 5, Len(b))
           body == BodyBytes(s)
           w == ToBinary(s)
<1>1. Len(b) >= 4 /\ SubSeq(b, 1, 4) = Header /\ FromBinary(b) = DecodeBody(c)
    BY DEF FromBinary, Header
<1>2. IsCells(b) /\ Len(b) \in Nat /\ TxidLength \in Nat
    BY CodecAssumption DEF BinaryCells, IsCells
<1>3. /\ SealCells(c) /\ Len(c) = Len(b) - 4 /\ \A i \in 1..Len(b) - 4 : c[i] = b[4 + i]
    BY <1>1, BehindHeader
<1>4. /\ IsSeal(s) /\ IsPrefix(body, c) /\ (s.owner_algo = "Dilithium5" => Dilithium5)
      /\ s.p2mr_root = c[TxidLength + 3]
    BY <1>1, <1>3, DecodeAccepts
<1>5. \A t \in FromBinary(b) : t = s
    BY <1>1, <1>3, DecodeOne
<1>6. /\ IsCells(body) /\ Len(body) \in Nat /\ Len(body) >= TxidLength + 9
      /\ Len(body) <= Len(c) /\ \A i \in 1..Len(body) : body[i] = c[i]
    <2>1. IsCells(body) /\ Len(body) = TxidLength + 7 + Size(s.locator) + Size(s.policy)
        BY <1>4, BodyAt
    <2>2. Size(s.locator) \in 1..2 /\ Size(s.policy) \in 1..2
        BY DEF Size
    <2>3. Len(body) \in Nat /\ Len(body) >= TxidLength + 9
        BY <1>2, <2>1, <2>2
    <2>4. QED BY <1>3, <1>4, <2>1, <2>3, PrefixAt DEF SealCells
<1>7. s.p2mr_root = b[TxidLength + 7]
    <2>1. TxidLength + 3 \in 1..Len(b) - 4 /\ 4 + (TxidLength + 3) = TxidLength + 7
        BY <1>2, <1>3, <1>6
    <2>2. QED BY <1>3, <1>4, <2>1
<1>8. /\ IsCells(w) /\ Len(w) = 4 + Len(body) /\ SubSeq(w, 1, 4) = Header
      /\ \A i \in 1..Len(body) : w[4 + i] = body[i]
    BY <1>4, BinaryAt DEF BinaryCells
<1> HIDE DEF c, body, w
<1>9. \A i \in 1..4 : w[i] = b[i]
    <2>1. ASSUME NEW x, IsCells(x), Len(x) \in Nat, Len(x) >= 4
          PROVE  \A i \in 1..4 : SubSeq(x, 1, 4)[i] = x[i]
        <3>1. 1 \in 1..Len(x) + 1 /\ 4 \in 1 - 1..Len(x)
            BY <2>1
        <3>2. \A i \in 1..1 + 4 - 1 : SubSeq(x, 1, 4)[i] = x[1 + i - 1]
            BY <2>1, <3>1, SubSeqAt
        <3>3. 1 + 4 - 1 = 4 /\ \A i \in 1..4 : 1 + i - 1 = i
            OBVIOUS
        <3>4. QED BY <3>2, <3>3
    <2>2. Len(w) \in Nat /\ Len(w) >= 4
        BY <1>6, <1>8
    <2>3. (\A i \in 1..4 : SubSeq(w, 1, 4)[i] = w[i]) /\ (\A i \in 1..4 : SubSeq(b, 1, 4)[i] = b[i])
        BY <1>1, <1>2, <1>8, <2>1, <2>2
    <2>4. QED BY <1>1, <1>8, <2>3
<1>10. \A i \in 1..Len(w) : w[i] = b[i]
    <2>1. \A i \in 1..Len(body) : w[4 + i] = b[4 + i]
        BY <1>2, <1>3, <1>6, <1>8
    <2>2. \A i \in 5..Len(w) : i - 4 \in 1..Len(body) /\ 4 + (i - 4) = i
        BY <1>6, <1>8
    <2>3. \A i \in 5..Len(w) : w[i] = b[i]
        BY <2>1, <2>2
    <2>4. \A i \in 1..Len(w) : i \in 1..4 \/ i \in 5..Len(w)
        BY <1>6, <1>8
    <2>5. QED BY <1>9, <2>3, <2>4
<1>11. IsPrefix(w, b)
    <2>1. Len(w) <= Len(b)
        BY <1>2, <1>3, <1>6, <1>8
    <2>2. QED BY <1>2, <1>8, <1>10, <2>1, PrefixAt
<1>12. QED BY <1>4, <1>5, <1>7, <1>11 DEF w

\* What FromBinary makes of a seal's own binary form.
LEMMA BinaryOwn ==
    ASSUME NEW s, IsSeal(s)
    PROVE  FromBinary(ToBinary(s)) = IF s.owner_algo = "Dilithium5" /\ ~Dilithium5 THEN {} ELSE {s}
<1> DEFINE b == ToBinary(s)
<1>1. /\ Len(b) = 4 + Len(BodyBytes(s)) /\ SubSeq(b, 1, 4) = Header
      /\ SubSeq(b, 5, Len(b)) = BodyBytes(s)
    BY BinaryAt
<1>2. Len(BodyBytes(s)) \in Nat
    BY BodyIsSealCells DEF SealCells, IsCells
<1>3. Len(b) >= 4
    <2> HIDE DEF b
    <2>1. QED BY <1>1, <1>2
<1>4. FromBinary(b) = DecodeBody(BodyBytes(s))
    BY <1>1, <1>3 DEF FromBinary, Header
<1>5. QED BY <1>4, DecodeOwn

-----------------------------------------------------------------------------
(* Txids and payloads *)

\* A txid's text is that of the txid.
LEMMA TxidOwn ==
    ASSUME NEW txid \in [1..TxidLength -> Nat]
    PROVE  TxidFromText(TxidToText(txid)) = {txid}
<1> DEFINE n == TxidLength
           text == Reverse(txid)
<1>1. n \in Nat /\ IsCells(txid) /\ Len(txid) = n
    BY CodecAssumption DEF IsCells
<1>2. text = [i \in 1..n |-> txid[(n - i) + 1]]
    BY <1>1 DEF Reverse
<1> HIDE DEF text
<1>3. Len(text) = n
    BY <1>1, <1>2
<1>4. Reverse(text) = [i \in 1..n |-> text[(n - i) + 1]]
    BY <1>3 DEF Reverse
<1>5. \A i \in 1..n : (n - i) + 1 \in 1..n /\ (n - ((n - i) + 1)) + 1 = i
    BY <1>1
<1>6. \A i \in 1..n : text[(n - i) + 1] = txid[i]
    BY <1>2, <1>5
<1>7. Reverse(text) = txid
    <2>1. txid = [i \in 1..n |-> txid[i]]
        BY <1>1 DEF IsCells
    <2> HIDE DEF n
    <2>2. QED BY <1>4, <1>6, <2>1
<1>8. QED BY <1>3, <1>7 DEF TxidFromText, TxidToText, text

\* A payload.
IsCommitment(c) ==
    /\ c = [chain |-> c.chain, seal_txid |-> c.seal_txid, seal_vout |-> c.seal_vout, mpc |-> c.mpc]
    /\ c.chain \in Chains /\ c.seal_txid \in [1..TxidLength -> Nat]
    /\ c.seal_vout \in Nat /\ c.mpc \in Opaque

\* A binding digest tells chains and outpoints apart.
LEMMA DigestBinds ==
    ASSUME NEW c, NEW d, c.chain \in Chains, d.chain \in Chains, SealDigest(c) = SealDigest(d)
    PROVE  c.chain = d.chain /\ c.seal_txid = d.seal_txid /\ c.seal_vout = d.seal_vout
<1>1. \A j, k \in Chains : DomainStr[j] = DomainStr[k] => j = k
    BY Tables DEF Chains, DomainStr
<1>2. DomainStr[c.chain] = DomainStr[d.chain] /\ c.seal_txid = d.seal_txid /\ c.seal_vout = d.seal_vout
    BY DEF SealDigest
<1>3. QED BY <1>1, <1>2

\* The cells of a payload.
LEMMA PayloadAt ==
    ASSUME NEW c, IsCommitment(c)
    PROVE  LET b == EncodeCommitment(c)
               n == TxidLength
           IN  /\ IsCells(b) /\ Len(b) = n + 6
               /\ b[1] = CommitmentMagic /\ b[2] = CommitmentProtocolTag /\ b[3] = Chain[c.chain]
               /\ \A i \in 1..n : b[3 + i] = c.seal_txid[i]
               /\ b[n + 4] = c.seal_vout /\ b[n + 5] = c.mpc /\ b[n + 6] = SealDigest(c)
<1> DEFINE n == TxidLength
           a == <<CommitmentMagic, CommitmentProtocolTag, Chain[c.chain]>>
           z == <<c.seal_vout, c.mpc, SealDigest(c)>>
           p == a \o c.seal_txid
           q == p \o z
<1>1. n \in Nat /\ IsCells(c.seal_txid) /\ Len(c.seal_txid) = n
    BY CodecAssumption DEF IsCommitment, IsCells
<1>2. /\ IsCells(a) /\ Len(a) = 3
      /\ a[1] = CommitmentMagic /\ a[2] = CommitmentProtocolTag /\ a[3] = Chain[c.chain]
    BY TuplesAreCells
<1>3. IsCells(z) /\ Len(z) = 3 /\ z[1] = c.seal_vout /\ z[2] = c.mpc /\ z[3] = SealDigest(c)
    BY TuplesAreCells
<1>4. EncodeCommitment(c) = q
    BY DEF EncodeCommitment
<1> HIDE DEF a, z, n
<1>5. /\ IsCells(p) /\ Len(p) = 3 + n /\ (\A i \in 1..3 : p[i] = a[i])
      /\ \A i \in 1..n : p[3 + i] = c.seal_txid[i]
    <2>1. IsCells(a) /\ IsCells(c.seal_txid)
        BY <1>1, <1>2
    <2>2. /\ IsCells(p) /\ Len(p) = Len(a) + Len(c.seal_txid)
          /\ \A i \in 1..Len(a) : p[i] = a[i]
          /\ \A i \in 1..Len(c.seal_txid) : p[Len(a) + i] = c.seal_txid[i]
        BY <2>1, ConcatAt
    <2> HIDE DEF p
    <2>3. QED BY <1>1, <1>2, <2>2
<1> HIDE DEF p
<1>6. /\ IsCells(q) /\ Len(q) = (3 + n) + 3 /\ (\A i \in 1..3 + n : q[i] = p[i])
      /\ \A i \in 1..3 : q[(3 + n) + i] = z[i]
    <2>1. IsCells(p) /\ IsCells(z)
        BY <1>3, <1>5
    <2>2. /\ IsCells(q) /\ Len(q) = Len(p) + Len(z)
          /\ \A i \in 1..Len(p) : q[i] = p[i]
          /\ \A i \in 1..Len(z) : q[Len(p) + i] = z[i]
        BY <2>1, ConcatAt
    <2> HIDE DEF q
    <2>3. QED BY <1>3, <1>5, <2>2
<1> HIDE DEF q
<1>7. q[1] = a[1] /\ q[2] = a[2] /\ q[3] = a[3] /\ \A i \in 1..n : q[3 + i] = c.seal_txid[i]
    BY <1>1, <1>5, <1>6
<1>8. q[n + 4] = z[1] /\ q[n + 5] = z[2] /\ q[n + 6] = z[3] /\ Len(q) = n + 6
    BY <1>1, <1>6
<1>9. QED BY <1>2, <1>3, <1>4, <1>6, <1>7, <1>8 DEF n

\* The cells of a payload's script.
LEMMA ScriptAt ==
    ASSUME NEW c, IsCommitment(c)
    PROVE  LET spk == OpReturnScript(EncodeCommitment(c))
               n == TxidLength
           IN  /\ IsCells(spk) /\ Len(spk) = n + 9
               /\ spk[1] = OpReturn /\ spk[2] = PushData1 /\ spk[3] = n + 6
               /\ \A i \in 1..n + 6 : spk[3 + i] = EncodeCommitment(c)[i]
               /\ Strip(spk) = EncodeCommitment(c)
<1> DEFINE n == TxidLength
           b == EncodeCommitment(c)
           a == <<OpReturn, PushData1, Len(b)>>
           spk == OpReturnScript(b)
<1>1. n \in Nat /\ IsCells(b) /\ Len(b) = n + 6
    BY CodecAssumption, PayloadAt
<1>2. IsCells(a) /\ Len(a) = 3 /\ a[1] = OpReturn /\ a[2] = PushData1 /\ a[3] = Len(b)
    BY TuplesAreCells
<1>3. spk = a \o b
    BY DEF OpReturnScript
<1> HIDE DEF a, b, spk
<1>4. /\ IsCells(spk) /\ Len(spk) = n + 9 /\ (\A i \in 1..3 : spk[i] = a[i])
      /\ \A i \in 1..n + 6 : spk[3 + i] = b[i]
    <2>1. IsCells(a) /\ IsCells(b)
        BY <1>1, <1>2
    <2>2. /\ IsCells(spk) /\ Len(spk) = Len(a) + Len(b)
          /\ \A i \in 1..Len(a) : spk[i] = a[i]
          /\ \A i \in 1..Len(b) : spk[Len(a) + i] = b[i]
        BY <1>3, <2>1, ConcatAt
    <2>3. QED BY <1>1, <1>2, <2>2
<1>5. spk[1] = OpReturn /\ spk[2] = PushData1 /\ spk[3] = n + 6
    BY <1>1, <1>2, <1>4
<1>6. SubSeq(spk, 4, Len(spk)) = b
    <2>1. 4 \in 1..Len(spk) + 1 /\ Len(spk) \in 4 - 1..Len(spk)
        BY <1>1, <1>4
    <2>2. /\ IsCells(SubSeq(spk, 4, Len(spk))) /\ Len(SubSeq(spk, 4, Len(spk))) = 1 + Len(spk) - 4
          /\ \A i \in 1..1 + Len(spk) - 4 : SubSeq(spk, 4, Len(spk))[i] = spk[4 + i - 1]
        BY <1>4, <2>1, SubSeqAt
    <2>3. 1 + Len(spk) - 4 = n + 6 /\ \A i \in 1..n + 6 : 4 + i - 1 = 3 + i
        BY <1>1, <1>4
    <2>4. QED BY <1>1, <1>4, <2>2, <2>3, CellsEqual
<1>7. Strip(spk) = b
    <2>1. ~(Len(spk) < 2 \/ spk[1] # OpReturn) /\ ~(spk[2] < PushData1)
        BY <1>1, <1>4, <1>5 DEF PushData1
    <2>2. spk[2] = PushData1 /\ Len(spk) >= 3 /\ Len(spk) = 3 + spk[3]
        BY <1>1, <1>4, <1>5
    <2>3. QED BY <1>6, <2>1, <2>2 DEF Strip
<1>8. QED BY <1>4, <1>5, <1>7 DEF b, spk

\* A payload's own script is read as that payload.
LEMMA PayloadOwn ==
    ASSUME NEW c, IsCommitment(c)
    PROVE  DecodeCommitment(Strip(OpReturnScript(EncodeCommitment(c)))) = {c}
<1> DEFINE n == TxidLength
           b == EncodeCommitment(c)
           made(chain) == [chain |-> chain, seal_txid |-> SubSeq(b, 4, n + 3),
                           seal_vout |-> b[n + 4], mpc |-> b[n + 5]]
<1>1. n \in Nat
    BY CodecAssumption
<1>2. /\ IsCells(b) /\ Len(b) = n + 6
      /\ b[1] = CommitmentMagic /\ b[2] = CommitmentProtocolTag /\ b[3] = Chain[c.chain]
      /\ \A i \in 1..n : b[3 + i] = c.seal_txid[i]
      /\ b[n + 4] = c.seal_vout /\ b[n + 5] = c.mpc /\ b[n + 6] = SealDigest(c)
    BY PayloadAt
<1> HIDE DEF b
<1>3. SubSeq(b, 4, n + 3) = c.seal_txid
    <2>1. 4 \in 1..Len(b) + 1 /\ n + 3 \in 4 - 1..Len(b)
        BY <1>1, <1>2
    <2>2. /\ IsCells(SubSeq(b, 4, n + 3)) /\ Len(SubSeq(b, 4, n + 3)) = 1 + (n + 3) - 4
          /\ \A i \in 1..1 + (n + 3) - 4 : SubSeq(b, 4, n + 3)[i] = b[4 + i - 1]
        BY <1>2, <2>1, SubSeqAt
    <2>3. 1 + (n + 3) - 4 = n /\ \A i \in 1..n : 4 + i - 1 = 3 + i
        BY <1>1
    <2>4. IsCells(c.seal_txid) /\ Len(c.seal_txid) = n
        BY <1>1 DEF IsCommitment, IsCells
    <2> HIDE DEF n
    <2>5. \A i \in 1..n : SubSeq(b, 4, n + 3)[i] = c.seal_txid[i]
        BY <1>2, <2>2, <2>3
    <2>6. QED BY <2>2, <2>3, <2>4, <2>5, CellsEqual
<1>4. FromByte(Chain, b[3]) = {c.chain}
    <2>1. c.chain \in DOMAIN Chain
        BY DEF IsCommitment, Chains
    <2>2. QED BY <1>2, <2>1, TablesInjective DEF FromByte
<1>5. made(c.chain) = c
    BY <1>2, <1>3 DEF IsCommitment
<1>6. {made(chain) : chain \in FromByte(Chain, b[3])} = {c}
    <2>1. {made(chain) : chain \in {c.chain}} = {made(c.chain)}
        OBVIOUS
    <2> HIDE DEF made
    <2>2. QED BY <1>4, <1>5, <2>1
<1>7. DecodeCommitment(b) = {x \in {made(chain) : chain \in FromByte(Chain, b[3])} :
                                 b[n + 6] = SealDigest(x)}
    BY <1>2 DEF DecodeCommitment
<1>8. DecodeCommitment(b) = {c}
    BY <1>2, <1>6, <1>7
<1>9. QED BY <1>8, ScriptAt DEF b

\* What is stripped and accepted ends in the digest of what it is read as.
LEMMA StrippedDigest ==
    ASSUME NEW spk, IsCells(spk), NEW c \in DecodeCommitment(Strip(spk))
    PROVE  spk[Len(spk)] = SealDigest(c) /\ c.chain \in Chains
<1> DEFINE n == TxidLength
           b == Strip(spk)
<1>1. n \in Nat /\ Len(spk) \in Nat
    BY CodecAssumption DEF IsCells
<1>2. Len(b) = n + 6 /\ b[n + 6] = SealDigest(c) /\ c.chain \in Chains
    BY DEF DecodeCommitment, FromByte, Chains
<1>3. b # <<>>
    BY <1>1, <1>2
<1>4. ASSUME NEW m \in 3..4, b = SubSeq(spk, m, Len(spk)), Len(spk) >= m - 1
      PROVE  b[n + 6] = spk[Len(spk)]
    <2>1. m \in Nat /\ m \in 1..Len(spk) + 1 /\ Len(spk) \in m - 1..Len(spk)
        BY <1>1, <1>4
    <2>2. /\ Len(b) = 1 + Len(spk) - m
          /\ \A i \in 1..1 + Len(spk) - m : b[i] = spk[m + i - 1]
        BY <1>4, <2>1, SubSeqAt
    <2> HIDE DEF b
    <2>3. Len(spk) = n + 5 + m
        BY <1>1, <1>2, <2>1, <2>2
    <2>4. n + 6 \in 1..1 + Len(spk) - m /\ m + (n + 6) - 1 = Len(spk)
        BY <1>1, <2>1, <2>3
    <2>5. QED BY <2>2, <2>4
<1>5. \/ b = SubSeq(spk, 3, Len(spk)) /\ Len(spk) >= 2
      \/ b = SubSeq(spk, 4, Len(spk)) /\ Len(spk) >= 3
    BY <1>1, <1>3 DEF Strip
<1>6. \E m \in 3..4 : b = SubSeq(spk, m, Len(spk)) /\ Len(spk) >= m - 1
    <2> HIDE DEF b
    <2>1. 3 \in 3..4 /\ 4 \in 3..4 /\ 3 - 1 = 2 /\ 4 - 1 = 3
        OBVIOUS
    <2>2. QED BY <1>5, <2>1
<1>7. b[n + 6] = spk[Len(spk)]
    BY <1>4, <1>6
<1>8. QED BY <1>2, <1>7

-----------------------------------------------------------------------------
(* The inductive invariant *)

\* What is left of a message: of a binary seal, where a hash stood, that hash or
\* a damaged one, and elsewhere bytes.  A text that was damaged is not read.
Carried(cells, original) ==
    /\ IsCells(cells)
    /\ faults = 0 => cells = original
    /\ message.form = "binary" =>
          \A i \in 1..Len(cells) :
              IF i \in HashPositions(message.form) THEN cells[i] \in {Junk, original[i]} ELSE cells[i] \in Nat

\* The message is what was written of the seal, or what is left of that.
Message ==
    /\ message = [form |-> message.form, cells |-> message.cells, intact |-> message.intact]
    /\ message.form \in Forms /\ message.intact = (faults = 0)
    /\ stage \in {"sent", "read"} =>
          \E s \in seal : \E original \in Written(message.form, s) : Carried(message.cells, original)

\* One seal, from its making on.
SealMade ==
    /\ stage = "built" => seal = {}
    /\ stage # "built" => \E s \in Seals({tree.root}) : seal = {s}

\* What a reader makes of the message.
Reading ==
    CASE message.form = "binary" -> FromBinary(message.cells)
      [] message.form = "text" -> IF message.intact THEN FromText(message.cells) ELSE {}
      [] message.form = "txid" -> TxidFromText(message.cells)
      [] message.form = "payload" -> DecodeCommitment(Strip(message.cells))

\* What was read is what the message says.
GotRead == got = IF stage = "read" THEN Reading ELSE {}

\* The inductive invariant.
ExchangeInv ==
    /\ Built /\ SealMade /\ Message /\ GotRead
    /\ stage \in {"built", "made", "sent", "read"} /\ faults \in 0..MaxFaults
    /\ stage \in {"built", "made"} => faults = 0

\* The seals of the model are seals.
LEMMA SealsAre ==
    ASSUME NEW roots, NEW s \in Seals(roots)
    PROVE  IsSeal(s) /\ s.p2mr_root \in roots /\ s.script_leaf_hash = LeafHash
<1>1. s = [chain |-> s.chain, txid |-> s.txid, vout |-> s.vout, p2mr_root |-> s.p2mr_root,
           script_leaf_hash |-> s.script_leaf_hash, owner_algo |-> s.owner_algo,
           locator |-> s.locator, policy |-> s.policy]
    BY DEF Seals
<1>2. /\ s.chain \in Chains /\ s.txid \in Txids /\ s.vout \in Numbers /\ s.p2mr_root \in roots
      /\ s.script_leaf_hash = LeafHash /\ s.owner_algo \in DOMAIN Algo
      /\ s.locator \in {Tagged(k, n) : k \in DOMAIN LocatorTag, n \in Numbers}
      /\ s.policy \in {Tagged(k, n) : k \in DOMAIN PolicyTag, n \in Numbers}
    BY DEF Seals
<1>3. IsTagged(LocatorTag, s.locator) /\ IsTagged(PolicyTag, s.policy)
    BY <1>2, ExchangeAssumption DEF IsTagged
<1>4. s.txid \in [1..TxidLength -> Nat] /\ s.vout \in Nat
    <2>1. Txids \subseteq [1..TxidLength -> Nat] /\ Numbers \subseteq Nat
        BY ExchangeAssumption
    <2>2. s.txid \in Txids /\ s.vout \in Numbers
        BY <1>2
    <2>3. QED BY <2>1, <2>2, Zenon
<1>5. QED BY <1>1, <1>2, <1>3, <1>4 DEF IsSeal

\* The payload for a seal is one.
LEMMA CommitmentsAre ==
    ASSUME NEW s, IsSeal(s), NEW m \in Mpcs
    PROVE  IsCommitment(NewCommitment(s, m))
BY ExchangeAssumption DEF IsSeal, IsCommitment, NewCommitment

\* So is one for any other outpoint.
LEMMA HeldAre ==
    ASSUME NEW held \in Held, NEW m \in Mpcs
    PROVE  IsCommitment(NewCommitment(held, m))
<1>1. /\ held.chain \in Chains /\ held.txid \in [1..TxidLength -> 0..MaxByte]
      /\ held.vout \in 0..MaxByte
    BY DEF Held
<1>2. MaxByte \in Nat /\ m \in Opaque
    BY ExchangeAssumption
<1>3. held.txid \in [1..TxidLength -> Nat] /\ held.vout \in Nat
    BY <1>1, <1>2
<1>4. QED BY <1>1, <1>2, <1>3 DEF IsCommitment, NewCommitment

\* What is written is cells; of a binary seal, bytes where no hash stands.
LEMMA WrittenIs ==
    ASSUME NEW s, IsSeal(s), NEW form \in Forms, NEW original \in Written(form, s)
    PROVE  /\ IsCells(original)
           /\ form = "binary" =>
                 \A i \in 1..Len(original) : i \notin HashPositions(form) => original[i] \in Nat
<1>1. CASE form = "binary"
    <2>1. original = ToBinary(s) /\ BinaryCells(original)
        BY <1>1, BinaryAt DEF Written
    <2>2. QED BY <1>1, <2>1 DEF BinaryCells, HashPositions
<1>2. CASE form = "text"
    <2>1. original = BodyBytes(s)
        BY <1>2 DEF Written
    <2>2. QED BY <1>2, <2>1, BodyIsSealCells DEF SealCells
<1>3. CASE form = "txid"
    <2> DEFINE n == TxidLength
    <2>1. original = Reverse(s.txid) /\ n \in Nat
        BY <1>3, CodecAssumption DEF Written, TxidToText
    <2>2. s.txid \in [1..n -> Nat] /\ Len(s.txid) = n
        BY <2>1 DEF IsSeal
    <2>3. original = [i \in 1..n |-> s.txid[(n - i) + 1]]
        BY <2>1, <2>2 DEF Reverse
    <2>4. IsCells(original)
        BY <2>1, <2>3 DEF IsCells
    <2>5. QED BY <1>3, <2>4
<1>4. CASE form = "payload"
    <2>1. PICK m \in Mpcs : original = OpReturnScript(EncodeCommitment(NewCommitment(s, m)))
        BY <1>4 DEF Written
    <2>2. IsCells(original)
        BY <2>1, CommitmentsAre, ScriptAt
    <2>3. QED BY <1>4, <2>2
<1>5. QED BY <1>1, <1>2, <1>3, <1>4 DEF Forms

\* Damage of one cell, or of the end, leaves the others.
LEMMA DamageCarries ==
    ASSUME ExchangeInv, stage = "sent", NEW cells, Damage(cells), IsCells(cells),
           message.form = "binary" => \A i \in 1..Len(cells) :
               \/ i \in 1..Len(message.cells) /\ cells[i] = message.cells[i]
               \/ cells[i] \in DamagedCells(i)
    PROVE  ExchangeInv'
<1>1. /\ message' = [form |-> message.form, cells |-> cells, intact |-> FALSE]
      /\ faults' = faults + 1 /\ faults < MaxFaults /\ stage' = stage /\ seal' = seal
      /\ tree' = tree /\ got' = got
    <2>1. message = [form |-> message.form, cells |-> message.cells, intact |-> message.intact]
        BY DEF ExchangeInv, Message
    <2>2. message' = [message EXCEPT !.cells = cells, !.intact = FALSE]
        BY DEF Damage
    <2>3. message' = [form |-> message.form, cells |-> cells, intact |-> FALSE]
        BY <2>1, <2>2
    <2>4. /\ faults' = faults + 1 /\ faults < MaxFaults /\ stage' = stage /\ seal' = seal
          /\ tree' = tree /\ got' = got
        BY DEF Damage
    <2>5. QED BY <2>3, <2>4
<1>2. PICK s \in seal : \E o \in Written(message.form, s) : Carried(message.cells, o)
    BY DEF ExchangeInv, Message
<1>3. PICK original \in Written(message.form, s) : Carried(message.cells, original)
    BY <1>2
<1>4. /\ message'.form = message.form /\ message'.cells = cells /\ message'.intact = FALSE
    BY <1>1
<1>5. faults \in Nat /\ MaxFaults \in Nat /\ MaxByte \in Nat
    BY ExchangeAssumption DEF ExchangeInv
<1>6. faults' \in 0..MaxFaults /\ faults' # 0
    BY <1>1, <1>5
<1>7. message.form = "binary" =>
          \A i \in 1..Len(cells) :
              IF i \in HashPositions(message.form) THEN cells[i] \in {Junk, original[i]} ELSE cells[i] \in Nat
    BY <1>3, <1>5 DEF Carried, DamagedCells
<1>8. Carried(cells, original)'
    <2>1. /\ IsCells(cells)
          /\ faults' # 0
          /\ message'.form = "binary" =>
                \A i \in 1..Len(cells) :
                    IF i \in HashPositions(message'.form) THEN cells[i] \in {Junk, original[i]} ELSE cells[i] \in Nat
        BY <1>4, <1>6, <1>7
    <2>2. QED BY <2>1 DEF Carried
<1>9. Message'
    BY <1>1, <1>2, <1>3, <1>4, <1>6, <1>8 DEF Message, ExchangeInv
<1>10. QED BY <1>1, <1>6, <1>9 DEF ExchangeInv, Built, SealMade, GotRead

\* Every step keeps the invariant.
LEMMA ExchangeStep ==
    ASSUME ExchangeInv, [Next]_exchangeVars
    PROVE  ExchangeInv'
<1>1. ASSUME MakeSeal
      PROVE  ExchangeInv'
    <2>1. PICK s \in Seals({tree.root}) : seal' = {s}
        BY <1>1 DEF MakeSeal
    <2>2. stage = "built" /\ stage' = "made" /\ tree' = tree /\ message' = message
          /\ faults' = faults /\ got' = got
        BY <1>1 DEF MakeSeal
    <2>3. SealMade'
        BY <2>1, <2>2 DEF SealMade
    <2>4. Message'
        BY <2>2 DEF Message, ExchangeInv
    <2>5. QED BY <2>2, <2>3, <2>4 DEF ExchangeInv, Built, GotRead
<1>2. ASSUME NEW form \in Forms, Send(form)
      PROVE  ExchangeInv'
    <2> DEFINE SentAs(cells) == message' = [form |-> form, cells |-> cells, intact |-> TRUE]
    <2>1. PICK s \in seal : \E cells \in Written(form, s) : SentAs(cells)
        BY <1>2 DEF Send
    <2>2. PICK cells \in Written(form, s) : SentAs(cells)
        BY <2>1
    <2>3. /\ stage = "made" /\ stage' = "sent" /\ tree' = tree /\ seal' = seal
          /\ faults' = faults /\ got' = got
        BY <1>2 DEF Send
    <2>4. message'.form = form /\ message'.cells = cells /\ message'.intact = TRUE
        BY <2>2
    <2>5. IsSeal(s)
        BY <2>3, SealsAre DEF ExchangeInv, SealMade
    <2>6. faults = 0
        BY <2>3 DEF ExchangeInv
    <2>7. Carried(cells, cells)'
        <3>1. /\ IsCells(cells)
              /\ form = "binary" =>
                    \A i \in 1..Len(cells) : i \notin HashPositions(form) => cells[i] \in Nat
            BY <2>5, WrittenIs
        <3>2. /\ IsCells(cells)
              /\ message'.form = "binary" =>
                    \A i \in 1..Len(cells) :
                        IF i \in HashPositions(message'.form) THEN cells[i] \in {Junk, cells[i]}
                        ELSE cells[i] \in Nat
            BY <2>4, <3>1
        <3>3. QED BY <3>2 DEF Carried
    <2>8. Message'
        BY <2>2, <2>3, <2>4, <2>6, <2>7 DEF Message
    <2>9. QED BY <2>3, <2>6, <2>8 DEF ExchangeInv, Built, SealMade, GotRead
<1>3. ASSUME Truncate
      PROVE  ExchangeInv'
    <2>1. PICK n \in 0..Len(message.cells) - 1 : Damage(SubSeq(message.cells, 1, n))
        BY <1>3 DEF Truncate
    <2>2. stage = "sent" /\ IsCells(message.cells)
        BY <2>1 DEF Damage, ExchangeInv, Message, Carried
    <2> DEFINE cells == SubSeq(message.cells, 1, n)
    <2>3. /\ IsCells(cells) /\ Len(cells) = 1 + n - 1
          /\ \A i \in 1..1 + n - 1 : cells[i] = message.cells[1 + i - 1]
        <3>1. 1 \in 1..Len(message.cells) + 1 /\ n \in 1 - 1..Len(message.cells)
            BY <2>2 DEF IsCells
        <3>2. QED BY <2>2, <3>1, SubSeqAt
    <2>4. Len(message.cells) \in Nat /\ n \in Nat /\ n < Len(message.cells)
        BY <2>2 DEF IsCells
    <2> HIDE DEF cells
    <2>5. Len(cells) = n /\ \A i \in 1..n : i \in 1..Len(message.cells) /\ cells[i] = message.cells[i]
        BY <2>3, <2>4
    <2>6. Damage(cells)
        BY <2>1 DEF cells
    <2>7. QED BY <2>2, <2>3, <2>5, <2>6, DamageCarries
<1>4. ASSUME Prolong
      PROVE  ExchangeInv'
    <2>1. PICK cell \in DamagedCells(Len(message.cells) + 1) : Damage(Append(message.cells, cell))
        BY <1>4 DEF Prolong
    <2>2. stage = "sent" /\ IsCells(message.cells)
        BY <2>1 DEF Damage, ExchangeInv, Message, Carried
    <2> DEFINE cells == Append(message.cells, cell)
               n == Len(message.cells)
    <2>3. n \in Nat
        BY <2>2 DEF IsCells
    <2>4. /\ IsCells(cells) /\ Len(cells) = n + 1 /\ cells[n + 1] = cell
          /\ \A i \in 1..n : cells[i] = message.cells[i]
        <3>1. PICK S : message.cells \in Seq(S)
            BY <2>2, CellsAreSeq
        <3> DEFINE T == S \cup {cell}
        <3>2. message.cells \in Seq(T) /\ cell \in T
            BY <3>1, SeqMonotonic
        <3> HIDE DEF T
        <3>3. /\ cells \in Seq(T) /\ Len(cells) = n + 1 /\ cells[n + 1] = cell
              /\ \A i \in 1..n : cells[i] = message.cells[i]
            BY <3>2, AppendProperties
        <3>4. QED BY <3>3, SeqIsCells
    <2> HIDE DEF cells
    <2>5. \A i \in 1..Len(cells) : \/ i \in 1..n /\ cells[i] = message.cells[i]
                                   \/ cells[i] \in DamagedCells(i)
        <3>1. \A i \in 1..n + 1 : i \in 1..n \/ i = n + 1
            BY <2>3
        <3>2. cells[n + 1] \in DamagedCells(n + 1)
            BY <2>4
        <3> HIDE DEF n
        <3>3. QED BY <2>4, <3>1, <3>2
    <2>6. Damage(cells)
        BY <2>1 DEF cells
    <2>7. QED BY <2>2, <2>4, <2>5, <2>6, DamageCarries
<1>5. ASSUME Alter
      PROVE  ExchangeInv'
    <2>1. PICK k \in DOMAIN message.cells : \E cell \in DamagedCells(k) :
              Damage([message.cells EXCEPT ![k] = cell])
        BY <1>5 DEF Alter
    <2>2. PICK cell \in DamagedCells(k) : Damage([message.cells EXCEPT ![k] = cell])
        BY <2>1
    <2>3. stage = "sent" /\ IsCells(message.cells)
        BY <2>2 DEF Damage, ExchangeInv, Message, Carried
    <2> DEFINE cells == [message.cells EXCEPT ![k] = cell]
    <2>4. cells = [i \in 1..Len(message.cells) |-> IF i = k THEN cell ELSE message.cells[i]]
          /\ Len(message.cells) \in Nat
        BY <2>3 DEF IsCells
    <2> HIDE DEF cells
    <2>5. IsCells(cells) /\ Len(cells) = Len(message.cells)
        BY <2>4 DEF IsCells
    <2>6. \A i \in 1..Len(cells) : \/ i \in 1..Len(message.cells) /\ cells[i] = message.cells[i]
                                   \/ cells[i] \in DamagedCells(i)
        BY <2>4, <2>5
    <2>7. Damage(cells)
        BY <2>2 DEF cells
    <2>8. QED BY <2>3, <2>5, <2>6, <2>7, DamageCarries
<1>6. ASSUME Rebind
      PROVE  ExchangeInv'
    <2>1. message.form = "payload"
        BY <1>6 DEF Rebind
    <2>2. PICK held \in Others, m \in Mpcs : Damage(OpReturnScript(EncodeCommitment(NewCommitment(held, m))))
        BY <1>6 DEF Rebind
    <2>3. IsCommitment(NewCommitment(held, m))
        BY HeldAre, ExchangeAssumption
    <2> DEFINE cells == OpReturnScript(EncodeCommitment(NewCommitment(held, m)))
    <2>4. IsCells(cells)
        BY <2>3, ScriptAt
    <2> HIDE DEF cells
    <2>5. Damage(cells)
        BY <2>2 DEF cells
    <2>6. stage = "sent"
        BY <2>5 DEF Damage
    <2>7. QED BY <2>1, <2>4, <2>5, <2>6, DamageCarries
<1>7. ASSUME Read
      PROVE  ExchangeInv'
    <2>1. /\ stage = "sent" /\ stage' = "read" /\ tree' = tree /\ seal' = seal
          /\ message' = message /\ faults' = faults
        BY <1>7 DEF Read
    <2>2. got' = Reading
        BY <1>7 DEF Read, Reading
    <2>3. GotRead'
        BY <2>1, <2>2 DEF GotRead, Reading
    <2>4. Message'
        BY <2>1 DEF Message, ExchangeInv, Carried
    <2>5. QED BY <2>1, <2>3, <2>4 DEF ExchangeInv, Built, SealMade
<1>8. ASSUME UNCHANGED exchangeVars
      PROVE  ExchangeInv'
    <2>1. /\ stage' = stage /\ tree' = tree /\ seal' = seal /\ message' = message
          /\ faults' = faults /\ got' = got
        BY <1>8 DEF exchangeVars
    <2>2. GotRead'
        BY <2>1 DEF GotRead, Reading, ExchangeInv
    <2>3. Message'
        BY <2>1 DEF Message, Carried, ExchangeInv
    <2>4. QED BY <2>1, <2>2, <2>3 DEF ExchangeInv, Built, SealMade
<1>9. QED BY <1>1, <1>2, <1>3, <1>4, <1>5, <1>6, <1>7, <1>8 DEF Next

\* The initial states satisfy the invariant.
LEMMA ExchangeInit == Init => ExchangeInv
<1> SUFFICES ASSUME Init PROVE ExchangeInv
    OBVIOUS
<1>1. Built
    BY DEF Init, Built
<1>2. Message
    BY DEF Init, Message, Forms
<1>3. faults \in 0..MaxFaults
    BY ExchangeAssumption DEF Init
<1>4. QED BY <1>1, <1>2, <1>3 DEF Init, ExchangeInv, SealMade, GotRead

-----------------------------------------------------------------------------
(* What the invariant implies *)

\* What was sent, once it was sent.
LEMMA Sent ==
    ASSUME ExchangeInv, stage = "read"
    PROVE  \E s \in Seals({tree.root}) : \E original \in Written(message.form, s) :
               /\ seal = {s} /\ IsSeal(s) /\ s.p2mr_root = tree.root /\ s.script_leaf_hash = LeafHash
               /\ Carried(message.cells, original) /\ got = Reading
               /\ message.intact = (faults = 0)
<1>1. PICK s \in Seals({tree.root}) : seal = {s}
    BY DEF ExchangeInv, SealMade
<1>2. PICK original \in Written(message.form, s) : Carried(message.cells, original)
    BY <1>1 DEF ExchangeInv, Message
<1>3. IsSeal(s) /\ s.p2mr_root = tree.root /\ s.script_leaf_hash = LeafHash
    BY SealsAre
<1>4. QED BY <1>1, <1>2, <1>3 DEF ExchangeInv, GotRead, Message

\* A seal that is read is one, is written as what was read, has the tree's
\* root or a damaged one, is gated, and is the only one.
LEMMA SealsRead ==
    ASSUME ExchangeInv, SealRead, NEW t \in got
    PROVE  /\ IsSeal(t) /\ t.p2mr_root \in {Junk, tree.root}
           /\ t.owner_algo = "Dilithium5" => Dilithium5
           /\ IsPrefix(IF message.form = "binary" THEN ToBinary(t) ELSE BodyBytes(t), message.cells)
           /\ \A u \in got : u = t
<1>1. stage = "read" /\ message.form \in {"binary", "text"}
    BY DEF SealRead
<1>2. PICK s \in Seals({tree.root}) : \E o \in Written(message.form, s) :
         /\ seal = {s} /\ IsSeal(s) /\ s.p2mr_root = tree.root
         /\ Carried(message.cells, o) /\ got = Reading /\ message.intact = (faults = 0)
    BY <1>1, Sent
<1>3. PICK original \in Written(message.form, s) :
          /\ seal = {s} /\ IsSeal(s) /\ s.p2mr_root = tree.root
          /\ Carried(message.cells, original) /\ got = Reading /\ message.intact = (faults = 0)
    BY <1>2
<1> DEFINE b == message.cells
           n == TxidLength
<1>4. CASE message.form = "binary"
    <2>1. got = FromBinary(b) /\ original = ToBinary(s)
        BY <1>3, <1>4 DEF Reading, Written
    <2>2. HashPositions(message.form) = {n + 7, n + 8} /\ n \in Nat \ {0}
        BY <1>4, CodecAssumption DEF HashPositions
    <2>3. BinaryCells(b)
        BY <1>3, <1>4, <2>2 DEF Carried, BinaryCells
    <2>4. /\ IsSeal(t) /\ IsPrefix(ToBinary(t), b) /\ (t.owner_algo = "Dilithium5" => Dilithium5)
          /\ t.p2mr_root = b[n + 7] /\ \A u \in got : u = t
        BY <2>1, <2>3, BinaryAccepts
    <2>5. /\ Len(ToBinary(t)) = 4 + Len(BodyBytes(t)) /\ IsCells(ToBinary(t))
          /\ Len(ToBinary(s)) = 4 + Len(BodyBytes(s)) /\ ToBinary(s)[4 + (n + 3)] = BodyBytes(s)[n + 3]
          /\ BodyBytes(s)[n + 3] = s.p2mr_root
          /\ Len(BodyBytes(t)) = n + 7 + Size(t.locator) + Size(t.policy)
        <3>1. /\ Len(BodyBytes(s)) = n + 7 + Size(s.locator) + Size(s.policy)
              /\ Len(BodyBytes(t)) = n + 7 + Size(t.locator) + Size(t.policy)
              /\ BodyBytes(s)[n + 3] = s.p2mr_root
            BY <1>3, <2>4, BodyAt
        <3>2. Size(s.locator) \in 1..2 /\ Size(s.policy) \in 1..2
            BY DEF Size
        <3>3. n + 3 \in 1..Len(BodyBytes(s))
            BY <2>2, <3>1, <3>2
        <3>4. QED BY <1>3, <2>4, <3>1, <3>3, BinaryAt DEF BinaryCells
    <2>6. original[n + 7] = tree.root
        <3>1. 4 + (n + 3) = n + 7
            BY <2>2
        <3>2. QED BY <1>3, <2>1, <2>5, <3>1
    <2>7. n + 7 \in 1..Len(b)
        <3>1. Size(t.locator) \in 1..2 /\ Size(t.policy) \in 1..2
            BY DEF Size
        <3>2. Len(ToBinary(t)) \in Nat /\ Len(ToBinary(t)) >= n + 7
            BY <2>2, <2>5, <3>1
        <3>3. Len(ToBinary(t)) <= Len(b) /\ Len(b) \in Nat
            BY <2>3, <2>4, <2>5, PrefixAt DEF BinaryCells, IsCells
        <3>4. QED BY <2>2, <3>2, <3>3
    <2>8. b[n + 7] \in {Junk, original[n + 7]}
        BY <1>3, <1>4, <2>2, <2>7 DEF Carried
    <2>9. QED BY <1>4, <2>4, <2>6, <2>8
<1>5. CASE message.form = "text"
    <2>1. message.intact /\ got = FromText(b) /\ original = BodyBytes(s)
        BY <1>3, <1>5 DEF Reading, Written
    <2>2. b = BodyBytes(s)
        BY <1>3, <2>1 DEF Carried
    <2>3. got = DecodeBody(BodyBytes(s))
        BY <1>3, <2>1, <2>2, BodyIsSealCells DEF FromText
    <2>4. t = s /\ (t.owner_algo = "Dilithium5" => Dilithium5) /\ \A u \in got : u = t
        BY <1>3, <2>3, DecodeOwn
    <2>5. IsPrefix(b, b)
        <3>1. IsCells(b) /\ Len(b) \in Nat
            BY <1>3 DEF Carried, IsCells
        <3>2. QED BY <3>1, PrefixAt
    <2>6. QED BY <1>3, <1>5, <2>2, <2>4, <2>5
<1>6. QED BY <1>1, <1>4, <1>5

\* Undamaged, each form is read as its own.
LEMMA InvRoundTrip == ExchangeInv => RoundTrip
<1> SUFFICES ASSUME ExchangeInv, stage = "read", faults = 0, NEW s \in seal
             PROVE  CASE message.form = "txid" -> got = {s.txid}
                      [] message.form = "payload" ->
                            \E m \in Mpcs : got = {NewCommitment(s, m)} /\ got = DecodeFor(message.cells, s)
                      [] OTHER -> got = IF s.owner_algo = "Dilithium5" /\ ~Dilithium5 THEN {} ELSE {s}
    BY DEF RoundTrip
<1>1. PICK original \in Written(message.form, s) :
          IsSeal(s) /\ message.cells = original /\ got = Reading /\ message.intact = TRUE
    BY Sent DEF Carried
<1>2. CASE message.form = "txid"
    <2>1. got = TxidFromText(TxidToText(s.txid))
        BY <1>1, <1>2 DEF Reading, Written
    <2>2. got = {s.txid}
        BY <1>1, <2>1, TxidOwn DEF IsSeal
    <2>3. QED BY <1>2, <2>2
<1>3. CASE message.form = "payload"
    <2>1. PICK m \in Mpcs : original = OpReturnScript(EncodeCommitment(NewCommitment(s, m)))
        BY <1>1, <1>3 DEF Written
    <2>2. got = {NewCommitment(s, m)} /\ DecodeCommitment(Strip(message.cells)) = {NewCommitment(s, m)}
        BY <1>1, <1>3, <2>1, CommitmentsAre, PayloadOwn DEF Reading
    <2>3. VerifyAgainstSeal(NewCommitment(s, m), s)
        BY DEF VerifyAgainstSeal, NewCommitment
    <2>4. DecodeFor(message.cells, s) = {NewCommitment(s, m)}
        BY <2>2, <2>3 DEF DecodeFor
    <2>5. QED BY <1>3, <2>2, <2>4
<1>4. CASE message.form = "binary"
    <2>1. got = FromBinary(ToBinary(s))
        BY <1>1, <1>4 DEF Reading, Written
    <2>2. QED BY <1>1, <1>4, <2>1, BinaryOwn
<1>5. CASE message.form = "text"
    <2>1. got = FromText(BodyBytes(s))
        BY <1>1, <1>5 DEF Reading, Written
    <2>2. got = DecodeBody(BodyBytes(s))
        BY <1>1, <2>1, BodyIsSealCells DEF FromText
    <2>3. QED BY <1>1, <1>5, <2>2, DecodeOwn
<1>6. QED BY <1>2, <1>3, <1>4, <1>5 DEF ExchangeInv, Message, Forms

\* Two seals of one digest have the same body, and so are one.
LEMMA InvDigest == ExchangeInv => DigestTellsSealsApart
<1> SUFFICES ASSUME ExchangeInv, SealRead, NEW s \in seal, NEW t \in got \ seal,
                    CanonicalDigest(s) = CanonicalDigest(t)
             PROVE  FALSE
    BY DEF DigestTellsSealsApart
<1>1. IsSeal(s)
    BY Sent DEF SealRead
<1>2. IsSeal(t)
    BY SealsRead
<1>3. BodyBytes(s) = BodyBytes(t)
    BY DEF CanonicalDigest
<1>4. IsCells(BodyBytes(t)) /\ IsPrefix(BodyBytes(t), BodyBytes(t))
    <2>1. IsCells(BodyBytes(t)) /\ Len(BodyBytes(t)) \in Nat
        BY <1>2, BodyIsSealCells DEF SealCells, IsCells
    <2>2. QED BY <2>1, PrefixAt
<1>5. s = t
    BY <1>1, <1>2, <1>3, <1>4, SelfDelimiting
<1>6. QED BY <1>5

\* What a payload is accepted for has the digest it ends in.
LEMMA InvPayload == ExchangeInv => PayloadBindsOutpoint
<1> SUFFICES ASSUME ExchangeInv, stage = "read", message.form = "payload",
                    NEW s \in seal, NEW m \in Mpcs, NEW held \in Held,
                    DecodeFor(message.cells, held) # {},
                    Last(message.cells) = SealDigest(NewCommitment(s, m))
             PROVE  held.chain = s.chain /\ held.txid = s.txid /\ held.vout = s.vout
    BY DEF PayloadBindsOutpoint
<1> DEFINE d == NewCommitment(s, m)
<1>1. PICK c \in DecodeCommitment(Strip(message.cells)) : VerifyAgainstSeal(c, held)
    BY DEF DecodeFor
<1>2. IsCells(message.cells)
    BY Sent DEF Carried
<1>3. SealDigest(c) = SealDigest(d) /\ c.chain \in Chains
    BY <1>2, StrippedDigest DEF Last
<1>4. d.chain \in Chains
    BY Sent DEF NewCommitment, IsSeal
<1>5. c.chain = d.chain /\ c.seal_txid = d.seal_txid /\ c.seal_vout = d.seal_vout
    BY <1>3, <1>4, DigestBinds
<1>6. QED BY <1>1, <1>5 DEF VerifyAgainstSeal, NewCommitment

\* At most one.
LEMMA NoneOrOne == Cardinality({}) <= 1 /\ \A x : Cardinality({x}) <= 1
<1>1. Cardinality({}) = 0
    BY FS_EmptySet
<1>2. \A x : Cardinality({x}) = 1
    BY FS_Singleton
<1>3. QED BY <1>1, <1>2

\* The types, the feature gate, and one result at most.
LEMMA InvTypes == ExchangeInv => ExchangeTypeOK
<1> SUFFICES ASSUME ExchangeInv PROVE ExchangeTypeOK
    OBVIOUS
<1>1. PICK pq \in PqScripts, scripts \in ScriptLists : tree = BuildMultiTree(pq, scripts)
    BY DEF ExchangeInv, Built
<1>2. /\ tree.pq_leaf.script \in PqScripts
      /\ \A i \in DOMAIN tree.commitment_leaves : tree.commitment_leaves[i].script \in Scripts
    <2>1. scripts \in Seq(Scripts)
        BY ScriptListsAre
    <2>2. PqScript = pq /\ Committed = scripts
        BY <1>1, BuiltTree
    <2>3. \A i \in DOMAIN tree.commitment_leaves : Committed[i] = tree.commitment_leaves[i].script
        BY DEF Committed
    <2>4. \A i \in DOMAIN scripts : scripts[i] \in Scripts
        BY <2>1
    <2>5. DOMAIN tree.commitment_leaves = DOMAIN Committed
        BY DEF Committed
    <2>6. QED BY <2>2, <2>3, <2>4, <2>5 DEF PqScript
<1>3. seal \subseteq Seals({tree.root}) /\ Cardinality(seal) <= 1
    <2>1. CASE seal = {}
        BY <2>1, NoneOrOne
    <2>2. CASE \E s \in Seals({tree.root}) : seal = {s}
        BY <2>2, NoneOrOne
    <2>3. QED BY <2>1, <2>2 DEF ExchangeInv, SealMade
<1>4. message.intact \in BOOLEAN /\ message.form \in Forms
    BY DEF ExchangeInv, Message
<1>5. Cardinality(got) <= 1
    <2>1. ASSUME \A s, t \in got : s = t
          PROVE  Cardinality(got) <= 1
        <3>1. CASE got = {}
            BY <3>1, NoneOrOne
        <3>2. CASE got # {}
            <4>1. PICK s : s \in got
                BY <3>2
            <4>2. got = {s}
                BY <2>1, <4>1
            <4>3. QED BY <4>2, NoneOrOne
        <3>3. QED BY <3>1, <3>2
    <2>2. CASE stage # "read"
        BY <2>1, <2>2 DEF ExchangeInv, GotRead
    <2>3. CASE SealRead
        BY <2>1, <2>3, SealsRead
    <2>4. CASE stage = "read" /\ message.form = "txid"
        <3>1. got = TxidFromText(message.cells)
            BY <2>4, Sent DEF Reading
        <3>2. QED BY <2>1, <3>1 DEF TxidFromText
    <2>5. CASE stage = "read" /\ message.form = "payload"
        <3>1. got = DecodeCommitment(Strip(message.cells))
            BY <2>5, Sent DEF Reading
        <3> DEFINE b == Strip(message.cells)
                   made(chain) == [chain |-> chain, seal_txid |-> SubSeq(b, 4, TxidLength + 3),
                                   seal_vout |-> b[TxidLength + 4], mpc |-> b[TxidLength + 5]]
        <3>2. \A x \in DecodeCommitment(b) : \E k \in FromByte(Chain, b[3]) : x = made(k)
            BY DEF DecodeCommitment
        <3>3. \A j, k \in FromByte(Chain, b[3]) : j = k
            BY TablesInjective DEF FromByte
        <3> HIDE DEF made, b
        <3>4. \A x, y \in DecodeCommitment(b) : x = y
            BY <3>2, <3>3
        <3>5. QED BY <2>1, <3>1, <3>4 DEF b
    <2>6. QED BY <1>4, <2>2, <2>3, <2>4, <2>5 DEF SealRead, Forms
<1>6. SealRead => \A s \in got : s.owner_algo = "Dilithium5" => Dilithium5
    BY SealsRead
<1>7. QED BY <1>2, <1>3, <1>4, <1>5, <1>6 DEF ExchangeTypeOK, ExchangeInv

\* The tree stands and roots read are this one's or damaged.
LEMMA InvTrees ==
    ASSUME ExchangeInv
    PROVE  MultiBindsTheList /\ ProvenIsLeaf /\ FoundIsVerified /\ RetBindsOneCommitment
<1>1. SealRead => \A s \in got : s.p2mr_root \in {Junk, tree.root}
    BY SealsRead
<1>2. QED BY <1>1, BuiltMulti, BuiltProven, BuiltFound, BuiltRet DEF ExchangeInv

\* Whatever is read is written as what was read.
LEMMA InvAccepted == ExchangeInv => AcceptedIsEncoding
BY SealsRead DEF AcceptedIsEncoding

-----------------------------------------------------------------------------
(* The theorems *)

\* The invariant holds in every reachable state.
LEMMA ExchangeInductive == Spec => []ExchangeInv
<1>1. Init => ExchangeInv
    BY ExchangeInit
<1>2. ExchangeInv /\ [Next]_exchangeVars => ExchangeInv'
    BY ExchangeStep
<1>3. QED BY <1>1, <1>2, PTL DEF Spec

\* Types: the tree is made of the scripts given, at most one seal is made and
\* one read, and the Dilithium5 gate is kept, however a message was damaged.
THEOREM ExchangeTyped == Spec => []ExchangeTypeOK
BY ExchangeInductive, InvTypes, PTL

\* Seals, payloads and txids of any length and value that arrive undamaged
\* are read as what was sent, in every form they take.
THEOREM RoundTrips == Spec => []RoundTrip
BY ExchangeInductive, InvRoundTrip, PTL

\* from_strict_binary and from_bech32m accept encodings only: however often a
\* message was cut, prolonged or altered, a seal read of it is written, cell
\* by cell, as the message begins.
THEOREM AcceptsEncodings == Spec => []AcceptedIsEncoding
BY ExchangeInductive, InvAccepted, PTL

\* canonical_digest tells a seal from every other that damage makes of it.
THEOREM DigestsTellApart == Spec => []DigestTellsSealsApart
BY ExchangeInductive, InvDigest, PTL

\* A commitment payload that still ends in its digest is accepted for the chain
\* and outpoint it was made for, and for no others, whatever happened to the
\* cells before; also when it was first made anew for another outpoint.
THEOREM PayloadsBind == Spec => []PayloadBindsOutpoint
BY ExchangeInductive, InvPayload, PTL

\* verify_p2mr_ret accepts a seal read for one commitment: the one of its tree.
THEOREM RetBinds == Spec => []RetBindsOneCommitment
BY ExchangeInductive, InvTrees, PTL

\* verify_multi_protocol_commitment, for trees of any size: the commitments in
\* their order, the first and the ownership leaf in either.
THEOREM MultiBinds == Spec => []MultiBindsTheList
BY ExchangeInductive, InvTrees, PTL

\* A Merkle proof of any length that is accepted for a tree of any size is of
\* a leaf of that tree.
THEOREM ProofsAreOfLeaves == Spec => []ProvenIsLeaf
BY ExchangeInductive, InvTrees, PTL

\* The depths that build_multi_protocol_tree gives its leaves are those of the
\* tree its root is of, if that holds one commitment.
THEOREM DepthsOfPairs == Spec => [](Len(Committed) = 1 => DepthsReachTheRoot)
<1>1. ExchangeInv => (Len(Committed) = 1 => DepthsReachTheRoot)
    BY BuiltDepths DEF ExchangeInv
<1>2. QED BY <1>1, ExchangeInductive, PTL

\* find_commitment_in_tree and verify_p2mr_ret agree on trees of two leaves.
THEOREM FindingIsVerifying == Spec => []FoundIsVerified
BY ExchangeInductive, InvTrees, PTL

=============================================================================
