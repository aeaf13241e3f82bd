------------------------------ MODULE ElfProofs ------------------------------
(***************************************************************************)
(* Proofs about ElfLoad with ElfTypes, for every program's debug           *)
(* information, a graph with cycles included: the pointers on the work     *)
(* stack of the type resolver stay valid, the search finds a variable if   *)
(* there is one, and what is written is what was loaded.  If the debug     *)
(* information is well formed (WellFormed), what is loaded is the type of  *)
(* the variable: every record of the tree is on the way to a type known    *)
(* from the start (Built).                                                 *)
(***************************************************************************)
EXTENDS ElfLoad, FiniteSetTheorems, SequenceTheorems, WellFoundedInduction, TLAPS

\* A pointer to a record, and what may wait on the stack.
Path == Seq(Int)
Item == [kind : {"resolve", "member"}, die : DOMAIN Dies, path : Path]

\* The results of the items that wait are records of the tree, none above or
\* equal to another's: taking one off and pushing work for its children keeps
\* it so.
Results ==
  /\ stack \in Seq(Item) /\ DOMAIN tree \subseteq Path /\ <<>> \in DOMAIN tree
  /\ \A n \in DOMAIN stack : stack[n].path \in DOMAIN tree
  /\ \A m, n \in DOMAIN stack : IsPrefix(stack[m].path, stack[n].path) => m = n
  /\ root = Untyped => stack = <<>>

-----------------------------------------------------------------------------
(* Prefixes.                                                               *)

LEMMA PrefixPointwise ==
  ASSUME NEW p \in Path, NEW q \in Path
  PROVE  IsPrefix(p, q) <=> Len(p) <= Len(q) /\ \A i \in 1 .. Len(p) : p[i] = q[i]
  BY DEF IsPrefix, Path

\* What lies below or above a child of p.
LEMMA PrefixOfChild ==
  ASSUME NEW p \in Path, NEW q \in Path, NEW i \in Int
  PROVE  /\ Append(p, i) \in Path
         /\ IsPrefix(q, Append(p, i)) => IsPrefix(q, p) \/ IsPrefix(p, q)
         /\ IsPrefix(Append(p, i), q) => IsPrefix(p, q)
<1> DEFINE c == Append(p, i)
<1>1. c \in Path /\ Len(c) = Len(p) + 1 /\ \A n \in 1 .. Len(p) : c[n] = p[n]
  BY DEF Path
<1>2. Len(p) \in Nat /\ Len(q) \in Nat
  BY DEF Path
<1> HIDE DEF c
<1>3. ASSUME IsPrefix(q, c) PROVE IsPrefix(q, p) \/ IsPrefix(p, q)
  <2>1. Len(q) <= Len(p) + 1 /\ \A n \in 1 .. Len(q) : q[n] = c[n]
    BY <1>1, <1>3, PrefixPointwise
  <2>2. CASE Len(q) <= Len(p)
    BY <1>1, <1>2, <2>1, <2>2, PrefixPointwise
  <2>3. CASE Len(q) = Len(p) + 1
    <3>1. \A n \in 1 .. Len(p) : p[n] = q[n]
      BY <1>1, <1>2, <2>1, <2>3
    <3> QED
      BY <1>2, <2>3, <3>1, PrefixPointwise
  <2> QED
    BY <1>2, <2>1, <2>2, <2>3
<1>4. ASSUME IsPrefix(c, q) PROVE IsPrefix(p, q)
  <2>1. Len(c) <= Len(q) /\ \A n \in 1 .. Len(c) : c[n] = q[n]
    BY <1>1, <1>4, PrefixPointwise
  <2>2. \A n \in 1 .. Len(p) : p[n] = q[n]
    BY <1>1, <1>2, <2>1
  <2> QED
    BY <1>1, <1>2, <2>1, <2>2, PrefixPointwise
<1> QED
  BY <1>1, <1>3, <1>4 DEF c

LEMMA ChildrenApart ==
  ASSUME NEW p \in Path, NEW i \in Int, NEW j \in Int, IsPrefix(Append(p, i), Append(p, j))
  PROVE  i = j
<1>1. Append(p, i) \in Path /\ Append(p, j) \in Path
  BY DEF Path
<1>2. Append(p, i)[Len(p) + 1] = i /\ Append(p, j)[Len(p) + 1] = j
  BY DEF Path
<1>3. Len(p) + 1 \in 1 .. Len(Append(p, i))
  BY DEF Path
<1> QED
  BY <1>1, <1>2, <1>3, PrefixPointwise

-----------------------------------------------------------------------------
(* The work stack.                                                         *)

LEMMA FrontLast ==
  ASSUME NEW S, NEW s \in Seq(S), s # <<>>
  PROVE  /\ Len(s) \in Nat \ {0} /\ Last(s) = s[Len(s)] /\ Last(s) \in S
         /\ Front(s) \in Seq(S) /\ Len(Front(s)) = Len(s) - 1
         /\ \A n \in 1 .. Len(s) - 1 : Front(s)[n] = s[n]
<1>1. Len(s) \in Nat \ {0}
  BY EmptySeq
<1>2. Last(s) = s[Len(s)] /\ Last(s) \in S
  BY <1>1 DEF Last
<1>3. /\ Front(s) \in Seq(S) /\ Len(Front(s)) = Len(s) - 1
      /\ \A n \in 1 .. Len(s) - 1 : Front(s)[n] = s[n]
  <2> DEFINE l == Len(s) - 1
  <2>1. l \in Nat /\ \A i \in 1 .. l : s[i] \in S
    BY <1>1
  <2> HIDE DEF l
  <2>2. /\ SubSeq(s, 1, l) \in Seq(S) /\ Len(SubSeq(s, 1, l)) = IF 1 <= l THEN l - 1 + 1 ELSE 0
        /\ \A n \in 1 .. l - 1 + 1 : SubSeq(s, 1, l)[n] = s[1 + n - 1]
    BY <2>1, SubSeqProperties
  <2>3. /\ l - 1 + 1 = l /\ (1 <= l \/ l = 0)
        /\ \A n \in 1 .. l : 1 + n - 1 = n
    BY <2>1
  <2>4. Len(SubSeq(s, 1, l)) = l /\ \A n \in 1 .. l : SubSeq(s, 1, l)[n] = s[n]
    BY <2>2, <2>3
  <2> QED
    BY <2>2, <2>4 DEF Front, l
<1> QED
  BY <1>1, <1>2, <1>3

\* The item on top and those below it.
LEMMA TopAndRest ==
  ASSUME Results, stack # <<>>
  PROVE  /\ Len(stack) \in Nat \ {0} /\ Top = stack[Len(stack)] /\ Top \in Item
         /\ Rest \in Seq(Item) /\ Len(Rest) = Len(stack) - 1
         /\ \A n \in 1 .. Len(Rest) : Rest[n] = stack[n]
         /\ root # Untyped
<1>1. stack \in Seq(Item) /\ root # Untyped
  BY DEF Results
<1> QED
  BY <1>1, FrontLast DEF Top, Rest

\* Taking the top off and pushing work for its own record or for children of
\* it, each of which is in the tree.
LEMMA Pushed ==
  ASSUME Results, stack # <<>>, UNCHANGED root,
         NEW more \in Seq(Item), stack' = Rest \o more,
         DOMAIN tree \subseteq DOMAIN tree', DOMAIN tree' \subseteq Path,
         \A n \in DOMAIN more : more[n].path \in DOMAIN tree',
         \A n \in DOMAIN more : \/ more[n].path = Top.path
                                \/ \E i \in Int : more[n].path = Append(Top.path, i),
         \A m, n \in DOMAIN more : IsPrefix(more[m].path, more[n].path) => m = n
  PROVE  Results'
<1> DEFINE r == Len(Rest)
           p == Top.path
<1>1. /\ stack' \in Seq(Item) /\ DOMAIN stack' = 1 .. r + Len(more)
      /\ \A n \in 1 .. r : stack'[n] = stack[n]
      /\ \A n \in 1 .. Len(more) : stack'[r + n] = more[n]
  BY TopAndRest, ConcatProperties
<1>2. /\ r \in Nat /\ Len(stack) = r + 1 /\ p \in Path /\ DOMAIN stack = 1 .. r + 1
      /\ Len(more) \in Nat /\ DOMAIN more = 1 .. Len(more)
  BY TopAndRest DEF Item, Results
<1>3. \A n \in 1 .. r : /\ stack[n].path \in Path /\ stack[n].path \in DOMAIN tree
                         /\ ~IsPrefix(stack[n].path, p) /\ ~IsPrefix(p, stack[n].path)
  <2> TAKE n \in 1 .. r
  <2>1. stack[n] \in Item /\ stack[n].path \in DOMAIN tree
    <3>1. stack \in Seq(Item) /\ n \in DOMAIN stack
      BY <1>2 DEF Results
    <3> QED
      BY <3>1 DEF Results
  <2>2. n # r + 1 /\ n \in DOMAIN stack /\ r + 1 \in DOMAIN stack /\ p = stack[r + 1].path
    BY <1>2, TopAndRest
  <2>3. ~IsPrefix(stack[n].path, p) /\ ~IsPrefix(p, stack[n].path)
    BY <2>2 DEF Results
  <2> QED
    BY <2>1, <2>3 DEF Item
<1>4. \A n \in 1 .. r, k \in 1 .. Len(more) :
        ~IsPrefix(stack[n].path, more[k].path) /\ ~IsPrefix(more[k].path, stack[n].path)
  <2> TAKE n \in 1 .. r, k \in 1 .. Len(more)
  <2>1. CASE more[k].path = p
    BY <1>3, <2>1
  <2>2. CASE \E i \in Int : more[k].path = Append(p, i)
    <3>1. PICK i \in Int : more[k].path = Append(p, i)
      BY <2>2
    <3> QED
      BY <1>2, <1>3, <3>1, PrefixOfChild
  <2> QED
    BY <1>2, <2>1, <2>2
<1> HIDE DEF r, p
<1>5. ASSUME NEW n \in DOMAIN stack' PROVE stack'[n].path \in DOMAIN tree'
  <2>1. CASE n \in 1 .. r
    BY <1>1, <1>3, <2>1
  <2>2. CASE n \in r + 1 .. r + Len(more)
    <3>1. n - r \in 1 .. Len(more) /\ stack'[r + (n - r)] = more[n - r] /\ r + (n - r) = n
      BY <1>1, <1>2, <2>2
    <3> QED
      BY <1>2, <3>1
  <2> QED
    BY <1>1, <1>2, <2>1, <2>2
<1>6. ASSUME NEW m \in DOMAIN stack', NEW n \in DOMAIN stack',
             IsPrefix(stack'[m].path, stack'[n].path)
      PROVE  m = n
  <2>1. \A k \in DOMAIN stack' : k \in 1 .. r \/ (k - r \in 1 .. Len(more) /\ stack'[k] = more[k - r])
    <3> TAKE k \in DOMAIN stack'
    <3>1. k \in 1 .. r \/ (k - r \in 1 .. Len(more) /\ r + (k - r) = k)
      BY <1>1, <1>2
    <3> QED
      BY <1>1, <3>1
  <2>2. CASE m \in 1 .. r /\ n \in 1 .. r
    <3>1. m \in DOMAIN stack /\ n \in DOMAIN stack /\ stack'[m] = stack[m] /\ stack'[n] = stack[n]
      BY <1>1, <1>2, <2>2
    <3>2. IsPrefix(stack[m].path, stack[n].path)
      BY <1>6, <3>1
    <3> QED
      BY <3>1, <3>2 DEF Results
  <2>3. CASE m \in 1 .. r /\ n \notin 1 .. r
    BY <1>1, <1>4, <1>6, <2>1, <2>3
  <2>4. CASE m \notin 1 .. r /\ n \in 1 .. r
    BY <1>1, <1>4, <1>6, <2>1, <2>4
  <2>5. CASE m \notin 1 .. r /\ n \notin 1 .. r
    <3>1. m - r = n - r
      BY <1>2, <1>6, <2>1, <2>5
    <3> QED
      BY <1>1, <1>2, <3>1
  <2> QED
    BY <2>2, <2>3, <2>4, <2>5
<1>7. root' # Untyped
  BY TopAndRest
<1> QED
  BY <1>1, <1>5, <1>6, <1>7 DEF Results
\* What a DIE of the stack refers to is known.
LEMMA TopDie ==
  ASSUME Results, stack # <<>>
  PROVE  /\ Top.path \in Path /\ Top.die \in DOMAIN Dies /\ Top.path \in DOMAIN tree
         /\ Die.ref \in DOMAIN Dies \cup {Untyped} /\ Die.members \in Seq(DOMAIN Dies)
<1>1. Top \in Item /\ Len(stack) \in DOMAIN stack /\ Top = stack[Len(stack)]
  BY TopAndRest DEF Results
<1>2. Top.path \in Path /\ Top.die \in DOMAIN Dies
  BY <1>1 DEF Item
<1>3. Top.path \in DOMAIN tree
  BY <1>1 DEF Results
<1> QED
  BY <1>2, <1>3, DiesAssumption DEF Die

\* Records are made, none is dropped.
LEMMA WithDomain ==
  ASSUME NEW r, NEW new, Results, stack # <<>>, new \subseteq Path
  PROVE  /\ DOMAIN With(r, new) = DOMAIN tree \cup new
         /\ DOMAIN With(r, new) \subseteq Path
<1>1. Top.path \in DOMAIN tree /\ DOMAIN tree \subseteq Path
  BY TopDie DEF Results
<1> QED
  BY <1>1 DEF With

\* An item is done.
LEMMA Popped ==
  ASSUME Results, stack # <<>>, UNCHANGED root, stack' = Rest,
         DOMAIN tree \subseteq DOMAIN tree', DOMAIN tree' \subseteq Path
  PROVE  Results'
<1>1. stack' = Rest \o <<>> /\ <<>> \in Seq(Item)
  BY TopAndRest
<1>2. DOMAIN <<>> = {}
  OBVIOUS
<1> QED
  BY <1>1, <1>2, Pushed

\* An item is done but for the type its DIE refers to.
LEMMA PushedReferred ==
  ASSUME Results, stack # <<>>, UNCHANGED root,
         NEW q \in Path, stack' = Rest \o Referred(q),
         q = Top.path \/ \E i \in Int : q = Append(Top.path, i),
         DOMAIN tree \subseteq DOMAIN tree', DOMAIN tree' \subseteq Path,
         Die.ref # Untyped => q \in DOMAIN tree'
  PROVE  Results'
<1>1. CASE Die.ref = Untyped
  <2>1. stack' = Rest
    BY <1>1, TopAndRest DEF Referred
  <2> QED
    BY <2>1, Popped
<1>2. CASE Die.ref # Untyped
  <2> DEFINE item == [kind |-> "resolve", die |-> Die.ref, path |-> q]
  <2>1. item \in Item /\ item.path = q
    BY <1>2, TopDie DEF Item
  <2>2. Referred(q) = <<item>>
    BY <1>2 DEF Referred
  <2> HIDE DEF item
  <2>3. Referred(q) \in Seq(Item) /\ DOMAIN Referred(q) = {1} /\ Referred(q)[1].path = q
    BY <2>1, <2>2
  <2> QED
    BY <1>2, <2>3, Pushed
<1> QED
  BY <1>1, <1>2
\* The members' work: one item each, the first on top.
LEMMA MemberWorkFacts ==
  ASSUME NEW p \in Path, NEW members \in Seq(DOMAIN Dies)
  PROVE  /\ MemberWork(p, members) \in Seq(Item)
         /\ Len(MemberWork(p, members)) = Len(members)
         /\ \A n \in 1 .. Len(members) :
              MemberWork(p, members)[n] =
                [kind |-> "member", die |-> members[Len(members) - n + 1],
                 path |-> Append(p, Len(members) - n)]
<1> DEFINE l == Len(members)
           work == [i \in DOMAIN members |->
                      [kind |-> "member", die |-> members[i], path |-> Append(p, i - 1)]]
<1>1. l \in Nat /\ DOMAIN members = 1 .. l /\ \A n \in 1 .. l : members[n] \in DOMAIN Dies
  BY LenProperties, ElementOfSeq
<1>2. \A i \in 1 .. l : Append(p, i - 1) \in Path
  BY <1>1 DEF Path
<1>3. work \in [1 .. l -> Item]
  BY <1>1, <1>2 DEF Item
<1>4. Len(work) = l /\ work \in Seq(Item)
  BY <1>1, <1>3
<1>5. MemberWork(p, members) = [n \in 1 .. l |-> work[l - n + 1]]
  <2>1. MemberWork(p, members) = Reverse(work)
    BY DEF MemberWork
  <2> HIDE DEF work, l
  <2> QED
    BY <1>4, <2>1 DEF Reverse
<1>6. \A n \in 1 .. l : l - n + 1 \in 1 .. l /\ (l - n + 1) - 1 = l - n
  BY <1>1
<1>7. \A n \in 1 .. l : work[l - n + 1] = [kind |-> "member", die |-> members[l - n + 1],
                                         path |-> Append(p, l - n)]
  BY <1>1, <1>6
<1>8. [n \in 1 .. l |-> work[l - n + 1]] \in [1 .. l -> Item]
  BY <1>3, <1>6
<1> HIDE DEF work, l
<1>9. MemberWork(p, members) \in Seq(Item) /\ Len(MemberWork(p, members)) = l
  <2>1. MemberWork(p, members) \in [1 .. l -> Item] /\ l \in Nat
    BY <1>1, <1>5, <1>8
  <2> HIDE DEF Item
  <2> QED
    BY <2>1
<1> QED
  BY <1>5, <1>7, <1>9 DEF l

LEMMA CompoundResults ==
  ASSUME Results, ResolveCompound
  PROVE  Results'
<1> DEFINE p == Top.path
           n == Len(Die.members)
           more == MemberWork(p, Die.members)
<1>1. stack # <<>> /\ UNCHANGED root /\ stack' = Rest \o more
  BY DEF ResolveCompound, Resolving
<1>2. p \in Path /\ Die.members \in Seq(DOMAIN Dies) /\ n \in Nat
  <2>1. p \in Path /\ Die.members \in Seq(DOMAIN Dies)
    BY <1>1, TopDie
  <2> QED
    BY <2>1
<1>3. Room(p, n) \subseteq Path
  <2>1. \A i \in 0 .. n - 1 : i \in Int
    BY <1>2
  <2> QED
    BY <1>2, <2>1, PrefixOfChild DEF Room
<1>4. DOMAIN tree' = DOMAIN tree \cup Room(p, n) /\ DOMAIN tree' \subseteq Path
  <2>1. PICK r : tree' = With(r, Room(p, n))
    BY DEF ResolveCompound
  <2> HIDE DEF p, n
  <2> QED
    BY <1>1, <1>3, <2>1, WithDomain
<1>5. /\ more \in Seq(Item) /\ DOMAIN more = 1 .. n
      /\ \A k \in 1 .. n : more[k].path = Append(p, n - k)
  <2>1. /\ more \in Seq(Item) /\ Len(more) = n
        /\ \A k \in 1 .. n : more[k] = [kind |-> "member", die |-> Die.members[n - k + 1],
                                       path |-> Append(p, n - k)]
    BY <1>2, MemberWorkFacts
  <2> HIDE DEF more, p, n
  <2>2. DOMAIN more = 1 .. n
    BY <2>1, LenProperties
  <2> QED
    BY <2>1, <2>2
<1> HIDE DEF more, n, p
<1>6. ASSUME NEW k \in DOMAIN more
      PROVE  more[k].path \in DOMAIN tree' /\ \E i \in Int : more[k].path = Append(p, i)
  <2>1. n - k \in 0 .. n - 1 /\ more[k].path = Append(p, n - k)
    BY <1>2, <1>5
  <2>2. Append(p, n - k) \in Room(p, n)
    BY <2>1 DEF Room
  <2> QED
    BY <1>4, <2>1, <2>2
<1>7. ASSUME NEW k \in DOMAIN more, NEW m \in DOMAIN more, IsPrefix(more[k].path, more[m].path)
      PROVE  k = m
  <2>1. k \in 1 .. n /\ m \in 1 .. n /\ IsPrefix(Append(p, n - k), Append(p, n - m))
    <3>1. more[k].path = Append(p, n - k) /\ more[m].path = Append(p, n - m)
      BY <1>5
    <3> QED
      BY <1>5, <1>7, <3>1
  <2>2. n - k = n - m
    BY <1>2, <2>1, ChildrenApart
  <2> QED
    BY <1>2, <2>1, <2>2
<1> QED
  BY <1>1, <1>4, <1>5, <1>6, <1>7, Pushed DEF p

\* Each turn of the loop keeps the results live.
LEMMA ResolveResults ==
  ASSUME Results, ResolveStep
  PROVE  Results'
<1>1. stack # <<>> /\ UNCHANGED root
  BY DEF ResolveStep, ResolveBase, ResolveTypedef, ResolveQualifier, ResolvePointer, ResolveArray,
         ResolveCompound, ResolveOther, ParseMember, Resolving
<1>2. DOMAIN tree \subseteq Path /\ Top.path \in DOMAIN tree /\ Top.path \in Path
  BY <1>1, TopDie DEF Results
<1>3. \A i \in Int : Append(Top.path, i) \in Path
  BY <1>2, PrefixOfChild
<1>4. \A r : DOMAIN With(r, {}) = DOMAIN tree
  BY <1>1, WithDomain
<1>5. \A r, i : i \in Int =>
        /\ DOMAIN With(r, {Append(Top.path, i)}) = DOMAIN tree \cup {Append(Top.path, i)}
        /\ DOMAIN With(r, {Append(Top.path, i)}) \subseteq Path
  <2> TAKE r, i
  <2>1. i \in Int => {Append(Top.path, i)} \subseteq Path
    BY <1>3
  <2> QED
    BY <1>1, <2>1, WithDomain
<1>6. CASE ResolveBase \/ ResolveOther
  BY <1>1, <1>2, <1>4, <1>6, Popped DEF ResolveBase, ResolveOther
<1>7. CASE ResolveTypedef \/ ResolveQualifier
  <2>1. DOMAIN tree' = DOMAIN tree /\ stack' = Rest \o Referred(Top.path)
    BY <1>4, <1>7 DEF ResolveTypedef, ResolveQualifier
  <2> QED
    BY <1>1, <1>2, <2>1, PushedReferred
<1>8. CASE ResolvePointer
  <2> DEFINE q == Append(Top.path, Pointee)
  <2>1. Pointee \in Int
    BY DEF Pointee
  <2>2. /\ stack' = Rest \o Referred(q)
        /\ DOMAIN tree' = DOMAIN tree \cup (IF Die.ref = Untyped THEN {} ELSE {q})
    BY <1>4, <1>5, <1>8, <2>1 DEF ResolvePointer
  <2> QED
    BY <1>1, <1>2, <1>3, <2>1, <2>2, PushedReferred
<1>9. CASE ResolveArray
  <2> DEFINE q == Append(Top.path, 0)
  <2>1. 0 \in Int
    OBVIOUS
  <2>2. /\ stack' = Rest \o Referred(q)
        /\ DOMAIN tree' = DOMAIN tree \cup (IF Die.ref = Untyped THEN {} ELSE {q})
    BY <1>4, <1>5, <1>9, <2>1 DEF ResolveArray
  <2> QED
    BY <1>1, <1>2, <1>3, <2>1, <2>2, PushedReferred
<1>10. CASE ParseMember
  <2>1. DOMAIN tree' = DOMAIN tree /\ stack' = Rest \o Referred(Top.path)
    BY <1>10 DEF ParseMember
  <2> QED
    BY <1>1, <1>2, <2>1, PushedReferred
<1> QED
  BY <1>6, <1>7, <1>8, <1>9, <1>10, CompoundResults DEF ResolveStep
-----------------------------------------------------------------------------
(* What a unit holds.                                                      *)

Children(d) == Range(Dies[d].members)

\* The DIEs in every set with d that is closed under the children.
Reach(d) ==
  {e \in DOMAIN Dies : \A S \in SUBSET DOMAIN Dies :
     d \in S /\ (\A x \in S : Children(x) \subseteq S) => e \in S}

LEMMA ChildrenKnown == ASSUME NEW d \in DOMAIN Dies PROVE Children(d) \subseteq DOMAIN Dies
<1>1. Dies[d].members \in Seq(DOMAIN Dies)
  BY DiesAssumption
<1>2. \A i \in DOMAIN Dies[d].members : Dies[d].members[i] \in DOMAIN Dies
  BY <1>1, LenProperties, ElementOfSeq
<1> QED
  BY <1>2 DEF Children, Range

LEMMA ReachUnfolds ==
  ASSUME NEW d \in DOMAIN Dies
  PROVE  Reach(d) = {d} \cup UNION {Reach(m) : m \in Children(d)}
<1> DEFINE T == {d} \cup UNION {Reach(m) : m \in Children(d)}
<1>1. \A c \in DOMAIN Dies : c \in Reach(c)
  BY DEF Reach
<1>2. \A c \in DOMAIN Dies : \A x \in Reach(c) : Children(x) \subseteq Reach(c)
  <2> SUFFICES ASSUME NEW c \in DOMAIN Dies, NEW x \in Reach(c), NEW y \in Children(x)
               PROVE  y \in Reach(c)
    OBVIOUS
  <2>1. y \in DOMAIN Dies
    BY ChildrenKnown DEF Reach
  <2> QED
    BY <2>1 DEF Reach
<1>3. T \subseteq DOMAIN Dies /\ d \in T
  BY DEF Reach
<1>4. \A x \in T : Children(x) \subseteq T
  <2> SUFFICES ASSUME NEW x \in T, NEW y \in Children(x) PROVE y \in T
    OBVIOUS
  <2>1. CASE x = d
    BY <1>1, <2>1, ChildrenKnown
  <2>2. CASE \E m \in Children(d) : x \in Reach(m)
    BY <1>2, <2>2, ChildrenKnown
  <2> QED
    BY <2>1, <2>2
<1>5. Reach(d) \subseteq T
  <2> HIDE DEF T
  <2> QED
    BY <1>3, <1>4 DEF Reach
<1>6. T \subseteq Reach(d)
  <2> SUFFICES ASSUME NEW m \in Children(d), NEW x \in Reach(m) PROVE x \in Reach(d)
    BY <1>1
  <2>1. \A S \in SUBSET DOMAIN Dies :
          d \in S /\ (\A y \in S : Children(y) \subseteq S) => m \in S
    OBVIOUS
  <2> QED
    BY <2>1 DEF Reach
<1> QED
  BY <1>5, <1>6

\* The equation by which Within is defined has a solution, whatever the graph.
LEMMA WithinUnfolds ==
  ASSUME NEW d \in DOMAIN Dies
  PROVE  Within[d] = {d} \cup UNION {Within[m] : m \in Children(d)}
<1> DEFINE Solves(f) == f = [c \in DOMAIN Dies |->
                              {c} \cup UNION {f[m] : m \in Range(Dies[c].members)}]
           reach == [c \in DOMAIN Dies |-> Reach(c)]
<1>1. Solves(reach)
  <2>1. \A c \in DOMAIN Dies :
          Reach(c) = {c} \cup UNION {reach[m] : m \in Range(Dies[c].members)}
    <3> TAKE c \in DOMAIN Dies
    <3>1. {Reach(m) : m \in Children(c)} = {reach[m] : m \in Children(c)}
      BY ChildrenKnown
    <3> QED
      BY <3>1, ReachUnfolds DEF Children
  <2> QED
    BY <2>1
<1>2. Within = CHOOSE f : Solves(f)
  BY DEF Within
<1>3. Solves(Within)
  <2> HIDE DEF Solves, reach
  <2>1. \E f : Solves(f)
    BY <1>1
  <2> QED
    BY <1>2, <2>1, Zenon
<1> QED
  BY <1>3 DEF Children
-----------------------------------------------------------------------------
(* The load.                                                               *)

\* What the units of the file hold, and what the search will still come to.
Reached == UNION {Within[u] : u \in Range(file.units)}
Ahead   == (UNION {Within[file.units[n]] : n \in unit + 1 .. Len(file.units)})
             \cup UNION {Within[d] : d \in Range(die_stack)}

\* How far the load has come, and what has been established by then.
Progress ==
  /\ file \in Files /\ unit \in 0 .. Len(file.units) /\ die_stack \in Seq(DOMAIN Dies)
  /\ phase \in {"init", "symbol", "search", "resolve", "done"}
  /\ phase # "done" => err = "none"
  /\ phase \in {"init", "symbol", "search"} <=> root = Untyped /\ phase # "done"
  /\ phase \in {"init", "symbol"} => unit = 0
  /\ phase \in {"init", "symbol", "resolve"} \/ err = "SUCCESS" => die_stack = <<>>
  /\ phase \in {"symbol", "search", "resolve"} => file.elf /\ file.dwarf # "error"
  /\ phase \in {"search", "resolve"} => Named # {} /\ file.dwarf # "none"
  /\ phase # "resolve" => stack = <<>>

\* No variable of the name has been passed by.
Exploring ==
  /\ phase = "search" => Ahead \subseteq Reached /\ Variables \subseteq Ahead
  /\ phase = "resolve" => root \in {Dies[d].ref : d \in Variables}

IInv == Results /\ Progress /\ Exploring /\ FindsVariable
LEMMA RangeOfStack ==
  ASSUME NEW S, NEW s \in Seq(S), s # <<>>, NEW more \in Seq(S)
  PROVE  /\ Range(s) = Range(Front(s)) \cup {Last(s)}
         /\ Range(Front(s) \o more) = Range(Front(s)) \cup Range(more)
<1> DEFINE f == Front(s)
           l == Len(s) - 1
<1>1. /\ l \in Nat /\ Last(s) = s[l + 1] /\ f \in Seq(S) /\ Len(f) = l
      /\ \A n \in 1 .. l : f[n] = s[n]
  BY FrontLast
<1>2. DOMAIN s = 1 .. l + 1 /\ DOMAIN f = 1 .. l
  BY <1>1, LenProperties
<1> HIDE DEF f, l
<1>3. Range(s) = Range(f) \cup {s[l + 1]}
  <2>1. 1 .. l + 1 = 1 .. l \cup {l + 1}
    BY <1>1
  <2> QED
    BY <1>1, <1>2, <2>1 DEF Range
<1>4. Range(f \o more) = Range(f) \cup Range(more)
  BY <1>1, RangeConcatenation
<1> QED
  BY <1>1, <1>3, <1>4 DEF f

\* Asking for a type, or beginning again: a stack of one item, or none.
LEMMA AskResults ==
  ASSUME Results, NEW d \in Roots, d # Untyped, AskType(d)
  PROVE  Results'
<1> DEFINE item == [kind |-> "resolve", die |-> d, path |-> <<>>]
<1>1. item \in Item /\ item.path = <<>>
  BY DiesAssumption DEF Item, Path
<1> HIDE DEF item
<1>2. stack' = <<item>> /\ UNCHANGED tree /\ root' # Untyped
  BY DEF AskType, item
<1>3. stack' \in Seq(Item) /\ DOMAIN stack' = {1} /\ stack'[1] = item
  BY <1>1, <1>2
<1> QED
  BY <1>1, <1>2, <1>3 DEF Results

LEMMA EmptyResults ==
  ASSUME stack = <<>>, tree = NewTree
  PROVE  Results
<1>1. <<>> \in Path /\ <<>> \in Seq(Item) /\ DOMAIN stack = {}
  BY DEF Path
<1> QED
  BY <1>1 DEF Results, NewTree

LEMMA EmptyResultsNext ==
  ASSUME stack' = <<>>, tree' = NewTree
  PROVE  Results'
<1>1. <<>> \in Path /\ <<>> \in Seq(Item) /\ DOMAIN stack' = {}
  BY DEF Path
<1> QED
  BY <1>1 DEF Results, NewTree

\* A variable that is found has a type that may be asked for.
LEMMA VariableType ==
  ASSUME NEW d \in DOMAIN Dies, IsVariable(d)
  PROVE  Dies[d].ref \in Roots /\ Dies[d].ref # Untyped
  BY FilesAssumption DEF IsVariable

LEMMA TopOfSearch ==
  ASSUME Progress, die_stack # <<>>
  PROVE  Last(die_stack) \in DOMAIN Dies
  BY FrontLast DEF Progress

LEMMA ResultsStep ==
  ASSUME Results, Progress, [Next]_vars
  PROVE  Results'
<1>1. CASE UNCHANGED types
  BY <1>1 DEF types, Results
<1>2. CASE Found
  <2>1. die_stack # <<>> /\ IsVariable(Last(die_stack)) /\ AskType(Dies[Last(die_stack)].ref)
    BY <1>2 DEF Found
  <2> QED
    BY <2>1, TopOfSearch, VariableType, AskResults
<1>3. CASE ResolveType
  BY <1>3, ResolveResults DEF ResolveType
<1>4. CASE Generate
  BY <1>4, EmptyResultsNext DEF Generate
<1>5. CASE InitFails \/ InitDone \/ NoSymbol \/ SymbolFound \/ NextUnit \/ NoVariable \/ Visit
             \/ Loaded \/ UNCHANGED vars
  <2>1. UNCHANGED types
    BY <1>5 DEF InitFails, InitDone, NoSymbol, SymbolFound, NextUnit, NoVariable, Visit, Loaded,
                Return, vars
  <2> QED
    BY <1>1, <2>1
<1> QED
  BY <1>2, <1>3, <1>4, <1>5 DEF Next
\* Neither the file nor the name changes, nor what there is to be found.
LEMMA GivenStays ==
  ASSUME [Next]_vars
  PROVE  /\ UNCHANGED <<file, symbol_name>> /\ Named' = Named
         /\ Variables' = Variables /\ Reached' = Reached
         /\ \A d : IsVariable(d)' = IsVariable(d)
<1>1. UNCHANGED <<file, symbol_name>>
  BY DEF Next, InitFails, InitDone, NoSymbol, SymbolFound, NextUnit, NoVariable, Visit, Found,
         ResolveType, Loaded, Generate, Return, Searching, given, vars
<1>2. Named' = Named
  BY <1>1 DEF Named, SymbolTable
<1>3. \A d : IsVariable(d)' = IsVariable(d)
  BY <1>1 DEF IsVariable
<1>4. Reached' = Reached
  BY <1>1 DEF Reached
<1>5. Variables' = Variables
  BY <1>1 DEF Variables, IsVariable
<1> QED
  BY <1>1, <1>2, <1>3, <1>4, <1>5

LEMMA ProgressStep ==
  ASSUME Results, Progress, [Next]_vars
  PROVE  Progress'
<1>1. file \in Files /\ file.units \in Seq(DOMAIN Dies) /\ Len(file.units) \in Nat
  BY FilesAssumption DEF Progress
<1>0. Named' = Named
  BY GivenStays
<1>2. CASE InitFails \/ InitDone
  BY <1>0, <1>2 DEF InitFails, InitDone, Return, Progress, given, types, results
<1>3. CASE NoSymbol \/ SymbolFound
  BY <1>0, <1>3 DEF NoSymbol, SymbolFound, Return, Progress, given, types, results
<1>4. CASE NextUnit
  <2>1. /\ phase = "search" /\ unit < Len(file.units) /\ unit' = unit + 1
        /\ die_stack' = <<file.units[unit + 1]>>
        /\ UNCHANGED <<file, symbol_name, phase, err, root, stack>>
    BY <1>4 DEF NextUnit, Searching, given, types
  <2>2. unit' \in 1 .. Len(file.units) /\ file.units[unit'] \in DOMAIN Dies
    BY <1>0, <1>1, <2>1 DEF Progress
  <2>3. die_stack' \in Seq(DOMAIN Dies) /\ err # "SUCCESS"
    BY <1>0, <2>1, <2>2 DEF Progress
  <2> QED
    BY <1>0, <2>1, <2>2, <2>3 DEF Progress
<1>5. CASE NoVariable
  BY <1>0, <1>5 DEF NoVariable, Searching, Return, Progress, given, types
<1>6. CASE Visit
  <2>1. /\ phase = "search" /\ die_stack # <<>>
        /\ die_stack' = Front(die_stack) \o Dies[Last(die_stack)].members
        /\ UNCHANGED <<file, symbol_name, phase, err, root, stack, unit>>
    BY <1>6 DEF Visit, Searching, given, types
  <2>2. die_stack \in Seq(DOMAIN Dies) /\ err # "SUCCESS"
    BY <1>0, <2>1 DEF Progress
  <2>3. Front(die_stack) \in Seq(DOMAIN Dies) /\ Dies[Last(die_stack)].members \in Seq(DOMAIN Dies)
    BY <2>1, <2>2, FrontLast, DiesAssumption
  <2>4. die_stack' \in Seq(DOMAIN Dies)
    BY <2>1, <2>3, ConcatProperties
  <2> QED
    BY <1>0, <2>1, <2>2, <2>4 DEF Progress
<1>7. CASE Found
  <2>1. /\ phase = "search" /\ die_stack # <<>> /\ IsVariable(Last(die_stack))
        /\ root' = Dies[Last(die_stack)].ref /\ phase' = "resolve" /\ die_stack' = <<>>
        /\ UNCHANGED <<file, symbol_name, err, unit>>
    BY <1>7 DEF Found, AskType, Searching, given
  <2>2. root' # Untyped
    BY <2>1, TopOfSearch, VariableType
  <2> QED
    BY <1>0, <2>1, <2>2 DEF Progress
<1>8. CASE ResolveType
  <2>1. UNCHANGED root
    BY <1>8 DEF ResolveType, ResolveStep, ResolveBase, ResolveTypedef, ResolveQualifier,
                ResolvePointer, ResolveArray, ResolveCompound, ResolveOther, ParseMember, Resolving
  <2> QED
    BY <1>0, <1>8, <2>1 DEF ResolveType, Progress, given, search
<1>9. CASE Loaded
  BY <1>0, <1>9 DEF Loaded, Return, Progress, given, types
<1>10. CASE Generate
  BY <1>0, <1>1, <1>10 DEF Generate, Progress
<1>11. CASE UNCHANGED vars
  BY <1>0, <1>11 DEF vars, types, given, search, results, Progress
<1> QED
  BY <1>2, <1>3, <1>4, <1>5, <1>6, <1>7, <1>8, <1>9, <1>10, <1>11 DEF Next

\* The first of the units still ahead is searched next.
LEMMA AheadOfUnit ==
  ASSUME Progress, die_stack = <<>>, unit < Len(file.units)
  PROVE  Ahead = (UNION {Within[file.units[n]] : n \in unit + 2 .. Len(file.units)})
                   \cup Within[file.units[unit + 1]]
<1>1. unit \in Nat /\ Len(file.units) \in Nat
  BY FilesAssumption DEF Progress
<1>2. unit + 1 .. Len(file.units) = {unit + 1} \cup (unit + 2 .. Len(file.units))
  BY <1>1
<1>3. Range(die_stack) = {}
  BY DEF Range
<1> QED
  BY <1>2, <1>3 DEF Ahead

\* At the start all of the file is ahead.
LEMMA AllAhead ==
  ASSUME unit' = 0, die_stack' = <<>>, Progress, UNCHANGED file
  PROVE  Ahead' = Reached
<1>1. file.units \in Seq(DOMAIN Dies)
  BY FilesAssumption DEF Progress
<1>2. DOMAIN file.units = 0 + 1 .. Len(file.units)
  BY <1>1, LenProperties
<1>3. Range(file.units) = {file.units[n] : n \in 0 + 1 .. Len(file.units)}
  BY <1>2 DEF Range
<1>4. Range(die_stack') = {}
  BY DEF Range
<1>5. Ahead' = (UNION {Within[file.units[n]] : n \in 0 + 1 .. Len(file.units)})
                 \cup UNION {Within[d] : d \in Range(die_stack')}
  BY DEF Ahead
<1> QED
  BY <1>3, <1>4, <1>5 DEF Reached

\* Looking at a DIE leaves ahead all that was but, at most, the DIE itself.
LEMMA AheadOfVisit ==
  ASSUME Progress, Visit
  PROVE  Ahead' \subseteq Ahead /\ Ahead \subseteq Ahead' \cup {Last(die_stack)}
<1> DEFINE d == Last(die_stack)
           units == UNION {Within[file.units[n]] : n \in unit + 1 .. Len(file.units)}
           front == Range(Front(die_stack))
<1>1. /\ die_stack \in Seq(DOMAIN Dies) /\ die_stack # <<>>
      /\ die_stack' = Front(die_stack) \o Dies[d].members /\ UNCHANGED <<file, unit>>
  BY DEF Visit, Searching, Progress, given
<1>2. d \in DOMAIN Dies /\ Dies[d].members \in Seq(DOMAIN Dies)
  BY <1>1, TopOfSearch, DiesAssumption
<1>3. Range(die_stack) = front \cup {d} /\ Range(die_stack') = front \cup Children(d)
  BY <1>1, <1>2, RangeOfStack DEF Children
<1>4. Within[d] = {d} \cup UNION {Within[m] : m \in Children(d)}
  BY <1>2, WithinUnfolds
<1>5. Ahead = units \cup UNION {Within[e] : e \in Range(die_stack)}
  BY DEF Ahead
<1>6. Ahead' = units \cup UNION {Within[e] : e \in Range(die_stack')}
  BY <1>1 DEF Ahead
<1> HIDE DEF d, units, front
<1>7. UNION {Within[e] : e \in front \cup {d}} = (UNION {Within[e] : e \in front}) \cup Within[d]
  OBVIOUS
<1>8. UNION {Within[e] : e \in front \cup Children(d)}
        = (UNION {Within[e] : e \in front}) \cup UNION {Within[m] : m \in Children(d)}
  OBVIOUS
<1>9. Ahead = units \cup (UNION {Within[e] : e \in front}) \cup Within[d]
  BY <1>3, <1>5, <1>7
<1>10. Ahead' = units \cup (UNION {Within[e] : e \in front}) \cup UNION {Within[m] : m \in Children(d)}
  BY <1>3, <1>6, <1>8
<1>11. Ahead' \subseteq Ahead /\ Ahead \subseteq Ahead' \cup {d}
  BY <1>4, <1>9, <1>10
<1> QED
  BY <1>11 DEF d

\* The top of the search is ahead.
LEMMA TopIsAhead ==
  ASSUME Progress, die_stack # <<>>
  PROVE  Last(die_stack) \in Ahead
<1> DEFINE d == Last(die_stack)
<1>1. die_stack \in Seq(DOMAIN Dies) /\ d \in DOMAIN Dies /\ <<>> \in Seq(DOMAIN Dies)
  BY TopOfSearch DEF Progress
<1>2. d \in Range(die_stack)
  BY <1>1, RangeOfStack
<1>3. d \in Within[d]
  BY <1>1, WithinUnfolds
<1> QED
  BY <1>2, <1>3 DEF Ahead

\* A variable is not passed by.
LEMMA ExploringStep ==
  ASSUME Results, Progress, Exploring, [Next]_vars
  PROVE  Exploring'
<1>1. /\ UNCHANGED <<file, symbol_name>> /\ Variables' = Variables /\ Reached' = Reached
  BY GivenStays
<1>2. Variables = {d \in Reached : IsVariable(d)}
  BY DEF Variables, Reached
<1>3. CASE SymbolFound
  <2>1. CASE phase' = "search"
    <3>1. unit' = 0 /\ die_stack' = <<>>
      BY <1>3, <2>1 DEF SymbolFound, Return, Progress
    <3>2. Ahead' = Reached
      BY <1>1, <3>1, AllAhead
    <3> QED
      BY <1>1, <1>2, <2>1, <3>2 DEF Exploring
  <2>2. CASE phase' = "done"
    BY <2>2 DEF Exploring
  <2> QED
    BY <1>3, <2>1, <2>2 DEF SymbolFound, Return
<1>4. CASE NextUnit
  <2>1. /\ phase = "search" /\ phase' = "search" /\ die_stack = <<>> /\ unit < Len(file.units)
        /\ unit' = unit + 1 /\ die_stack' = <<file.units[unit + 1]>>
    BY <1>4 DEF NextUnit, Searching
  <2>2. Range(die_stack') = {file.units[unit + 1]}
    BY <2>1 DEF Range
  <2>3. unit' + 1 = unit + 2
    BY <2>1 DEF Progress
  <2>4. Ahead' = (UNION {Within[file.units[n]] : n \in unit + 2 .. Len(file.units)})
                   \cup Within[file.units[unit + 1]]
    BY <1>1, <2>2, <2>3 DEF Ahead
  <2>5. Ahead' = Ahead
    BY <2>1, <2>4, AheadOfUnit
  <2> QED
    BY <1>1, <2>1, <2>5 DEF Exploring
<1>5. CASE Visit
  <2>1. phase = "search" /\ phase' = "search" /\ ~IsVariable(Last(die_stack))
    BY <1>5 DEF Visit, Searching
  <2>2. Ahead' \subseteq Ahead /\ Ahead \subseteq Ahead' \cup {Last(die_stack)}
    BY <1>5, AheadOfVisit
  <2>3. Last(die_stack) \notin Variables
    BY <1>2, <2>1
  <2> QED
    BY <1>1, <2>1, <2>2, <2>3 DEF Exploring
<1>6. CASE Found
  <2>1. /\ phase = "search" /\ phase' = "resolve" /\ die_stack # <<>>
        /\ IsVariable(Last(die_stack)) /\ root' = Dies[Last(die_stack)].ref
    BY <1>6 DEF Found, Searching, AskType
  <2>2. Last(die_stack) \in Variables
    BY <1>2, <2>1, TopIsAhead DEF Exploring
  <2> QED
    BY <1>1, <2>1, <2>2 DEF Exploring
<1>7. CASE ResolveType
  <2>1. phase = "resolve" /\ phase' = "resolve" /\ UNCHANGED root
    BY <1>7 DEF ResolveType, ResolveStep, ResolveBase, ResolveTypedef, ResolveQualifier,
                ResolvePointer, ResolveArray, ResolveCompound, ResolveOther, ParseMember,
                Resolving, search
  <2> QED
    BY <1>1, <2>1 DEF Exploring
<1>8. CASE InitFails \/ InitDone \/ NoSymbol \/ NoVariable \/ Loaded \/ Generate
  <2>1. phase' \in {"done", "symbol", "init"}
    BY <1>8 DEF InitFails, InitDone, NoSymbol, NoVariable, Loaded, Generate, Return
  <2> QED
    BY <2>1 DEF Exploring
<1>9. CASE UNCHANGED vars
  <2>1. UNCHANGED <<phase, unit, die_stack, root>>
    BY <1>9 DEF vars, search, types
  <2>2. Ahead' = Ahead
    BY <1>1, <2>1 DEF Ahead
  <2> QED
    BY <1>1, <2>1, <2>2 DEF Exploring
<1> QED
  BY <1>3, <1>4, <1>5, <1>6, <1>7, <1>8, <1>9 DEF Next

-----------------------------------------------------------------------------
\* What is returned is what there is to say of the file and the name.
LEMMA FindsVariableStep ==
  ASSUME Results, Progress, Exploring, FindsVariable, [Next]_vars
  PROVE  FindsVariable'
<1> SUFFICES ASSUME phase' = "done" PROVE FindsVariable'
  BY DEF FindsVariable
<1>1. UNCHANGED <<file, symbol_name>> /\ Named' = Named /\ Variables' = Variables
  BY GivenStays
<1>2. CASE InitFails
  BY <1>1, <1>2 DEF InitFails, Return, FindsVariable
<1>3. CASE NoSymbol
  BY <1>1, <1>3 DEF NoSymbol, Return, FindsVariable, Progress
<1>4. CASE SymbolFound
  BY <1>1, <1>4 DEF SymbolFound, Return, FindsVariable, Progress
<1>5. CASE NoVariable
  <2>1. phase = "search" /\ die_stack = <<>> /\ unit = Len(file.units)
    BY <1>5 DEF NoVariable, Searching
  <2>2. unit + 1 .. Len(file.units) = {} /\ Range(die_stack) = {}
    BY <2>1 DEF Progress, Range
  <2>3. Ahead = {}
    BY <2>2 DEF Ahead
  <2>4. Variables = {}
    BY <2>1, <2>3 DEF Exploring
  <2> QED
    BY <1>1, <1>5, <2>1, <2>4 DEF NoVariable, Return, FindsVariable, Progress
<1>6. CASE Loaded
  <2>1. phase = "resolve" /\ err' = "SUCCESS" /\ UNCHANGED root
    BY <1>6 DEF Loaded, Return, types
  <2>2. root \in {Dies[d].ref : d \in Variables}
    BY <2>1 DEF Exploring
  <2>3. file.elf /\ file.dwarf \notin {"error", "none"} /\ Named # {}
    BY <2>1 DEF Progress
  <2> QED
    BY <1>1, <2>1, <2>2, <2>3 DEF FindsVariable
<1>7. CASE UNCHANGED vars
  <2>1. UNCHANGED <<phase, err, root>>
    BY <1>7 DEF vars, search, types
  <2> QED
    BY <1>1, <2>1 DEF FindsVariable
<1>8. CASE InitDone \/ NextUnit \/ Visit \/ Found \/ ResolveType \/ Generate
  <2>1. phase' # "done"
    BY <1>8 DEF InitDone, NextUnit, Visit, Found, ResolveType, Generate, Searching, search
  <2> QED
    BY <2>1
<1> QED
  BY <1>2, <1>3, <1>4, <1>5, <1>6, <1>7, <1>8 DEF Next

LEMMA Initially == Init => IInv
<1> SUFFICES ASSUME Init PROVE IInv
  OBVIOUS
<1>1. Results
  BY EmptyResults DEF Init, TypesInit
<1>2. Progress
  <2>1. <<>> \in Seq(DOMAIN Dies) /\ file.units \in Seq(DOMAIN Dies)
    BY FilesAssumption DEF Init
  <2>2. Len(file.units) \in Nat
    BY <2>1
  <2> QED
    BY <2>1, <2>2 DEF Init, TypesInit, Progress
<1>3. Exploring /\ FindsVariable
  BY DEF Init, Exploring, FindsVariable
<1> QED
  BY <1>1, <1>2, <1>3 DEF IInv

LEMMA ElfInvariance == Spec => []IInv
<1>1. Init => IInv
  BY Initially
<1>2. IInv /\ [Next]_vars => IInv'
  BY ResultsStep, ProgressStep, ExploringStep, FindsVariableStep DEF IInv
<1> QED
  BY <1>1, <1>2, PTL DEF Spec

\* The load says what is wrong with a file, and finds a variable of the name
\* wherever in the file it is (find_variable_die): for every file, whose units
\* may even hold DIEs more than once.
THEOREM FindsTheVariable == Spec => []FindsVariable
<1>1. IInv => FindsVariable
  BY DEF IInv
<1> QED
  BY <1>1, ElfInvariance, PTL

\* No two items resolve into one record.
LEMMA ResultsAreApart == Results => ResultsLive
<1> SUFFICES ASSUME Results PROVE ResultsLive
  OBVIOUS
<1> DEFINE paths == {stack[n].path : n \in DOMAIN stack}
           f == [n \in DOMAIN stack |-> stack[n].path]
<1>1. stack \in Seq(Item) /\ DOMAIN stack = 1 .. Len(stack) /\ Len(stack) \in Nat
  BY LenProperties DEF Results
<1>2. \A n \in DOMAIN stack : stack[n].path \in DOMAIN tree /\ stack[n].path \in Path
  BY DEF Results
<1>3. \A m, n \in DOMAIN stack : IsPrefix(stack[m].path, stack[n].path) => m = n
  BY DEF Results
<1>4. \A p \in Path : IsPrefix(p, p)
  <2> TAKE p \in Path
  <2>1. Len(p) \in Nat
    BY DEF Path
  <2> QED
    BY <2>1, PrefixPointwise
<1>5. f \in Bijection(1 .. Len(stack), paths)
  <2>1. f \in [1 .. Len(stack) -> paths]
    BY <1>1
  <2>2. IsInjective(f)
    BY <1>1, <1>2, <1>3, <1>4 DEF IsInjective
  <2>3. \A p \in paths : \E n \in 1 .. Len(stack) : f[n] = p
    BY <1>1
  <2> QED
    BY <2>1, <2>2, <2>3 DEF Bijection, Injection, Surjection
<1>6. Cardinality(paths) = Len(stack)
  <2>1. /\ IsFiniteSet(1 .. Len(stack))
        /\ Cardinality(1 .. Len(stack)) = IF 1 > Len(stack) THEN 0 ELSE Len(stack) - 1 + 1
    BY <1>1, FS_Interval
  <2>2. Cardinality(1 .. Len(stack)) = Len(stack)
    BY <1>1, <2>1
  <2>3. ExistsBijection(1 .. Len(stack), paths)
    BY <1>5 DEF ExistsBijection
  <2> HIDE DEF paths
  <2> QED
    BY <2>1, <2>2, <2>3, FS_Bijection
<1>7. \A p, q \in paths : IsPrefix(p, q) => p = q
  BY <1>3
<1> QED
  BY <1>2, <1>6, <1>7 DEF ResultsLive

\* "Where to store result (raw ptr, owned elsewhere)" (elf_parser.cpp:366): while
\* the loop runs, every result points to a record that exists, and no two into
\* each other, for every type, one that leads back to itself included.
THEOREM ResultsStayLive == Spec => []ResultsLive
<1>1. IInv => ResultsLive
  BY ResultsAreApart DEF IInv
<1> QED
  BY <1>1, ElfInvariance, PTL

-----------------------------------------------------------------------------
(* The type of a DIE, from those it refers to.                             *)

\* The least of a set of numbers.
LEMMA Least ==
  ASSUME NEW T, T \subseteq Nat, T # {}
  PROVE  \E n \in T : \A k \in T : n <= k
<1> DEFINE R == OpToRel(<, Nat)
<1>1. IsWellFoundedOn(R, Nat)
  BY NatLessThanWellFounded
<1>2. PICK n \in T : \A k \in T : ~ (<<k, n>> \in R)
  BY <1>1, WFMin
<1>3. \A k \in Nat, m \in Nat : k < m => <<k, m>> \in R
  BY DEF OpToRel
<1> HIDE DEF R
<1>4. \A k \in T : ~ (k < n)
  BY <1>2, <1>3
<1>5. \A k \in T : k \in Nat /\ n \in Nat
  OBVIOUS
<1>6. \A k \in T : n <= k
  BY <1>4, <1>5
<1> QED
  BY <1>6

\* A least counterexample in place of induction: what holds at 0 and passes
\* from each number to the next is all of them.
LEMMA Climb ==
  ASSUME NEW T, 0 \in T, \A n \in Nat : n \in T => n + 1 \in T
  PROVE  Nat \subseteq T
<1> SUFFICES ASSUME Nat \ T # {} PROVE FALSE
  OBVIOUS
<1>1. PICK n \in Nat \ T : \A k \in Nat \ T : n <= k
  BY Least
<1>2. n # 0
  OBVIOUS
<1>3. n - 1 \in Nat /\ n - 1 \in T
  BY <1>1, <1>2
<1>4. n - 1 + 1 = n /\ n - 1 + 1 \in T
  BY <1>3
<1> QED
  BY <1>4

\* A record of a type, and one with another name.
Shape(type, typedef, size, total, fields) ==
  [type |-> type, typedef |-> typedef, size |-> size, total |-> total, fields |-> fields]
IsType(v)     == v = Shape(v.type, v.typedef, v.size, v.total, v.fields)
Known(v, name) == Shape(v.type, name, v.size, v.total, v.fields)

\* What a DIE stands for when f[d] is what each DIE it refers to stands for.
Referring(f, d) == IF Dies[d].ref = Untyped THEN NewType ELSE f[Dies[d].ref]
MemberTypes(f, d) ==
  [n \in DOMAIN Dies[d].members |->
     [name |-> Dies[Dies[d].members[n]].name, off |-> Dies[Dies[d].members[n]].off,
      ti |-> f[Dies[Dies[d].members[n]].ref]]]
TypeBy(f, d) ==
  CASE Dies[d].tag = "base"    -> [NewType EXCEPT !.type = Dies[d].name, !.size = Dies[d].size]
    [] Dies[d].tag = "enum"    -> [NewType EXCEPT !.type = "enum", !.size = Dies[d].size]
    [] Dies[d].tag = "typedef" ->
         IF Dies[d].ref = Untyped THEN [NewType EXCEPT !.type = Dies[d].name]
         ELSE [Referring(f, d) EXCEPT !.typedef = Dies[d].name]
    [] Dies[d].tag \in {"const", "volatile"} ->
         IF Dies[d].ref = Untyped THEN [NewType EXCEPT !.type = "void"] ELSE Referring(f, d)
    [] Dies[d].tag = "pointer" -> [NewType EXCEPT !.type = "pointer", !.size = Dies[d].size]
    [] Dies[d].tag = "array"   ->
         [NewType EXCEPT !.type = "array", !.total = Elements(Dies[d].dims),
            !.fields = <<[name |-> "__element_type__", off |-> 0, ti |-> Referring(f, d)]>>]
    [] Unknown(Dies[d].tag) -> [NewType EXCEPT !.type = "unknown", !.size = Dies[d].size]
    [] OTHER ->
         [NewType EXCEPT !.type = Dies[d].tag, !.size = Dies[d].size, !.fields = MemberTypes(f, d)]

\* The DIEs whose types are parts of the type of d, or it under another name.
Parts(d) ==
  IF Dies[d].tag \in {"typedef", "const", "volatile", "array"} /\ Dies[d].ref # Untyped
  THEN {Dies[d].ref}
  ELSE IF Dies[d].tag \in {"struct", "union"}
  THEN {Dies[Dies[d].members[n]].ref : n \in DOMAIN Dies[d].members}
  ELSE {}

\* A type is deeper than its parts, which are known.
LEMMA PartsAreDeeper ==
  ASSUME NEW deepest \in Nat, NEW depth, WellFormed(depth, deepest), NEW d \in DOMAIN Dies
  PROVE  \A e \in Parts(d) : e \in DOMAIN Dies /\ depth[e] < depth[d]
<1>1. CASE Dies[d].tag \in {"typedef", "const", "volatile", "array"} /\ Dies[d].ref # Untyped
  <2>1. Dies[d].ref \in DOMAIN Dies
    BY <1>1, DiesAssumption
  <2>2. depth[Dies[d].ref] < depth[d]
    BY <1>1 DEF WellFormed
  <2> QED
    BY <1>1, <2>1, <2>2 DEF Parts
<1>2. CASE Dies[d].tag \in {"struct", "union"}
  <2> SUFFICES ASSUME NEW n \in DOMAIN Dies[d].members
               PROVE  /\ Dies[Dies[d].members[n]].ref \in DOMAIN Dies
                      /\ depth[Dies[Dies[d].members[n]].ref] < depth[d]
    BY <1>2 DEF Parts
  <2>1. Dies[d].members \in Seq(DOMAIN Dies)
    BY DiesAssumption
  <2>2. Dies[d].members[n] \in DOMAIN Dies
    BY <2>1
  <2>3. /\ Dies[Dies[d].members[n]].ref # Untyped
        /\ depth[Dies[Dies[d].members[n]].ref] < depth[d]
    BY <1>2 DEF WellFormed
  <2> QED
    BY <2>2, <2>3, DiesAssumption
<1>3. CASE /\ ~(Dies[d].tag \in {"typedef", "const", "volatile", "array"} /\ Dies[d].ref # Untyped)
           /\ Dies[d].tag \notin {"struct", "union"}
  BY <1>3 DEF Parts
<1> QED
  BY <1>1, <1>2, <1>3

\* Only the parts of a type say what it is.
LEMMA TypeByParts ==
  ASSUME NEW deepest \in Nat, NEW depth, WellFormed(depth, deepest), NEW d \in DOMAIN Dies,
         NEW f, NEW g, \A e \in Parts(d) : f[e] = g[e]
  PROVE  TypeBy(f, d) = TypeBy(g, d)
<1>1. ASSUME Dies[d].tag \in {"typedef", "const", "volatile", "array"}
      PROVE  Referring(f, d) = Referring(g, d)
  BY <1>1 DEF Referring, Parts
<1>2. ASSUME Dies[d].tag \in {"struct", "union"}
      PROVE  MemberTypes(f, d) = MemberTypes(g, d)
  <2>1. \A n \in DOMAIN Dies[d].members :
          f[Dies[Dies[d].members[n]].ref] = g[Dies[Dies[d].members[n]].ref]
    BY <1>2 DEF Parts
  <2> QED
    BY <2>1 DEF MemberTypes
<1>3. CASE Dies[d].tag \in {"typedef", "const", "volatile", "array"}
  <2>1. Referring(f, d) = Referring(g, d)
    BY <1>1, <1>3
  <2>2. CASE Dies[d].tag = "typedef"
    BY <2>1, <2>2 DEF TypeBy
  <2>3. CASE Dies[d].tag \in {"const", "volatile"}
    BY <2>1, <2>3 DEF TypeBy
  <2>4. CASE Dies[d].tag = "array"
    BY <2>1, <2>4 DEF TypeBy
  <2> QED
    BY <1>3, <2>2, <2>3, <2>4
<1>4. CASE Dies[d].tag \in {"struct", "union"}
  BY <1>2, <1>4 DEF TypeBy, Unknown
<1>5. CASE Dies[d].tag \notin {"typedef", "const", "volatile", "array", "struct", "union"}
  BY <1>5 DEF TypeBy, Unknown
<1> QED
  BY <1>3, <1>4, <1>5

\* TypeOf is a function its equation says: the equation has a solution for
\* the DIEs less deep than n, whatever n.
LEMMA TypeOfUnfolds ==
  ASSUME NEW deepest \in Nat, NEW depth, WellFormed(depth, deepest), NEW d \in DOMAIN Dies
  PROVE  TypeOf[d] = TypeBy(TypeOf, d)
<1> DEFINE S(n) == {e \in DOMAIN Dies : depth[e] < n}
           Solved(n) == \E f : f = [e \in S(n) |-> TypeBy(f, e)]
           T == {n \in Nat : Solved(n)}
<1>0. depth \in [DOMAIN Dies -> 0 .. deepest]
  BY DEF WellFormed
<1>1. 0 \in T
  <2>1. \A e \in DOMAIN Dies : ~ (depth[e] < 0)
    BY <1>0
  <2>2. S(0) = {}
    BY <2>1
  <2> DEFINE f == [e \in {} |-> 0]
  <2>3. f = [e \in S(0) |-> TypeBy(f, e)]
    BY <2>2
  <2> QED
    BY <2>3
<1>2. ASSUME NEW n \in Nat, n \in T PROVE n + 1 \in T
  <2>1. PICK f : f = [e \in S(n) |-> TypeBy(f, e)]
    BY <1>2
  <2> DEFINE g == [e \in S(n + 1) |-> TypeBy(f, e)]
  <2>2. \A e \in S(n + 1) : e \in DOMAIN Dies /\ \A r \in Parts(e) : r \in S(n)
    <3> SUFFICES ASSUME NEW e \in S(n + 1), NEW r \in Parts(e) PROVE r \in S(n)
      OBVIOUS
    <3>1. e \in DOMAIN Dies /\ depth[e] < n + 1
      OBVIOUS
    <3>2. r \in DOMAIN Dies /\ depth[r] < depth[e] /\ depth[r] \in Nat /\ depth[e] \in Nat
      BY <1>0, <3>1, PartsAreDeeper
    <3> QED
      BY <3>1, <3>2
  <2>3. \A e \in S(n) : e \in S(n + 1)
    BY <1>0
  <2>4. \A e \in S(n) : f[e] = g[e]
    BY <2>1, <2>3
  <2>5. \A e \in S(n + 1) : TypeBy(f, e) = TypeBy(g, e)
    <3> HIDE DEF g, S
    <3> QED
      BY <2>2, <2>4, TypeByParts
  <2>6. g = [e \in S(n + 1) |-> TypeBy(g, e)]
    BY <2>5
  <2> HIDE DEF g
  <2>7. Solved(n + 1)
    BY <2>6
  <2> HIDE DEF Solved
  <2> QED
    BY <2>7
<1>3. Nat \subseteq T
  <2> HIDE DEF T
  <2> QED
    BY <1>1, <1>2, Climb
<1>4. \A e \in DOMAIN Dies : depth[e] < deepest + 1
  BY <1>0
<1>5. S(deepest + 1) = DOMAIN Dies
  BY <1>4
<1>6. \E f : f = [e \in DOMAIN Dies |-> TypeBy(f, e)]
  <2>1. deepest + 1 \in T
    BY <1>3
  <2> QED
    BY <1>5, <2>1
<1>7. TypeOf = CHOOSE f : f = [e \in DOMAIN Dies |-> TypeBy(f, e)]
  BY DEF TypeOf, TypeBy, Referring, MemberTypes
<1>8. TypeOf = [e \in DOMAIN Dies |-> TypeBy(TypeOf, e)]
  BY <1>6, <1>7
<1> QED
  BY <1>8

\* What the code makes of each kind of DIE.
LEMMA KindsOfType ==
  ASSUME NEW deepest \in Nat, NEW depth, WellFormed(depth, deepest), NEW d \in DOMAIN Dies
  PROVE  /\ Dies[d].tag = "base" => TypeOf[d] = Shape(Dies[d].name, "", Dies[d].size, 0, <<>>)
         /\ Dies[d].tag = "enum" => TypeOf[d] = Shape("enum", "", Dies[d].size, 0, <<>>)
         /\ Dies[d].tag = "typedef" /\ Dies[d].ref = Untyped =>
              TypeOf[d] = Shape(Dies[d].name, "", 0, 0, <<>>)
         /\ Dies[d].tag = "typedef" /\ Dies[d].ref # Untyped /\ IsType(TypeOf[Dies[d].ref]) =>
              TypeOf[d] = Known(TypeOf[Dies[d].ref], Dies[d].name)
         /\ Dies[d].tag \in {"const", "volatile"} =>
              TypeOf[d] = IF Dies[d].ref = Untyped THEN Shape("void", "", 0, 0, <<>>)
                          ELSE TypeOf[Dies[d].ref]
         /\ Dies[d].tag = "pointer" => TypeOf[d] = Shape("pointer", "", Dies[d].size, 0, <<>>)
         /\ Dies[d].tag = "array" /\ Dies[d].ref # Untyped =>
              TypeOf[d] = Shape("array", "", 0, Elements(Dies[d].dims),
                                <<[name |-> "__element_type__", off |-> 0,
                                   ti |-> TypeOf[Dies[d].ref]]>>)
         /\ Unknown(Dies[d].tag) => TypeOf[d] = Shape("unknown", "", Dies[d].size, 0, <<>>)
         /\ Dies[d].tag \in {"struct", "union"} =>
              TypeOf[d] = Shape(Dies[d].tag, "", Dies[d].size, 0, MemberTypes(TypeOf, d))
<1>1. TypeOf[d] = TypeBy(TypeOf, d)
  BY TypeOfUnfolds
<1>2. CASE Dies[d].tag = "base"
  BY <1>1, <1>2 DEF TypeBy, NewType, Shape, Unknown
<1>3. CASE Dies[d].tag = "enum"
  BY <1>1, <1>3 DEF TypeBy, NewType, Shape, Unknown
<1>4. CASE Dies[d].tag = "typedef" /\ Dies[d].ref = Untyped
  BY <1>1, <1>4 DEF TypeBy, NewType, Shape, Unknown
<1>5. CASE Dies[d].tag = "typedef" /\ Dies[d].ref # Untyped
  <2>1. PICK v : v = TypeOf[Dies[d].ref]
    OBVIOUS
  <2>2. TypeOf[d] = [v EXCEPT !.typedef = Dies[d].name]
    <3>1. TypeOf[d] = [Referring(TypeOf, d) EXCEPT !.typedef = Dies[d].name]
      BY <1>1, <1>5 DEF TypeBy, Unknown
    <3>2. Referring(TypeOf, d) = v
      BY <1>5, <2>1 DEF Referring
    <3> QED
      BY <3>1, <3>2
  <2>3. IsType(v) => [v EXCEPT !.typedef = Dies[d].name] = Known(v, Dies[d].name)
    <3> SUFFICES ASSUME IsType(v)
                 PROVE  [v EXCEPT !.typedef = Dies[d].name] = Known(v, Dies[d].name)
      OBVIOUS
    <3>1. PICK a, b, c, e, g : v = [type |-> a, typedef |-> b, size |-> c, total |-> e, fields |-> g]
      BY DEF IsType, Shape
    <3> QED
      BY <3>1 DEF Known, Shape
  <2> QED
    BY <1>5, <2>1, <2>2, <2>3 DEF Unknown
<1>6. CASE Dies[d].tag \in {"const", "volatile"}
  BY <1>1, <1>6 DEF TypeBy, NewType, Shape, Unknown, Referring
<1>7. CASE Dies[d].tag = "pointer"
  BY <1>1, <1>7 DEF TypeBy, NewType, Shape, Unknown
<1>8. CASE Dies[d].tag = "array"
  <2>1. PICK v : v = TypeOf[Dies[d].ref]
    OBVIOUS
  <2>2. Dies[d].ref # Untyped =>
          TypeOf[d] = [NewType EXCEPT !.type = "array", !.total = Elements(Dies[d].dims),
                         !.fields = <<[name |-> "__element_type__", off |-> 0, ti |-> v]>>]
    <3>1. TypeOf[d] = [NewType EXCEPT !.type = "array", !.total = Elements(Dies[d].dims),
                         !.fields = <<[name |-> "__element_type__", off |-> 0,
                                       ti |-> Referring(TypeOf, d)]>>]
      BY <1>1, <1>8 DEF TypeBy, Unknown
    <3>2. Dies[d].ref # Untyped => Referring(TypeOf, d) = v
      BY <2>1 DEF Referring
    <3> QED
      BY <3>1, <3>2
  <2> QED
    BY <1>8, <2>1, <2>2 DEF NewType, Shape, Unknown
<1>9. CASE Unknown(Dies[d].tag)
  BY <1>1, <1>9 DEF TypeBy, NewType, Shape, Unknown
<1>10. CASE Dies[d].tag \in {"struct", "union"}
  <2>1. TypeOf[d] = [NewType EXCEPT !.type = Dies[d].tag, !.size = Dies[d].size,
                                   !.fields = MemberTypes(TypeOf, d)]
    BY <1>1, <1>10 DEF TypeBy, Unknown
  <2> QED
    BY <1>10, <2>1 DEF NewType, Shape, Unknown
<1> QED
  BY <1>2, <1>3, <1>4, <1>5, <1>6, <1>7, <1>8, <1>9, <1>10 DEF Unknown

\* Every type is a record with these five parts.
LEMMA AllAreTypes ==
  ASSUME NEW deepest \in Nat, NEW depth, WellFormed(depth, deepest)
  PROVE  \A d \in DOMAIN Dies : IsType(TypeOf[d])
<1> DEFINE T == {n \in Nat : \A d \in DOMAIN Dies : depth[d] < n => IsType(TypeOf[d])}
<1>0. \A d \in DOMAIN Dies : depth[d] \in 0 .. deepest
  BY DEF WellFormed
<1>1. 0 \in T
  <2>1. \A d \in DOMAIN Dies : ~(depth[d] < 0)
    BY <1>0
  <2> QED
    BY <2>1
<1>2. ASSUME NEW n \in Nat, n \in T PROVE n + 1 \in T
  <2> SUFFICES ASSUME NEW d \in DOMAIN Dies, depth[d] < n + 1 PROVE IsType(TypeOf[d])
    OBVIOUS
  <2>1. \A x, y, z, u, w : IsType(Shape(x, y, z, u, w))
    BY DEF IsType, Shape
  <2>2. ASSUME Dies[d].tag \in {"typedef", "const", "volatile"}, Dies[d].ref # Untyped
        PROVE  IsType(TypeOf[Dies[d].ref])
    <3>1. Dies[d].ref \in DOMAIN Dies /\ depth[Dies[d].ref] < depth[d]
      BY <2>2, PartsAreDeeper DEF Parts
    <3>2. depth[Dies[d].ref] < n
      BY <1>0, <3>1
    <3> QED
      BY <1>2, <3>1, <3>2
  <2>3. ASSUME NEW x, NEW y, NEW z, NEW u, NEW w, TypeOf[d] = Shape(x, y, z, u, w)
        PROVE  IsType(TypeOf[d])
    BY <2>1, <2>3
  <2> HIDE DEF T
  <2>4. CASE Dies[d].tag = "typedef"
    <3>1. CASE Dies[d].ref = Untyped
      <4>1. TypeOf[d] = Shape(Dies[d].name, "", 0, 0, <<>>)
        BY <2>4, <3>1, KindsOfType
      <4> QED
        BY <2>3, <4>1
    <3>2. CASE Dies[d].ref # Untyped
      <4>1. TypeOf[d] = Known(TypeOf[Dies[d].ref], Dies[d].name)
        BY <2>2, <2>4, <3>2, KindsOfType
      <4> QED
        BY <2>3, <4>1 DEF Known
    <3> QED
      BY <3>1, <3>2
  <2>5. CASE Dies[d].tag \in {"const", "volatile"}
    <3>1. TypeOf[d] = IF Dies[d].ref = Untyped THEN Shape("void", "", 0, 0, <<>>)
                      ELSE TypeOf[Dies[d].ref]
      BY <2>5, KindsOfType
    <3> QED
      BY <2>2, <2>3, <2>5, <3>1
  <2>6. CASE Dies[d].tag = "array"
    <3>1. Dies[d].ref # Untyped
      BY <2>6 DEF WellFormed
    <3>2. TypeOf[d] = Shape("array", "", 0, Elements(Dies[d].dims),
                            <<[name |-> "__element_type__", off |-> 0,
                               ti |-> TypeOf[Dies[d].ref]]>>)
      BY <2>6, <3>1, KindsOfType
    <3> QED
      BY <2>3, <3>2
  <2>7. CASE Dies[d].tag \in {"struct", "union"}
    <3>1. TypeOf[d] = Shape(Dies[d].tag, "", Dies[d].size, 0, MemberTypes(TypeOf, d))
      BY <2>7, KindsOfType
    <3> QED
      BY <2>3, <3>1
  <2>8. CASE Dies[d].tag \in {"base", "enum", "pointer"} \/ Unknown(Dies[d].tag)
    <3>1. \E x : TypeOf[d] = Shape(x, "", Dies[d].size, 0, <<>>)
      BY <2>8, KindsOfType
    <3> QED
      BY <2>3, <3>1
  <2> QED
    BY <2>4, <2>5, <2>6, <2>7, <2>8 DEF Unknown
<1>3. Nat \subseteq T
  <2> HIDE DEF T
  <2> QED
    BY <1>1, <1>2, Climb
<1> SUFFICES ASSUME NEW d \in DOMAIN Dies PROVE IsType(TypeOf[d])
  OBVIOUS
<1>4. depth[d] \in Nat /\ depth[d] + 1 \in Nat /\ depth[d] < depth[d] + 1
  BY <1>0
<1> QED
  BY <1>3, <1>4

-----------------------------------------------------------------------------
(* What each record is to become.                                          *)

\* The parent of a child, and which one it is.
LEMMA ParentOfChild ==
  ASSUME NEW p \in Path, NEW i \in Int
  PROVE  Front(Append(p, i)) = p /\ Last(Append(p, i)) = i
<1> DEFINE c == Append(p, i)
<1>1. /\ c \in Seq(Int) /\ Len(c) = Len(p) + 1 /\ c[Len(p) + 1] = i /\ c # <<>>
      /\ Len(p) \in Nat /\ \A n \in 1 .. Len(p) : c[n] = p[n]
  BY DEF Path
<1> HIDE DEF c
<1>2. /\ Last(c) = c[Len(c)] /\ Front(c) \in Seq(Int) /\ Len(Front(c)) = Len(c) - 1
      /\ \A n \in 1 .. Len(c) - 1 : Front(c)[n] = c[n]
  BY <1>1, FrontLast
<1>3. Front(c) \in Seq(Int) /\ Len(Front(c)) = Len(p) /\ \A n \in 1 .. Len(p) : Front(c)[n] = p[n]
  BY <1>1, <1>2
<1>4. Front(c) = p
  BY <1>3, SeqEqual DEF Path
<1> QED
  BY <1>1, <1>2, <1>4 DEF c

\* A type under the name of the outermost typedef met so far.
Called(v, name) == IF name = "" THEN v ELSE Known(v, name)

Pending(s, p) == \E n \in DOMAIN s : s[n].kind = "member" /\ s[n].path = p
Waits(s, p)   == \E n \in DOMAIN s : s[n].path = p

\* An item whose type is that of its DIE, but for the name found so far.
ToResolve(V, t, w) ==
  /\ t[w.path] = Shape("", t[w.path].typedef, 0, 0, <<>>)
  /\ V[w.path] = Called(TypeOf[w.die], t[w.path].typedef)

\* An item whose type is that of its member, whose name and offset its parent
\* still lacks.
ToParse(V, t, w) ==
  /\ w.path = Append(Front(w.path), Last(w.path)) /\ Front(w.path) \in DOMAIN t
  /\ Last(w.path) \in Int /\ Last(w.path) + 1 \in DOMAIN t[Front(w.path)].fields
  /\ t[w.path] = NewType
  /\ Dies[w.die].ref # Untyped /\ V[w.path] = TypeOf[Dies[w.die].ref]
  /\ V[Front(w.path)].fields[Last(w.path) + 1].name = Dies[w.die].name
  /\ V[Front(w.path)].fields[Last(w.path) + 1].off = MemberLocation(Dies[w.die].loc)

Expected(V, t, w) ==
  /\ w.kind = "resolve" => ToResolve(V, t, w)
  /\ w.kind = "member" => ToParse(V, t, w)

\* Field n of the record at p as it is to become.
Field(V, p, n) == [name |-> V[p].fields[n].name, off |-> V[p].fields[n].off,
                   ti |-> V[Append(p, n - 1)]]

\* A record that is finished but for the fields whose members wait.
FieldSettled(V, s, t, p, n) ==
  /\ Append(p, n - 1) \in DOMAIN t
  /\ \/ Pending(s, Append(p, n - 1))
     \/ t[p].fields[n] = [name |-> V[p].fields[n].name, off |-> V[p].fields[n].off]

Settled(V, s, t, p) ==
  /\ IsType(t[p])
  /\ V[p] = Shape(t[p].type, t[p].typedef, t[p].size, t[p].total, V[p].fields)
  /\ V[p].fields = [n \in DOMAIN t[p].fields |-> Field(V, p, n)]
  /\ DOMAIN t[p].fields \subseteq Int
  /\ \A n \in DOMAIN t[p].fields : FieldSettled(V, s, t, p, n)

\* V[p] is the type that the record at p is to become: a record no item waits
\* for is of that type.
Built(V, s, t) ==
  /\ V = [p \in DOMAIN t |-> V[p]]
  /\ \A n \in DOMAIN s : Expected(V, t, s[n])
  /\ \A p \in DOMAIN t : Waits(s, p) \/ Settled(V, s, t, p)

\* The items below the top have nothing to do with its record.
LEMMA BelowTop ==
  ASSUME Results, stack # <<>>, NEW n \in 1 .. Len(Rest)
  PROVE  /\ n \in DOMAIN stack /\ Rest[n] = stack[n] /\ stack[n] \in Item
         /\ stack[n].path \in Path /\ stack[n].path \in DOMAIN tree
         /\ ~IsPrefix(stack[n].path, Top.path) /\ ~IsPrefix(Top.path, stack[n].path)
<1>1. /\ Len(stack) \in Nat \ {0} /\ Len(Rest) = Len(stack) - 1 /\ DOMAIN stack = 1 .. Len(stack)
      /\ Top = stack[Len(stack)] /\ Rest[n] = stack[n]
  BY TopAndRest DEF Results
<1>2. n \in DOMAIN stack /\ Len(stack) \in DOMAIN stack /\ n # Len(stack)
  BY <1>1
<1>3. stack[n] \in Item
  BY <1>2 DEF Results
<1>4. ~IsPrefix(stack[n].path, Top.path) /\ ~IsPrefix(Top.path, stack[n].path)
  BY <1>1, <1>2 DEF Results
<1>5. stack[n].path \in DOMAIN tree
  BY <1>2 DEF Results
<1> QED
  BY <1>1, <1>2, <1>3, <1>4, <1>5 DEF Item

\* The items after a turn: those below, then the new ones.
After(s, more) ==
  /\ \A n \in DOMAIN s : \/ n \in 1 .. Len(Rest) /\ s[n] = stack[n]
                        \/ \E k \in DOMAIN more : s[n] = more[k]
  /\ \A n \in 1 .. Len(Rest) : n \in DOMAIN s /\ s[n] = stack[n]
  /\ \A k \in DOMAIN more : \E n \in DOMAIN s : s[n] = more[k]
  /\ \A n \in DOMAIN stack : n \in 1 .. Len(Rest) \/ stack[n] = Top

LEMMA ItemsAfter ==
  ASSUME Results, stack # <<>>, NEW more \in Seq(Item)
  PROVE  After(Rest \o more, more)
<1> DEFINE r == Len(Rest)
           l == Len(more)
           s == Rest \o more
<1>1. /\ r \in Nat /\ l \in Nat /\ DOMAIN more = 1 .. l /\ DOMAIN s = 1 .. r + l
      /\ \A n \in 1 .. r : s[n] = Rest[n] /\ Rest[n] = stack[n]
      /\ \A n \in 1 .. l : s[r + n] = more[n]
  BY TopAndRest, ConcatProperties
<1>2. DOMAIN stack = 1 .. r + 1 /\ stack[r + 1] = Top
  BY TopAndRest DEF Results
<1> HIDE DEF r, l, s
<1>3. \A n \in 1 .. r : n \in DOMAIN s /\ s[n] = stack[n]
  BY <1>1
<1>4. ASSUME NEW k \in DOMAIN more PROVE \E n \in DOMAIN s : s[n] = more[k]
  <2>1. r + k \in DOMAIN s /\ s[r + k] = more[k]
    BY <1>1
  <2> QED
    BY <2>1
<1>5. ASSUME NEW n \in DOMAIN s
      PROVE  (n \in 1 .. r /\ s[n] = stack[n]) \/ \E k \in DOMAIN more : s[n] = more[k]
  <2>1. CASE n \in 1 .. r
    BY <1>3, <2>1
  <2>2. CASE n \notin 1 .. r
    <3>1. n - r \in DOMAIN more /\ s[r + (n - r)] = more[n - r] /\ r + (n - r) = n
      BY <1>1, <2>2
    <3> QED
      BY <3>1
  <2> QED
    BY <2>1, <2>2
<1>6. \A n \in DOMAIN stack : n \in 1 .. r \/ stack[n] = Top
  BY <1>1, <1>2
<1> QED
  BY <1>3, <1>4, <1>5, <1>6 DEF r, s, After

\* New records, each a child of the top's.
Sprouts(new) == \A q \in new : \E i \in Int : q = Append(Top.path, i)

\* The top's record and new ones apart, a tree has the same records.
OthersKept(t, new) == \A q \in DOMAIN tree : q = Top.path \/ q \in new \/ t[q] = tree[q]
AllNew(t, new)     == \A q \in new : t[q] = NewType

\* No record but the top's and new ones changes, and none stands for
\* something else than before.
Kept(V, W, t, new) ==
  /\ DOMAIN t = DOMAIN tree \cup new
  /\ OthersKept(t, new)
  /\ \A q \in DOMAIN tree : q \in new \/ W[q] = V[q]
  /\ W = [q \in DOMAIN t |-> W[q]]

\* A turn that makes children for the top's record, and work for it or for
\* them.
LEMMA Grown ==
  ASSUME Results, stack # <<>>, Top.kind = "resolve",
         NEW V, Built(V, stack, tree),
         NEW more \in Seq(Item), NEW s, s = Rest \o more,
         NEW new, Sprouts(new), NEW t, NEW W, Kept(V, W, t, new),
         \A k \in DOMAIN more : Expected(W, t, more[k]),
         \A q \in new : Waits(more, q),
         Waits(more, Top.path) \/ Settled(W, more, t, Top.path)
  PROVE  Built(W, s, t)
<1>1. /\ \A n \in DOMAIN s : \/ n \in 1 .. Len(Rest) /\ s[n] = stack[n]
                             \/ \E k \in DOMAIN more : s[n] = more[k]
      /\ \A n \in 1 .. Len(Rest) : n \in DOMAIN s /\ s[n] = stack[n]
      /\ \A k \in DOMAIN more : \E n \in DOMAIN s : s[n] = more[k]
      /\ \A n \in DOMAIN stack : n \in 1 .. Len(Rest) \/ stack[n] = Top
  BY ItemsAfter DEF After
<1> DEFINE p == Top.path
<1>2. p \in Path /\ p \in DOMAIN tree /\ DOMAIN tree \subseteq Path
  BY TopDie DEF Results
<1>3. ASSUME NEW q \in Path, NEW i \in Int, Append(q, i) \in new
      PROVE  q = p
  <2>1. PICK j \in Int : Append(q, i) = Append(p, j)
    BY <1>3 DEF Sprouts
  <2>2. Front(Append(q, i)) = q /\ Front(Append(p, j)) = p
    BY <1>2, ParentOfChild
  <2> QED
    BY <2>1, <2>2
<1>4. ASSUME NEW q \in new PROVE q \in Path /\ IsPrefix(p, q)
  <2>1. PICK i \in Int : q = Append(p, i)
    BY DEF Sprouts
  <2>2. IsPrefix(p, p)
    BY <1>2, PrefixPointwise
  <2>3. q \in Path /\ Len(q) = Len(p) + 1 /\ Len(p) \in Nat /\ \A n \in 1 .. Len(p) : q[n] = p[n]
    BY <1>2, <2>1 DEF Path
  <2> HIDE DEF p
  <2>4. IsPrefix(p, q)
    BY <1>2, <2>3, PrefixPointwise
  <2> QED
    BY <2>3, <2>4
<1>5. ASSUME NEW q \in DOMAIN tree, ~IsPrefix(p, q)
      PROVE  q \in DOMAIN t /\ t[q] = tree[q] /\ W[q] = V[q]
  <2>1. q # p /\ q \notin new
    BY <1>2, <1>4, <1>5, PrefixPointwise
  <2> QED
    BY <2>1 DEF Kept, OthersKept
<1>6. ASSUME NEW n \in 1 .. Len(Rest) PROVE Expected(W, t, stack[n])
  <2> DEFINE w == stack[n]
             f == Front(w.path)
  <2>1. /\ n \in DOMAIN stack /\ w.path \in Path /\ w.path \in DOMAIN tree
        /\ ~IsPrefix(w.path, p) /\ ~IsPrefix(p, w.path)
    BY BelowTop
  <2>2. Expected(V, tree, w)
    BY <2>1 DEF Built
  <2>3. t[w.path] = tree[w.path] /\ W[w.path] = V[w.path]
    BY <1>5, <2>1
  <2>4. w.kind = "resolve" => ToResolve(W, t, w)
    BY <2>2, <2>3 DEF Expected, ToResolve
  <2>5. ASSUME w.kind = "member" PROVE ToParse(W, t, w)
    <3>1. ToParse(V, tree, w)
      BY <2>2, <2>5 DEF Expected
    <3>2. f \in DOMAIN tree /\ f \in Path /\ Last(w.path) \in Int /\ w.path = Append(f, Last(w.path))
      BY <1>2, <3>1 DEF ToParse
    <3>3. ~IsPrefix(p, f)
      <4> SUFFICES ASSUME IsPrefix(p, f) PROVE FALSE
        OBVIOUS
      <4>1. /\ Len(w.path) = Len(f) + 1 /\ Len(f) \in Nat /\ Len(p) \in Nat
            /\ \A m \in 1 .. Len(f) : w.path[m] = f[m]
        <5>1. PICK i, c : i = Last(w.path) /\ c = w.path
          OBVIOUS
        <5>2. f \in Seq(Int) /\ i \in Int /\ c = Append(f, i) /\ p \in Seq(Int)
          BY <1>2, <3>2, <5>1 DEF Path
        <5>3. Len(c) = Len(f) + 1 /\ \A m \in 1 .. Len(f) : c[m] = f[m]
          BY ONLY <5>2
        <5>4. Len(f) \in Nat /\ Len(p) \in Nat
          BY ONLY <5>2
        <5> QED
          BY <5>1, <5>3, <5>4
      <4>2. Len(p) <= Len(f) /\ \A m \in 1 .. Len(p) : p[m] = f[m]
        BY <1>2, <3>2, PrefixPointwise
      <4> HIDE DEF p, f, w
      <4>3. Len(p) <= Len(w.path) /\ \A m \in 1 .. Len(p) : p[m] = w.path[m]
        BY <4>1, <4>2
      <4> QED
        BY <1>2, <2>1, <4>3, PrefixPointwise
    <3>4. f \in DOMAIN t /\ t[f] = tree[f] /\ W[f] = V[f]
      BY <1>5, <3>2, <3>3
    <3> HIDE DEF p
    <3> QED
      BY <2>3, <3>1, <3>4 DEF ToParse
  <2> QED
    BY <2>4, <2>5 DEF Expected
<1>7. ASSUME NEW n \in DOMAIN s PROVE Expected(W, t, s[n])
  BY <1>1, <1>6
<1>8. \A q : Waits(more, q) => Waits(s, q)
  BY <1>1 DEF Waits
<1>9. \A q : Pending(more, q) => Pending(s, q)
  <2> SUFFICES ASSUME NEW q, NEW k \in DOMAIN more, more[k].kind = "member", more[k].path = q
               PROVE  Pending(s, q)
    BY DEF Pending
  <2>1. PICK n \in DOMAIN s : s[n] = more[k]
    BY <1>1
  <2> QED
    BY <2>1 DEF Pending
<1>10. \A q : Pending(stack, q) => Pending(s, q)
  <2> SUFFICES ASSUME NEW q, NEW n \in DOMAIN stack, stack[n].kind = "member", stack[n].path = q
               PROVE  Pending(s, q)
    BY DEF Pending
  <2>1. n \in 1 .. Len(Rest)
    BY <1>1
  <2> QED
    BY <1>1, <2>1 DEF Pending
<1>11. ASSUME NEW q \in DOMAIN tree, q # p, q \notin new
       PROVE  Waits(s, q) \/ Settled(W, s, t, q)
  <2>1. q \in DOMAIN t /\ t[q] = tree[q] /\ W[q] = V[q] /\ q \in Path
    BY <1>2, <1>11 DEF Kept, OthersKept
  <2>2. CASE Waits(stack, q)
    <3>1. PICK n \in DOMAIN stack : stack[n].path = q
      BY <2>2 DEF Waits
    <3>2. n \in 1 .. Len(Rest)
      BY <1>1, <1>11, <3>1
    <3> QED
      BY <1>1, <3>1, <3>2 DEF Waits
  <2>3. CASE Settled(V, stack, tree, q)
    <3>1. ASSUME NEW n \in DOMAIN tree[q].fields
          PROVE  /\ FieldSettled(V, stack, tree, q, n) /\ n - 1 \in Int
                 /\ Append(q, n - 1) \in DOMAIN t /\ W[Append(q, n - 1)] = V[Append(q, n - 1)]
      <4>1. n \in Int /\ FieldSettled(V, stack, tree, q, n)
        BY <2>3 DEF Settled
      <4>2. n - 1 \in Int /\ Append(q, n - 1) \in DOMAIN tree
        BY <4>1 DEF FieldSettled
      <4>3. Append(q, n - 1) \notin new
        BY <1>3, <1>11, <2>1, <4>2
      <4> QED
        BY <4>1, <4>2, <4>3 DEF Kept, OthersKept
    <3>2. \A n \in DOMAIN tree[q].fields : FieldSettled(W, s, t, q, n)
      BY <1>10, <2>1, <3>1 DEF FieldSettled
    <3>3. \A n \in DOMAIN tree[q].fields : Field(W, q, n) = Field(V, q, n)
      BY <2>1, <3>1 DEF Field
    <3>4. [n \in DOMAIN tree[q].fields |-> Field(V, q, n)]
            = [n \in DOMAIN tree[q].fields |-> Field(W, q, n)]
      BY <3>3
    <3> QED
      BY <2>1, <2>3, <3>2, <3>4 DEF Settled
  <2> QED
    BY <2>2, <2>3 DEF Built
<1>12. Waits(s, p) \/ Settled(W, s, t, p)
  <2>1. CASE Waits(more, p)
    BY <1>8, <2>1
  <2>2. CASE Settled(W, more, t, p)
    BY <1>9, <2>2 DEF Settled, FieldSettled
  <2> QED
    BY <2>1, <2>2
<1>13. ASSUME NEW q \in DOMAIN t PROVE Waits(s, q) \/ Settled(W, s, t, q)
  <2>1. CASE q \in new
    BY <1>8, <2>1
  <2>2. CASE q = p
    BY <1>12, <2>2
  <2>3. CASE q \notin new /\ q # p
    BY <1>11, <2>3 DEF Kept, OthersKept
  <2> QED
    BY <2>1, <2>2, <2>3
<1> QED
  BY <1>7, <1>13 DEF Built, Kept

\* A member's name and offset go to its parent; its own record is still new.
LEMMA MemberBuilt ==
  ASSUME Results, ParseMember, NEW V, Built(V, stack, tree)
  PROVE  Built(V, stack', tree')
<1> DEFINE p == Top.path
           f == Front(p)
           j == Last(p) + 1
           x == [name |-> Die.name, off |-> MemberLocation(Die.loc)]
           item == [kind |-> "resolve", die |-> Die.ref, path |-> p]
           t == tree'
           s == stack'
<1>1. /\ stack # <<>> /\ Top.kind = "member" /\ s = Rest \o Referred(p)
      /\ t = [tree EXCEPT ![f].fields[j] = x]
  BY DEF ParseMember
<1>2. /\ p \in Path /\ p \in DOMAIN tree /\ DOMAIN tree \subseteq Path
      /\ Die.ref \in DOMAIN Dies \cup {Untyped} /\ Len(stack) \in DOMAIN stack
      /\ Top = stack[Len(stack)] /\ Len(stack) = Len(Rest) + 1 /\ Len(Rest) \in Nat
  BY <1>1, TopDie, TopAndRest DEF Results
<1>3. ToParse(V, tree, Top)
  BY <1>1, <1>2 DEF Built, Expected
<1>4. /\ p = Append(f, Last(p)) /\ f \in DOMAIN tree /\ f \in Path /\ Last(p) \in Int
      /\ j \in DOMAIN tree[f].fields /\ tree[p] = NewType /\ Die.ref # Untyped
      /\ V[p] = TypeOf[Die.ref]
      /\ V[f].fields[j].name = Die.name /\ V[f].fields[j].off = MemberLocation(Die.loc)
  BY <1>2, <1>3 DEF ToParse, Die
<1>5. IsPrefix(f, p) /\ f # p /\ ~IsPrefix(p, f)
  <2>1. /\ Len(p) = Len(f) + 1 /\ Len(f) \in Nat
        /\ \A m \in 1 .. Len(f) : p[m] = f[m]
    BY <1>4 DEF Path
  <2> HIDE DEF p, f
  <2> QED
    BY <1>2, <1>4, <2>1, PrefixPointwise
<1>6. \A n \in DOMAIN stack : stack[n].path # f
  <2> SUFFICES ASSUME NEW n \in DOMAIN stack, stack[n].path = f PROVE FALSE
    OBVIOUS
  <2>1. n = Len(stack)
    BY <1>2, <1>5 DEF Results
  <2> QED
    BY <1>2, <1>5, <2>1
<1>7. Settled(V, stack, tree, f)
  BY <1>4, <1>6 DEF Built, Waits
<1> DEFINE fields == [tree[f].fields EXCEPT ![j] = x]
<1>8. /\ DOMAIN t = DOMAIN tree /\ \A q \in DOMAIN tree : q # f => t[q] = tree[q]
      /\ t[f] = Shape(tree[f].type, tree[f].typedef, tree[f].size, tree[f].total, fields)
  <2> HIDE DEF x, f, j
  <2>1. t = [tree EXCEPT ![f] = [tree[f] EXCEPT !.fields = fields]]
    BY <1>1
  <2> HIDE DEF fields
  <2>2. DOMAIN t = DOMAIN tree /\ \A q \in DOMAIN tree : q # f => t[q] = tree[q]
    BY <2>1
  <2>3. t[f] = [tree[f] EXCEPT !.fields = fields]
    BY <1>4, <2>1
  <2>4. tree[f] = Shape(tree[f].type, tree[f].typedef, tree[f].size, tree[f].total, tree[f].fields)
    BY <1>7 DEF Settled, IsType
  <2>5. PICK a, b, c, d, e : tree[f] = [type |-> a, typedef |-> b, size |-> c, total |-> d,
                                     fields |-> e]
    BY <2>4 DEF Shape
  <2>6. t[f] = [type |-> a, typedef |-> b, size |-> c, total |-> d, fields |-> fields]
    BY <2>3, <2>5
  <2> QED
    BY <2>2, <2>5, <2>6 DEF Shape
<1>9. /\ DOMAIN fields = DOMAIN tree[f].fields /\ fields[j] = x
      /\ \A n \in DOMAIN tree[f].fields : n # j => fields[n] = tree[f].fields[n]
  BY <1>4
<1>10. /\ Referred(p) = <<item>> /\ item \in Item /\ Referred(p) \in Seq(Item)
       /\ DOMAIN Referred(p) = {1} /\ Referred(p)[1] = item
  <2>1. item \in Item
    BY <1>2, <1>4 DEF Item
  <2>2. Referred(p) = <<item>>
    BY <1>4 DEF Referred
  <2> HIDE DEF item
  <2> QED
    BY <2>1, <2>2
<1>11. /\ \A n \in DOMAIN s : (n \in 1 .. Len(Rest) /\ s[n] = stack[n]) \/ s[n] = item
       /\ \A n \in 1 .. Len(Rest) : n \in DOMAIN s /\ s[n] = stack[n]
       /\ \E n \in DOMAIN s : s[n] = item
       /\ \A n \in DOMAIN stack : n \in 1 .. Len(Rest) \/ stack[n] = Top
  <2> DEFINE more == Referred(p)
  <2>1. more \in Seq(Item) /\ s = Rest \o more /\ DOMAIN more = {1} /\ more[1] = item
    BY <1>1, <1>10
  <2> HIDE DEF more, s, item
  <2>2. /\ \A n \in DOMAIN s : \/ n \in 1 .. Len(Rest) /\ s[n] = stack[n]
                               \/ \E k \in DOMAIN more : s[n] = more[k]
        /\ \A n \in 1 .. Len(Rest) : n \in DOMAIN s /\ s[n] = stack[n]
        /\ \A k \in DOMAIN more : \E n \in DOMAIN s : s[n] = more[k]
        /\ \A n \in DOMAIN stack : n \in 1 .. Len(Rest) \/ stack[n] = Top
    BY <1>1, <2>1, ItemsAfter DEF After
  <2> QED
    BY <2>1, <2>2
<1> HIDE DEF fields, x, j, s, t
<1>12. Expected(V, t, item)
  <2>1. t[p] = NewType
    BY <1>2, <1>4, <1>5, <1>8
  <2>2. t[p] = Shape("", "", 0, 0, <<>>)
    BY <2>1 DEF NewType, Shape
  <2>3. t[p].typedef = ""
    <3>1. PICK v : v = t[p]
      OBVIOUS
    <3>2. v = Shape("", "", 0, 0, <<>>)
      BY <2>2, <3>1
    <3>3. v.typedef = ""
      BY <3>2 DEF Shape
    <3> QED
      BY <3>1, <3>3
  <2>4. ToResolve(V, t, item)
    BY <1>4, <2>2, <2>3 DEF ToResolve, Called
  <2> QED
    BY <2>4 DEF Expected
<1>13. ASSUME NEW n \in 1 .. Len(Rest) PROVE Expected(V, t, stack[n])
  <2> DEFINE w == stack[n]
             g == Front(w.path)
  <2>1. /\ n \in DOMAIN stack /\ w.path \in DOMAIN tree
        /\ ~IsPrefix(w.path, p) /\ ~IsPrefix(p, w.path)
    BY <1>1, BelowTop
  <2>2. Expected(V, tree, w)
    BY <2>1 DEF Built
  <2>3. t[w.path] = tree[w.path]
    BY <1>5, <1>8, <2>1
  <2>4. w.kind = "resolve" => ToResolve(V, t, w)
    BY <2>2, <2>3 DEF Expected, ToResolve
  <2>5. ASSUME w.kind = "member" PROVE ToParse(V, t, w)
    <3>1. ToParse(V, tree, w)
      BY <2>2, <2>5 DEF Expected
    <3>2. g \in DOMAIN tree
      BY <3>1 DEF ToParse
    <3>3. g \in DOMAIN t /\ DOMAIN t[g].fields = DOMAIN tree[g].fields
      <4>1. CASE g = f
        <5>1. t[f].fields = fields
          BY <1>8 DEF Shape
        <5> QED
          BY <1>8, <1>9, <3>2, <4>1, <5>1
      <4>2. CASE g # f
        BY <1>8, <3>2, <4>2
      <4> QED
        BY <4>1, <4>2
    <3> HIDE DEF p, f
    <3> QED
      BY <2>3, <3>1, <3>3 DEF ToParse
  <2> QED
    BY <2>4, <2>5 DEF Expected
<1>14. \A n \in DOMAIN s : Expected(V, t, s[n])
  BY <1>11, <1>12, <1>13
<1>15. \A q : q # p /\ Pending(stack, q) => Pending(s, q)
  <2> SUFFICES ASSUME NEW q, q # p, NEW n \in DOMAIN stack, stack[n].kind = "member",
                      stack[n].path = q
               PROVE  Pending(s, q)
    BY DEF Pending
  <2>1. n \in 1 .. Len(Rest)
    BY <1>11
  <2> QED
    BY <1>11, <2>1 DEF Pending
<1>16. ASSUME NEW q \in DOMAIN t PROVE Waits(s, q) \/ Settled(V, s, t, q)
  <2>0. q \in Path /\ q \in DOMAIN tree
    BY <1>2, <1>8
  <2>1. CASE Waits(stack, q)
    <3>1. PICK n \in DOMAIN stack : stack[n].path = q
      BY <2>1 DEF Waits
    <3>2. CASE n \in 1 .. Len(Rest)
      BY <1>11, <3>1, <3>2 DEF Waits
    <3>3. CASE stack[n] = Top
      BY <1>11, <3>1, <3>3 DEF Waits
    <3> QED
      BY <1>11, <3>2, <3>3
  <2>2. CASE Settled(V, stack, tree, q) /\ q # f
    <3>1. t[q] = tree[q]
      BY <1>8, <2>0, <2>2
    <3>2. ASSUME NEW n \in DOMAIN tree[q].fields PROVE FieldSettled(V, s, t, q, n)
      <4>1. n - 1 \in Int /\ FieldSettled(V, stack, tree, q, n)
        BY <2>2 DEF Settled
      <4>2. Append(q, n - 1) # p
        <5> SUFFICES ASSUME Append(q, n - 1) = p PROVE FALSE
          OBVIOUS
        <5>1. Front(p) = q
          BY <2>0, <4>1, ParentOfChild
        <5> QED
          BY <2>2, <5>1
      <4> QED
        BY <1>8, <1>15, <3>1, <4>1, <4>2 DEF FieldSettled
    <3> QED
      BY <2>2, <3>1, <3>2 DEF Settled
  <2>3. CASE q = f
    <3>1. /\ t[f].type = tree[f].type /\ t[f].typedef = tree[f].typedef
          /\ t[f].size = tree[f].size /\ t[f].total = tree[f].total /\ t[f].fields = fields
      BY <1>8 DEF Shape
    <3>2. IsType(t[f])
      BY <1>8, <3>1 DEF IsType
    <3>3. ASSUME NEW n \in DOMAIN fields PROVE FieldSettled(V, s, t, f, n)
      <4>1. n \in DOMAIN tree[f].fields /\ n \in Int /\ FieldSettled(V, stack, tree, f, n)
        BY <1>7, <1>9 DEF Settled
      <4>2. CASE n = j
        <5>1. t[f].fields[n] = [name |-> V[f].fields[n].name, off |-> V[f].fields[n].off]
          BY <1>4, <1>9, <3>1, <4>2 DEF x
        <5> QED
          BY <1>8, <4>1, <5>1 DEF FieldSettled
      <4>3. CASE n # j
        <5>1. t[f].fields[n] = tree[f].fields[n]
          BY <1>9, <3>1, <4>1, <4>3
        <5>2. Append(f, n - 1) # p
          <6> SUFFICES ASSUME Append(f, n - 1) = p PROVE FALSE
            OBVIOUS
          <6>1. n - 1 \in Int /\ Last(p) = n - 1
            BY <1>4, <4>1, ParentOfChild
          <6> QED
            BY <4>1, <4>3, <6>1 DEF j
        <5> QED
          BY <1>8, <1>15, <4>1, <5>1, <5>2 DEF FieldSettled
      <4> QED
        BY <4>2, <4>3
    <3> HIDE DEF f
    <3> QED
      BY <1>7, <1>9, <2>3, <3>1, <3>2, <3>3 DEF Settled
  <2> QED
    BY <2>0, <2>1, <2>2, <2>3 DEF Built
<1> QED
  BY <1>8, <1>14, <1>16 DEF Built, s, t

\* Nothing to push.
LEMMA NoWork ==
  ASSUME NEW e, e = <<>>
  PROVE  e \in Seq(Item) /\ DOMAIN e = {} /\ \A s \in Seq(Item) : s \o e = s
<1>1. e \in Seq(Item) /\ DOMAIN e = {}
  OBVIOUS
<1>2. \A s \in Seq(Item) : s \o e = s
  <2> HIDE DEF Item
  <2> QED
    OBVIOUS
<1> QED
  BY <1>1, <1>2

\* One item to push.
LEMMA OneWork ==
  ASSUME NEW item \in Item, NEW e, e = <<item>>
  PROVE  e \in Seq(Item) /\ DOMAIN e = {1} /\ e[1] = item
  OBVIOUS

\* The parts of a record.
LEMMA ShapeParts ==
  ASSUME NEW a, NEW b, NEW c, NEW d, NEW e, NEW v, v = Shape(a, b, c, d, e)
  PROVE  /\ v.type = a /\ v.typedef = b /\ v.size = c /\ v.total = d /\ v.fields = e
         /\ IsType(v)
  BY DEF Shape, IsType

\* The record made for the top and what it is to become.
LEMMA TopRecord ==
  ASSUME Results, stack # <<>>, Top.kind = "resolve", NEW V, Built(V, stack, tree)
  PROVE  /\ tree[Top.path] = Shape("", tree[Top.path].typedef, 0, 0, <<>>)
         /\ V[Top.path] = Called(TypeOf[Top.die], tree[Top.path].typedef)
<1>1. Len(stack) \in DOMAIN stack /\ Top = stack[Len(stack)]
  BY TopAndRest DEF Results
<1> QED
  BY <1>1 DEF Built, Expected, ToResolve

LEMMA WithRecords ==
  ASSUME Results, stack # <<>>, NEW new, Sprouts(new), NEW r
  PROVE  /\ DOMAIN With(r, new) = DOMAIN tree \cup new /\ With(r, new)[Top.path] = r /\ Top.path \notin new
         /\ AllNew(With(r, new), new) /\ OthersKept(With(r, new), new)
<1> DEFINE p == Top.path
<1>1. p \in Path /\ p \in DOMAIN tree
  BY TopDie
<1>2. \A q \in new : q # p
  <2> SUFFICES ASSUME NEW q \in new, q = p PROVE FALSE
    OBVIOUS
  <2>1. PICK i \in Int : p = Append(p, i)
    BY DEF Sprouts
  <2>2. Len(Append(p, i)) = Len(p) + 1 /\ Len(p) \in Nat
    BY <1>1 DEF Path
  <2> HIDE DEF p
  <2> QED
    BY <2>1, <2>2
<1> QED
  BY <1>1, <1>2 DEF With, AllNew, OthersKept

\* A record with fields g that is to be one with fields f, and is otherwise.
Finished(W, t, p, f, g) ==
  /\ IsType(t[p]) /\ t[p].fields = g
  /\ W[p] = Shape(t[p].type, t[p].typedef, t[p].size, t[p].total, W[p].fields)
  /\ W[p].fields = f

\* A record of the type of the top's DIE, with the name found so far.
LEMMA TopFinished ==
  ASSUME Results, stack # <<>>, Top.kind = "resolve", NEW V, Built(V, stack, tree),
         NEW x, NEW z, NEW u, NEW f, TypeOf[Top.die] = Shape(x, "", z, u, f),
         NEW g, NEW r, r = Shape(x, tree[Top.path].typedef, z, u, g),
         NEW t, t[Top.path] = r, NEW W, W[Top.path] = V[Top.path]
  PROVE  Finished(W, t, Top.path, f, g)
<1> DEFINE p == Top.path
<1>1. PICK td : td = tree[p].typedef
  OBVIOUS
<1>2. V[p] = Called(TypeOf[Top.die], td)
  BY <1>1, TopRecord
<1>3. V[p] = Shape(x, td, z, u, f)
  <2>1. CASE td = ""
    BY <1>2, <2>1 DEF Called
  <2>2. CASE td # ""
    <3>1. PICK v : v = TypeOf[Top.die]
      OBVIOUS
    <3>2. v = Shape(x, "", z, u, f)
      BY <3>1
    <3>3. v.type = x /\ v.size = z /\ v.total = u /\ v.fields = f
      BY <3>2 DEF Shape
    <3> QED
      BY <1>2, <2>2, <3>1, <3>3 DEF Called, Known
  <2> QED
    BY <2>1, <2>2
<1>4. t[p] = Shape(x, td, z, u, g) /\ W[p] = Shape(x, td, z, u, f)
  BY <1>1, <1>3
<1>5. PICK v : v = t[p]
  OBVIOUS
<1>6. PICK w : w = W[p]
  OBVIOUS
<1>7. v.type = x /\ v.typedef = td /\ v.size = z /\ v.total = u /\ v.fields = g /\ IsType(v)
  <2>1. v = Shape(x, td, z, u, g)
    BY <1>4, <1>5
  <2> QED
    BY <2>1 DEF Shape, IsType
<1>8. w.fields = f /\ w = Shape(x, td, z, u, f)
  <2>1. w = Shape(x, td, z, u, f)
    BY <1>4, <1>6
  <2> QED
    BY <2>1 DEF Shape
<1> QED
  BY <1>5, <1>6, <1>7, <1>8 DEF Finished

\* A type without parts.
LEMMA LeafBuilt ==
  ASSUME Results, stack # <<>>, Top.kind = "resolve", NEW V, Built(V, stack, tree),
         NEW x, NEW z, TypeOf[Top.die] = Shape(x, "", z, 0, <<>>),
         NEW r, r = Shape(x, tree[Top.path].typedef, z, 0, <<>>),
         NEW t, t = With(r, {}), NEW s, s = Rest
  PROVE  Built(V, s, t)
<1> DEFINE p == Top.path
<1>0. PICK none : none = {}
  OBVIOUS
<1>1. Sprouts(none) /\ t = With(r, none)
  BY <1>0 DEF Sprouts
<1>2. /\ DOMAIN t = DOMAIN tree /\ t[p] = r
      /\ OthersKept(t, none)
  <2>1. DOMAIN t = DOMAIN tree \cup none
    BY ONLY Results, stack # <<>>, <1>1, WithRecords
  <2>2. t[p] = r
    BY ONLY Results, stack # <<>>, <1>1, WithRecords
  <2>3. OthersKept(t, none)
    BY ONLY Results, stack # <<>>, <1>1, WithRecords
  <2> QED
    BY <1>0, <2>1, <2>2, <2>3
<1>3. Kept(V, V, t, none)
  BY <1>0, <1>2 DEF Kept, Built
<1>4. Finished(V, t, p, <<>>, <<>>)
  <2>1. PICK e : e = <<>>
    OBVIOUS
  <2>2. PICK o : o = 0
    OBVIOUS
  <2>3. TypeOf[Top.die] = Shape(x, "", z, o, e) /\ r = Shape(x, tree[p].typedef, z, o, e)
    BY <2>1, <2>2
  <2> QED
    BY ONLY Results, stack # <<>>, Top.kind = "resolve", Built(V, stack, tree),
            <1>2, <2>1, <2>3, TopFinished
<1>5. PICK e : e = <<>>
  OBVIOUS
<1>6. e \in Seq(Item) /\ DOMAIN e = {} /\ s = Rest \o e
  <2>1. Rest \in Seq(Item)
    BY TopAndRest
  <2> QED
    BY ONLY <1>5, <2>1, s = Rest, NoWork
<1>7. Settled(V, e, t, p)
  <2>1. e = [n \in DOMAIN e |-> Field(V, p, n)]
    <3>1. \A n \in {} : FALSE
      OBVIOUS
    <3> QED
      BY ONLY <1>5, <3>1
  <2>2. t[p].fields = e /\ V[p].fields = e
    BY <1>4, <1>5 DEF Finished
  <2>3. \A n \in DOMAIN e : FieldSettled(V, e, t, p, n)
    BY <1>6
  <2> QED
    BY <1>4, <1>6, <2>1, <2>2, <2>3 DEF Settled, Finished
<1> HIDE DEF p
<1>8. \A k \in DOMAIN e : Expected(V, t, e[k])
  BY <1>6
<1>9. \A q \in none : Waits(e, q)
  BY <1>0
<1> QED
  BY <1>1, <1>3, <1>6, <1>7, <1>8, <1>9, Grown DEF p

\* Another name of a type, or a qualifier of it.
LEMMA AliasBuilt ==
  ASSUME Results, stack # <<>>, Top.kind = "resolve", NEW V, Built(V, stack, tree),
         Die.ref # Untyped, NEW name, V[Top.path] = Called(TypeOf[Die.ref], name),
         NEW r, r = Shape("", name, 0, 0, <<>>),
         NEW t, DOMAIN t = DOMAIN tree, t[Top.path] = r, NEW none, none = {}, OthersKept(t, none),
         NEW s, s = Rest \o Referred(Top.path)
  PROVE  Built(V, s, t)
<1> DEFINE p == Top.path
           item == [kind |-> "resolve", die |-> Die.ref, path |-> p]
           more == Referred(p)
<1>1. Sprouts(none)
  BY DEF Sprouts
<1>3. Kept(V, V, t, none)
  BY DEF Kept, Built
<1>4. more = <<item>> /\ item \in Item /\ more \in Seq(Item) /\ DOMAIN more = {1} /\ more[1] = item
  <2>1. item \in Item
    BY TopDie DEF Item
  <2>2. more = <<item>>
    BY DEF Referred
  <2> HIDE DEF item, more
  <2> QED
    BY ONLY <2>1, <2>2, OneWork
<1>5. Expected(V, t, item)
  <2>1. PICK v : v = t[p]
    OBVIOUS
  <2>2. v = Shape("", name, 0, 0, <<>>)
    BY <2>1
  <2>3. v.typedef = name
    BY <2>2 DEF Shape
  <2>4. ToResolve(V, t, item)
    BY <2>1, <2>3 DEF ToResolve
  <2> QED
    BY <2>4 DEF Expected
<1>6. Waits(more, p)
  <2>1. item.path = p /\ 1 \in DOMAIN more /\ more[1] = item
    BY <1>4
  <2> HIDE DEF item, more, p
  <2> QED
    BY <2>1 DEF Waits
<1> HIDE DEF item
<1>7. s = Rest \o more
  OBVIOUS
<1> HIDE DEF more, p
<1>8. \A k \in DOMAIN more : Expected(V, t, more[k])
  BY <1>4, <1>5
<1>9. \A q \in none : Waits(more, q)
  OBVIOUS
<1> QED
  BY <1>1, <1>3, <1>4, <1>6, <1>7, <1>8, <1>9, Grown DEF p

\* The tree t with the work s is on the way to a root of type v.
Toward(s, t, v) == \E V : Built(V, s, t) /\ V[<<>>] = v

\* No field, or one with index 1 for the child 0, of type v.
OnlyField(f, g, i, v) ==
  \/ f = <<>> /\ g = <<>>
  \/ /\ i = 0
     /\ \E name, off : /\ f = <<[name |-> name, off |-> off, ti |-> v]>>
                       /\ g = <<[name |-> name, off |-> off]>>

LEMMA Single ==
  ASSUME NEW a, NEW f, f = <<a>>
  PROVE  DOMAIN f = {1} /\ f[1] = a /\ f = [n \in {1} |-> a]
  OBVIOUS

LEMMA ChildPath ==
  ASSUME NEW p \in Path, NEW i \in Int, NEW c, c = Append(p, i)
  PROVE  c \in Path /\ c # <<>> /\ Len(c) = Len(p) + 1 /\ Len(p) \in Nat
  BY DEF Path

\* A type with one child, of the type its DIE refers to.
LEMMA ChildBuilt ==
  ASSUME Results, stack # <<>>, Top.kind = "resolve", NEW V, Built(V, stack, tree),
         Die.ref # Untyped, NEW i \in Int,
         NEW x, NEW z, NEW u, NEW f, TypeOf[Top.die] = Shape(x, "", z, u, f),
         NEW g, OnlyField(f, g, i, TypeOf[Die.ref]),
         NEW r, r = Shape(x, tree[Top.path].typedef, z, u, g),
         NEW c, c = Append(Top.path, i), NEW new, new = {c},
         NEW t, t = With(r, new), NEW s, s = Rest \o Referred(c)
  PROVE  Toward(s, t, V[<<>>])
<1>1. PICK p : p = Top.path
  OBVIOUS
<1>2. p \in Path /\ p \in DOMAIN tree /\ c \in Path /\ DOMAIN tree \subseteq Path
  <2>1. p \in Path /\ p \in DOMAIN tree
    BY ONLY Results, stack # <<>>, <1>1, TopDie
  <2>2. c \in Path
    BY ONLY <1>1, <2>1, i \in Int, c = Append(Top.path, i), ChildPath
  <2> QED
    BY <2>1, <2>2 DEF Results
<1>3. Sprouts(new)
  BY DEF Sprouts
<1>4. DOMAIN t = DOMAIN tree \cup new /\ t[p] = r /\ p \notin new
  BY ONLY Results, stack # <<>>, <1>1, <1>3, t = With(r, new), WithRecords
<1>5. AllNew(t, new) /\ OthersKept(t, new)
  BY ONLY Results, stack # <<>>, <1>1, <1>3, t = With(r, new), WithRecords
<1>6. PICK W : W = [q \in DOMAIN t |-> IF q = c THEN TypeOf[Die.ref] ELSE V[q]]
  OBVIOUS
<1>7. W[c] = TypeOf[Die.ref] /\ W[p] = V[p] /\ W = [q \in DOMAIN t |-> W[q]]
  BY <1>2, <1>4, <1>6
<1>8. Kept(V, W, t, new)
  BY <1>4, <1>5, <1>6, <1>7 DEF Kept
<1> DEFINE item == [kind |-> "resolve", die |-> Die.ref, path |-> c]
           more == Referred(c)
<1>9. more \in Seq(Item) /\ DOMAIN more = {1} /\ more[1] = item
  <2>1. item \in Item
    BY <1>2, TopDie DEF Item
  <2>2. more = <<item>>
    BY DEF Referred
  <2> HIDE DEF item, more
  <2> QED
    BY ONLY <2>1, <2>2, OneWork
<1>10. Expected(W, t, item)
  <2>1. t[c] = NewType
    BY <1>5 DEF AllNew
  <2>2. PICK v : v = t[c]
    OBVIOUS
  <2>3. v = Shape("", "", 0, 0, <<>>)
    BY <2>1, <2>2 DEF NewType, Shape
  <2>4. v.typedef = ""
    BY <2>3 DEF Shape
  <2>5. ToResolve(W, t, item)
    BY <1>7, <2>2, <2>3, <2>4 DEF ToResolve, Called
  <2> QED
    BY <2>5 DEF Expected
<1>11. Waits(more, c)
  <2>1. item.path = c
    OBVIOUS
  <2> HIDE DEF item, more
  <2> QED
    BY <1>9, <2>1 DEF Waits
<1>12. Finished(W, t, p, f, g)
  <2>1. t[Top.path] = r /\ W[Top.path] = V[Top.path]
    BY <1>1, <1>4, <1>7
  <2>2. Finished(W, t, Top.path, f, g)
    BY ONLY Results, stack # <<>>, Top.kind = "resolve", Built(V, stack, tree), <2>1,
            TypeOf[Top.die] = Shape(x, "", z, u, f), r = Shape(x, tree[Top.path].typedef, z, u, g),
            TopFinished
  <2> QED
    BY <1>1, <2>2
<1>13. PICK m : m = more
  OBVIOUS
<1>14. Settled(W, m, t, p)
  <2>1. CASE f = <<>> /\ g = <<>>
    <3>1. PICK e : e = <<>>
      OBVIOUS
    <3>2. DOMAIN e = {} /\ f = e /\ g = e
      BY ONLY <2>1, <3>1
    <3>3. e = [n \in DOMAIN e |-> Field(W, p, n)]
      <4>1. \A n \in {} : FALSE
        OBVIOUS
      <4> QED
        BY ONLY <3>1, <4>1
    <3> QED
      BY <1>12, <3>2, <3>3 DEF Settled, Finished
  <2>2. CASE i = 0 /\ \E name, off : /\ f = <<[name |-> name, off |-> off, ti |-> TypeOf[Die.ref]]>>
                                     /\ g = <<[name |-> name, off |-> off]>>
    <3>1. PICK name, off : /\ f = <<[name |-> name, off |-> off, ti |-> TypeOf[Die.ref]]>>
                           /\ g = <<[name |-> name, off |-> off]>>
      BY <2>2
    <3>2. c = Append(p, 1 - 1)
      BY ONLY <1>1, <2>2, c = Append(Top.path, i)
    <3>3. DOMAIN g = {1} /\ g[1] = [name |-> name, off |-> off]
      BY ONLY <3>1, Single
    <3>4. DOMAIN f = {1} /\ f[1] = [name |-> name, off |-> off, ti |-> TypeOf[Die.ref]]
      BY ONLY <3>1, Single
    <3>5. f[1].name = name /\ f[1].off = off
      BY ONLY <3>4
    <3>6. W[p].fields = f /\ t[p].fields = g
      BY <1>12 DEF Finished
    <3>7. Field(W, p, 1) = f[1]
      BY <1>7, <3>2, <3>4, <3>5, <3>6 DEF Field
    <3>8. f = [n \in DOMAIN g |-> Field(W, p, n)]
      <4>1. f = [n \in {1} |-> f[1]]
        BY ONLY <3>1, <3>4, Single
      <4> QED
        BY ONLY <3>3, <3>7, <4>1
    <3>9. \A n \in DOMAIN g : FieldSettled(W, m, t, p, n)
      BY <1>4, <3>2, <3>3, <3>5, <3>6 DEF FieldSettled
    <3>10. DOMAIN g \subseteq Int
      BY ONLY <3>3
    <3> QED
      BY <1>12, <3>6, <3>8, <3>9, <3>10 DEF Settled, Finished
  <2> QED
    BY <2>1, <2>2 DEF OnlyField
<1>15. /\ m \in Seq(Item) /\ s = Rest \o m
       /\ \A k \in DOMAIN m : Expected(W, t, m[k])
       /\ \A q \in new : Waits(m, q)
  BY <1>9, <1>10, <1>11, <1>13
<1>16. Built(W, s, t)
  BY ONLY Results, stack # <<>>, Top.kind = "resolve", Built(V, stack, tree), <1>1, <1>3, <1>8,
          <1>14, <1>15, Grown
<1>17. W[<<>>] = V[<<>>]
  <2>1. c # <<>> /\ <<>> \in DOMAIN tree
    BY ONLY Results, <1>1, <1>2, i \in Int, c = Append(Top.path, i), ChildPath DEF Results
  <2> QED
    BY <1>4, <1>6, <2>1
<1> QED
  BY <1>16, <1>17 DEF Toward

\* What is said of a member in debug information that is well formed.
LEMMA MemberFacts ==
  ASSUME NEW deepest \in Nat, NEW depth, WellFormed(depth, deepest),
         NEW d \in DOMAIN Dies, Dies[d].tag \in {"struct", "union"},
         NEW n \in DOMAIN Dies[d].members, NEW m, m = Dies[d].members[n]
  PROVE  /\ m \in DOMAIN Dies /\ Dies[m].ref # Untyped
         /\ Dies[m].off = MemberLocation(Dies[m].loc)
         /\ MemberTypes(TypeOf, d)[n] = [name |-> Dies[m].name, off |-> Dies[m].off,
                                        ti |-> TypeOf[Dies[m].ref]]
<1>1. Dies[d].members \in Seq(DOMAIN Dies)
  BY DiesAssumption
<1>2. m \in DOMAIN Dies
  BY <1>1
<1>3. Dies[m].ref # Untyped /\ Dies[m].off = MemberLocation(Dies[m].loc)
  BY DEF WellFormed
<1> QED
  BY <1>2, <1>3 DEF MemberTypes

\* One part of a record at a time.
LEMMA TypePart ==
  ASSUME NEW a, NEW b, NEW c, NEW d, NEW e, NEW x, NEW v, v = Shape(a, b, c, d, e),
         NEW w, w = [v EXCEPT !.type = x]
  PROVE  w = Shape(x, b, c, d, e)
  BY DEF Shape

LEMMA TypedefPart ==
  ASSUME NEW a, NEW b, NEW c, NEW d, NEW e, NEW x, NEW v, v = Shape(a, b, c, d, e),
         NEW w, w = [v EXCEPT !.typedef = x]
  PROVE  w = Shape(a, x, c, d, e)
  BY DEF Shape

LEMMA SizePart ==
  ASSUME NEW a, NEW b, NEW c, NEW d, NEW e, NEW x, NEW v, v = Shape(a, b, c, d, e),
         NEW w, w = [v EXCEPT !.size = x]
  PROVE  w = Shape(a, b, x, d, e)
  BY DEF Shape

LEMMA TotalPart ==
  ASSUME NEW a, NEW b, NEW c, NEW d, NEW e, NEW x, NEW v, v = Shape(a, b, c, d, e),
         NEW w, w = [v EXCEPT !.total = x]
  PROVE  w = Shape(a, b, c, x, e)
  BY DEF Shape

LEMMA FieldsPart ==
  ASSUME NEW a, NEW b, NEW c, NEW d, NEW e, NEW x, NEW v, v = Shape(a, b, c, d, e),
         NEW w, w = [v EXCEPT !.fields = x]
  PROVE  w = Shape(a, b, c, d, x)
  BY DEF Shape

\* A struct or a union: a record and an item for each member, the record as
\* new and the fields blank.
LEMMA CompoundBuilt ==
  ASSUME NEW deepest \in Nat, NEW depth, WellFormed(depth, deepest),
         Results, ResolveCompound, NEW V, Built(V, stack, tree)
  PROVE  Toward(stack', tree', V[<<>>])
<1>0. PICK p, d, l : p = Top.path /\ d = Top.die /\ l = Len(Die.members)
  OBVIOUS
<1>1. /\ stack # <<>> /\ Top.kind = "resolve" /\ Die.tag \in {"struct", "union"}
      /\ Die = Dies[d]
  BY <1>0 DEF ResolveCompound, Resolving, Die
<1>2. /\ p \in Path /\ p \in DOMAIN tree /\ d \in DOMAIN Dies /\ Die.members \in Seq(DOMAIN Dies)
      /\ DOMAIN tree \subseteq Path /\ <<>> \in DOMAIN tree
  BY <1>0, <1>1, TopDie DEF Results
<1>3. l \in Nat /\ DOMAIN Die.members = 1 .. l
  BY <1>0, <1>2
<1>4. PICK new, more, g : /\ new = Room(p, l) /\ more = MemberWork(p, Die.members)
                          /\ g = [i \in 1 .. l |-> [name |-> "", off |-> 0]]
  OBVIOUS
<1>5. PICK r : r = [tree[p] EXCEPT !.type = Die.tag, !.size = Die.size, !.fields = g]
  OBVIOUS
<1>6. stack' = Rest \o more /\ tree' = With(r, new)
  BY <1>0, <1>4, <1>5 DEF ResolveCompound
<1>7. PICK td : td = tree[p].typedef
  OBVIOUS
<1>8. r = Shape(Die.tag, tree[p].typedef, Die.size, 0, g)
  <2>1. tree[p] = Shape("", td, 0, 0, <<>>)
    BY ONLY Results, Built(V, stack, tree), <1>0, <1>1, <1>7, TopRecord
  <2>2. PICK v, x, y : v = tree[p] /\ x = Die.tag /\ y = Die.size
    OBVIOUS
  <2>3. PICK v1 : v1 = [v EXCEPT !.type = x]
    OBVIOUS
  <2>4. PICK v2 : v2 = [v1 EXCEPT !.size = y]
    OBVIOUS
  <2>5. r = [v2 EXCEPT !.fields = g]
    <3>1. r = [v EXCEPT !.type = x, !.size = y, !.fields = g]
      BY <1>5, <2>2
    <3> QED
      BY ONLY <2>3, <2>4, <3>1
  <2>6. PICK n, o, e : n = "" /\ o = 0 /\ e = <<>>
    OBVIOUS
  <2>7. v = Shape(n, td, o, o, e)
    BY <2>1, <2>2, <2>6
  <2>8. v1 = Shape(x, td, o, o, e)
    BY ONLY <2>3, <2>7, TypePart
  <2>9. v2 = Shape(x, td, y, o, e)
    BY ONLY <2>4, <2>8, SizePart
  <2>10. r = Shape(x, td, y, o, g)
    BY ONLY <2>5, <2>9, FieldsPart
  <2> QED
    BY <1>7, <2>2, <2>6, <2>10
<1>9. PICK f : f = MemberTypes(TypeOf, d)
  OBVIOUS
<1>10. TypeOf[d] = Shape(Die.tag, "", Die.size, 0, f)
  BY <1>1, <1>2, <1>9, KindsOfType
<1>11. \A i \in Int : /\ Append(p, i) \in Path /\ Append(p, i) # <<>>
                      /\ Front(Append(p, i)) = p /\ Last(Append(p, i)) = i
  BY <1>2, ParentOfChild, ChildPath
<1>12. \A q \in new : q \in Path /\ q # <<>> /\ \E i \in 0 .. l - 1 : q = Append(p, i) /\ Last(q) = i
  <2> SUFFICES ASSUME NEW q \in new
               PROVE  q \in Path /\ q # <<>> /\ \E i \in 0 .. l - 1 : q = Append(p, i) /\ Last(q) = i
    OBVIOUS
  <2>1. PICK i \in 0 .. l - 1 : q = Append(p, i)
    BY <1>4 DEF Room
  <2>2. i \in Int
    OBVIOUS
  <2> QED
    BY <1>11, <2>1, <2>2
<1>13. \A i \in 0 .. l - 1 : Append(p, i) \in new
  BY <1>4 DEF Room
<1>14. Sprouts(new)
  BY <1>0, <1>12 DEF Sprouts
<1>15. PICK t, s : t = tree' /\ s = stack'
  OBVIOUS
<1>16. DOMAIN t = DOMAIN tree \cup new /\ t[p] = r /\ p \notin new
  BY ONLY Results, <1>1, <1>0, <1>6, <1>14, <1>15, WithRecords
<1>17. AllNew(t, new) /\ OthersKept(t, new)
  BY ONLY Results, <1>1, <1>0, <1>6, <1>14, <1>15, WithRecords
<1>18. PICK W : W = [q \in DOMAIN t |-> IF q \in new
                                       THEN TypeOf[Dies[Die.members[Last(q) + 1]].ref] ELSE V[q]]
  OBVIOUS
<1>19. W = [q \in DOMAIN t |-> W[q]] /\ W[p] = V[p] /\ W[<<>>] = V[<<>>]
  BY <1>2, <1>12, <1>16, <1>18
<1>20. Kept(V, W, t, new)
  BY <1>16, <1>17, <1>18, <1>19 DEF Kept
<1>21. ASSUME NEW n \in 1 .. l
       PROVE  /\ n \in Int /\ n - 1 \in 0 .. l - 1 /\ Append(p, n - 1) \in new
              /\ t[Append(p, n - 1)] = NewType
              /\ W[Append(p, n - 1)] = TypeOf[Dies[Die.members[n]].ref]
  <2>1. n \in Int /\ n - 1 \in Int /\ n - 1 \in 0 .. l - 1 /\ n - 1 + 1 = n
    BY <1>3
  <2>2. Append(p, n - 1) \in new /\ Last(Append(p, n - 1)) = n - 1
    BY <1>11, <1>13, <2>1
  <2> QED
    BY <1>16, <1>17, <1>18, <2>1, <2>2 DEF AllNew
<1>22. Finished(W, t, p, f, g)
  <2>1. t[Top.path] = r /\ W[Top.path] = V[Top.path]
    BY <1>0, <1>16, <1>19
  <2>2. PICK o : o = 0
    OBVIOUS
  <2>3. TypeOf[Top.die] = Shape(Die.tag, "", Die.size, o, f)
    BY <1>0, <1>10, <2>2
  <2>4. r = Shape(Die.tag, tree[Top.path].typedef, Die.size, o, g)
    BY <1>0, <1>8, <2>2
  <2>5. Finished(W, t, Top.path, f, g)
    BY ONLY Results, <1>1, Built(V, stack, tree), <2>1, <2>3, <2>4, TopFinished
  <2> QED
    BY <1>0, <2>5
<1>23. ASSUME NEW n \in 1 .. l
       PROVE  f[n] = [name |-> Dies[Die.members[n]].name, off |-> Dies[Die.members[n]].off,
                      ti |-> TypeOf[Dies[Die.members[n]].ref]]
              /\ Dies[Die.members[n]].ref # Untyped
              /\ Dies[Die.members[n]].off = MemberLocation(Dies[Die.members[n]].loc)
  BY <1>1, <1>2, <1>3, <1>9, MemberFacts
<1>24. /\ more \in Seq(Item) /\ DOMAIN more = 1 .. l
       /\ \A k \in 1 .. l : more[k] = [kind |-> "member", die |-> Die.members[l - k + 1],
                                      path |-> Append(p, l - k)]
  <2>1. /\ more \in Seq(Item) /\ Len(more) = l
        /\ \A k \in 1 .. l : more[k] = [kind |-> "member", die |-> Die.members[l - k + 1],
                                       path |-> Append(p, l - k)]
    BY <1>0, <1>2, <1>4, MemberWorkFacts
  <2> QED
    BY <2>1, LenProperties
<1>25. W[p].fields = f /\ t[p].fields = g /\ DOMAIN g = 1 .. l
  BY <1>4, <1>22 DEF Finished
<1>26. ASSUME NEW k \in 1 .. l PROVE Expected(W, t, more[k])
  <2>1. PICK n, c : n = l - k + 1 /\ c = Append(p, n - 1)
    OBVIOUS
  <2>2. n \in 1 .. l /\ n - 1 = l - k /\ n - 1 + 1 = n /\ n - 1 \in Int
    BY <1>3, <2>1
  <2>3. PICK w : w = more[k]
    OBVIOUS
  <2>4. w.kind = "member" /\ w.die = Die.members[n] /\ w.path = c
    BY <1>24, <2>1, <2>2, <2>3
  <2>5. Front(c) = p /\ Last(c) = n - 1 /\ t[c] = NewType /\ W[c] = TypeOf[Dies[w.die].ref]
    BY <1>11, <1>21, <2>1, <2>2, <2>4
  <2>6. /\ f[n].name = Dies[w.die].name /\ f[n].off = MemberLocation(Dies[w.die].loc)
        /\ Dies[w.die].ref # Untyped
    <3>1. PICK v, m : v = f[n] /\ m = Dies[w.die]
      OBVIOUS
    <3>2. /\ v = [name |-> m.name, off |-> m.off, ti |-> TypeOf[m.ref]]
          /\ m.ref # Untyped /\ m.off = MemberLocation(m.loc)
      BY <1>23, <2>2, <2>4, <3>1
    <3>3. v.name = m.name /\ v.off = m.off
      BY ONLY <3>2
    <3> QED
      BY <3>1, <3>2, <3>3
  <2>7. p \in DOMAIN t /\ n \in DOMAIN t[p].fields
    BY <1>2, <1>16, <1>25, <2>2
  <2>8. ToParse(W, t, w)
    BY <1>25, <2>1, <2>2, <2>4, <2>5, <2>6, <2>7 DEF ToParse
  <2> QED
    BY <2>3, <2>4, <2>8 DEF Expected
<1>27. ASSUME NEW n \in 1 .. l PROVE Pending(more, Append(p, n - 1))
  <2>1. PICK k : k = l - n + 1
    OBVIOUS
  <2>2. k \in 1 .. l /\ l - k = n - 1
    BY <1>3, <2>1
  <2>3. more[k].kind = "member" /\ more[k].path = Append(p, n - 1)
    BY <1>24, <2>2
  <2> QED
    BY <1>24, <2>2, <2>3 DEF Pending
<1>28. \A q \in new : Waits(more, q)
  <2> SUFFICES ASSUME NEW q \in new PROVE Waits(more, q)
    OBVIOUS
  <2>1. PICK i \in 0 .. l - 1 : q = Append(p, i)
    BY <1>12
  <2>2. i + 1 \in 1 .. l /\ i + 1 - 1 = i
    BY <1>3
  <2>3. Pending(more, q)
    BY <1>27, <2>1, <2>2
  <2> QED
    BY <2>3 DEF Pending, Waits
<1>29. Settled(W, more, t, p)
  <2>1. ASSUME NEW n \in 1 .. l PROVE f[n] = Field(W, p, n)
    <3>1. f[n].name = Dies[Die.members[n]].name /\ f[n].off = Dies[Die.members[n]].off
      <4>1. PICK v, m : v = f[n] /\ m = Dies[Die.members[n]]
        OBVIOUS
      <4>2. v = [name |-> m.name, off |-> m.off, ti |-> TypeOf[m.ref]]
        BY <1>23, <4>1
      <4>3. v.name = m.name /\ v.off = m.off
        BY ONLY <4>2
      <4> QED
        BY <4>1, <4>3
    <3> QED
      BY <1>21, <1>23, <1>25, <3>1 DEF Field
  <2>2. f = [n \in 1 .. l |-> f[n]]
    BY <1>0, <1>1, <1>3, <1>9 DEF MemberTypes
  <2>3. f = [n \in DOMAIN g |-> Field(W, p, n)]
    BY ONLY <1>25, <2>1, <2>2
  <2>4. \A n \in DOMAIN g : FieldSettled(W, more, t, p, n) /\ n \in Int
    BY <1>16, <1>21, <1>25, <1>27 DEF FieldSettled
  <2> QED
    BY <1>22, <1>25, <2>3, <2>4 DEF Settled, Finished
<1>30. s = Rest \o more /\ \A k \in DOMAIN more : Expected(W, t, more[k])
  BY <1>6, <1>15, <1>24, <1>26
<1>31. Built(W, s, t)
  BY ONLY Results, Built(V, stack, tree), <1>0, <1>1, <1>14, <1>20, <1>24, <1>28, <1>29, <1>30,
          Grown
<1> QED
  BY <1>15, <1>19, <1>31 DEF Toward

\* A turn that gives the record its type and its size and is done with it.
LEMMA SizedBuilt ==
  ASSUME Results, stack # <<>>, Top.kind = "resolve", NEW V, Built(V, stack, tree),
         NEW x, NEW z, TypeOf[Top.die] = Shape(x, "", z, 0, <<>>),
         NEW r, r = [tree[Top.path] EXCEPT !.type = x, !.size = z],
         NEW t, t = With(r, {}), NEW s, s = Rest
  PROVE  Toward(s, t, V[<<>>])
<1>1. PICK v, td, n, o, e : /\ v = tree[Top.path] /\ td = v.typedef
                            /\ n = "" /\ o = 0 /\ e = <<>>
  OBVIOUS
<1>2. v = Shape(n, td, o, o, e)
  <2>1. tree[Top.path] = Shape("", tree[Top.path].typedef, 0, 0, <<>>)
    BY ONLY Results, stack # <<>>, Top.kind = "resolve", Built(V, stack, tree), TopRecord
  <2> QED
    BY <1>1, <2>1
<1>3. PICK w : w = [v EXCEPT !.type = x]
  OBVIOUS
<1>4. w = Shape(x, td, o, o, e)
  BY ONLY <1>2, <1>3, TypePart
<1>5. r = [w EXCEPT !.size = z]
  <2>1. r = [v EXCEPT !.type = x, !.size = z]
    BY <1>1
  <2> QED
    BY ONLY <1>3, <2>1
<1>6. r = Shape(x, td, z, o, e)
  BY ONLY <1>4, <1>5, SizePart
<1>7. r = Shape(x, tree[Top.path].typedef, z, 0, <<>>)
  BY <1>1, <1>6
<1>8. Built(V, s, t)
  BY <1>7, LeafBuilt
<1> QED
  BY <1>8 DEF Toward

\* A turn that gives it its type alone.
LEMMA NamedBuilt ==
  ASSUME Results, stack # <<>>, Top.kind = "resolve", NEW V, Built(V, stack, tree),
         NEW x, TypeOf[Top.die] = Shape(x, "", 0, 0, <<>>),
         NEW r, r = [tree[Top.path] EXCEPT !.type = x],
         NEW t, t = With(r, {}), NEW s, s = Rest
  PROVE  Toward(s, t, V[<<>>])
<1>1. PICK v, td, n, o, e : /\ v = tree[Top.path] /\ td = v.typedef
                            /\ n = "" /\ o = 0 /\ e = <<>>
  OBVIOUS
<1>2. v = Shape(n, td, o, o, e)
  <2>1. tree[Top.path] = Shape("", tree[Top.path].typedef, 0, 0, <<>>)
    BY ONLY Results, stack # <<>>, Top.kind = "resolve", Built(V, stack, tree), TopRecord
  <2> QED
    BY <1>1, <2>1
<1>3. r = [v EXCEPT !.type = x]
  BY <1>1
<1>4. r = Shape(x, td, o, o, e)
  BY ONLY <1>2, <1>3, TypePart
<1>5. r = Shape(x, tree[Top.path].typedef, 0, 0, <<>>)
  BY <1>1, <1>4
<1>6. Built(V, s, t)
  <2>1. PICK z : z = 0
    OBVIOUS
  <2>2. TypeOf[Top.die] = Shape(x, "", z, 0, <<>>) /\ r = Shape(x, tree[Top.path].typedef, z, 0, <<>>)
    BY <1>5, <2>1
  <2> QED
    BY <2>2, LeafBuilt
<1> QED
  BY <1>6 DEF Toward

\* No type is referred to, none is pushed.
LEMMA NothingReferred ==
  ASSUME Results, stack # <<>>, Die.ref = Untyped, NEW p
  PROVE  Rest \o Referred(p) = Rest
<1>1. Rest \in Seq(Item) /\ Referred(p) = <<>>
  BY TopAndRest DEF Referred
<1>2. PICK e : e = <<>>
  OBVIOUS
<1>3. Rest \o e = Rest
  BY ONLY <1>1, <1>2, NoWork
<1> QED
  BY <1>1, <1>2, <1>3

LEMMA BaseBuilt ==
  ASSUME NEW deepest \in Nat, NEW depth, WellFormed(depth, deepest),
         Results, ResolveBase, NEW V, Built(V, stack, tree)
  PROVE  Toward(stack', tree', V[<<>>])
<1>1. /\ stack # <<>> /\ Top.kind = "resolve" /\ Die.tag \in {"base", "enum"}
      /\ Top.die \in DOMAIN Dies /\ Die = Dies[Top.die] /\ stack' = Rest
  BY TopDie DEF ResolveBase, Resolving, Die
<1>2. PICK x, z : x = (IF Die.tag = "enum" THEN "enum" ELSE Die.name) /\ z = Die.size
  OBVIOUS
<1>3. x = IF Die.tag = "enum" THEN "enum" ELSE IF Die.name = "" THEN "unknown" ELSE Die.name
  BY <1>1, <1>2 DEF WellFormed
<1>4. TypeOf[Top.die] = Shape(x, "", z, 0, <<>>)
  BY <1>1, <1>2, KindsOfType
<1>5. PICK r : r = [tree[Top.path] EXCEPT !.type = x, !.size = z]
  OBVIOUS
<1>6. tree' = With(r, {})
  BY <1>2, <1>3, <1>5 DEF ResolveBase
<1>7. PICK t, s : t = tree' /\ s = stack'
  OBVIOUS
<1> QED
  BY <1>1, <1>4, <1>5, <1>6, <1>7, SizedBuilt

LEMMA OtherBuilt ==
  ASSUME NEW deepest \in Nat, NEW depth, WellFormed(depth, deepest),
         Results, ResolveOther, NEW V, Built(V, stack, tree)
  PROVE  Toward(stack', tree', V[<<>>])
<1>1. /\ stack # <<>> /\ Top.kind = "resolve" /\ Unknown(Die.tag)
      /\ Top.die \in DOMAIN Dies /\ Die = Dies[Top.die] /\ stack' = Rest
  BY TopDie DEF ResolveOther, Die
<1>2. PICK x, z : x = "unknown" /\ z = Die.size
  OBVIOUS
<1>3. TypeOf[Top.die] = Shape(x, "", z, 0, <<>>)
  BY <1>1, <1>2, KindsOfType
<1>4. PICK r : r = [tree[Top.path] EXCEPT !.type = x, !.size = z]
  OBVIOUS
<1>5. tree' = With(r, {})
  BY <1>2, <1>4 DEF ResolveOther
<1>6. PICK t, s : t = tree' /\ s = stack'
  OBVIOUS
<1> QED
  BY <1>1, <1>3, <1>4, <1>5, <1>6, SizedBuilt

LEMMA PointerBuilt ==
  ASSUME NEW deepest \in Nat, NEW depth, WellFormed(depth, deepest),
         Results, ResolvePointer, NEW V, Built(V, stack, tree)
  PROVE  Toward(stack', tree', V[<<>>])
<1>1. /\ stack # <<>> /\ Top.kind = "resolve" /\ Die.tag = "pointer"
      /\ Top.die \in DOMAIN Dies /\ Die = Dies[Top.die]
  BY TopDie DEF ResolvePointer, Resolving, Die
<1>2. PICK x, z, i, c : x = "pointer" /\ z = Die.size /\ i = Pointee /\ c = Append(Top.path, i)
  OBVIOUS
<1>3. TypeOf[Top.die] = Shape(x, "", z, 0, <<>>)
  BY <1>1, <1>2, KindsOfType
<1>4. PICK r : r = [tree[Top.path] EXCEPT !.type = x, !.size = z]
  OBVIOUS
<1>5. stack' = Rest \o Referred(c) /\ tree' = With(r, IF Die.ref = Untyped THEN {} ELSE {c})
  BY <1>2, <1>4 DEF ResolvePointer
<1>6. PICK t, s : t = tree' /\ s = stack'
  OBVIOUS
<1>7. CASE Die.ref = Untyped
  <2>1. s = Rest /\ t = With(r, {})
    BY <1>1, <1>5, <1>6, <1>7, NothingReferred
  <2> QED
    BY <1>1, <1>3, <1>4, <1>6, <2>1, SizedBuilt
<1>8. CASE Die.ref # Untyped
  <2>1. PICK new : new = {c}
    OBVIOUS
  <2>2. t = With(r, new) /\ s = Rest \o Referred(c) /\ i \in Int
    BY <1>2, <1>5, <1>6, <1>8, <2>1 DEF Pointee
  <2>3. PICK v, td, n, o, e : /\ v = tree[Top.path] /\ td = v.typedef
                              /\ n = "" /\ o = 0 /\ e = <<>>
    OBVIOUS
  <2>4. v = Shape(n, td, o, o, e)
    <3>1. tree[Top.path] = Shape("", tree[Top.path].typedef, 0, 0, <<>>)
      BY ONLY Results, <1>1, Built(V, stack, tree), TopRecord
    <3> QED
      BY <2>3, <3>1
  <2>5. PICK w : w = [v EXCEPT !.type = x]
    OBVIOUS
  <2>6. w = Shape(x, td, o, o, e)
    BY ONLY <2>4, <2>5, TypePart
  <2>7. r = [w EXCEPT !.size = z]
    <3>1. r = [v EXCEPT !.type = x, !.size = z]
      BY <1>4, <2>3
    <3> QED
      BY ONLY <2>5, <3>1
  <2>8. r = Shape(x, td, z, o, e)
    BY ONLY <2>6, <2>7, SizePart
  <2>9. r = Shape(x, tree[Top.path].typedef, z, o, e) /\ TypeOf[Top.die] = Shape(x, "", z, o, e)
    BY <1>3, <2>3, <2>8
  <2>10. OnlyField(e, e, i, TypeOf[Die.ref])
    BY <2>3 DEF OnlyField
  <2>11. c = Append(Top.path, i)
    BY <1>2
  <2>12. stack # <<>> /\ Top.kind = "resolve"
    BY <1>1
  <2>13. Toward(s, t, V[<<>>])
    BY ONLY Results, Built(V, stack, tree), <1>8, <2>1, <2>2, <2>9, <2>10, <2>11, <2>12, ChildBuilt
  <2> QED
    BY <1>6, <2>13
<1> QED
  BY <1>7, <1>8

LEMMA TypedefBuilt ==
  ASSUME NEW deepest \in Nat, NEW depth, WellFormed(depth, deepest),
         Results, ResolveTypedef, NEW V, Built(V, stack, tree)
  PROVE  Toward(stack', tree', V[<<>>])
<1>1. /\ stack # <<>> /\ Top.kind = "resolve" /\ Die.tag = "typedef" /\ Die.name # ""
      /\ Top.die \in DOMAIN Dies /\ Die = Dies[Top.die]
      /\ stack' = Rest \o Referred(Top.path)
      /\ Die.ref = Untyped \/ Die.ref \in DOMAIN Dies
  BY TopDie DEF ResolveTypedef, Resolving, Die, WellFormed
<1>2. PICK t, s : t = tree' /\ s = stack'
  OBVIOUS
<1>3. CASE Die.ref = Untyped
  <2>1. PICK x : x = Die.name
    OBVIOUS
  <2>2. TypeOf[Top.die] = Shape(x, "", 0, 0, <<>>)
    BY <1>1, <1>3, <2>1, KindsOfType
  <2>3. PICK r : r = [tree[Top.path] EXCEPT !.type = x]
    OBVIOUS
  <2>4. t = With(r, {}) /\ s = Rest
    BY <1>1, <1>2, <1>3, <2>1, <2>3, NothingReferred DEF ResolveTypedef
  <2> QED
    BY <1>1, <1>2, <2>2, <2>3, <2>4, NamedBuilt
<1>4. CASE Die.ref # Untyped
  <2>1. PICK v, td, n, o, e : /\ v = tree[Top.path] /\ td = v.typedef
                              /\ n = "" /\ o = 0 /\ e = <<>>
    OBVIOUS
  <2>2. tree[Top.path] = Shape("", td, 0, 0, <<>>) /\ V[Top.path] = Called(TypeOf[Top.die], td)
    <3>1. tree[Top.path] = Shape("", tree[Top.path].typedef, 0, 0, <<>>)
      BY ONLY Results, <1>1, Built(V, stack, tree), TopRecord
    <3>2. V[Top.path] = Called(TypeOf[Top.die], tree[Top.path].typedef)
      BY ONLY Results, <1>1, Built(V, stack, tree), TopRecord
    <3> QED
      BY <2>1, <3>1, <3>2
  <2>3. PICK name : name = OuterName(td)
    OBVIOUS
  <2>4. PICK r : r = [v EXCEPT !.typedef = name]
    OBVIOUS
  <2>5. r = Shape(n, name, o, o, e)
    <3>1. v = Shape(n, td, o, o, e)
      BY <2>1, <2>2
    <3> QED
      BY ONLY <2>4, <3>1, TypedefPart
  <2>6. t = With(r, {})
    BY <1>1, <1>2, <1>4, <2>1, <2>3, <2>4 DEF ResolveTypedef
  <2>7. PICK T : T = TypeOf[Die.ref]
    OBVIOUS
  <2>8. TypeOf[Top.die] = Known(T, Die.name)
    <3>1. IsType(T)
      BY <1>1, <1>4, <2>7, AllAreTypes
    <3> QED
      BY <1>1, <1>4, <2>7, <3>1, KindsOfType
  <2>9. V[Top.path] = Called(T, name)
    <3>1. CASE td = ""
      BY <1>1, <2>2, <2>3, <2>8, <3>1 DEF Called, OuterName
    <3>2. CASE td # ""
      <4>1. PICK K : K = Known(T, Die.name)
        OBVIOUS
      <4>2. Known(K, td) = Known(T, td)
        <5>1. K = [type |-> T.type, typedef |-> Die.name, size |-> T.size, total |-> T.total,
                   fields |-> T.fields]
          BY <4>1 DEF Known, Shape
        <5>2. K.type = T.type /\ K.size = T.size /\ K.total = T.total /\ K.fields = T.fields
          BY ONLY <5>1
        <5> QED
          BY <5>2 DEF Known
      <4> QED
        BY <2>2, <2>3, <2>8, <3>2, <4>1, <4>2 DEF Called, OuterName
    <3> QED
      BY <3>1, <3>2
  <2>10. PICK none : none = {}
    OBVIOUS
  <2>11. Sprouts(none) /\ t = With(r, none)
    BY <2>6, <2>10 DEF Sprouts
  <2>12. DOMAIN t = DOMAIN tree \cup none
    BY ONLY Results, <1>1, <2>11, WithRecords
  <2>13. t[Top.path] = r /\ OthersKept(t, none)
    BY ONLY Results, <1>1, <2>11, WithRecords
  <2>14. r = Shape("", name, 0, 0, <<>>) /\ DOMAIN t = DOMAIN tree /\ Die.ref # Untyped
    BY <1>4, <2>1, <2>5, <2>10, <2>12
  <2>15. V[Top.path] = Called(TypeOf[Die.ref], name)
    BY <2>7, <2>9
  <2>16. s = Rest \o Referred(Top.path)
    BY <1>1, <1>2
  <2>17. stack # <<>> /\ Top.kind = "resolve"
    BY <1>1
  <2>18. Built(V, s, t)
    BY ONLY Results, Built(V, stack, tree), <2>10, <2>13, <2>14, <2>15, <2>16, <2>17, AliasBuilt
  <2> QED
    BY <1>2, <2>18 DEF Toward
<1> QED
  BY <1>3, <1>4

LEMMA QualifierBuilt ==
  ASSUME NEW deepest \in Nat, NEW depth, WellFormed(depth, deepest),
         Results, ResolveQualifier, NEW V, Built(V, stack, tree)
  PROVE  Toward(stack', tree', V[<<>>])
<1>1. /\ stack # <<>> /\ Top.kind = "resolve" /\ Die.tag \in {"const", "volatile"}
      /\ Top.die \in DOMAIN Dies /\ Die = Dies[Top.die]
      /\ stack' = Rest \o Referred(Top.path)
  BY TopDie DEF ResolveQualifier, Resolving, Die
<1>2. PICK t, s : t = tree' /\ s = stack'
  OBVIOUS
<1>3. CASE Die.ref = Untyped
  <2>1. PICK x : x = "void"
    OBVIOUS
  <2>2. TypeOf[Top.die] = Shape(x, "", 0, 0, <<>>)
    BY <1>1, <1>3, <2>1, KindsOfType
  <2>3. PICK r : r = [tree[Top.path] EXCEPT !.type = x]
    OBVIOUS
  <2>4. t = With(r, {}) /\ s = Rest
    BY <1>1, <1>2, <1>3, <2>1, <2>3, NothingReferred DEF ResolveQualifier
  <2> QED
    BY <1>1, <1>2, <2>2, <2>3, <2>4, NamedBuilt
<1>4. CASE Die.ref # Untyped
  <2>1. PICK name, r : name = tree[Top.path].typedef /\ r = tree[Top.path]
    OBVIOUS
  <2>2. r = Shape("", name, 0, 0, <<>>)
    <3>1. tree[Top.path] = Shape("", tree[Top.path].typedef, 0, 0, <<>>)
      BY ONLY Results, <1>1, Built(V, stack, tree), TopRecord
    <3> QED
      BY <2>1, <3>1
  <2>3. V[Top.path] = Called(TypeOf[Die.ref], name)
    <3>1. V[Top.path] = Called(TypeOf[Top.die], tree[Top.path].typedef)
      BY ONLY Results, <1>1, Built(V, stack, tree), TopRecord
    <3>2. TypeOf[Top.die] = TypeOf[Die.ref]
      BY <1>1, <1>4, KindsOfType
    <3> QED
      BY <2>1, <3>1, <3>2
  <2>4. PICK none : none = {}
    OBVIOUS
  <2>5. /\ DOMAIN t = DOMAIN tree /\ t[Top.path] = r /\ OthersKept(t, none)
        /\ Die.ref # Untyped
    BY <1>2, <1>4, <2>1 DEF ResolveQualifier, OthersKept
  <2>6. s = Rest \o Referred(Top.path)
    BY <1>1, <1>2
  <2>7. stack # <<>> /\ Top.kind = "resolve"
    BY <1>1
  <2>8. Built(V, s, t)
    BY ONLY Results, Built(V, stack, tree), <2>2, <2>3, <2>4, <2>5, <2>6, <2>7, AliasBuilt
  <2> QED
    BY <1>2, <2>8 DEF Toward
<1> QED
  BY <1>3, <1>4

LEMMA ArrayBuilt ==
  ASSUME NEW deepest \in Nat, NEW depth, WellFormed(depth, deepest),
         Results, ResolveArray, NEW V, Built(V, stack, tree)
  PROVE  Toward(stack', tree', V[<<>>])
<1>1. /\ stack # <<>> /\ Top.kind = "resolve" /\ Die.tag = "array"
      /\ Top.die \in DOMAIN Dies /\ Die = Dies[Top.die]
  BY TopDie DEF ResolveArray, Resolving, Die
<1>2. Die.ref # Untyped /\ Product(Die.ranges) = Elements(Die.dims)
  BY <1>1 DEF WellFormed
<1>3. PICK x, z, u, i, c, T, name :
        /\ x = "array" /\ z = 0 /\ u = Elements(Die.dims) /\ i = 0 /\ c = Append(Top.path, i)
        /\ T = TypeOf[Die.ref] /\ name = "__element_type__"
  OBVIOUS
<1>4. PICK f, g : f = <<[name |-> name, off |-> z, ti |-> T]>> /\ g = <<[name |-> name, off |-> z]>>
  OBVIOUS
<1>5. TypeOf[Top.die] = Shape(x, "", z, u, f)
  BY <1>1, <1>2, <1>3, <1>4, KindsOfType
<1>6. PICK v, td, n, o, e : /\ v = tree[Top.path] /\ td = v.typedef
                            /\ n = "" /\ o = 0 /\ e = <<>>
  OBVIOUS
<1>7. PICK w : w = [v EXCEPT !.type = x]
  OBVIOUS
<1>8. PICK w2 : w2 = [w EXCEPT !.total = u]
  OBVIOUS
<1>9. PICK r : r = [w2 EXCEPT !.fields = g]
  OBVIOUS
<1>10. stack' = Rest \o Referred(c) /\ tree' = With(r, {c})
  <2>1. stack' = Rest \o Referred(Append(Top.path, 0))
    BY DEF ResolveArray
  <2>2. tree' = With([[tree[Top.path] EXCEPT !.type = "array"] EXCEPT
                        !.total = Product(Die.ranges),
                        !.fields = <<[name |-> "__element_type__", off |-> 0]>>],
                     {Append(Top.path, 0)})
    BY <1>2 DEF ResolveArray
  <2>3. tree' = With([w EXCEPT !.total = u, !.fields = g], {c})
    BY <1>2, <1>3, <1>4, <1>6, <1>7, <2>2
  <2>4. [w EXCEPT !.total = u, !.fields = g] = r
    BY ONLY <1>8, <1>9
  <2> QED
    BY <1>3, <2>1, <2>3, <2>4
<1>11. v = Shape(n, td, o, o, e)
  <2>1. tree[Top.path] = Shape("", tree[Top.path].typedef, 0, 0, <<>>)
    BY ONLY Results, <1>1, Built(V, stack, tree), TopRecord
  <2> QED
    BY <1>6, <2>1
<1>12. w = Shape(x, td, o, o, e)
  BY ONLY <1>7, <1>11, TypePart
<1>13. w2 = Shape(x, td, o, u, e)
  BY ONLY <1>8, <1>12, TotalPart
<1>14. r = Shape(x, td, o, u, g)
  BY ONLY <1>9, <1>13, FieldsPart
<1>15. r = Shape(x, tree[Top.path].typedef, z, u, g)
  BY <1>3, <1>6, <1>14
<1>16. PICK t, s, new : t = tree' /\ s = stack' /\ new = {c}
  OBVIOUS
<1>17. t = With(r, new) /\ s = Rest \o Referred(c) /\ i \in Int /\ c = Append(Top.path, i)
  BY <1>3, <1>10, <1>16
<1>18. OnlyField(f, g, i, TypeOf[Die.ref])
  BY <1>3, <1>4 DEF OnlyField
<1>19. stack # <<>> /\ Top.kind = "resolve" /\ Die.ref # Untyped /\ new = {c}
  BY <1>1, <1>2, <1>16
<1>20. Toward(s, t, V[<<>>])
  BY ONLY Results, Built(V, stack, tree), <1>5, <1>15, <1>17, <1>18, <1>19, ChildBuilt
<1> QED
  BY <1>16, <1>20

\* A turn of the loop keeps what every record is to become.
LEMMA ResolveBuilt ==
  ASSUME NEW deepest \in Nat, NEW depth, WellFormed(depth, deepest),
         Results, ResolveStep, NEW v, Toward(stack, tree, v)
  PROVE  Toward(stack', tree', v)
<1>1. PICK V : Built(V, stack, tree) /\ V[<<>>] = v
  BY DEF Toward
<1>2. CASE ParseMember
  BY <1>1, <1>2, MemberBuilt DEF Toward
<1>3. CASE ResolveBase
  BY <1>1, <1>3, BaseBuilt
<1>4. CASE ResolveTypedef
  BY <1>1, <1>4, TypedefBuilt
<1>5. CASE ResolveQualifier
  BY <1>1, <1>5, QualifierBuilt
<1>6. CASE ResolvePointer
  BY <1>1, <1>6, PointerBuilt
<1>7. CASE ResolveArray
  BY <1>1, <1>7, ArrayBuilt
<1>8. CASE ResolveCompound
  BY <1>1, <1>8, CompoundBuilt
<1>9. CASE ResolveOther
  BY <1>1, <1>9, OtherBuilt
<1> QED
  BY <1>2, <1>3, <1>4, <1>5, <1>6, <1>7, <1>8, <1>9 DEF ResolveStep

-----------------------------------------------------------------------------
(* The tree when the stack is empty.                                       *)

\* The type at a path when f is that of each of its children.
TypeFrom(f, p) ==
  [tree[p] EXCEPT !.fields = [n \in DOMAIN @ |->
     [name |-> @[n].name, off |-> @[n].off, ti |-> f[Append(p, n - 1)]]]]

\* No path is longer than m.
NoLonger(m) == \A p \in DOMAIN tree : Len(p) <= m

LEMMA TypeFromSettled ==
  ASSUME NEW V, NEW s, s = <<>>, NEW p, Settled(V, s, tree, p)
  PROVE  /\ V[p] = TypeFrom(V, p)
         /\ \A n \in DOMAIN tree[p].fields : n \in Int /\ Append(p, n - 1) \in DOMAIN tree
<1>1. PICK r, w, g : r = tree[p] /\ w = V[p] /\ g = r.fields
  OBVIOUS
<1>2. ASSUME NEW n \in DOMAIN g
      PROVE  /\ n \in Int /\ Append(p, n - 1) \in DOMAIN tree
             /\ g[n] = [name |-> w.fields[n].name, off |-> w.fields[n].off]
  <2>1. FieldSettled(V, s, tree, p, n) /\ n \in Int
    BY <1>1 DEF Settled
  <2>2. ~Pending(s, Append(p, n - 1))
    BY DEF Pending
  <2> QED
    BY <1>1, <2>1, <2>2 DEF FieldSettled
<1>3. w.fields = [n \in DOMAIN g |-> [name |-> g[n].name, off |-> g[n].off,
                                      ti |-> V[Append(p, n - 1)]]]
  <2>1. w.fields = [n \in DOMAIN g |-> Field(V, p, n)]
    BY <1>1 DEF Settled
  <2>2. ASSUME NEW n \in DOMAIN g
        PROVE  Field(V, p, n) = [name |-> g[n].name, off |-> g[n].off, ti |-> V[Append(p, n - 1)]]
    <3>1. PICK a, b : a = w.fields[n].name /\ b = w.fields[n].off
      OBVIOUS
    <3>2. g[n].name = a /\ g[n].off = b
      BY <1>2, <3>1
    <3> QED
      BY <1>1, <3>1, <3>2 DEF Field
  <2> QED
    BY <2>1, <2>2
<1>4. PICK h : h = w.fields
  OBVIOUS
<1>5. r = Shape(r.type, r.typedef, r.size, r.total, g) /\ w = Shape(r.type, r.typedef, r.size, r.total, h)
  BY <1>1, <1>4 DEF Settled, IsType
<1>6. w = [r EXCEPT !.fields = h]
  <2>1. PICK a, b, c, d : a = r.type /\ b = r.typedef /\ c = r.size /\ d = r.total
    OBVIOUS
  <2>2. r = Shape(a, b, c, d, g) /\ w = Shape(a, b, c, d, h)
    BY <1>5, <2>1
  <2>3. PICK x : x = [r EXCEPT !.fields = h]
    OBVIOUS
  <2>4. x = Shape(a, b, c, d, h)
    BY ONLY <2>2, <2>3, FieldsPart
  <2> QED
    BY <2>2, <2>3, <2>4
<1>7. TypeFrom(V, p) = [r EXCEPT !.fields = [n \in DOMAIN g |->
                          [name |-> g[n].name, off |-> g[n].off, ti |-> V[Append(p, n - 1)]]]]
  BY <1>1 DEF TypeFrom
<1> QED
  BY <1>1, <1>2, <1>3, <1>4, <1>6, <1>7

\* Two readings of the tree agree.
LEMMA OneReading ==
  ASSUME NEW m \in Nat, NoLonger(m), DOMAIN tree \subseteq Path,
         \A p \in DOMAIN tree, n \in Int :
           n \in DOMAIN tree[p].fields => Append(p, n - 1) \in DOMAIN tree,
         \A p \in DOMAIN tree : DOMAIN tree[p].fields \subseteq Int,
         NEW f, \A p \in DOMAIN tree : f[p] = TypeFrom(f, p),
         NEW g, \A p \in DOMAIN tree : g[p] = TypeFrom(g, p)
  PROVE  \A p \in DOMAIN tree : f[p] = g[p]
<1> DEFINE T == {k \in Nat : \A p \in DOMAIN tree : Len(p) + k > m => f[p] = g[p]}
<1>0. \A p \in DOMAIN tree : Len(p) \in Nat /\ Len(p) <= m
  BY DEF NoLonger, Path
<1>1. 0 \in T
  BY <1>0
<1>2. ASSUME NEW k \in Nat, k \in T PROVE k + 1 \in T
  <2> SUFFICES ASSUME NEW p \in DOMAIN tree, Len(p) + (k + 1) > m PROVE f[p] = g[p]
    OBVIOUS
  <2>1. ASSUME NEW n \in DOMAIN tree[p].fields PROVE f[Append(p, n - 1)] = g[Append(p, n - 1)]
    <3>1. n \in Int /\ p \in Path
      OBVIOUS
    <3>2. PICK i, c : i = n - 1 /\ c = Append(p, i)
      OBVIOUS
    <3>3. i \in Int /\ c \in DOMAIN tree
      BY <3>1, <3>2
    <3>4. Len(c) = Len(p) + 1
      BY <3>1, <3>2, <3>3, ChildPath
    <3>5. Len(c) + k > m
      BY <1>0, <3>4
    <3> QED
      BY <1>2, <3>2, <3>3, <3>5
  <2>2. TypeFrom(f, p) = TypeFrom(g, p)
    BY <2>1 DEF TypeFrom
  <2> QED
    BY <2>2
<1>3. Nat \subseteq T
  <2> HIDE DEF T
  <2> QED
    BY <1>1, <1>2, Climb
<1> SUFFICES ASSUME NEW p \in DOMAIN tree PROVE f[p] = g[p]
  OBVIOUS
<1>4. m + 1 \in T
  <2> HIDE DEF T
  <2> QED
    BY <1>3
<1>5. Len(p) + (m + 1) > m
  BY <1>0
<1> QED
  BY <1>4, <1>5

\* The tree that no work is left on is of the type that it was on the way to.
LEMMA ReadsType ==
  ASSUME Results, stack = <<>>, NEW m \in Nat, NoLonger(m), NEW v, Toward(stack, tree, v)
  PROVE  TypeAt[<<>>] = v
<1>1. PICK V : Built(V, stack, tree) /\ V[<<>>] = v
  BY DEF Toward
<1>2. ASSUME NEW p \in DOMAIN tree PROVE Settled(V, stack, tree, p)
  <2>1. ~Waits(stack, p)
    BY DEF Waits
  <2> QED
    BY <1>1, <2>1 DEF Built
<1>3. \A p \in DOMAIN tree :
        /\ V[p] = TypeFrom(V, p)
        /\ \A n \in DOMAIN tree[p].fields : n \in Int /\ Append(p, n - 1) \in DOMAIN tree
  BY <1>2, TypeFromSettled
<1>4. TypeAt = CHOOSE f : f = [p \in DOMAIN tree |-> TypeFrom(f, p)]
  BY DEF TypeAt, TypeFrom
<1>5. V = [p \in DOMAIN tree |-> TypeFrom(V, p)]
  <2>1. V = [p \in DOMAIN tree |-> V[p]]
    BY <1>1 DEF Built
  <2> QED
    BY <1>3, <2>1
<1>6. TypeAt = [p \in DOMAIN tree |-> TypeFrom(TypeAt, p)]
  BY <1>4, <1>5
<1>7. PICK f : f = TypeAt
  OBVIOUS
<1>8. \A p \in DOMAIN tree : f[p] = TypeFrom(f, p)
  BY <1>6, <1>7
<1>9. DOMAIN tree \subseteq Path /\ <<>> \in DOMAIN tree
  BY DEF Results
<1>10. /\ \A p \in DOMAIN tree, n \in Int :
            n \in DOMAIN tree[p].fields => Append(p, n - 1) \in DOMAIN tree
       /\ \A p \in DOMAIN tree : DOMAIN tree[p].fields \subseteq Int
       /\ \A p \in DOMAIN tree : V[p] = TypeFrom(V, p)
  BY <1>3
<1>11. \A p \in DOMAIN tree : f[p] = V[p]
  BY ONLY m \in Nat, NoLonger(m), <1>8, <1>9, <1>10, OneReading
<1> QED
  BY <1>1, <1>7, <1>9, <1>11

\* What the loop adds to the tree are children of the top's record.
LEMMA TreeGrows ==
  ASSUME Results, ResolveStep
  PROVE  /\ stack # <<>> /\ UNCHANGED root
         /\ DOMAIN tree' \subseteq DOMAIN tree \cup {Append(Top.path, i) : i \in Int}
<1>1. stack # <<>> /\ UNCHANGED root
  BY DEF ResolveStep, ResolveBase, ResolveTypedef, ResolveQualifier, ResolvePointer, ResolveArray,
         ResolveCompound, ResolveOther, ParseMember, Resolving
<1>2. PICK p : p = Top.path /\ p \in DOMAIN tree
  BY <1>1, TopDie
<1>3. \A r, new : DOMAIN With(r, new) \subseteq DOMAIN tree \cup new
  BY <1>2 DEF With
<1> DEFINE Grows(t) == DOMAIN t \subseteq DOMAIN tree \cup {Append(p, i) : i \in Int}
<1>4. \A r : Grows(With(r, {})) /\ \A i \in Int : Grows(With(r, {Append(p, i)}))
  BY <1>3
<1>5. Grows(tree)
  OBVIOUS
<1>6. CASE ResolveBase \/ ResolveTypedef \/ ResolveQualifier \/ ResolveOther
  <2>1. tree' = tree \/ \E r : tree' = With(r, {})
    BY <1>6 DEF ResolveBase, ResolveTypedef, ResolveQualifier, ResolveOther
  <2> HIDE DEF Grows
  <2>2. Grows(tree')
    BY <1>4, <1>5, <2>1
  <2> QED
    BY <1>1, <1>2, <2>2 DEF Grows
<1>7. CASE ResolvePointer \/ ResolveArray
  <2>1. PICK i \in Int : i = IF ResolvePointer THEN Pointee ELSE 0
    BY DEF Pointee
  <2>2. \E r : tree' = With(r, {}) \/ tree' = With(r, {Append(p, i)})
    <3>1. CASE ResolvePointer
      BY <1>2, <2>1, <3>1 DEF ResolvePointer
    <3>2. CASE ResolveArray /\ ~ResolvePointer
      BY <1>2, <2>1, <3>2 DEF ResolveArray
    <3> QED
      BY <1>7, <3>1, <3>2
  <2> HIDE DEF Grows
  <2>3. Grows(tree')
    BY <1>4, <2>2
  <2> QED
    BY <1>1, <1>2, <2>3 DEF Grows
<1>8. CASE ResolveCompound
  <2>1. PICK r, l : tree' = With(r, Room(p, l)) /\ l = Len(Die.members)
    BY <1>2, <1>8 DEF ResolveCompound
  <2>2. Room(p, l) \subseteq {Append(p, i) : i \in Int}
    <3>1. Die.members \in Seq(DOMAIN Dies)
      BY <1>1, TopDie
    <3>2. l \in Nat
      BY <2>1, <3>1
    <3>3. \A i \in 0 .. l - 1 : i \in Int
      BY <3>2
    <3> QED
      BY <3>3 DEF Room
  <2> QED
    BY <1>1, <1>2, <1>3, <2>1, <2>2
<1>9. CASE ParseMember
  <2>1. DOMAIN tree' = DOMAIN tree
    BY <1>9 DEF ParseMember
  <2> QED
    BY <1>1, <2>1
<1> QED
  BY <1>6, <1>7, <1>8, <1>9 DEF ResolveStep

Low == \E m \in Nat : NoLonger(m)

\* A turn adds paths at most one longer.
LEMMA LowStep ==
  ASSUME Results, ResolveStep, Low
  PROVE  Low'
<1>1. PICK m \in Nat : NoLonger(m)
  BY DEF Low
<1>2. stack # <<>> /\ DOMAIN tree' \subseteq DOMAIN tree \cup {Append(Top.path, i) : i \in Int}
  BY TreeGrows
<1>3. Top.path \in Path /\ Len(Top.path) <= m
  BY <1>1, <1>2, TopDie DEF NoLonger
<1>4. ASSUME NEW q \in DOMAIN tree' PROVE Len(q) <= m + 1
  <2>1. CASE q \in DOMAIN tree
    <3>1. Len(q) <= m /\ Len(q) \in Nat
      BY <1>1, <2>1 DEF NoLonger, Results, Path
    <3> QED
      BY <3>1
  <2>2. CASE \E i \in Int : q = Append(Top.path, i)
    <3>1. PICK i \in Int : q = Append(Top.path, i)
      BY <2>2
    <3>2. Len(q) = Len(Top.path) + 1 /\ Len(Top.path) \in Nat
      BY <1>3, <3>1, ChildPath
    <3> QED
      BY <1>3, <3>2
  <2> QED
    BY <1>2, <2>1, <2>2
<1>5. m + 1 \in Nat
  OBVIOUS
<1> QED
  BY <1>4, <1>5 DEF Low, NoLonger

\* The tree is as new or on the way to the type that is asked for.
Growing ==
  /\ root = Untyped => tree = NewTree
  /\ root # Untyped => Toward(stack, tree, TypeOf[root])
  /\ Low

\* A type that is asked for: the root's record is to become it.
LEMMA AskedFor ==
  ASSUME NEW d \in DOMAIN Dies, NEW t, t = NewTree,
         NEW s, s = <<[kind |-> "resolve", die |-> d, path |-> <<>>]>>
  PROVE  Toward(s, t, TypeOf[d])
<1>1. PICK p, w : p = <<>> /\ w = [kind |-> "resolve", die |-> d, path |-> p]
  OBVIOUS
<1>2. s = <<w>>
  BY <1>1
<1>3. DOMAIN s = {1} /\ s[1] = w
  BY ONLY <1>2, Single
<1>4. DOMAIN t = {p} /\ t[p] = NewType
  BY <1>1 DEF NewTree
<1>5. PICK V : V = [q \in DOMAIN t |-> TypeOf[d]]
  OBVIOUS
<1>6. V = [q \in DOMAIN t |-> V[q]] /\ V[p] = TypeOf[d]
  BY <1>4, <1>5
<1>7. w.kind = "resolve" /\ w.die = d /\ w.path = p
  BY <1>1
<1>8. Expected(V, t, w)
  <2>1. PICK v : v = t[p]
    OBVIOUS
  <2>2. v = Shape("", "", 0, 0, <<>>)
    BY <1>4, <2>1 DEF NewType, Shape
  <2>3. v.typedef = ""
    BY <2>2 DEF Shape
  <2>4. ToResolve(V, t, w)
    BY <1>6, <1>7, <2>1, <2>2, <2>3 DEF ToResolve, Called
  <2> QED
    BY <1>7, <2>4 DEF Expected
<1>9. Waits(s, p)
  BY <1>3, <1>7 DEF Waits
<1>10. Built(V, s, t)
  BY <1>3, <1>4, <1>6, <1>8, <1>9 DEF Built
<1> QED
  BY <1>1, <1>6, <1>10 DEF Toward

LEMMA NewIsLow ==
  ASSUME NEW t, t = NewTree PROVE \E m \in Nat : \A p \in DOMAIN t : Len(p) <= m
<1>1. \A p \in DOMAIN t : p = <<>> /\ Len(<<>>) = 0
  BY DEF NewTree
<1> QED
  BY <1>1

LEMMA GrowingInit == Init => Growing
<1> SUFFICES ASSUME Init PROVE Growing
  OBVIOUS
<1>1. root = Untyped /\ tree = NewTree
  BY DEF Init, TypesInit
<1> QED
  BY <1>1, NewIsLow DEF Growing, Low, NoLonger

LEMMA GrowingStep ==
  ASSUME NEW deepest \in Nat, NEW depth, WellFormed(depth, deepest),
         IInv, Growing, [Next]_vars
  PROVE  Growing'
<1>1. CASE UNCHANGED types
  BY <1>1 DEF types, Growing, Low, NoLonger
<1>2. CASE Found
  <2>1. PICK d : d = Dies[Last(die_stack)].ref
    OBVIOUS
  <2>2. die_stack # <<>> /\ IsVariable(Last(die_stack)) /\ AskType(d)
    BY <1>2, <2>1 DEF Found
  <2>3. d \in DOMAIN Dies /\ d # Untyped
    BY <2>1, <2>2, TopOfSearch, VariableType, DiesAssumption DEF IInv
  <2>4. /\ root = Untyped /\ root' = d /\ tree' = tree
        /\ stack' = <<[kind |-> "resolve", die |-> d, path |-> <<>>]>>
    BY <2>2 DEF AskType
  <2>5. tree' = NewTree
    BY <2>4 DEF Growing
  <2>6. PICK t, s : t = tree' /\ s = stack'
    OBVIOUS
  <2>7. Toward(s, t, TypeOf[d])
    BY <2>3, <2>4, <2>5, <2>6, AskedFor
  <2>8. \E m \in Nat : \A p \in DOMAIN t : Len(p) <= m
    BY <2>5, <2>6, NewIsLow
  <2> QED
    BY <2>3, <2>4, <2>6, <2>7, <2>8 DEF Growing, Low, NoLonger
<1>3. CASE ResolveType
  <2>1. Results /\ ResolveStep
    BY <1>3 DEF IInv, ResolveType
  <2>2. stack # <<>> /\ root' = root /\ root # Untyped
    BY <2>1, TreeGrows, TopAndRest
  <2>3. Toward(stack', tree', TypeOf[root])
    BY <2>1, <2>2, ResolveBuilt DEF Growing
  <2>4. Low'
    BY <2>1, LowStep DEF Growing
  <2> QED
    BY <2>2, <2>3, <2>4 DEF Growing
<1>4. CASE Generate
  <2>1. root' = Untyped /\ tree' = NewTree
    BY <1>4 DEF Generate
  <2>2. PICK t : t = tree'
    OBVIOUS
  <2>3. \E m \in Nat : \A p \in DOMAIN t : Len(p) <= m
    BY <2>1, <2>2, NewIsLow
  <2> QED
    BY <2>1, <2>2, <2>3 DEF Growing, Low, NoLonger
<1>5. CASE InitFails \/ InitDone \/ NoSymbol \/ SymbolFound \/ NextUnit \/ NoVariable \/ Visit
             \/ Loaded \/ UNCHANGED vars
  <2>1. UNCHANGED types
    BY <1>5 DEF InitFails, InitDone, NoSymbol, SymbolFound, NextUnit, NoVariable, Visit, Loaded,
                Return, vars
  <2> QED
    BY <1>1, <2>1
<1> QED
  BY <1>2, <1>3, <1>4, <1>5 DEF Next

LEMMA GrowingResolves ==
  ASSUME Results, Growing
  PROVE  ResolvesType
<1>1. PICK m \in Nat : NoLonger(m)
  BY DEF Growing, Low
<1> QED
  BY <1>1, ReadsType DEF Growing, ResolvesType

\* Typedefs, qualifiers, arrays of arrays, structs and unions nested in any
\* way, for any program whose debug information is what a compiler writes: if
\* the loop ends (resolve_type_iterative, elf_parser.cpp), the tree it leaves is
\* the type that was asked for.
THEOREM TypeIsResolved ==
  ASSUME NEW deepest \in Nat, NEW depth, WellFormed(depth, deepest)
  PROVE  Spec => []ResolvesType
<1>1. Init => Growing
  BY GrowingInit
<1>2. IInv /\ Growing /\ [Next]_vars => Growing'
  BY GrowingStep
<1>3. IInv /\ Growing => ResolvesType
  BY GrowingResolves DEF IInv
<1> QED
  BY <1>1, <1>2, <1>3, ElfInvariance, PTL DEF Spec

-----------------------------------------------------------------------------
(* The turns of search and resolver as functions of what they begin with:  *)
(* the second parser does what the first one did.                          *)

\* What a turn of the loop makes of its record, and the new ones.
TurnedRecord(die, r) ==
  IF die.tag \in {"base", "enum"}
  THEN [r EXCEPT !.type = IF die.tag = "enum" THEN "enum"
                          ELSE IF die.name = "" THEN "unknown" ELSE die.name,
                 !.size = die.size]
  ELSE IF die.tag = "typedef"
  THEN IF die.ref = Untyped THEN [r EXCEPT !.type = die.name]
       ELSE [r EXCEPT !.typedef = IF @ = "" THEN die.name ELSE @]
  ELSE IF die.tag \in {"const", "volatile"} THEN [r EXCEPT !.type = "void"]
  ELSE IF die.tag = "pointer" THEN [r EXCEPT !.type = "pointer", !.size = die.size]
  ELSE IF die.tag = "array"
  THEN IF die.ref = Untyped THEN [r EXCEPT !.type = "array"]
       ELSE [[r EXCEPT !.type = "array"] EXCEPT
               !.total = Product(die.ranges),
               !.fields = <<[name |-> "__element_type__", off |-> 0]>>]
  ELSE IF die.tag \in {"struct", "union"}
  THEN [r EXCEPT !.type = die.tag, !.size = die.size,
                 !.fields = [i \in 1 .. Len(die.members) |-> [name |-> "", off |-> 0]]]
  ELSE [r EXCEPT !.type = "unknown", !.size = die.size]

TurnedNew(die, p) ==
  IF die.tag = "pointer" /\ die.ref # Untyped THEN {Append(p, Pointee)}
  ELSE IF die.tag = "array" /\ die.ref # Untyped THEN {Append(p, 0)}
  ELSE IF die.tag \in {"struct", "union"} THEN Room(p, Len(die.members))
  ELSE {}

\* The tree and the stack after a turn.
TurnedTree(w, die, t) ==
  IF w.kind = "member"
  THEN [t EXCEPT ![Front(w.path)].fields[Last(w.path) + 1] =
          [name |-> die.name, off |-> MemberLocation(die.loc)]]
  ELSE IF die.tag \in {"const", "volatile"} /\ die.ref # Untyped THEN t
  ELSE [p \in DOMAIN t \cup {w.path} \cup TurnedNew(die, w.path) |->
          IF p = w.path THEN TurnedRecord(die, t[w.path])
          ELSE IF p \in TurnedNew(die, w.path) THEN NewType ELSE t[p]]

ReferredBy(die, p) ==
  IF die.ref = Untyped THEN <<>> ELSE <<[kind |-> "resolve", die |-> die.ref, path |-> p]>>

TurnedStack(w, die, rest) ==
  IF w.kind = "member" THEN rest \o ReferredBy(die, w.path)
  ELSE IF die.tag \in {"typedef", "const", "volatile"} THEN rest \o ReferredBy(die, w.path)
  ELSE IF die.tag = "pointer" THEN rest \o ReferredBy(die, Append(w.path, Pointee))
  ELSE IF die.tag = "array" THEN rest \o ReferredBy(die, Append(w.path, 0))
  ELSE IF die.tag \in {"struct", "union"} THEN rest \o MemberWork(w.path, die.members)
  ELSE rest

LEMMA TurnIsAFunction ==
  ASSUME ResolveStep
  PROVE  /\ stack # <<>> /\ UNCHANGED root
         /\ tree' = TurnedTree(Top, Die, tree) /\ stack' = TurnedStack(Top, Die, Rest)
<1>1. stack # <<>> /\ UNCHANGED root
  BY DEF ResolveStep, ResolveBase, ResolveTypedef, ResolveQualifier, ResolvePointer, ResolveArray,
         ResolveCompound, ResolveOther, ParseMember, Resolving
<1>2. PICK w, die, p, r, t : w = Top /\ die = Die /\ p = Top.path /\ t = tree /\ r = tree[Top.path]
  OBVIOUS
<1>3. \A x, new : With(x, new) = [q \in DOMAIN t \cup {p} \cup new |->
                                   IF q = p THEN x ELSE IF q \in new THEN NewType ELSE t[q]]
  BY <1>2 DEF With
<1>4. \A q : Referred(q) = ReferredBy(die, q)
  BY <1>2 DEF Referred, ReferredBy
<1>5. w.path = p
  BY <1>2
<1>6. ASSUME w.kind = "resolve", ~(die.tag \in {"const", "volatile"} /\ die.ref # Untyped),
             tree' = With(TurnedRecord(die, r), TurnedNew(die, p))
      PROVE  tree' = TurnedTree(w, die, t)
  BY <1>2, <1>3, <1>5, <1>6 DEF TurnedTree
<1>7. CASE ParseMember
  BY <1>1, <1>2, <1>4, <1>7 DEF ParseMember, TurnedTree, TurnedStack
<1>8. CASE ResolveBase
  <2>1. /\ w.kind = "resolve" /\ die.tag \in {"base", "enum"} /\ stack' = Rest
        /\ tree' = With([r EXCEPT !.type = IF die.tag = "enum" THEN "enum"
                                           ELSE IF die.name = "" THEN "unknown" ELSE die.name,
                                  !.size = die.size], {})
    BY <1>2, <1>8 DEF ResolveBase, Resolving
  <2>2. TurnedNew(die, p) = {} /\ stack' = TurnedStack(w, die, Rest)
    BY <2>1 DEF TurnedNew, TurnedStack
  <2> QED
    BY <1>1, <1>2, <1>6, <2>1, <2>2 DEF TurnedRecord
<1>9. CASE ResolveTypedef
  <2>1. /\ w.kind = "resolve" /\ die.tag = "typedef" /\ stack' = Rest \o Referred(p)
        /\ tree' = With(IF die.ref = Untyped THEN [r EXCEPT !.type = die.name]
                        ELSE [r EXCEPT !.typedef = IF @ = "" THEN die.name ELSE @], {})
    BY <1>2, <1>9 DEF ResolveTypedef, Resolving, OuterName
  <2>2. TurnedNew(die, p) = {} /\ stack' = TurnedStack(w, die, Rest)
    BY <1>4, <1>5, <2>1 DEF TurnedNew, TurnedStack
  <2> QED
    BY <1>1, <1>2, <1>6, <2>1, <2>2 DEF TurnedRecord
<1>10. CASE ResolveQualifier
  <2>1. /\ w.kind = "resolve" /\ die.tag \in {"const", "volatile"} /\ stack' = Rest \o Referred(p)
        /\ tree' = IF die.ref = Untyped THEN With([r EXCEPT !.type = "void"], {}) ELSE t
    BY <1>2, <1>10 DEF ResolveQualifier, Resolving
  <2>2. TurnedNew(die, p) = {} /\ stack' = TurnedStack(w, die, Rest)
    BY <1>4, <1>5, <2>1 DEF TurnedNew, TurnedStack
  <2>3. CASE die.ref = Untyped
    BY <1>1, <1>2, <1>6, <2>1, <2>2, <2>3 DEF TurnedRecord
  <2>4. CASE die.ref # Untyped
    BY <1>1, <1>2, <2>1, <2>2, <2>4 DEF TurnedTree
  <2> QED
    BY <2>3, <2>4
<1>11. CASE ResolvePointer
  <2>1. /\ w.kind = "resolve" /\ die.tag = "pointer" /\ stack' = Rest \o Referred(Append(p, Pointee))
        /\ tree' = With([r EXCEPT !.type = "pointer", !.size = die.size],
                        IF die.ref = Untyped THEN {} ELSE {Append(p, Pointee)})
    BY <1>2, <1>11 DEF ResolvePointer, Resolving
  <2>2. stack' = TurnedStack(w, die, Rest)
    BY <1>4, <1>5, <2>1 DEF TurnedStack
  <2> QED
    BY <1>1, <1>2, <1>6, <2>1, <2>2 DEF TurnedRecord, TurnedNew
<1>12. CASE ResolveArray
  <2>1. /\ w.kind = "resolve" /\ die.tag = "array" /\ stack' = Rest \o Referred(Append(p, 0))
        /\ tree' = IF die.ref = Untyped THEN With([r EXCEPT !.type = "array"], {})
                   ELSE With([[r EXCEPT !.type = "array"] EXCEPT
                                !.total = Product(die.ranges),
                                !.fields = <<[name |-> "__element_type__", off |-> 0]>>],
                             {Append(p, 0)})
    BY <1>2, <1>12 DEF ResolveArray, Resolving
  <2>2. stack' = TurnedStack(w, die, Rest)
    BY <1>4, <1>5, <2>1 DEF TurnedStack
  <2> QED
    BY <1>1, <1>2, <1>6, <2>1, <2>2 DEF TurnedRecord, TurnedNew
<1>13. CASE ResolveCompound
  <2>1. /\ w.kind = "resolve" /\ die.tag \in {"struct", "union"}
        /\ stack' = Rest \o MemberWork(p, die.members)
        /\ tree' = With([r EXCEPT !.type = die.tag, !.size = die.size,
                                  !.fields = [i \in 1 .. Len(die.members) |-> [name |-> "", off |-> 0]]],
                        Room(p, Len(die.members)))
    BY <1>2, <1>13 DEF ResolveCompound, Resolving
  <2>2. stack' = TurnedStack(w, die, Rest)
    BY <1>5, <2>1 DEF TurnedStack
  <2> QED
    BY <1>1, <1>2, <1>6, <2>1, <2>2 DEF TurnedRecord, TurnedNew
<1>14. CASE ResolveOther
  <2>1. /\ w.kind = "resolve" /\ Unknown(die.tag) /\ stack' = Rest
        /\ tree' = With([r EXCEPT !.type = "unknown", !.size = die.size], {})
    BY <1>2, <1>14 DEF ResolveOther
  <2>2. TurnedNew(die, p) = {} /\ stack' = TurnedStack(w, die, Rest)
    BY <2>1 DEF TurnedNew, TurnedStack, Unknown
  <2> QED
    BY <1>1, <1>2, <1>6, <2>1, <2>2 DEF TurnedRecord, Unknown
<1> QED
  BY <1>7, <1>8, <1>9, <1>10, <1>11, <1>12, <1>13, <1>14 DEF ResolveStep

\* How far a parser has come.
At(phase_, unit_, dies, root_, stack_, tree_) ==
  [phase |-> phase_, unit |-> unit_, dies |-> dies, root |-> root_, stack |-> stack_, tree |-> tree_]

Position == At(phase, unit, die_stack, root, stack, tree)
Start    == At("search", 0, <<>>, Untyped, <<>>, NewTree)
Ended(x) == x.phase = "resolve" /\ x.stack = <<>>

\* The turn after x, in a file with these units, for a symbol of this name.
TurnAfter(units, name, x) ==
  IF x.phase = "search"
  THEN IF x.dies = <<>>
       THEN At("search", x.unit + 1, <<units[x.unit + 1]>>, x.root, x.stack, x.tree)
       ELSE IF Dies[Last(x.dies)].tag = "variable" /\ Dies[Last(x.dies)].name = name
                 /\ Dies[Last(x.dies)].ref # Untyped
       THEN At("resolve", x.unit, <<>>, Dies[Last(x.dies)].ref,
               <<[kind |-> "resolve", die |-> Dies[Last(x.dies)].ref, path |-> <<>>]>>, x.tree)
       ELSE At("search", x.unit, Front(x.dies) \o Dies[Last(x.dies)].members,
               x.root, x.stack, x.tree)
  ELSE At("resolve", x.unit, x.dies, x.root,
          TurnedStack(Last(x.stack), Dies[Last(x.stack).die], Front(x.stack)),
          TurnedTree(Last(x.stack), Dies[Last(x.stack).die], x.tree))

\* The first n turns of a parser.
Turns(f, n, units, name) ==
  /\ f[0] = Start
  /\ \A i \in 0 .. n - 1 : f[i + 1] = TurnAfter(units, name, f[i]) /\ ~Ended(f[i])

LEMMA PartsOfPosition ==
  ASSUME NEW a, NEW b, NEW c, NEW d, NEW e, NEW g, NEW x, x = At(a, b, c, d, e, g)
  PROVE  x.phase = a /\ x.unit = b /\ x.dies = c /\ x.root = d /\ x.stack = e /\ x.tree = g
  BY DEF At

\* Every turn is the one after the position.
LEMMA TurnOfParser ==
  ASSUME NextUnit \/ Visit \/ Found \/ ResolveType
  PROVE  /\ ~Ended(Position) /\ Position' = TurnAfter(file.units, symbol_name, Position)
         /\ UNCHANGED <<file, symbol_name, call, config, json, err>>
         /\ phase \in {"search", "resolve"} /\ phase' \in {"search", "resolve"}
<1>1. PICK x : x = Position
  OBVIOUS
<1>2. /\ x.phase = phase /\ x.unit = unit /\ x.dies = die_stack /\ x.root = root
      /\ x.stack = stack /\ x.tree = tree
  BY <1>1, PartsOfPosition DEF Position
<1>3. PICK units, name : units = file.units /\ name = symbol_name
  OBVIOUS
<1>4. Position' = At(phase', unit', die_stack', root', stack', tree')
  BY DEF Position
<1>5. CASE NextUnit
  <2>1. /\ phase = "search" /\ die_stack = <<>> /\ phase' = phase
        /\ unit' = unit + 1 /\ die_stack' = <<units[unit + 1]>>
        /\ root' = root /\ stack' = stack /\ tree' = tree
        /\ UNCHANGED <<file, symbol_name, call, config, json, err>>
    BY <1>3, <1>5 DEF NextUnit, Searching, given, results, types
  <2>2. Position' = At("search", x.unit + 1, <<units[x.unit + 1]>>, x.root, x.stack, x.tree)
    BY <1>2, <1>4, <2>1
  <2> QED
    BY <1>1, <1>2, <1>3, <2>1, <2>2 DEF TurnAfter, Ended
<1>6. CASE Visit
  <2>1. /\ phase = "search" /\ die_stack # <<>> /\ phase' = phase /\ ~IsVariable(Last(die_stack))
        /\ unit' = unit /\ die_stack' = Front(die_stack) \o Dies[Last(die_stack)].members
        /\ root' = root /\ stack' = stack /\ tree' = tree
        /\ UNCHANGED <<file, symbol_name, call, config, json, err>>
    BY <1>6 DEF Visit, Searching, given, results, types
  <2>2. Position' = At("search", x.unit, Front(x.dies) \o Dies[Last(x.dies)].members,
                       x.root, x.stack, x.tree)
    BY <1>2, <1>4, <2>1
  <2>3. ~(/\ Dies[Last(x.dies)].tag = "variable" /\ Dies[Last(x.dies)].name = name
          /\ Dies[Last(x.dies)].ref # Untyped)
    BY <1>2, <1>3, <2>1 DEF IsVariable
  <2> QED
    BY <1>1, <1>2, <1>3, <2>1, <2>2, <2>3 DEF TurnAfter, Ended
<1>7. CASE Found
  <2>1. /\ phase = "search" /\ die_stack # <<>> /\ phase' = "resolve" /\ IsVariable(Last(die_stack))
        /\ unit' = unit /\ die_stack' = <<>> /\ root' = Dies[Last(die_stack)].ref
        /\ stack' = <<[kind |-> "resolve", die |-> Dies[Last(die_stack)].ref, path |-> <<>>]>>
        /\ tree' = tree
        /\ UNCHANGED <<file, symbol_name, call, config, json, err>>
    BY <1>7 DEF Found, AskType, Searching, given, results
  <2>2. Position' = At("resolve", x.unit, <<>>, Dies[Last(x.dies)].ref,
               <<[kind |-> "resolve", die |-> Dies[Last(x.dies)].ref, path |-> <<>>]>>, x.tree)
    BY <1>2, <1>4, <2>1
  <2>3. /\ Dies[Last(x.dies)].tag = "variable" /\ Dies[Last(x.dies)].name = name
        /\ Dies[Last(x.dies)].ref # Untyped
    BY <1>2, <1>3, <2>1 DEF IsVariable
  <2> QED
    BY <1>1, <1>2, <1>3, <2>1, <2>2, <2>3 DEF TurnAfter, Ended
<1>8. CASE ResolveType
  <2>1. /\ phase = "resolve" /\ phase' = phase /\ unit' = unit /\ die_stack' = die_stack
        /\ ResolveStep
        /\ UNCHANGED <<file, symbol_name, call, config, json, err>>
    BY <1>8 DEF ResolveType, given, search, results
  <2>2. /\ stack # <<>> /\ root' = root
        /\ tree' = TurnedTree(Top, Die, tree) /\ stack' = TurnedStack(Top, Die, Rest)
    BY <2>1, TurnIsAFunction
  <2>3. Top = Last(x.stack) /\ Die = Dies[Last(x.stack).die] /\ Rest = Front(x.stack)
    BY <1>2 DEF Top, Die, Rest
  <2>4. Position' = At("resolve", x.unit, x.dies, x.root,
          TurnedStack(Last(x.stack), Dies[Last(x.stack).die], Front(x.stack)),
          TurnedTree(Last(x.stack), Dies[Last(x.stack).die], x.tree))
    BY <1>2, <1>4, <2>1, <2>2, <2>3
  <2> QED
    BY <1>1, <1>2, <1>3, <2>1, <2>2, <2>4 DEF TurnAfter, Ended
<1> QED
  BY <1>5, <1>6, <1>7, <1>8

\* One turn more.
LEMMA AnotherTurn ==
  ASSUME NEW n \in Nat, NEW f, NEW units, NEW name, Turns(f, n, units, name),
         ~Ended(f[n]), NEW y, y = TurnAfter(units, name, f[n])
  PROVE  \E m \in Nat : \E g : Turns(g, m, units, name) /\ g[m] = y
<1>1. PICK g : g = [i \in Nat |-> IF i = n + 1 THEN y ELSE f[i]]
  OBVIOUS
<1>2. g[n + 1] = y /\ \A i \in 0 .. n : g[i] = f[i]
  BY <1>1
<1>3. g[0] = Start
  BY <1>2 DEF Turns
<1>4. ASSUME NEW i \in 0 .. n + 1 - 1 PROVE g[i + 1] = TurnAfter(units, name, g[i]) /\ ~Ended(g[i])
  <2>1. CASE i = n
    BY <1>2, <2>1
  <2>2. CASE i # n
    <3>1. i \in 0 .. n - 1 /\ i \in 0 .. n /\ i + 1 \in 0 .. n
      BY <2>2
    <3> QED
      BY <1>2, <3>1 DEF Turns
  <2> QED
    BY <2>1, <2>2
<1>5. Turns(g, n + 1, units, name) /\ n + 1 \in Nat
  BY <1>3, <1>4 DEF Turns
<1> QED
  BY <1>2, <1>5

\* What is written when the tree is t.
SizeOf(t)  == IF FirstNamed.size > 0 THEN FirstNamed.size ELSE t[<<>>].size
Written(t) == [symbol |-> symbol_name, nbytes |-> SizeOf(t), nwords |-> (SizeOf(t) + 3) \div 4,
               type |-> t]

\* The first parser's turns, all of them.
Complete(f, n) ==
  Turns(f, n, file.units, symbol_name) /\ Ended(f[n]) /\ config = Written(f[n].tree)

Working == phase \in {"search", "resolve"}

\* The second parser is somewhere on the way that the first one has come.
Again ==
  /\ root = Untyped => tree = NewTree
  /\ call \in {"load", "generate"}
  /\ call = "load" => json = NoConfig
  /\ call = "load" /\ Working =>
       \E n \in Nat : \E f : Turns(f, n, file.units, symbol_name) /\ f[n] = Position
  /\ call = "load" /\ phase = "done" /\ err = "SUCCESS" => \E n \in Nat : \E f : Complete(f, n)
  /\ call = "generate" =>
       \E n \in Nat : \E f : Complete(f, n) /\ (Working => \E k \in 0 .. n : f[k] = Position)
  /\ json # NoConfig => json = config

LEMMA AgainInit == Init => Again
  BY DEF Init, TypesInit, Again, Working

\* Same file and name, same result.
LEMMA CompleteStays ==
  ASSUME UNCHANGED <<file, symbol_name, config>>, NEW f, NEW n, Complete(f, n)
  PROVE  Complete(f, n)'
<1>1. FirstNamed' = FirstNamed
  BY DEF FirstNamed, Named, SymbolTable
<1>2. Written(f[n].tree)' = Written(f[n].tree)
  BY <1>1 DEF Written, SizeOf
<1> QED
  BY <1>2 DEF Complete

\* A parser that begins to search.
LEMMA BeginsToSearch ==
  ASSUME Progress, Again, phase = "symbol", phase' = "search",
         UNCHANGED <<types, unit, die_stack, file, symbol_name>>
  PROVE  /\ Position' = Start
         /\ \E n \in Nat : \E f : Turns(f, n, file.units, symbol_name)' /\ f[n] = Position'
<1>1. root = Untyped /\ unit = 0 /\ die_stack = <<>> /\ stack = <<>> /\ tree = NewTree
  BY DEF Progress, Again
<1>2. Position' = Start
  BY <1>1 DEF Position, Start, types
<1>3. PICK f : f = [i \in Nat |-> Start]
  OBVIOUS
<1>4. PICK n \in Nat : n = 0
  OBVIOUS
<1>5. Turns(f, n, file.units, symbol_name)' /\ f[n] = Start
  BY <1>3, <1>4 DEF Turns
<1> QED
  BY <1>2, <1>5

\* A turn of the first parser is one more on its way.
LEMMA FirstTurns ==
  ASSUME Again, call = "load", NextUnit \/ Visit \/ Found \/ ResolveType
  PROVE  \E n \in Nat : \E f : Turns(f, n, file.units, symbol_name)' /\ f[n] = Position'
<1>1. /\ ~Ended(Position) /\ Position' = TurnAfter(file.units, symbol_name, Position)
      /\ UNCHANGED <<file, symbol_name>> /\ Working
  BY TurnOfParser DEF Working
<1>2. \E n \in Nat : \E f : Turns(f, n, file.units, symbol_name) /\ f[n] = Position
  BY <1>1 DEF Again
<1>3. PICK n \in Nat : \E f : Turns(f, n, file.units, symbol_name) /\ f[n] = Position
  BY <1>2
<1>4. PICK f : Turns(f, n, file.units, symbol_name) /\ f[n] = Position
  BY <1>3
<1>5. PICK y, units, name : y = Position' /\ units = file.units /\ name = symbol_name
  OBVIOUS
<1>6. \E m \in Nat : \E g : Turns(g, m, units, name) /\ g[m] = y
  BY <1>1, <1>4, <1>5, AnotherTurn
<1>7. PICK m \in Nat : \E g : Turns(g, m, units, name) /\ g[m] = y
  BY <1>6
<1>8. PICK g : Turns(g, m, units, name) /\ g[m] = y
  BY <1>7
<1>9. Turns(g, m, file.units, symbol_name)'
  BY <1>1, <1>5, <1>8
<1> QED
  BY <1>5, <1>8, <1>9

\* A turn of the second parser is the next one that the first one did.
LEMMA SecondTurns ==
  ASSUME Again, call = "generate", NextUnit \/ Visit \/ Found \/ ResolveType
  PROVE  \E n \in Nat : \E f : Complete(f, n)' /\ \E k \in 0 .. n : f[k] = Position'
<1>1. /\ ~Ended(Position) /\ Position' = TurnAfter(file.units, symbol_name, Position)
      /\ UNCHANGED <<file, symbol_name, config>> /\ Working
  BY TurnOfParser DEF Working
<1>2. PICK n \in Nat : \E f : Complete(f, n) /\ \E k \in 0 .. n : f[k] = Position
  BY <1>1 DEF Again
<1>3. PICK f : Complete(f, n) /\ \E k \in 0 .. n : f[k] = Position
  BY <1>2
<1>4. PICK k \in 0 .. n : f[k] = Position
  BY <1>3
<1>5. k # n
  BY <1>1, <1>3, <1>4 DEF Complete
<1>6. k \in 0 .. n - 1 /\ k + 1 \in 0 .. n
  BY <1>5
<1>7. f[k + 1] = Position'
  BY <1>1, <1>3, <1>4, <1>6 DEF Complete, Turns
<1>8. Complete(f, n)'
  BY <1>1, <1>3, CompleteStays
<1> QED
  BY <1>6, <1>7, <1>8

LEMMA AgainTurn ==
  ASSUME Results, Again, NextUnit \/ Visit \/ Found \/ ResolveType
  PROVE  Again'
<1>1. /\ UNCHANGED <<call, config, json>> /\ phase' \in {"search", "resolve"}
  BY TurnOfParser
<1>2. root' = Untyped => tree' = NewTree
  <2>1. CASE NextUnit \/ Visit
    BY <2>1 DEF NextUnit, Visit, types, Again
  <2>2. CASE Found
    BY <2>2 DEF Found, AskType, IsVariable
  <2>3. CASE ResolveType
    <3>1. stack # <<>> /\ root' = root
      BY <2>3, TurnIsAFunction DEF ResolveType
    <3> QED
      BY <3>1, TopAndRest
  <2> QED
    BY <2>1, <2>2, <2>3
<1>3. CASE call = "load"
  BY <1>1, <1>2, <1>3, FirstTurns DEF Again
<1>4. CASE call = "generate"
  BY <1>1, <1>2, <1>4, SecondTurns DEF Again
<1> QED
  BY <1>3, <1>4 DEF Again

LEMMA AgainStep ==
  ASSUME IInv, Again, [Next]_vars
  PROVE  Again'
<1>1. Results /\ Progress
  BY DEF IInv
<1>2. CASE NextUnit \/ Visit \/ Found \/ ResolveType
  BY <1>1, <1>2, AgainTurn
<1>3. CASE UNCHANGED vars
  <2>1. /\ UNCHANGED <<root, tree, call, json, config, phase, err, file, symbol_name, stack, unit, die_stack>>
    BY <1>3 DEF vars, types, given, search, results
  <2>2. Position' = Position /\ Working' = Working
    BY <2>1 DEF Position, Working
  <2>3. \A f, n : Complete(f, n) => Complete(f, n)'
    BY <2>1, CompleteStays
  <2> QED
    BY <2>1, <2>2, <2>3 DEF Again
<1>4. CASE InitFails \/ InitDone \/ NoSymbol \/ NoVariable
  <2>1. /\ UNCHANGED <<types, file, symbol_name, call, config, json>>
        /\ ~Working' /\ ~(phase' = "done" /\ err' = "SUCCESS")
    BY <1>4 DEF InitFails, InitDone, NoSymbol, NoVariable, Return, Searching, given, results, Working
  <2>2. \A f, n : Complete(f, n) => Complete(f, n)'
    BY <2>1, CompleteStays
  <2> QED
    BY <2>1, <2>2 DEF Again, types
<1>5. CASE SymbolFound
  <2>1. /\ UNCHANGED <<types, file, symbol_name, call, json, unit, die_stack>>
        /\ phase = "symbol"
        /\ call = "generate" => config' = config
        /\ \/ phase' = "search"
           \/ phase' = "done" /\ err' = "NO_DWARF"
    BY <1>5 DEF SymbolFound, Return, given
  <2>2. Working' => phase' = "search"
    BY <2>1 DEF Working
  <2>3. call = "generate" => \A f, n : Complete(f, n) => Complete(f, n)'
    BY <2>1, CompleteStays
  <2>4. phase' = "search" =>
          \E n \in Nat : \E f : Turns(f, n, file.units, symbol_name)' /\ f[n] = Position'
    BY <1>1, <2>1, BeginsToSearch
  <2>5. phase' = "search" => \A f, n : n \in Nat /\ Complete(f, n) => f[0] = Position' /\ 0 \in 0 .. n
    BY <1>1, <2>1, BeginsToSearch DEF Complete, Turns
  <2>6. CASE call = "load"
    BY <2>1, <2>2, <2>4, <2>6 DEF Again, types
  <2>7. CASE call = "generate"
    <3>1. PICK n \in Nat : \E f : Complete(f, n)
      BY <2>7 DEF Again
    <3>2. PICK f : Complete(f, n)
      BY <3>1
    <3>3. Complete(f, n)' /\ (Working' => \E k \in 0 .. n : f[k] = Position')
      BY <2>2, <2>3, <2>5, <2>7, <3>2
    <3> QED
      BY <2>1, <2>7, <3>3 DEF Again, types
  <2> QED
    BY <2>6, <2>7 DEF Again
<1>6. CASE Loaded
  <2>1. /\ phase = "resolve" /\ stack = <<>> /\ phase' = "done" /\ err' = "SUCCESS"
        /\ UNCHANGED <<types, file, symbol_name, call, unit, die_stack>>
        /\ call = "load" => config' = Written(tree) /\ json' = json
        /\ call # "load" => json' = Written(tree) /\ config' = config
    BY <1>6 DEF Loaded, Return, given, Written, SizeOf, Size
  <2>2. Ended(Position) /\ Position.tree = tree /\ Working /\ ~Working'
    BY <2>1, PartsOfPosition DEF Position, Ended, Working
  <2>3. CASE call = "load"
    <3>1. PICK n \in Nat : \E f : Turns(f, n, file.units, symbol_name) /\ f[n] = Position
      BY <2>2, <2>3 DEF Again
    <3>2. PICK f : Turns(f, n, file.units, symbol_name) /\ f[n] = Position
      BY <3>1
    <3>3. Written(tree)' = Written(tree)
      <4>1. FirstNamed' = FirstNamed
        BY <2>1 DEF FirstNamed, Named, SymbolTable
      <4> QED
        BY <2>1, <4>1 DEF Written, SizeOf, types
    <3>4. Complete(f, n)'
      <4>1. f[n].tree = tree /\ Ended(f[n]) /\ Turns(f, n, file.units, symbol_name)'
        BY <2>1, <2>2, <3>2
      <4>2. config' = Written(f[n].tree)'
        <5>1. FirstNamed' = FirstNamed
          BY <2>1 DEF FirstNamed, Named, SymbolTable
        <5> QED
          BY <2>1, <2>3, <4>1, <5>1 DEF Written, SizeOf
      <4> QED
        BY <4>1, <4>2 DEF Complete
    <3> QED
      BY <2>1, <2>2, <2>3, <3>4 DEF Again, types
  <2>4. CASE call = "generate"
    <3>1. PICK n \in Nat : \E f : Complete(f, n) /\ \E k \in 0 .. n : f[k] = Position
      BY <2>2, <2>4 DEF Again
    <3>2. PICK f : Complete(f, n) /\ \E k \in 0 .. n : f[k] = Position
      BY <3>1
    <3>3. PICK k \in 0 .. n : f[k] = Position
      BY <3>2
    <3>4. k = n
      <4>1. k \notin 0 .. n - 1
        BY <2>2, <3>2, <3>3 DEF Complete, Turns
      <4> QED
        BY <4>1
    <3>5. config = Written(tree)
      BY <2>2, <3>2, <3>3, <3>4 DEF Complete
    <3>6. Complete(f, n)'
      BY <2>1, <2>4, <3>2, CompleteStays
    <3> QED
      BY <2>1, <2>2, <2>4, <3>5, <3>6 DEF Again, types
  <2> QED
    BY <2>3, <2>4 DEF Again
<1>7. CASE Generate
  <2>1. /\ phase = "done" /\ call = "load" /\ err = "SUCCESS"
        /\ call' = "generate" /\ phase' = "init" /\ root' = Untyped /\ tree' = NewTree
        /\ UNCHANGED <<file, symbol_name, config, json>>
    BY <1>7 DEF Generate, results
  <2>2. \A f, n : Complete(f, n) => Complete(f, n)'
    BY <2>1, CompleteStays
  <2> QED
    BY <2>1, <2>2 DEF Again, Working
<1> QED
  BY <1>2, <1>3, <1>4, <1>5, <1>6, <1>7 DEF Next

\* The parser that writes the JSON file does again what the one that loaded did,
\* turn by turn: what is written is what was loaded (main.cpp:390), also for
\* debug information that no compiler writes.
THEOREM WritesWhatWasLoaded == Spec => [](json # NoConfig => json = config)
<1>1. Init => Again
  BY AgainInit
<1>2. IInv /\ Again /\ [Next]_vars => Again'
  BY AgainStep
<1>3. Again => (json # NoConfig => json = config)
  BY DEF Again
<1> QED
  BY <1>1, <1>2, <1>3, ElfInvariance, PTL DEF Spec

\* What is loaded is the type of the variable found, and what is written is
\* what was loaded.
THEOREM LoadsTheType ==
  ASSUME NEW deepest \in Nat, NEW depth, WellFormed(depth, deepest)
  PROVE  Spec => []LoadsType
<1>1. ResolvesType /\ (json # NoConfig => json = config) => LoadsType
  BY DEF LoadsType
<1> QED
  BY <1>1, TypeIsResolved, WritesWhatWasLoaded, PTL

=============================================================================
