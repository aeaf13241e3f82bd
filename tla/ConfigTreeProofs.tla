-------------------------- MODULE ConfigTreeProofs --------------------------
(***************************************************************************)
(* Proofs about ConfigTree, for every set of types, whatever the depth of  *)
(* their nesting and the length of their arrays.                           *)
(***************************************************************************)
EXTENDS ConfigTree, FiniteSetTheorems, SequenceTheorems, WellFoundedInduction, TLAPS

Path == Seq(Nat)

-----------------------------------------------------------------------------
(* Sequences and prefixes.                                                 *)

LEMMA PrefixPointwise ==
  ASSUME NEW p \in Path, NEW q \in Path
  PROVE  IsPrefix(p, q) <=> Len(p) <= Len(q) /\ \A i \in 1 .. Len(p) : p[i] = q[i]
  BY DEF IsPrefix, Path

LEMMA Extended ==
  ASSUME NEW p \in Path, NEW i \in Nat
  PROVE  /\ Append(p, i) \in Path /\ Len(p) \in Nat /\ Len(Append(p, i)) = Len(p) + 1
         /\ \A n \in 1 .. Len(p) : Append(p, i)[n] = p[n]
         /\ Append(p, i)[Len(p) + 1] = i /\ Last(Append(p, i)) = i
  BY DEF Path, Last

LEMMA PathEqual ==
  ASSUME NEW p \in Path, NEW q \in Path, Len(p) = Len(q), \A n \in 1 .. Len(p) : p[n] = q[n]
  PROVE  p = q
  BY SeqEqual DEF Path

LEMMA PrefixOrder ==
  ASSUME NEW p \in Path, NEW q \in Path
  PROVE  /\ IsPrefix(p, p) /\ IsPrefix(<<>>, p)
         /\ IsPrefix(p, q) /\ Len(p) = Len(q) => p = q
         /\ \A r \in Path : IsPrefix(p, q) /\ IsPrefix(q, r) => IsPrefix(p, r)
<1>1. Len(p) \in Nat /\ Len(q) \in Nat /\ <<>> \in Path /\ Len(<<>>) = 0
  BY DEF Path
<1>2. IsPrefix(p, p) /\ IsPrefix(<<>>, p)
  BY <1>1, PrefixPointwise
<1>3. IsPrefix(p, q) /\ Len(p) = Len(q) => p = q
  BY PrefixPointwise, PathEqual
<1>4. \A r \in Path : IsPrefix(p, q) /\ IsPrefix(q, r) => IsPrefix(p, r)
  <2> TAKE r \in Path
  <2>1. Len(r) \in Nat
    BY DEF Path
  <2> QED
    BY <1>1, <2>1, PrefixPointwise
<1> QED
  BY <1>2, <1>3, <1>4

\* What lies below or above a child of p.
LEMMA PrefixOfChild ==
  ASSUME NEW p \in Path, NEW q \in Path, NEW i \in Nat
  PROVE  /\ IsPrefix(p, Append(p, i))
         /\ IsPrefix(q, Append(p, i)) => IsPrefix(q, p) \/ q = Append(p, i)
         /\ IsPrefix(Append(p, i), q) <=> IsPrefix(p, q) /\ Len(p) < Len(q) /\ q[Len(p) + 1] = i
<1> DEFINE c == Append(p, i)
<1>1. /\ c \in Path /\ Len(c) = Len(p) + 1 /\ \A n \in 1 .. Len(p) : c[n] = p[n]
      /\ c[Len(p) + 1] = i
  BY Extended
<1>2. Len(p) \in Nat /\ Len(q) \in Nat
  BY DEF Path
<1> HIDE DEF c
<1>3. IsPrefix(p, c)
  BY <1>1, <1>2, PrefixPointwise
<1>4. ASSUME IsPrefix(q, c) PROVE IsPrefix(q, p) \/ q = c
  <2>1. Len(q) <= Len(p) + 1 /\ \A n \in 1 .. Len(q) : q[n] = c[n]
    BY <1>1, <1>4, PrefixPointwise
  <2>2. CASE Len(q) <= Len(p)
    BY <1>1, <1>2, <2>1, <2>2, PrefixPointwise
  <2>3. CASE Len(q) = Len(p) + 1
    BY <1>1, <2>1, <2>3, PathEqual
  <2> QED
    BY <1>2, <2>1, <2>2, <2>3
<1>5. IsPrefix(c, q) <=> IsPrefix(p, q) /\ Len(p) < Len(q) /\ q[Len(p) + 1] = i
  <2>1. IsPrefix(c, q) <=> Len(c) <= Len(q) /\ \A n \in 1 .. Len(c) : c[n] = q[n]
    BY <1>1, PrefixPointwise
  <2>2. IsPrefix(p, q) <=> Len(p) <= Len(q) /\ \A n \in 1 .. Len(p) : p[n] = q[n]
    BY PrefixPointwise
  <2>3. \A n \in 1 .. Len(c) : n \in 1 .. Len(p) \/ n = Len(p) + 1
    BY <1>1, <1>2
  <2> QED
    BY <1>1, <1>2, <2>1, <2>2, <2>3
<1> QED
  BY <1>3, <1>4, <1>5 DEF c

LEMMA ChildrenApart ==
  ASSUME NEW p \in Path, NEW i \in Nat, NEW j \in Nat
  PROVE  /\ Append(p, i) # p
         /\ IsPrefix(Append(p, i), Append(p, j)) => i = j
         /\ \A q \in Path : Append(p, i) = Append(q, j) => p = q /\ i = j
<1> DEFINE c == Append(p, i)
           d(q) == Append(q, j)
<1>1. /\ c \in Path /\ Len(p) \in Nat /\ Len(c) = Len(p) + 1 /\ c[Len(p) + 1] = i
      /\ \A n \in 1 .. Len(p) : c[n] = p[n]
  BY Extended
<1>2. \A q \in Path : /\ d(q) \in Path /\ Len(q) \in Nat /\ Len(d(q)) = Len(q) + 1 /\ d(q)[Len(q) + 1] = j
                      /\ \A n \in 1 .. Len(q) : d(q)[n] = q[n]
  BY Extended
<1>3. IsPrefix(c, d(p)) => d(p)[Len(p) + 1] = i
  BY <1>2, PrefixOfChild
<1> HIDE DEF c, d
<1>4. ASSUME NEW q \in Path, c = d(q) PROVE p = q /\ i = j
  <2>1. Len(p) = Len(q) /\ i = j /\ \A n \in 1 .. Len(p) : p[n] = q[n]
    BY <1>1, <1>2, <1>4
  <2> QED
    BY <2>1, PathEqual
<1>5. c # p /\ (IsPrefix(c, d(p)) => i = j)
  BY <1>1, <1>2, <1>3
<1> QED
  BY <1>4, <1>5 DEF c, d

LEMMA FrontLast ==
  ASSUME NEW S, NEW s \in Seq(S), s # <<>>
  PROVE  /\ Len(s) \in Nat \ {0} /\ Last(s) = s[Len(s)] /\ Last(s) \in S
         /\ Front(s) \in Seq(S) /\ Len(Front(s)) = Len(s) - 1
         /\ \A n \in 1 .. Len(s) - 1 : Front(s)[n] = s[n]
<1>1. Len(s) \in Nat \ {0}
  BY EmptySeq
<1>2. Last(s) = s[Len(s)] /\ Last(s) \in S
  BY <1>1 DEF Last
<1>3. /\ Front(s) \in Seq(S) /\ Len(Front(s)) = Len(s) - 1
      /\ \A n \in 1 .. Len(s) - 1 : Front(s)[n] = s[n]
  <2> DEFINE l == Len(s) - 1
  <2>1. l \in Nat /\ \A i \in 1 .. l : s[i] \in S
    BY <1>1
  <2> HIDE DEF l
  <2>2. /\ SubSeq(s, 1, l) \in Seq(S) /\ Len(SubSeq(s, 1, l)) = IF 1 <= l THEN l - 1 + 1 ELSE 0
        /\ \A n \in 1 .. l - 1 + 1 : SubSeq(s, 1, l)[n] = s[1 + n - 1]
    BY <2>1, SubSeqProperties
  <2>3. /\ l - 1 + 1 = l /\ (1 <= l \/ l = 0)
        /\ \A n \in 1 .. l : 1 + n - 1 = n
    BY <2>1
  <2>4. Len(SubSeq(s, 1, l)) = l /\ \A n \in 1 .. l : SubSeq(s, 1, l)[n] = s[n]
    BY <2>2, <2>3
  <2> QED
    BY <2>2, <2>4 DEF Front, l
<1> QED
  BY <1>1, <1>2, <1>3

LEMMA ChildFront ==
  ASSUME NEW p \in Path, p # <<>>
  PROVE  /\ Front(p) \in Path /\ Last(p) \in Nat /\ p = Append(Front(p), Last(p))
         /\ Len(Front(p)) = Len(p) - 1 /\ IsPrefix(Front(p), p)
<1> DEFINE f == Front(p)
           l == Last(p)
<1>1. /\ Len(p) \in Nat \ {0} /\ l = p[Len(p)] /\ l \in Nat
      /\ f \in Path /\ Len(f) = Len(p) - 1
      /\ \A n \in 1 .. Len(p) - 1 : f[n] = p[n]
  BY FrontLast DEF Path
<1> HIDE DEF f, l
<1>2. /\ Append(f, l) \in Path /\ Len(f) \in Nat /\ Len(Append(f, l)) = Len(f) + 1
      /\ \A n \in 1 .. Len(f) : Append(f, l)[n] = f[n]
      /\ Append(f, l)[Len(f) + 1] = l
  BY <1>1, Extended
<1> DEFINE c == Append(f, l)
<1>3. c \in Path /\ Len(p) = Len(c) /\ \A n \in 1 .. Len(p) : p[n] = c[n]
  BY <1>1, <1>2
<1> HIDE DEF c
<1>4. p = c
  BY <1>3, PathEqual
<1>5. IsPrefix(f, Append(f, l))
  BY <1>1, PrefixOfChild
<1> QED
  BY <1>1, <1>4, <1>5 DEF c, f, l

LEMMA Concatenated ==
  ASSUME NEW S, NEW a \in Seq(S), NEW b \in Seq(S)
  PROVE  /\ a \o b \in Seq(S) /\ Len(a \o b) = Len(a) + Len(b)
         /\ \A n \in 1 .. Len(a) : (a \o b)[n] = a[n]
         /\ \A n \in 1 .. Len(b) : (a \o b)[Len(a) + n] = b[n]
  BY ConcatProperties

-----------------------------------------------------------------------------
(* The paths of a tree, and a stack of them.                               *)

\* The first n children of p, and those it has in D.
Offspring(p, n) == {Append(p, i) : i \in 0 .. n - 1}

Kids(D, p) == {q \in D : Len(q) = Len(p) + 1 /\ IsPrefix(p, q)}

\* With a path come those above it; the children of each are numbered from 0.
TreeOf(D) ==
  /\ D \subseteq Path /\ Root \in D
  /\ \A q \in D : \A p \in Path : IsPrefix(p, q) => p \in D
  /\ \A p \in D : \E n \in Nat : \A i \in Nat : Append(p, i) \in D <=> i < n

\* What waits is in the tree, none above or equal to another.
Live(s, D) ==
  /\ s \in Seq(Path) /\ \A n \in DOMAIN s : s[n] \in D
  /\ \A m, n \in DOMAIN s : IsPrefix(s[m], s[n]) => m = n

LEMMA KidsOf ==
  ASSUME NEW D, D \subseteq Path, NEW p \in Path, NEW n \in Nat,
         \A i \in Nat : Append(p, i) \in D <=> i < n
  PROVE  Kids(D, p) = Offspring(p, n)
<1>1. ASSUME NEW q \in Kids(D, p) PROVE q \in {Append(p, i) : i \in 0 .. n - 1}
  <2>1. q \in D /\ q \in Path /\ Len(q) = Len(p) + 1 /\ Len(p) \in Nat /\ IsPrefix(p, q)
    BY DEF Kids, Path
  <2>2. q # <<>>
    BY <2>1
  <2>3. /\ Last(q) \in Nat /\ q = Append(Front(q), Last(q)) /\ Front(q) \in Path
        /\ Len(Front(q)) = Len(p) /\ IsPrefix(Front(q), q)
    BY <2>1, <2>2, ChildFront
  <2>4. Front(q) = p
    <3> DEFINE f == Front(q)
    <3>1. f \in Path /\ Len(f) = Len(p)
      BY <2>3
    <3>2. \A m \in 1 .. Len(p) : f[m] = q[m] /\ p[m] = q[m]
      BY <2>1, <2>3, PrefixPointwise
    <3> HIDE DEF f
    <3>3. f = p
      BY <3>1, <3>2, PathEqual
    <3> QED
      BY <3>3 DEF f
  <2>5. Last(q) < n
    BY <2>1, <2>3, <2>4
  <2> QED
    BY <2>3, <2>4, <2>5
<1>2. ASSUME NEW i \in 0 .. n - 1 PROVE Append(p, i) \in Kids(D, p)
  <2>1. i \in Nat /\ i < n
    OBVIOUS
  <2> QED
    BY <2>1, Extended, PrefixOfChild DEF Kids
<1> QED
  BY <1>1, <1>2 DEF Offspring

LEMMA PushedKids ==
  ASSUME NEW p \in Path, NEW n \in Nat
  PROVE  /\ Pushed(Offspring(p, n)) \in Seq(Path) /\ Len(Pushed(Offspring(p, n))) = n
         /\ \A m \in 1 .. n : Pushed(Offspring(p, n))[m] = Append(p, n - m)
<1> DEFINE kids == {Append(p, i) : i \in 0 .. n - 1}
           f == [i \in 0 .. n - 1 |-> Append(p, i)]
<1>1. Cardinality(kids) = n
  <2>1. f \in Bijection(0 .. n - 1, kids)
    <3>1. f \in [0 .. n - 1 -> kids]
      OBVIOUS
    <3>2. \A i, j \in 0 .. n - 1 : f[i] = f[j] => i = j
      BY ChildrenApart
    <3>3. \A q \in kids : \E i \in 0 .. n - 1 : f[i] = q
      OBVIOUS
    <3> QED
      BY <3>1, <3>2, <3>3 DEF Bijection, Injection, Surjection, IsInjective
  <2>2. /\ IsFiniteSet(0 .. n - 1)
        /\ Cardinality(0 .. n - 1) = IF 0 > n - 1 THEN 0 ELSE n - 1 - 0 + 1
    BY FS_Interval
  <2>3. Cardinality(0 .. n - 1) = n
    BY <2>2
  <2>4. ExistsBijection(0 .. n - 1, kids)
    BY <2>1 DEF ExistsBijection
  <2> HIDE DEF kids
  <2> QED
    BY <2>2, <2>3, <2>4, FS_Bijection
<1>2. \A m \in 1 .. n : (CHOOSE q \in kids : Last(q) = n - m) = Append(p, n - m)
  <2> TAKE m \in 1 .. n
  <2> DEFINE c == Append(p, n - m)
  <2>1. n - m \in 0 .. n - 1 /\ n - m \in Nat
    OBVIOUS
  <2>2. c \in kids /\ Last(c) = n - m
    BY <2>1, Extended
  <2>3. \A q \in kids : Last(q) = n - m => q = c
    <3>1. \A i \in 0 .. n - 1 : Last(Append(p, i)) = i
      BY Extended
    <3> QED
      BY <3>1
  <2> HIDE DEF c, kids
  <2>4. (CHOOSE q \in kids : Last(q) = n - m) = c
    BY <2>2, <2>3
  <2> QED
    BY <2>4 DEF c
<1>3. Pushed(kids) = [m \in 1 .. n |-> CHOOSE q \in kids : Last(q) = n - m]
  <2> HIDE DEF kids
  <2> QED
    BY <1>1 DEF Pushed
<1>4. \A m \in 1 .. n : Pushed(kids)[m] = Append(p, n - m)
  <2> HIDE DEF kids
  <2> QED
    BY <1>2, <1>3
<1>5. \A m \in 1 .. n : Append(p, n - m) \in Path
  BY Extended
<1>6. Pushed(kids) \in Seq(Path) /\ Len(Pushed(kids)) = n
  <2> HIDE DEF kids
  <2>1. Pushed(kids) \in [1 .. n -> Path]
    BY <1>3, <1>4, <1>5
  <2> HIDE DEF Path
  <2> QED
    BY <2>1
<1> QED
  BY <1>4, <1>6 DEF Offspring

\* The top of the stack gives way to itself or to children of it.
LEMMA LivePushed ==
  ASSUME NEW D, NEW E, D \subseteq E, E \subseteq Path,
         NEW s, Live(s, D), s # <<>>, NEW more \in Seq(Path),
         \A n \in DOMAIN more : more[n] \in E,
         \A n \in DOMAIN more : more[n] = Last(s) \/ \E i \in Nat : more[n] = Append(Last(s), i),
         \A m, n \in DOMAIN more : IsPrefix(more[m], more[n]) => m = n
  PROVE  Live(Front(s) \o more, E)
<1> DEFINE rest == Front(s)
           r == Len(rest)
           p == Last(s)
           t == rest \o more
<1>1. /\ Len(s) \in Nat \ {0} /\ p = s[Len(s)] /\ p \in Path
      /\ rest \in Seq(Path) /\ r = Len(s) - 1
      /\ \A n \in 1 .. r : rest[n] = s[n]
  BY FrontLast DEF Live
<1>2. /\ t \in Seq(Path) /\ Len(t) = r + Len(more)
      /\ \A n \in 1 .. r : t[n] = rest[n]
      /\ \A n \in 1 .. Len(more) : t[r + n] = more[n]
  <2>1. rest \in Seq(Path)
    BY <1>1
  <2> HIDE DEF rest
  <2> QED
    BY <2>1, Concatenated
<1>3. /\ DOMAIN t = 1 .. r + Len(more) /\ DOMAIN more = 1 .. Len(more) /\ Len(more) \in Nat
      /\ DOMAIN s = 1 .. r + 1 /\ r \in Nat
  BY <1>1, <1>2 DEF Live
<1> HIDE DEF t, rest, r, p
<1>4. \A n \in 1 .. r : t[n] = s[n] /\ t[n] \in D /\ t[n] \in Path
  <2> TAKE n \in 1 .. r
  <2>1. t[n] = s[n] /\ n \in DOMAIN s
    BY <1>1, <1>2, <1>3
  <2>2. s[n] \in D /\ D \subseteq Path
    BY <2>1 DEF Live
  <2> QED
    BY <2>1, <2>2
<1>5. \A n \in 1 .. r : ~IsPrefix(s[n], p) /\ ~IsPrefix(p, s[n])
  <2> TAKE n \in 1 .. r
  <2>1. n \in DOMAIN s /\ r + 1 \in DOMAIN s /\ p = s[r + 1] /\ n # r + 1
    BY <1>1, <1>3
  <2> QED
    BY <2>1 DEF Live
<1>6. \A n \in 1 .. r + Len(more) : n \in 1 .. r \/ (n > r /\ n - r \in 1 .. Len(more) /\ t[n] = more[n - r])
  <2> TAKE n \in 1 .. r + Len(more)
  <2>1. CASE n > r
    <3>1. n - r \in 1 .. Len(more) /\ r + (n - r) = n
      BY <1>3, <2>1
    <3>2. t[r + (n - r)] = more[n - r]
      BY <1>2, <3>1
    <3> QED
      BY <2>1, <3>1, <3>2
  <2> QED
    BY <1>3, <2>1
<1>7. \A n \in 1 .. Len(more) : IsPrefix(p, more[n]) /\ more[n] \in Path
      /\ \A q \in Path : IsPrefix(q, more[n]) => IsPrefix(q, p) \/ q = more[n]
  <2> TAKE n \in 1 .. Len(more)
  <2>1. more[n] \in Path /\ (more[n] = p \/ \E i \in Nat : more[n] = Append(p, i))
    BY <1>3 DEF p
  <2>2. CASE more[n] = p
    BY <1>1, <2>1, <2>2, PrefixOrder
  <2>3. CASE \E i \in Nat : more[n] = Append(p, i)
    BY <1>1, <2>1, <2>3, PrefixOfChild
  <2> QED
    BY <2>1, <2>2, <2>3
<1>8. \A m \in 1 .. r, n \in 1 .. Len(more) : ~IsPrefix(s[m], more[n]) /\ ~IsPrefix(more[n], s[m])
  <2> SUFFICES ASSUME NEW m \in 1 .. r, NEW n \in 1 .. Len(more)
               PROVE  ~IsPrefix(s[m], more[n]) /\ ~IsPrefix(more[n], s[m])
    OBVIOUS
  <2>1. s[m] \in Path /\ more[n] \in Path
    BY <1>4, <1>7
  <2>2. ~IsPrefix(more[n], s[m])
    BY <1>1, <1>5, <1>7, <2>1, PrefixOrder
  <2>3. ~IsPrefix(s[m], more[n])
    BY <1>5, <1>7, <2>1
  <2> QED
    BY <2>2, <2>3
<1>9. \A n \in DOMAIN t : t[n] \in E
  BY <1>3, <1>4, <1>6
<1>10. ASSUME NEW m \in DOMAIN t, NEW n \in DOMAIN t, IsPrefix(t[m], t[n]) PROVE m = n
  <2>1. CASE m \in 1 .. r /\ n \in 1 .. r
    BY <1>3, <1>4, <1>10, <2>1 DEF Live
  <2>2. CASE m > r /\ n > r
    <3>1. m - r = n - r
      BY <1>3, <1>6, <1>10, <2>2
    <3> QED
      BY <1>3, <3>1
  <2>3. CASE m \in 1 .. r /\ n > r
    BY <1>3, <1>4, <1>6, <1>8, <1>10, <2>3
  <2>4. CASE m > r /\ n \in 1 .. r
    BY <1>3, <1>4, <1>6, <1>8, <1>10, <2>4
  <2> QED
    BY <1>3, <1>6, <2>1, <2>2, <2>3, <2>4
<1>11. Live(t, E)
  BY <1>2, <1>9, <1>10 DEF Live
<1> QED
  BY <1>11 DEF t, rest

-----------------------------------------------------------------------------
(* A tree that grows.                                                      *)

LEMMA GrownTree ==
  ASSUME NEW D, TreeOf(D), NEW p \in D, NEW n \in Nat, \A i \in Nat : Append(p, i) \notin D
  PROVE  /\ TreeOf(D \cup Offspring(p, n))
         /\ \A q \in Offspring(p, n), j \in Nat : Append(q, j) \notin D \cup Offspring(p, n)
<1> DEFINE new == {Append(p, i) : i \in 0 .. n - 1}
           E == D \cup new
<1>1. D \subseteq Path /\ p \in Path /\ Root \in D
      /\ \A q \in D : \A r \in Path : IsPrefix(r, q) => r \in D
  BY DEF TreeOf
<1>2. \A q \in new : q \in Path /\ q \notin D /\ q # p
                     /\ \A r \in Path : IsPrefix(r, q) => IsPrefix(r, p) \/ r = q
  <2> TAKE q \in new
  <2>1. PICK i \in 0 .. n - 1 : q = Append(p, i)
    OBVIOUS
  <2>2. i \in Nat
    OBVIOUS
  <2>3. q \in Path /\ q \notin D
    BY <1>1, <2>1, <2>2, Extended
  <2>4. q # p
    BY <1>1, <2>3
  <2>5. \A r \in Path : IsPrefix(r, q) => IsPrefix(r, p) \/ r = q
    BY <1>1, <2>1, <2>2, PrefixOfChild
  <2> QED
    BY <2>3, <2>4, <2>5
<1>3. \A r \in Path, i \in Nat : Append(r, i) \in new <=> r = p /\ i < n
  <2> TAKE r \in Path, i \in Nat
  <2>1. Append(r, i) \in new => r = p /\ i < n
    BY <1>1, ChildrenApart
  <2>2. r = p /\ i < n => i \in 0 .. n - 1
    OBVIOUS
  <2> QED
    BY <2>1, <2>2
<1>4. \A r \in Path, i \in Nat : Append(r, i) \in D => r \in D
  BY <1>1, Extended, PrefixOfChild
<1> HIDE DEF new
<1>5. E \subseteq Path /\ Root \in E
  BY <1>1, <1>2
<1>6. \A q \in E : \A r \in Path : IsPrefix(r, q) => r \in E
  BY <1>1, <1>2
<1>7. ASSUME NEW r \in E PROVE \E m \in Nat : \A i \in Nat : Append(r, i) \in E <=> i < m
  <2>1. CASE r = p
    BY <1>1, <1>3, <2>1
  <2>2. CASE r \in D /\ r # p
    <3>1. PICK m \in Nat : \A i \in Nat : Append(r, i) \in D <=> i < m
      BY <2>2 DEF TreeOf
    <3> QED
      BY <1>1, <1>3, <2>2, <3>1
  <2>3. CASE r \in new
    <3>1. \A i \in Nat : Append(r, i) \notin E
      BY <1>2, <1>3, <1>4, <2>3
    <3>2. \A i \in Nat : Append(r, i) \in E <=> i < 0
      BY <3>1
    <3> QED
      BY <3>2
  <2> QED
    BY <2>1, <2>2, <2>3
<1>8. \A q \in new, j \in Nat : Append(q, j) \notin E
  BY <1>2, <1>3, <1>4
<1>9. TreeOf(E)
  BY <1>5, <1>6, <1>7 DEF TreeOf
<1> QED
  BY <1>8, <1>9 DEF new, Offspring

Beneath(p, q) == IsPrefix(p, q) /\ Len(p) < Len(q)

\* The child of p beneath or at which q is, and q beneath the child i instead.
Branch(p, q)   == q[Len(p) + 1]
Moved(p, q, i) == [q EXCEPT ![Len(p) + 1] = i]

LEMMA MovedFacts ==
  ASSUME NEW p \in Path, NEW q \in Path, Beneath(p, q), NEW i \in Nat
  PROVE  /\ Moved(p, q, i) \in Path /\ Len(Moved(p, q, i)) = Len(q)
         /\ Branch(p, q) \in Nat /\ Branch(p, Moved(p, q, i)) = i
         /\ \A n \in 1 .. Len(q) : n # Len(p) + 1 => Moved(p, q, i)[n] = q[n]
         /\ Beneath(p, Moved(p, q, i)) /\ IsPrefix(Append(p, i), Moved(p, q, i))
         /\ Moved(p, q, Branch(p, q)) = q
         /\ \A j \in Nat : Moved(p, Moved(p, q, i), j) = Moved(p, q, j)
         /\ \A x \in Nat : Moved(p, Append(q, x), i) = Append(Moved(p, q, i), x)
<1> DEFINE m == Moved(p, q, i)
           k == Len(p) + 1
<1>1. Len(p) \in Nat /\ Len(q) \in Nat /\ k \in 1 .. Len(q) /\ DOMAIN q = 1 .. Len(q)
      /\ q \in [1 .. Len(q) -> Nat] /\ q[k] \in Nat /\ IsPrefix(p, q)
  BY DEF Path, Beneath
<1>2. \A j \in Nat : Moved(p, q, j) = [n \in 1 .. Len(q) |-> IF n = k THEN j ELSE q[n]]
  BY <1>1 DEF Moved
<1>3. \A j \in Nat : /\ Moved(p, q, j) \in Path /\ Len(Moved(p, q, j)) = Len(q)
                     /\ Moved(p, q, j)[k] = j
                     /\ \A n \in 1 .. Len(q) : n # k => Moved(p, q, j)[n] = q[n]
  <2> TAKE j \in Nat
  <2> DEFINE f == Moved(p, q, j)
  <2>1. f = [n \in 1 .. Len(q) |-> IF n = k THEN j ELSE q[n]]
    BY <1>2
  <2> HIDE DEF f
  <2>2. f \in [1 .. Len(q) -> Nat] /\ f[k] = j /\ \A n \in 1 .. Len(q) : n # k => f[n] = q[n]
    BY <1>1, <2>1
  <2>3. f \in Path /\ Len(f) = Len(q)
    <3> DEFINE l == Len(q)
    <3>1. l \in Nat /\ f \in [1 .. l -> Nat]
      BY <1>1, <2>2
    <3> HIDE DEF l
    <3>2. f \in Seq(Nat) /\ Len(f) = l
      BY <3>1
    <3> QED
      BY <3>2 DEF Path, l
  <2> QED
    BY <2>2, <2>3 DEF f
<1> HIDE DEF m
<1>6. m \in Path /\ Len(m) = Len(q) /\ m[k] = i /\ \A n \in 1 .. Len(q) : n # k => m[n] = q[n]
  BY <1>3 DEF m
<1>7. IsPrefix(p, m)
  <2>1. \A n \in 1 .. Len(p) : p[n] = q[n]
    BY <1>1, PrefixPointwise
  <2>2. \A n \in 1 .. Len(p) : n \in 1 .. Len(q) /\ n # k
    BY <1>1
  <2> QED
    BY <1>1, <1>6, <2>1, <2>2, PrefixPointwise
<1>8. IsPrefix(Append(p, i), m)
  BY <1>1, <1>6, <1>7, PrefixOfChild
<1>9. Moved(p, q, q[k]) = q
  <2>1. Moved(p, q, q[k]) \in Path /\ Len(Moved(p, q, q[k])) = Len(q)
        /\ \A n \in 1 .. Len(q) : Moved(p, q, q[k])[n] = q[n]
    BY <1>1, <1>3
  <2> QED
    BY <2>1, PathEqual
<1>10. \A j \in Nat : Moved(p, m, j) = Moved(p, q, j)
  <2> TAKE j \in Nat
  <2>1. m = [n \in 1 .. Len(q) |-> IF n = k THEN i ELSE q[n]]
    BY <1>2 DEF m
  <2>2. Moved(p, m, j) = [n \in 1 .. Len(q) |-> IF n = k THEN j ELSE m[n]]
    BY <1>1, <2>1 DEF Moved
  <2>3. \A n \in 1 .. Len(q) : (IF n = k THEN j ELSE m[n]) = (IF n = k THEN j ELSE q[n])
    BY <1>6
  <2> QED
    BY <1>2, <2>2, <2>3
<1>11. \A x \in Nat : Moved(p, Append(q, x), i) = Append(m, x)
  <2> TAKE x \in Nat
  <2> DEFINE c == Append(q, x)
             a == Moved(p, c, i)
             b == Append(m, x)
  <2>1. c \in Path /\ Len(c) = Len(q) + 1 /\ c[Len(q) + 1] = x /\ \A n \in 1 .. Len(q) : c[n] = q[n]
    BY Extended
  <2>2. b \in Path /\ Len(b) = Len(q) + 1 /\ b[Len(q) + 1] = x /\ \A n \in 1 .. Len(q) : b[n] = m[n]
    <3>1. /\ b \in Path /\ Len(b) = Len(m) + 1 /\ b[Len(m) + 1] = x
          /\ \A n \in 1 .. Len(m) : b[n] = m[n]
      BY <1>6, Extended
    <3> HIDE DEF b
    <3> QED
      BY <1>6, <3>1
  <2> HIDE DEF c, b
  <2>3. c \in [1 .. Len(c) -> Nat] /\ DOMAIN c = 1 .. Len(c)
    BY <2>1 DEF Path
  <2>4. a = [n \in 1 .. Len(c) |-> IF n = k THEN i ELSE c[n]]
    BY <1>1, <2>1, <2>3 DEF Moved
  <2>5. a \in [1 .. Len(c) -> Nat] /\ Len(c) \in Nat
    BY <1>1, <2>1, <2>3, <2>4
  <2> HIDE DEF a
  <2>6. a \in Path /\ Len(a) = Len(c)
    <3> DEFINE l == Len(c)
    <3>1. l \in Nat /\ a \in [1 .. l -> Nat]
      BY <2>5
    <3> HIDE DEF l
    <3>2. a \in Seq(Nat) /\ Len(a) = l
      BY <3>1
    <3> QED
      BY <3>2 DEF Path, l
  <2>7. \A n \in 1 .. Len(a) : a[n] = b[n]
    <3> SUFFICES ASSUME NEW n \in 1 .. Len(a) PROVE a[n] = b[n]
      OBVIOUS
    <3>1. n \in 1 .. Len(c) /\ (n \in 1 .. Len(q) \/ n = Len(q) + 1) /\ k # Len(q) + 1
      BY <1>1, <2>1, <2>6
    <3>2. a[n] = IF n = k THEN i ELSE c[n]
      BY <2>4, <3>1
    <3> HIDE DEF k
    <3>3. CASE n = k
      BY <1>1, <1>6, <2>2, <3>2, <3>3
    <3>4. CASE n # k /\ n \in 1 .. Len(q)
      BY <1>6, <2>1, <2>2, <3>2, <3>4
    <3>5. CASE n = Len(q) + 1
      BY <2>1, <2>2, <3>1, <3>2, <3>5
    <3> QED
      BY <3>1, <3>3, <3>4, <3>5
  <2>8. a = b
    BY <2>1, <2>2, <2>6, <2>7, PathEqual
  <2> QED
    BY <2>8 DEF a, b, c
<1>12. Beneath(p, m)
  BY <1>1, <1>6, <1>7 DEF Beneath
<1> QED
  BY <1>1, <1>6, <1>8, <1>9, <1>10, <1>11, <1>12 DEF m, Branch

LEMMA MovedElsewhere ==
  ASSUME NEW p \in Path, NEW q \in Path, Beneath(p, q), NEW i \in Nat,
         NEW n \in 1 .. Len(q), n # Len(p) + 1
  PROVE  Moved(p, q, i)[n] = q[n]
  BY MovedFacts

LEMMA MovedChild ==
  ASSUME NEW p \in Path, NEW q \in Path, Beneath(p, q), NEW i \in Nat, NEW x \in Nat
  PROVE  Moved(p, Append(q, x), i) = Append(Moved(p, q, i), x)
  BY MovedFacts

LEMMA BeneathChild ==
  ASSUME NEW p \in Path, NEW q \in Path
  PROVE  /\ Beneath(p, q) => Branch(p, q) \in Nat /\ p # q
         /\ \A i \in Nat : IsPrefix(Append(p, i), q) <=> Beneath(p, q) /\ Branch(p, q) = i
         /\ \A i \in Nat : Beneath(p, Append(p, i)) /\ Branch(p, Append(p, i)) = i
         /\ \A i \in Nat : Beneath(p, q) => /\ Beneath(p, Append(q, i))
                                           /\ Branch(p, Append(q, i)) = Branch(p, q)
         /\ \A i \in Nat : Beneath(p, Append(q, i)) => p = q \/ Beneath(p, q)
<1>1. Len(p) \in Nat /\ Len(q) \in Nat /\ q \in [1 .. Len(q) -> Nat]
  BY DEF Path
<1>2. Beneath(p, q) => Branch(p, q) \in Nat /\ p # q
  BY <1>1 DEF Beneath, Branch
<1>3. \A i \in Nat : IsPrefix(Append(p, i), q) <=> Beneath(p, q) /\ Branch(p, q) = i
  BY PrefixOfChild DEF Beneath, Branch
<1>4. \A i \in Nat : Beneath(p, Append(p, i)) /\ Branch(p, Append(p, i)) = i
  BY <1>1, Extended, PrefixOfChild DEF Beneath, Branch
<1>5. ASSUME NEW i \in Nat, Beneath(p, q)
      PROVE  Beneath(p, Append(q, i)) /\ Branch(p, Append(q, i)) = Branch(p, q)
  <2> DEFINE c == Append(q, i)
  <2>1. /\ c \in Path /\ Len(c) = Len(q) + 1 /\ IsPrefix(q, c)
        /\ \A n \in 1 .. Len(q) : c[n] = q[n]
    BY Extended, PrefixOfChild
  <2> HIDE DEF c
  <2>2. IsPrefix(p, q) /\ Len(p) < Len(q)
    BY <1>5 DEF Beneath
  <2>3. IsPrefix(p, c)
    BY <2>1, <2>2, PrefixOrder
  <2>4. c[Len(p) + 1] = q[Len(p) + 1]
    BY <1>1, <2>1, <2>2
  <2> QED
    BY <1>1, <2>1, <2>2, <2>3, <2>4 DEF Beneath, Branch, c
<1>6. ASSUME NEW i \in Nat, Beneath(p, Append(q, i)) PROVE p = q \/ Beneath(p, q)
  <2>1. IsPrefix(p, Append(q, i)) /\ Len(p) < Len(Append(q, i)) /\ Len(Append(q, i)) = Len(q) + 1
    BY <1>6, Extended DEF Beneath
  <2>2. IsPrefix(p, q)
    BY <2>1, PrefixOfChild
  <2>3. Len(p) = Len(q) => p = q
    BY <2>2, PrefixOrder
  <2> QED
    BY <1>1, <2>1, <2>2, <2>3 DEF Beneath
<1> QED
  BY <1>2, <1>3, <1>4, <1>5, <1>6

\* The paths of a tree when child 0 of p has been cloned with all below it.
Cloned(D, p, n) ==
  D \cup {Moved(p, t, i) : t \in {q \in D : IsPrefix(Append(p, 0), q)}, i \in 0 .. n - 1}

\* A path of them beneath p is one beneath child 0, moved.
LEMMA ClonedPaths ==
  ASSUME NEW D, TreeOf(D), NEW p \in D, NEW n \in Nat \ {0},
         \A i \in Nat : Append(p, i) \in D <=> i < 1
  PROVE  /\ Cloned(D, p, n) \subseteq Path /\ D \subseteq Cloned(D, p, n)
         /\ \A q \in Cloned(D, p, n) :
              IF Beneath(p, q) THEN Branch(p, q) \in 0 .. n - 1 /\ Moved(p, q, 0) \in D ELSE q \in D
         /\ \A q \in Path : Beneath(p, q) /\ Branch(p, q) \in 0 .. n - 1 /\ Moved(p, q, 0) \in D
                             => q \in Cloned(D, p, n)
         /\ \A q \in D : Beneath(p, q) => Branch(p, q) = 0 /\ Moved(p, q, 0) = q
<1> DEFINE C == Cloned(D, p, n)
           tmpl == {q \in D : IsPrefix(Append(p, 0), q)}
<1>1. D \subseteq Path /\ p \in Path /\ \A q \in D : \A r \in Path : IsPrefix(r, q) => r \in D
  BY DEF TreeOf
<1>2. ASSUME NEW q \in D, Beneath(p, q)
      PROVE  Branch(p, q) = 0 /\ Moved(p, q, 0) = q /\ q \in tmpl
  <2>1. q \in Path /\ Branch(p, q) \in Nat
    BY <1>1, <1>2, BeneathChild
  <2>2. IsPrefix(Append(p, Branch(p, q)), q) /\ Append(p, Branch(p, q)) \in Path
    BY <1>1, <1>2, <2>1, BeneathChild, Extended
  <2>3. Append(p, Branch(p, q)) \in D
    BY <1>1, <2>2
  <2>4. Branch(p, q) = 0
    BY <2>1, <2>3
  <2>5. Moved(p, q, Branch(p, q)) = q
    BY <1>1, <1>2, <2>1, MovedFacts
  <2> QED
    BY <2>2, <2>4, <2>5
<1>3. \A t \in tmpl : t \in Path /\ t \in D /\ Beneath(p, t) /\ Moved(p, t, 0) = t
  BY <1>1, <1>2, BeneathChild
<1>4. ASSUME NEW t \in tmpl, NEW i \in 0 .. n - 1
      PROVE  /\ Moved(p, t, i) \in Path /\ Beneath(p, Moved(p, t, i))
             /\ Branch(p, Moved(p, t, i)) \in 0 .. n - 1
             /\ Moved(p, Moved(p, t, i), 0) \in D
  <2>1. p \in Path /\ t \in Path /\ t \in D /\ Beneath(p, t) /\ Moved(p, t, 0) = t /\ i \in Nat
    BY <1>1, <1>3
  <2>2. Moved(p, t, i) \in Path /\ Beneath(p, Moved(p, t, i))
    BY <2>1, MovedFacts
  <2>3. Branch(p, Moved(p, t, i)) = i
    BY <2>1, MovedFacts
  <2>4. Moved(p, Moved(p, t, i), 0) = Moved(p, t, 0)
    BY <2>1, MovedFacts
  <2> QED
    BY <2>1, <2>2, <2>3, <2>4
<1>5. C = D \cup {Moved(p, t, i) : t \in tmpl, i \in 0 .. n - 1}
  BY DEF Cloned
<1> HIDE DEF C, tmpl
<1>6. C \subseteq Path /\ D \subseteq C
  BY <1>1, <1>4, <1>5
<1>7. ASSUME NEW q \in C
      PROVE  IF Beneath(p, q) THEN Branch(p, q) \in 0 .. n - 1 /\ Moved(p, q, 0) \in D ELSE q \in D
  <2>1. CASE q \in D
    BY <1>2, <2>1
  <2>2. CASE \E t \in tmpl, i \in 0 .. n - 1 : q = Moved(p, t, i)
    BY <1>4, <2>2
  <2> QED
    BY <1>5, <2>1, <2>2
<1>8. ASSUME NEW q \in Path, Beneath(p, q), Branch(p, q) \in 0 .. n - 1, Moved(p, q, 0) \in D
      PROVE  q \in C
  <2> DEFINE t == Moved(p, q, 0)
             b == Branch(p, q)
  <2>1. p \in Path /\ b \in Nat
    BY <1>1, <1>8
  <2>2. t \in Path /\ IsPrefix(Append(p, 0), t)
    BY <1>8, <2>1, MovedFacts
  <2>3. Moved(p, t, b) = Moved(p, q, b)
    BY <1>8, <2>1, MovedFacts
  <2>4. Moved(p, q, b) = q
    BY <1>8, <2>1, MovedFacts
  <2>5. t \in tmpl
    BY <1>8, <2>2 DEF tmpl
  <2> HIDE DEF t
  <2>6. q = Moved(p, t, b) /\ b \in 0 .. n - 1
    BY <1>8, <2>3, <2>4
  <2> HIDE DEF b
  <2> QED
    BY <1>5, <2>5, <2>6
<1> QED
  BY <1>2, <1>6, <1>7, <1>8 DEF C

LEMMA ClonedTree ==
  ASSUME NEW D, TreeOf(D), NEW p \in D, NEW n \in Nat \ {0},
         \A i \in Nat : Append(p, i) \in D <=> i < 1
  PROVE  TreeOf(Cloned(D, p, n)) /\ \A i \in Nat : Append(p, i) \in Cloned(D, p, n) <=> i < n
<1> DEFINE C == Cloned(D, p, n)
<1>1. D \subseteq Path /\ p \in Path /\ Root \in D
      /\ \A q \in D : \A r \in Path : IsPrefix(r, q) => r \in D
  BY DEF TreeOf
<1>2. Len(p) \in Nat /\ \A q \in Path : Len(q) \in Nat
  BY <1>1 DEF Path
<1>3. /\ C \subseteq Path /\ D \subseteq C
      /\ \A q \in C : IF Beneath(p, q) THEN Branch(p, q) \in 0 .. n - 1 /\ Moved(p, q, 0) \in D
                                      ELSE q \in D
      /\ \A q \in Path : Beneath(p, q) /\ Branch(p, q) \in 0 .. n - 1 /\ Moved(p, q, 0) \in D
                          => q \in C
  BY ClonedPaths
<1> HIDE DEF C
<1>4. ASSUME NEW q \in C, NEW r \in Path, IsPrefix(r, q) PROVE r \in C
  <2>1. CASE ~Beneath(p, q)
    BY <1>1, <1>3, <1>4, <2>1
  <2>2. CASE Beneath(p, q) /\ ~Beneath(p, r)
    <3>1. q \in Path /\ Len(r) <= Len(q) /\ \A m \in 1 .. Len(r) : r[m] = q[m]
      BY <1>3, <1>4, PrefixPointwise
    <3>2. Len(p) <= Len(q) /\ \A m \in 1 .. Len(p) : p[m] = q[m]
      BY <1>1, <2>2, <3>1, PrefixPointwise DEF Beneath
    <3>3. CASE Len(r) <= Len(p)
      <4>1. IsPrefix(r, p)
        BY <1>1, <1>2, <3>1, <3>2, <3>3, PrefixPointwise
      <4> QED
        BY <1>1, <1>3, <4>1
    <3>4. CASE Len(r) > Len(p)
      <4>1. IsPrefix(p, r)
        BY <1>1, <1>2, <3>1, <3>2, <3>4, PrefixPointwise
      <4> QED
        BY <1>2, <2>2, <3>4, <4>1 DEF Beneath
    <3> QED
      BY <1>2, <3>3, <3>4
  <2>3. CASE Beneath(p, q) /\ Beneath(p, r)
    <3> DEFINE mq == Moved(p, q, 0)
               mr == Moved(p, r, 0)
               k  == Len(p) + 1
    <3>1. q \in Path /\ Len(r) <= Len(q) /\ (\A m \in 1 .. Len(r) : r[m] = q[m]) /\ k \in 1 .. Len(r)
      BY <1>2, <1>3, <1>4, <2>3, PrefixPointwise DEF Beneath
    <3>2. mq \in Path /\ Len(mq) = Len(q) /\ mq[k] = 0
      BY <1>1, <2>3, <3>1, MovedFacts DEF Branch
    <3>3. \A m \in 1 .. Len(q) : m # k => mq[m] = q[m]
      BY <1>1, <2>3, <3>1, MovedFacts
    <3>4. mr \in Path /\ Len(mr) = Len(r) /\ mr[k] = 0
      BY <1>1, <2>3, MovedFacts DEF Branch
    <3>5. \A m \in 1 .. Len(r) : m # k => mr[m] = r[m]
      BY <1>1, <2>3, MovedFacts
    <3>6. r[k] = q[k]
      BY <3>1
    <3> HIDE DEF mq, mr, k
    <3>7. IsPrefix(mr, mq)
      BY <1>2, <3>1, <3>2, <3>3, <3>4, <3>5, PrefixPointwise
    <3>8. mr \in D
      BY <1>1, <1>3, <2>3, <3>4, <3>7 DEF mq
    <3>9. Branch(p, r) \in 0 .. n - 1
      BY <1>3, <2>3, <3>6 DEF Branch, k
    <3> QED
      BY <1>3, <2>3, <3>8, <3>9 DEF mr
  <2> QED
    BY <2>1, <2>2, <2>3
<1>5. \A i \in Nat : Append(p, i) \in C <=> i < n
  <2> TAKE i \in Nat
  <2> DEFINE c == Append(p, i)
             b == Append(p, 0)
             a == Moved(p, c, 0)
             k == Len(p) + 1
  <2>1. /\ c \in Path /\ Len(c) = k /\ b \in D /\ b \in Path /\ Len(b) = k /\ b[k] = 0
        /\ \A m \in 1 .. Len(p) : c[m] = p[m] /\ b[m] = p[m]
    BY <1>1, Extended
  <2>2. Beneath(p, c) /\ Branch(p, c) = i
    BY <1>1, BeneathChild
  <2> HIDE DEF c, b
  <2>3. a \in Path /\ Len(a) = k /\ a[k] = 0
    BY <1>1, <2>1, <2>2, MovedFacts DEF Branch
  <2>4. \A m \in 1 .. Len(c) : m # k => a[m] = c[m]
    <3>1. \A m \in 1 .. Len(c) : m # Len(p) + 1 => Moved(p, c, 0)[m] = c[m]
      BY <1>1, <2>1, <2>2, MovedElsewhere
    <3> QED
      BY <3>1
  <2>5. a = b
    <3> HIDE DEF a
    <3>1. \A m \in 1 .. k : m = k \/ m \in 1 .. Len(p)
      BY <1>2
    <3> HIDE DEF k
    <3>2. \A m \in 1 .. k : a[m] = b[m]
      <4> SUFFICES ASSUME NEW m \in 1 .. k PROVE a[m] = b[m]
        OBVIOUS
      <4>1. CASE m = k
        BY <2>1, <2>3, <4>1
      <4>2. CASE m # k
        BY <2>1, <2>4, <3>1, <4>2
      <4> QED
        BY <4>1, <4>2
    <3> QED
      BY <2>1, <2>3, <3>2, PathEqual
  <2>6. c \in C => i < n
    BY <1>3, <2>2
  <2>7. i < n => c \in C
    BY <1>3, <2>1, <2>2, <2>5
  <2> QED
    BY <2>6, <2>7 DEF c
<1>6. ASSUME NEW r \in C PROVE \E m \in Nat : \A i \in Nat : Append(r, i) \in C <=> i < m
  <2>1. CASE r = p
    BY <1>5, <2>1
  <2>2. CASE ~Beneath(p, r) /\ r # p
    <3>1. r \in D /\ r \in Path
      BY <1>1, <1>3, <2>2
    <3>2. PICK m \in Nat : \A i \in Nat : Append(r, i) \in D <=> i < m
      BY <3>1 DEF TreeOf
    <3>3. \A i \in Nat : ~Beneath(p, Append(r, i))
      BY <1>1, <2>2, <3>1, BeneathChild
    <3>4. \A i \in Nat : Append(r, i) \in C <=> Append(r, i) \in D
      BY <1>3, <3>3
    <3> QED
      BY <3>2, <3>4
  <2>3. CASE Beneath(p, r)
    <3> DEFINE t == Moved(p, r, 0)
    <3>1. t \in D /\ r \in Path /\ Branch(p, r) \in 0 .. n - 1
      BY <1>3, <2>3
    <3>2. PICK m \in Nat : \A i \in Nat : Append(t, i) \in D <=> i < m
      BY <3>1 DEF TreeOf
    <3>3. ASSUME NEW i \in Nat PROVE Append(r, i) \in C <=> Append(t, i) \in D
      <4> DEFINE c == Append(r, i)
      <4>1. c \in Path
        BY <3>1, Extended
      <4>2. Beneath(p, c) /\ Branch(p, c) = Branch(p, r)
        BY <1>1, <2>3, <3>1, BeneathChild
      <4>3. Moved(p, c, 0) = Append(t, i)
        BY <1>1, <2>3, <3>1, MovedChild
      <4> HIDE DEF c, t
      <4> QED
        BY <1>3, <3>1, <4>1, <4>2, <4>3 DEF c
    <3> HIDE DEF t
    <3> QED
      BY <3>2, <3>3
  <2> QED
    BY <2>1, <2>2, <2>3
<1>7. TreeOf(C)
  BY <1>1, <1>3, <1>4, <1>6 DEF TreeOf
<1> QED
  BY <1>5, <1>7 DEF C

-----------------------------------------------------------------------------
(* The recursive functions of the JSON file: types nest, so each is the    *)
(* function its equation says.                                             *)

\* The least of a set of numbers.
LEMMA Least ==
  ASSUME NEW T, T \subseteq Nat, T # {}
  PROVE  \E n \in T : \A k \in T : n <= k
<1> DEFINE R == OpToRel(<, Nat)
<1>1. IsWellFoundedOn(R, Nat)
  BY NatLessThanWellFounded
<1>2. PICK n \in T : \A k \in T : ~ (<<k, n>> \in R)
  BY <1>1, WFMin
<1>3. \A k \in Nat, m \in Nat : k < m => <<k, m>> \in R
  BY DEF OpToRel
<1> HIDE DEF R
<1>4. \A k \in T : ~ (k < n)
  BY <1>2, <1>3
<1>5. \A k \in T : k \in Nat /\ n \in Nat
  OBVIOUS
<1>6. \A k \in T : n <= k
  BY <1>4, <1>5
<1> QED
  BY <1>6

\* A least counterexample in place of induction: what holds at 0 and passes
\* from each number to the next is all of them.
LEMMA Climb ==
  ASSUME NEW T, 0 \in T, \A n \in Nat : n \in T => n + 1 \in T
  PROVE  Nat \subseteq T
<1> SUFFICES ASSUME Nat \ T # {} PROVE FALSE
  OBVIOUS
<1>1. PICK n \in Nat \ T : \A k \in Nat \ T : n <= k
  BY Least
<1>2. n # 0
  OBVIOUS
<1>3. n - 1 \in Nat /\ n - 1 \in T
  BY <1>1, <1>2
<1>4. n - 1 + 1 = n /\ n - 1 + 1 \in T
  BY <1>3
<1> QED
  BY <1>4

LEMMA ItemOf ==
  ASSUME NEW S, NEW s \in Seq(S), NEW n \in DOMAIN s
  PROVE  s[n] \in S
  OBVIOUS

\* What the assumption says of a type.
LEMMA TypeFacts ==
  ASSUME NEW ti \in Types
  PROVE  /\ Nesting[ti] \in Nat /\ ti.size \in Nat /\ ti.total \in Nat
         /\ Len(ti.fields) \in Nat /\ DOMAIN ti.fields = 1 .. Len(ti.fields)
         /\ \A n \in DOMAIN ti.fields :
              /\ ti.fields[n].ti \in Types /\ ti.fields[n].off \in Nat
              /\ ti.fields[n].name \in STRING
              /\ Nesting[ti.fields[n].ti] < Nesting[ti]
              /\ Nesting[ti.fields[n].ti] \in Nat
         /\ ti.type = "array" => /\ 1 \in DOMAIN ti.fields /\ Element(ti) \in Types
                                 /\ Len(ti.fields) = 1 /\ ti.fields[1].off = 0
         /\ ti.type \notin Aggregate \cup {"array"} => Len(ti.fields) = 0
<1>1. /\ ti.fields \in Seq([name : STRING, off : Nat, ti : Types])
      /\ Nesting \in [Types -> Nat] /\ {ti.size, ti.total} \subseteq Nat
      /\ \A n \in DOMAIN ti.fields : Nesting[ti.fields[n].ti] < Nesting[ti]
      /\ ti.type = "array" => Len(ti.fields) = 1 /\ ti.fields[1].off = 0
      /\ ti.type \notin Aggregate \cup {"array"} => ti.fields = <<>>
  BY TypesAssumption
<1> DEFINE R == [name : STRING, off : Nat, ti : Types]
           s == ti.fields
<1>2. Len(s) \in Nat /\ DOMAIN s = 1 .. Len(s)
  BY <1>1
<1>3. \A n \in DOMAIN s : s[n] \in R
  <2>1. s \in Seq(R)
    BY <1>1
  <2> HIDE DEF R, s
  <2> QED
    BY <2>1, ItemOf
<1>4. \A n \in DOMAIN s : s[n].ti \in Types /\ s[n].off \in Nat /\ s[n].name \in STRING
  BY <1>3
<1>5. ti.type = "array" => 1 \in DOMAIN s /\ Element(ti) \in Types
  BY <1>1, <1>2, <1>4 DEF Element
<1> QED
  BY <1>1, <1>2, <1>4, <1>5

LEMMA NestingBounded == \E m \in Nat : \A ti \in Types : Nesting[ti] < m
<1> DEFINE Bounded(S) == \E m \in Nat : \A ti \in S : Nesting[ti] < m
           T == {k \in Nat : \A S \in SUBSET Types : IsFiniteSet(S) /\ Cardinality(S) = k => Bounded(S)}
<1>1. 0 \in T
  <2> SUFFICES ASSUME NEW S \in SUBSET Types, IsFiniteSet(S), Cardinality(S) = 0 PROVE Bounded(S)
    OBVIOUS
  <2>1. S = {}
    BY FS_EmptySet
  <2>2. \A ti \in S : Nesting[ti] < 0
    BY <2>1
  <2> QED
    BY <2>2
<1>2. ASSUME NEW k \in Nat, k \in T PROVE k + 1 \in T
  <2> SUFFICES ASSUME NEW S \in SUBSET Types, IsFiniteSet(S), Cardinality(S) = k + 1
               PROVE Bounded(S)
    OBVIOUS
  <2>1. S # {}
    BY FS_EmptySet
  <2>2. PICK x : x \in S
    BY <2>1
  <2>3. IsFiniteSet(S \ {x}) /\ Cardinality(S \ {x}) = k
    <3>1. Cardinality(S \ {x}) = Cardinality(S) - 1 /\ IsFiniteSet(S \ {x})
      BY <2>2, FS_RemoveElement
    <3> QED
      BY <3>1
  <2>4. PICK m \in Nat : \A ti \in S \ {x} : Nesting[ti] < m
    BY <1>2, <2>3
  <2>5. Nesting[x] \in Nat /\ \A ti \in S : Nesting[ti] \in Nat
    BY <2>2, TypesAssumption
  <2> DEFINE b == m + Nesting[x] + 1
  <2>6. b \in Nat /\ \A ti \in S : Nesting[ti] < b
    <3>1. b \in Nat /\ m <= b /\ Nesting[x] < b
      BY <2>5
    <3> HIDE DEF b
    <3>2. \A ti \in S : ti = x \/ Nesting[ti] < m
      BY <2>4
    <3> QED
      BY <2>5, <3>1, <3>2
  <2> HIDE DEF b
  <2> QED
    BY <2>6
<1>3. Nat \subseteq T
  <2> HIDE DEF T
  <2> QED
    BY <1>1, <1>2, Climb
<1>4. IsFiniteSet(Types) /\ Cardinality(Types) \in Nat
  BY TypesAssumption, FS_CardinalityType
<1> QED
  BY <1>3, <1>4

LEMMA ToJsonUnfolds ==
  ToJson = [ti \in Types |->
    [key \in JsonKeys(ti) |->
     CASE key = "type"           -> ti.type
       [] key = "typedef"        -> ti.typedef
       [] key = "size"           -> ti.size
       [] key = "fields"         -> [n \in DOMAIN ti.fields |->
                                       [name |-> ti.fields[n].name, byte_offset |-> ti.fields[n].off,
                                        type_info |-> ToJson[ti.fields[n].ti]]]
       [] key = "total_elements" -> ti.total
       [] OTHER                  -> ToJson[Element(ti)]]]
<1> DEFINE Body(f, ti) ==
      [key \in JsonKeys(ti) |->
     CASE key = "type"           -> ti.type
       [] key = "typedef"        -> ti.typedef
       [] key = "size"           -> ti.size
       [] key = "fields"         -> [n \in DOMAIN ti.fields |->
                                       [name |-> ti.fields[n].name, byte_offset |-> ti.fields[n].off,
                                        type_info |-> f[ti.fields[n].ti]]]
       [] key = "total_elements" -> ti.total
       [] OTHER                  -> f[Element(ti)]]
     S(n) == {ti \in Types : Nesting[ti] < n}
     Defined(n) == \E f : f = [ti \in S(n) |-> Body(f, ti)]
     T == {n \in Nat : Defined(n)}
<1>1. ASSUME NEW f, NEW g, NEW ti \in Types,
             \A n \in DOMAIN ti.fields : f[ti.fields[n].ti] = g[ti.fields[n].ti]
      PROVE  Body(f, ti) = Body(g, ti)
  <2>1. "element_type" \in JsonKeys(ti) => 1 \in DOMAIN ti.fields
    BY TypeFacts DEF JsonKeys
  <2>2. "element_type" \in JsonKeys(ti) => f[Element(ti)] = g[Element(ti)]
    BY <1>1, <2>1 DEF Element
  <2>3. [n \in DOMAIN ti.fields |->
           [name |-> ti.fields[n].name, byte_offset |-> ti.fields[n].off,
            type_info |-> f[ti.fields[n].ti]]]
        = [n \in DOMAIN ti.fields |->
           [name |-> ti.fields[n].name, byte_offset |-> ti.fields[n].off,
            type_info |-> g[ti.fields[n].ti]]]
    BY <1>1
  <2>4. \A key \in JsonKeys(ti) :
          key \notin {"type", "typedef", "size", "fields", "total_elements"} => key = "element_type"
    BY DEF JsonKeys
  <2> QED
    BY <2>2, <2>3, <2>4
<1> HIDE DEF Body
<1>2. 0 \in T
  <2>1. \A ti \in Types : ~ (Nesting[ti] < 0)
    BY TypesAssumption
  <2>2. S(0) = {}
    BY <2>1
  <2> DEFINE f == [ti \in {} |-> 0]
  <2>3. f = [ti \in S(0) |-> Body(f, ti)]
    BY <2>2
  <2> QED
    BY <2>3
<1>3. ASSUME NEW n \in Nat, n \in T PROVE n + 1 \in T
  <2>1. PICK f : f = [ti \in S(n) |-> Body(f, ti)]
    BY <1>3
  <2> DEFINE g == [ti \in S(n + 1) |-> Body(f, ti)]
  <2>2. \A ti \in S(n + 1) : ti \in Types /\ \A m \in DOMAIN ti.fields : ti.fields[m].ti \in S(n)
    <3> SUFFICES ASSUME NEW ti \in S(n + 1), NEW m \in DOMAIN ti.fields
                 PROVE  ti \in Types /\ ti.fields[m].ti \in S(n)
      OBVIOUS
    <3>1. ti \in Types /\ Nesting[ti] < n + 1
      OBVIOUS
    <3>2. /\ ti.fields[m].ti \in Types /\ Nesting[ti.fields[m].ti] < Nesting[ti]
          /\ Nesting[ti] \in Nat /\ Nesting[ti.fields[m].ti] \in Nat
      BY <3>1, TypeFacts
    <3> QED
      BY <3>1, <3>2
  <2>3. \A ti \in S(n) : ti \in S(n + 1)
    BY TypesAssumption
  <2>4. \A ti \in S(n) : f[ti] = g[ti]
    BY <2>1, <2>3
  <2>5. \A ti \in S(n + 1) : Body(f, ti) = Body(g, ti)
    <3> HIDE DEF g, S
    <3> QED
      BY <1>1, <2>2, <2>4
  <2>6. g = [ti \in S(n + 1) |-> Body(g, ti)]
    BY <2>5
  <2> HIDE DEF g
  <2>7. Defined(n + 1)
    BY <2>6
  <2> HIDE DEF Defined
  <2> QED
    BY <2>7
<1>4. Nat \subseteq T
  <2> HIDE DEF T
  <2> QED
    BY <1>2, <1>3, Climb
<1>5. PICK m \in Nat : \A ti \in Types : Nesting[ti] < m
  BY NestingBounded
<1>6. S(m) = Types
  BY <1>5
<1>7. \E f : f = [ti \in Types |-> Body(f, ti)]
  <2>1. m \in T
    BY <1>4
  <2> QED
    BY <1>6, <2>1
<1>8. ToJson = CHOOSE f : f = [ti \in Types |-> Body(f, ti)]
  BY DEF ToJson, Body
<1>9. ToJson = [ti \in Types |-> Body(ToJson, ti)]
  BY <1>7, <1>8
<1> QED
  BY <1>9 DEF Body

\* The object of a type.
LEMMA ToJsonFacts ==
  ASSUME NEW ti \in Types
  PROVE  LET j == ToJson[ti]
         IN  /\ DOMAIN j = JsonKeys(ti) /\ j.type = ti.type
             /\ ti.typedef # "" => j.typedef = ti.typedef
             /\ ti.size > 0 => j.size = ti.size
             /\ ti.type \in Aggregate =>
                  j.fields = [n \in DOMAIN ti.fields |->
                                [name |-> ti.fields[n].name, byte_offset |-> ti.fields[n].off,
                                 type_info |-> ToJson[ti.fields[n].ti]]]
             /\ ti.type = "array" => /\ j.total_elements = ti.total
                                     /\ j.element_type = ToJson[Element(ti)]
<1> DEFINE inner == [n \in DOMAIN ti.fields |->
                       [name |-> ti.fields[n].name, byte_offset |-> ti.fields[n].off,
                        type_info |-> ToJson[ti.fields[n].ti]]]
           j == ToJson[ti]
<1>1. j = [key \in JsonKeys(ti) |->
             CASE key = "type"           -> ti.type
               [] key = "typedef"        -> ti.typedef
               [] key = "size"           -> ti.size
               [] key = "fields"         -> inner
               [] key = "total_elements" -> ti.total
               [] OTHER                  -> ToJson[Element(ti)]]
  BY ToJsonUnfolds
<1> HIDE DEF inner, j
<1>2. DOMAIN j = JsonKeys(ti) /\ \A key \in JsonKeys(ti) : j[key] =
             CASE key = "type"           -> ti.type
               [] key = "typedef"        -> ti.typedef
               [] key = "size"           -> ti.size
               [] key = "fields"         -> inner
               [] key = "total_elements" -> ti.total
               [] OTHER                  -> ToJson[Element(ti)]
  BY <1>1
<1>3. j.type = ti.type
  <2>1. "type" \in JsonKeys(ti)
    BY DEF JsonKeys
  <2> QED
    BY <1>2, <2>1
<1>4. ti.typedef # "" => j.typedef = ti.typedef
  <2>1. ti.typedef # "" => "typedef" \in JsonKeys(ti)
    BY DEF JsonKeys
  <2> QED
    BY <1>2, <2>1
<1>5. ti.size > 0 => j.size = ti.size
  <2>1. ti.size > 0 => "size" \in JsonKeys(ti)
    BY DEF JsonKeys
  <2> QED
    BY <1>2, <2>1
<1>6. ti.type \in Aggregate => j.fields = inner
  <2>1. ti.type \in Aggregate => "fields" \in JsonKeys(ti)
    BY DEF JsonKeys
  <2> QED
    BY <1>2, <2>1
<1>7. ti.type = "array" => j.total_elements = ti.total /\ j.element_type = ToJson[Element(ti)]
  <2>1. ti.type = "array" => "total_elements" \in JsonKeys(ti) /\ "element_type" \in JsonKeys(ti)
    BY DEF JsonKeys
  <2> QED
    BY <1>2, <2>1
<1> QED
  BY <1>2, <1>3, <1>4, <1>5, <1>6, <1>7 DEF inner, j

LEMMA StructArrays ==
  ASSUME NEW ti \in Types
  PROVE  StructArray(ToJson[ti]) <=> ArrayOfAggregates(ti)
<1>1. ToJson[ti].type = ti.type
  BY ToJsonFacts
<1>2. CASE ti.type = "array"
  <2>1. Element(ti) \in Types
    BY <1>2, TypeFacts
  <2>2. ToJson[ti].element_type = ToJson[Element(ti)]
    BY <1>2, ToJsonFacts
  <2>3. ToJson[Element(ti)].type = Element(ti).type
    BY <2>1, ToJsonFacts
  <2> QED
    BY <1>1, <1>2, <2>2, <2>3 DEF StructArray, ArrayOfAggregates
<1> QED
  BY <1>1, <1>2 DEF StructArray, ArrayOfAggregates

LEMMA AbsoluteUnfolds ==
  Absolute = [j \in Objects |-> [base \in Nat |->
    IF j.type \in Aggregate
    THEN [j EXCEPT !.fields =
            [n \in DOMAIN j.fields |->
               [name        |-> j.fields[n].name,
                byte_offset |-> base + j.fields[n].byte_offset,
                type_info   |-> Absolute[j.fields[n].type_info][base + j.fields[n].byte_offset]]]]
    ELSE IF StructArray(j)
    THEN [j EXCEPT !.element_type = Absolute[j.element_type][base]]
    ELSE j]]
<1> DEFINE Body(f, j, base) ==
      IF j.type \in Aggregate
      THEN [j EXCEPT !.fields =
              [n \in DOMAIN j.fields |->
                 [name        |-> j.fields[n].name,
                  byte_offset |-> base + j.fields[n].byte_offset,
                  type_info   |-> f[j.fields[n].type_info][base + j.fields[n].byte_offset]]]]
      ELSE IF StructArray(j)
      THEN [j EXCEPT !.element_type = f[j.element_type][base]]
      ELSE j
     S(n) == {ToJson[ti] : ti \in {t \in Types : Nesting[t] < n}}
     Defined(n) == \E f : f = [j \in S(n) |-> [base \in Nat |-> Body(f, j, base)]]
     T == {n \in Nat : Defined(n)}
<1>1. ASSUME NEW f, NEW g, NEW j, NEW base,
             j.type \in Aggregate => 
               \A n \in DOMAIN j.fields : 
                 f[j.fields[n].type_info][base + j.fields[n].byte_offset]
                   = g[j.fields[n].type_info][base + j.fields[n].byte_offset],
             StructArray(j) => f[j.element_type][base] = g[j.element_type][base]
      PROVE  Body(f, j, base) = Body(g, j, base)
  <2>1. CASE j.type \in Aggregate
    BY <1>1, <2>1
  <2>2. CASE j.type \notin Aggregate
    BY <1>1, <2>2
  <2> QED
    BY <2>1, <2>2
<1> HIDE DEF Body
<1>2. 0 \in T
  <2>1. \A ti \in Types : ~ (Nesting[ti] < 0)
    BY TypesAssumption
  <2>2. S(0) = {}
    BY <2>1
  <2> DEFINE f == [j \in {} |-> 0]
  <2>3. f = [j \in S(0) |-> [base \in Nat |-> Body(f, j, base)]]
    BY <2>2
  <2> QED
    BY <2>3
<1>3. ASSUME NEW n \in Nat, n \in T PROVE n + 1 \in T
  <2>1. PICK f : f = [j \in S(n) |-> [base \in Nat |-> Body(f, j, base)]]
    BY <1>3
  <2> DEFINE g == [j \in S(n + 1) |-> [base \in Nat |-> Body(f, j, base)]]
  <2>2. \A j \in S(n + 1) :
          /\ j.type \in Aggregate => \A m \in DOMAIN j.fields : 
                j.fields[m].type_info \in S(n) /\ j.fields[m].byte_offset \in Nat
          /\ StructArray(j) => j.element_type \in S(n)
    <3> SUFFICES ASSUME NEW ti \in Types, Nesting[ti] < n + 1
                 PROVE  LET j == ToJson[ti]
                        IN  /\ j.type \in Aggregate => \A m \in DOMAIN j.fields :
                                 j.fields[m].type_info \in S(n) /\ j.fields[m].byte_offset \in Nat
                            /\ StructArray(j) => j.element_type \in S(n)
      OBVIOUS
    <3>1. \A t \in Types : Nesting[t] < Nesting[ti] => ToJson[t] \in S(n)
      BY TypeFacts
    <3>2. ASSUME ti.type \in Aggregate, NEW m \in DOMAIN ti.fields
          PROVE  ToJson[ti.fields[m].ti] \in S(n) /\ ti.fields[m].off \in Nat
      BY <3>1, <3>2, TypeFacts
    <3>3. ASSUME ti.type = "array" PROVE ToJson[Element(ti)] \in S(n)
      BY <3>1, <3>3, TypeFacts DEF Element
    <3> HIDE DEF S
    <3>4. ASSUME ti.type \in Aggregate
          PROVE  \A m \in DOMAIN ToJson[ti].fields :
                    /\ ToJson[ti].fields[m].type_info \in S(n)
                    /\ ToJson[ti].fields[m].byte_offset \in Nat
      <4>1. ToJson[ti].fields = [m \in DOMAIN ti.fields |->
                                [name |-> ti.fields[m].name, byte_offset |-> ti.fields[m].off,
                                 type_info |-> ToJson[ti.fields[m].ti]]]
        BY <3>4, ToJsonFacts
      <4> QED
        BY <3>2, <3>4, <4>1
    <3>5. ToJson[ti].type = ti.type /\ (ti.type = "array" => ToJson[ti].element_type = ToJson[Element(ti)])
      BY ToJsonFacts
    <3> QED
      BY <3>3, <3>4, <3>5 DEF StructArray
  <2>3. \A j \in S(n) : j \in S(n + 1)
    <3>1. \A ti \in Types : Nesting[ti] < n => Nesting[ti] < n + 1
      BY TypesAssumption
    <3> QED
      BY <3>1
  <2>4. \A j \in S(n), base \in Nat : f[j][base] = g[j][base]
    <3> HIDE DEF S
    <3> QED
    BY <2>1, <2>3
  <2>5. \A j \in S(n + 1), base \in Nat : Body(f, j, base) = Body(g, j, base)
    <3> HIDE DEF g, S
    <3> SUFFICES ASSUME NEW j \in S(n + 1), NEW base \in Nat
                 PROVE Body(f, j, base) = Body(g, j, base)
      OBVIOUS
    <3>1. j.type \in Aggregate => \A m \in DOMAIN j.fields : 
             f[j.fields[m].type_info][base + j.fields[m].byte_offset]
                   = g[j.fields[m].type_info][base + j.fields[m].byte_offset]
      BY <2>2, <2>4
    <3> QED
      BY <1>1, <2>2, <2>4, <3>1
  <2>6. g = [j \in S(n + 1) |-> [base \in Nat |-> Body(g, j, base)]]
    <3> HIDE DEF S
    <3> QED
      BY <2>5
  <2> HIDE DEF g
  <2>7. Defined(n + 1)
    BY <2>6
  <2> HIDE DEF Defined
  <2> QED
    BY <2>7
<1>4. Nat \subseteq T
  <2> HIDE DEF T
  <2> QED
    BY <1>2, <1>3, Climb
<1>5. PICK m \in Nat : \A ti \in Types : Nesting[ti] < m
  BY NestingBounded
<1>6. S(m) = Objects
  BY <1>5 DEF Objects
<1>7. \E f : f = [j \in Objects |-> [base \in Nat |-> Body(f, j, base)]]
  <2>1. m \in T
    BY <1>4
  <2> QED
    BY <1>6, <2>1
<1>8. Absolute = CHOOSE f : f = [j \in Objects |-> [base \in Nat |-> Body(f, j, base)]]
  BY DEF Absolute, Body
<1>9. Absolute = [j \in Objects |-> [base \in Nat |-> Body(Absolute, j, base)]]
  BY <1>7, <1>8
<1> QED
  BY <1>9 DEF Body

LEMMA AbsoluteAt ==
  ASSUME NEW j \in Objects, NEW b \in Nat
  PROVE  Absolute[j][b] =
           IF j.type \in Aggregate
           THEN [j EXCEPT !.fields =
                   [n \in DOMAIN j.fields |->
                      [name        |-> j.fields[n].name,
                       byte_offset |-> b + j.fields[n].byte_offset,
                       type_info   |-> Absolute[j.fields[n].type_info][b + j.fields[n].byte_offset]]]]
           ELSE IF StructArray(j)
           THEN [j EXCEPT !.element_type = Absolute[j.element_type][b]]
           ELSE j
<1> DEFINE Body(k, base) ==
           IF k.type \in Aggregate
           THEN [k EXCEPT !.fields =
                   [n \in DOMAIN k.fields |->
                      [name        |-> k.fields[n].name,
                       byte_offset |-> base + k.fields[n].byte_offset,
                       type_info   |-> Absolute[k.fields[n].type_info][base + k.fields[n].byte_offset]]]]
           ELSE IF StructArray(k)
           THEN [k EXCEPT !.element_type = Absolute[k.element_type][base]]
           ELSE k
<1>1. Absolute = [k \in Objects |-> [base \in Nat |-> Body(k, base)]]
  BY AbsoluteUnfolds
<1> HIDE DEF Body
<1>2. Absolute[j] = [base \in Nat |-> Body(j, base)]
  BY <1>1
<1>3. Absolute[j][b] = Body(j, b)
  BY <1>2
<1> QED
  BY <1>3 DEF Body

\* What the load reads: the object of a type with the offsets of all inside it
\* counted from b.
LEMMA AbsoluteFacts ==
  ASSUME NEW ti \in Types, NEW b \in Nat
  PROVE  LET o == Absolute[ToJson[ti]][b]
         IN  /\ DOMAIN o = JsonKeys(ti) /\ o.type = ti.type
             /\ ti.typedef # "" => o.typedef = ti.typedef
             /\ ti.size > 0 => o.size = ti.size
             /\ ti.type \in Aggregate =>
                  o.fields = [n \in DOMAIN ti.fields |->
                                [name |-> ti.fields[n].name, byte_offset |-> b + ti.fields[n].off,
                                 type_info |-> Absolute[ToJson[ti.fields[n].ti]][b + ti.fields[n].off]]]
             /\ ti.type = "array" =>
                  /\ o.total_elements = ti.total
                  /\ o.element_type = IF ArrayOfAggregates(ti) THEN Absolute[ToJson[Element(ti)]][b]
                                      ELSE ToJson[Element(ti)]
<1> DEFINE j == ToJson[ti]
           o == Absolute[j][b]
<1>1. j \in Objects
  BY DEF Objects
<1> DEFINE fields == [n \in DOMAIN j.fields |->
               [name        |-> j.fields[n].name,
                byte_offset |-> b + j.fields[n].byte_offset,
                type_info   |-> Absolute[j.fields[n].type_info][b + j.fields[n].byte_offset]]]
<1>2. o = IF j.type \in Aggregate THEN [j EXCEPT !.fields = fields]
          ELSE IF StructArray(j) THEN [j EXCEPT !.element_type = Absolute[j.element_type][b]]
          ELSE j
  <2> HIDE DEF j
  <2> QED
    BY <1>1, AbsoluteAt
<1>3. /\ DOMAIN j = JsonKeys(ti) /\ j.type = ti.type
      /\ ti.typedef # "" => j.typedef = ti.typedef
      /\ ti.size > 0 => j.size = ti.size
      /\ ti.type \in Aggregate =>
           j.fields = [n \in DOMAIN ti.fields |->
                         [name |-> ti.fields[n].name, byte_offset |-> ti.fields[n].off,
                          type_info |-> ToJson[ti.fields[n].ti]]]
      /\ ti.type = "array" => /\ j.total_elements = ti.total
                              /\ j.element_type = ToJson[Element(ti)]
  BY ToJsonFacts
<1>4. StructArray(j) <=> ArrayOfAggregates(ti)
  BY StructArrays
<1>5. /\ "type" \in JsonKeys(ti)
      /\ ti.typedef # "" => "typedef" \in JsonKeys(ti)
      /\ ti.size > 0 => "size" \in JsonKeys(ti)
      /\ ti.type \in Aggregate => "fields" \in JsonKeys(ti)
      /\ ti.type = "array" => "total_elements" \in JsonKeys(ti) /\ "element_type" \in JsonKeys(ti)
      /\ ti.type \in Aggregate => ti.type # "array"
  BY DEF JsonKeys, Aggregate
<1>6. ASSUME ti.type \in Aggregate
      PROVE  fields = [n \in DOMAIN ti.fields |->
                         [name |-> ti.fields[n].name, byte_offset |-> b + ti.fields[n].off,
                          type_info |-> Absolute[ToJson[ti.fields[n].ti]][b + ti.fields[n].off]]]
  <2> DEFINE inner == [n \in DOMAIN ti.fields |->
                         [name |-> ti.fields[n].name, byte_offset |-> ti.fields[n].off,
                          type_info |-> ToJson[ti.fields[n].ti]]]
  <2> HIDE DEF j
  <2>1. j.fields = inner
    BY <1>3, <1>6
  <2>2. fields = [n \in DOMAIN inner |->
               [name        |-> inner[n].name,
                byte_offset |-> b + inner[n].byte_offset,
                type_info   |-> Absolute[inner[n].type_info][b + inner[n].byte_offset]]]
    BY <2>1
  <2> QED
    BY <2>2
<1> HIDE DEF o, fields, j
<1>7. CASE ti.type \in Aggregate
  <2>1. o = [j EXCEPT !.fields = fields]
    BY <1>2, <1>3, <1>7
  <2> QED
    BY <1>3, <1>5, <1>6, <1>7, <2>1 DEF o, j
<1>8. CASE ArrayOfAggregates(ti)
  <2>1. ti.type = "array"
    BY <1>8 DEF ArrayOfAggregates
  <2>2. o = [j EXCEPT !.element_type = Absolute[ToJson[Element(ti)]][b]]
    BY <1>2, <1>3, <1>4, <1>5, <1>8, <2>1
  <2>3. ti.type \notin Aggregate
    BY <1>5, <2>1
  <2> QED
    BY <1>3, <1>5, <1>8, <2>1, <2>2, <2>3 DEF o, j
<1>9. CASE ti.type \notin Aggregate /\ ~ArrayOfAggregates(ti)
  <2>1. o = j
    BY <1>2, <1>3, <1>4, <1>9
  <2> QED
    BY <1>3, <1>5, <1>9, <2>1 DEF o, j
<1> QED
  BY <1>7, <1>8, <1>9

LEMMA NotPositive == \A z \in Nat : ~ (z > 0) => z = 0
  OBVIOUS

\* An absent key has its default.
LEMMA ObjectValues ==
  ASSUME NEW ti \in Types, NEW o, DOMAIN o = JsonKeys(ti), o.type = ti.type,
         ti.typedef # "" => o.typedef = ti.typedef, ti.size > 0 => o.size = ti.size
  PROVE  /\ Value(o, "size", 0) = ti.size
         /\ Value(o, "typedef", o.type) = TypeName(ti)
         /\ "total_elements" \in DOMAIN o <=> ti.type = "array"
         /\ "element_type" \in DOMAIN o <=> ti.type = "array"
<1>1. ti.size \in Nat
  BY TypeFacts
<1>2. "size" \in JsonKeys(ti) <=> ti.size > 0
  BY DEF JsonKeys
<1>3. "typedef" \in JsonKeys(ti) <=> ti.typedef # ""
  BY DEF JsonKeys
<1>4. /\ "total_elements" \in JsonKeys(ti) <=> ti.type = "array"
      /\ "element_type" \in JsonKeys(ti) <=> ti.type = "array"
  BY DEF JsonKeys
<1>5. Value(o, "size", 0) = ti.size
  BY <1>1, <1>2, NotPositive, Zenon DEF Value
<1>6. Value(o, "typedef", o.type) = TypeName(ti)
  BY <1>3 DEF Value, TypeName
<1> QED
  BY <1>4, <1>5, <1>6

-----------------------------------------------------------------------------
(* Stacks of pointers into the tree.                                       *)

\* The children of the top of the stack, last to first.
LEMMA LiveChildren ==
  ASSUME NEW D, NEW E, D \subseteq E, E \subseteq Path,
         NEW s, Live(s, D), s # <<>>, NEW n \in Nat,
         \A i \in 0 .. n - 1 : Append(Last(s), i) \in E,
         NEW more \in Seq(Path), Len(more) = n,
         \A m \in 1 .. n : more[m] = Append(Last(s), n - m)
  PROVE  Live(Front(s) \o more, E)
<1> DEFINE p == Last(s)
<1>1. p \in Path
  BY FrontLast DEF Live
<1>2. DOMAIN more = 1 .. n
  OBVIOUS
<1> HIDE DEF p
<1>3. \A m \in 1 .. n : n - m \in Nat /\ n - m \in 0 .. n - 1
  OBVIOUS
<1>4. \A m \in DOMAIN more : more[m] \in E /\ \E i \in Nat : more[m] = Append(p, i)
  BY <1>2, <1>3 DEF p
<1>5. ASSUME NEW m \in DOMAIN more, NEW k \in DOMAIN more, IsPrefix(more[m], more[k])
      PROVE  m = k
  <2>1. n - m \in Nat /\ n - k \in Nat /\ more[m] = Append(p, n - m) /\ more[k] = Append(p, n - k)
    BY <1>2 DEF p
  <2>2. n - m = n - k
    BY <1>1, <1>5, <2>1, ChildrenApart
  <2> QED
    BY <1>2, <2>2
<1> QED
  BY <1>4, <1>5, LivePushed DEF p

\* What is on a stack after its top has given way to more items.
LEMMA Replaced ==
  ASSUME NEW S, NEW s \in Seq(S), s # <<>>, NEW more \in Seq(S)
  PROVE  /\ Front(s) \o more \in Seq(S) /\ Len(s) - 1 \in Nat
         /\ Len(Front(s) \o more) = Len(s) - 1 + Len(more)
         /\ \A n \in 1 .. Len(s) - 1 : (Front(s) \o more)[n] = s[n]
         /\ \A n \in 1 .. Len(more) : (Front(s) \o more)[Len(s) - 1 + n] = more[n]
<1> DEFINE f == Front(s)
           k == Len(s) - 1
<1>1. f \in Seq(S) /\ Len(f) = k /\ k \in Nat /\ \A n \in 1 .. k : f[n] = s[n]
  BY FrontLast
<1> HIDE DEF f, k
<1>2. /\ f \o more \in Seq(S) /\ Len(f \o more) = Len(f) + Len(more)
      /\ \A n \in 1 .. Len(f) : (f \o more)[n] = f[n]
      /\ \A n \in 1 .. Len(more) : (f \o more)[Len(f) + n] = more[n]
  <2>1. f \in Seq(S)
    BY <1>1
  <2> QED
    BY <2>1, Concatenated
<1>3. /\ f \o more \in Seq(S) /\ Len(f \o more) = k + Len(more)
      /\ \A n \in 1 .. k : (f \o more)[n] = s[n]
      /\ \A n \in 1 .. Len(more) : (f \o more)[k + n] = more[n]
  BY <1>1, <1>2
<1> QED
  BY <1>1, <1>3 DEF f, k

\* One of the first k of s.
Among(x, s, k) == \E m \in 1 .. k : x = s[m]

LEMMA ReplacedItems ==
  ASSUME NEW S, NEW s \in Seq(S), s # <<>>, NEW more \in Seq(S), NEW t, t = Front(s) \o more,
         NEW n \in DOMAIN t
  PROVE  Among(t[n], s, Len(s) - 1) \/ Among(t[n], more, Len(more))
<1> DEFINE k == Len(s) - 1
<1>1. /\ t \in Seq(S) /\ Len(t) = k + Len(more) /\ k \in Nat
      /\ \A m \in 1 .. k : t[m] = s[m]
      /\ \A m \in 1 .. Len(more) : t[k + m] = more[m]
  BY Replaced
<1>2. Len(more) \in Nat
  OBVIOUS
<1>3. n \in 1 .. k + Len(more)
  BY <1>1
<1>4. CASE n <= k
  <2>0. k \in Nat
    BY <1>1
  <2> HIDE DEF k
  <2>1. n \in 1 .. k
    BY <1>2, <1>3, <1>4, <2>0
  <2>2. t[n] = s[n]
    BY <1>1, <2>1
  <2> QED
    BY <2>1, <2>2 DEF Among, k
<1>5. CASE n > k
  <2>1. n - k \in 1 .. Len(more) /\ k + (n - k) = n
    BY <1>1, <1>2, <1>3, <1>5
  <2>2. t[n] = more[n - k]
    BY <1>1, <2>1
  <2> QED
    BY <2>1, <2>2 DEF Among
<1> QED
  BY <1>1, <1>3, <1>4, <1>5

LEMMA Reversed ==
  ASSUME NEW S, NEW c \in Seq(S)
  PROVE  /\ Reverse(c) \in Seq(S) /\ Len(Reverse(c)) = Len(c) /\ Len(c) \in Nat
         /\ \A n \in 1 .. Len(c) : /\ Reverse(c)[n] = c[Len(c) - n + 1]
                                  /\ Len(c) - n + 1 \in 1 .. Len(c)
<1>1. Len(c) \in Nat /\ \A n \in 1 .. Len(c) : c[n] \in S
  OBVIOUS
<1>2. \A n \in 1 .. Len(c) : (Len(c) - n) + 1 \in 1 .. Len(c)
  BY <1>1
<1> DEFINE l == Len(c)
           r == Reverse(c)
<1>3. r = [n \in 1 .. l |-> c[(l - n) + 1]]
  BY DEF Reverse
<1>4. \A n \in 1 .. l : r[n] = c[(l - n) + 1]
  BY <1>3
<1>5. l \in Nat /\ r \in [1 .. l -> S]
  BY <1>1, <1>2, <1>3
<1> HIDE DEF l, r
<1>6. r \in Seq(S) /\ Len(r) = l
  BY <1>5
<1> QED
  BY <1>2, <1>4, <1>5, <1>6 DEF l, r

\* The paths of such items.
PathsOf(s) == [n \in DOMAIN s |-> s[n].path]

LEMMA PathsOfSeq ==
  ASSUME NEW S, \A x \in S : x.path \in Path, NEW s \in Seq(S)
  PROVE  /\ PathsOf(s) \in Seq(Path) /\ Len(PathsOf(s)) = Len(s) /\ DOMAIN PathsOf(s) = DOMAIN s
         /\ \A n \in DOMAIN s : PathsOf(s)[n] = s[n].path
         /\ s # <<>> => PathsOf(s) # <<>> /\ Last(PathsOf(s)) = Last(s).path
<1> DEFINE l == Len(s)
           r == PathsOf(s)
<1>1. l \in Nat /\ DOMAIN s = 1 .. l /\ \A n \in 1 .. l : s[n] \in S
  OBVIOUS
<1>2. r = [n \in 1 .. l |-> s[n].path]
  BY <1>1 DEF PathsOf
<1>3. r \in [1 .. l -> Path] /\ \A n \in 1 .. l : r[n] = s[n].path
  BY <1>1, <1>2
<1> HIDE DEF l, r
<1>4. r \in Seq(Path) /\ Len(r) = l
  BY <1>1, <1>3
<1>5. s # <<>> => r # <<>> /\ Last(r) = Last(s).path
  <2> SUFFICES ASSUME s # <<>> PROVE r # <<>> /\ Last(r) = Last(s).path
    OBVIOUS
  <2>1. Last(s) = s[l] /\ l \in Nat \ {0}
    BY FrontLast DEF l
  <2>2. r # <<>>
    BY <1>4, <2>1
  <2>3. Last(r) = r[l]
    BY <1>4, <2>2, FrontLast
  <2> QED
    BY <1>3, <2>1, <2>2, <2>3
<1> QED
  BY <1>1, <1>3, <1>4, <1>5 DEF l, r

LEMMA PathsReplaced ==
  ASSUME NEW S, \A x \in S : x.path \in Path, NEW s \in Seq(S), s # <<>>, NEW more \in Seq(S)
  PROVE  PathsOf(Front(s) \o more) = Front(PathsOf(s)) \o PathsOf(more)
<1> DEFINE a == PathsOf(s)
           b == PathsOf(more)
           t == Front(s) \o more
           u == Front(a) \o b
           k == Len(s) - 1
<1>1. /\ t \in Seq(S) /\ Len(t) = k + Len(more) /\ k \in Nat
      /\ \A n \in 1 .. k : t[n] = s[n]
      /\ \A n \in 1 .. Len(more) : t[k + n] = more[n]
  BY Replaced
<1>2. a \in Seq(Path) /\ a # <<>> /\ Len(a) = Len(s) /\ \A n \in DOMAIN s : a[n] = s[n].path
  BY PathsOfSeq
<1>3. b \in Seq(Path) /\ Len(b) = Len(more) /\ \A n \in DOMAIN more : b[n] = more[n].path
  BY PathsOfSeq
<1> HIDE DEF a, b
<1>4. /\ u \in Seq(Path) /\ Len(u) = Len(a) - 1 + Len(b)
      /\ \A n \in 1 .. Len(a) - 1 : u[n] = a[n]
      /\ \A n \in 1 .. Len(b) : u[Len(a) - 1 + n] = b[n]
  <2>1. a \in Seq(Path) /\ a # <<>> /\ b \in Seq(Path)
    BY <1>2, <1>3
  <2> QED
    BY <2>1, Replaced
<1> HIDE DEF t, u
<1>5. PathsOf(t) \in Seq(Path) /\ Len(PathsOf(t)) = Len(t) /\ \A n \in DOMAIN t : PathsOf(t)[n] = t[n].path
  BY <1>1, PathsOfSeq
<1> HIDE DEF k
<1>6. DOMAIN s = 1 .. k + 1 /\ DOMAIN more = 1 .. Len(more) /\ Len(more) \in Nat /\ Len(s) - 1 = k
  BY <1>1 DEF k
<1>7. \A n \in 1 .. k + Len(more) : PathsOf(t)[n] = u[n]
  <2> TAKE n \in 1 .. k + Len(more)
  <2>1. n \in DOMAIN t
    BY <1>1
  <2>2. CASE n <= k
    <3>1. n \in 1 .. k /\ n \in DOMAIN s
      BY <1>1, <1>6, <2>2
    <3> QED
      BY <1>1, <1>2, <1>4, <1>5, <1>6, <2>1, <3>1
  <2>3. CASE n > k
    <3>1. n - k \in 1 .. Len(more) /\ k + (n - k) = n
      BY <1>1, <1>6, <2>3
    <3>2. t[n] = more[n - k] /\ u[n] = b[n - k]
      BY <1>1, <1>2, <1>3, <1>4, <1>6, <3>1
    <3> QED
      BY <1>3, <1>5, <1>6, <2>1, <3>1, <3>2
  <2> QED
    BY <1>1, <2>2, <2>3
<1>8. Len(PathsOf(t)) = Len(u) /\ Len(u) = k + Len(more)
  BY <1>1, <1>2, <1>3, <1>4, <1>5, <1>6
<1>9. PathsOf(t) = u
  BY <1>4, <1>5, <1>7, <1>8, SeqEqual
<1> QED
  BY <1>9 DEF t, u, a, b

\* The top replaced by an item with its path.
LEMMA ReplacedTop ==
  ASSUME NEW S, \A x \in S : x.path \in Path, NEW s \in Seq(S), s # <<>>,
         NEW x \in S, x.path = Last(s).path
  PROVE  /\ Append(Front(s), x) \in Seq(S)
         /\ PathsOf(Append(Front(s), x)) = PathsOf(s)
<1> DEFINE f == Front(s)
           t == Append(f, x)
           k == Len(s) - 1
<1>1. f \in Seq(S) /\ Len(f) = k /\ k \in Nat /\ (\A n \in 1 .. k : f[n] = s[n]) /\ Last(s) = s[Len(s)]
  BY FrontLast
<1> HIDE DEF f
<1>2. t \in Seq(S) /\ Len(t) = k + 1 /\ t[k + 1] = x /\ \A n \in 1 .. k : t[n] = f[n]
  BY <1>1
<1> HIDE DEF t
<1>3. PathsOf(t) \in Seq(Path) /\ Len(PathsOf(t)) = Len(t) /\ \A n \in DOMAIN t : PathsOf(t)[n] = t[n].path
  BY <1>2, PathsOfSeq
<1>4. PathsOf(s) \in Seq(Path) /\ Len(PathsOf(s)) = Len(s) /\ \A n \in DOMAIN s : PathsOf(s)[n] = s[n].path
  BY PathsOfSeq
<1> DEFINE a == PathsOf(t)
           b == PathsOf(s)
<1>5. \A n \in 1 .. Len(t) : n \in DOMAIN t /\ n \in DOMAIN s /\ t[n].path = s[n].path
  <2> SUFFICES ASSUME NEW n \in 1 .. Len(t)
               PROVE n \in DOMAIN t /\ n \in DOMAIN s /\ t[n].path = s[n].path
    OBVIOUS
  <2>1. n \in DOMAIN t /\ n \in DOMAIN s /\ (n \in 1 .. k \/ n = k + 1) /\ Len(s) = k + 1
    BY <1>1, <1>2
  <2>2. CASE n \in 1 .. k
    BY <1>1, <1>2, <2>1, <2>2
  <2>3. CASE n = k + 1
    <3>1. t[n] = x /\ s[n] = Last(s)
      BY <1>1, <1>2, <2>1, <2>3
    <3> QED
      BY <2>1, <3>1
  <2> QED
    BY <2>1, <2>2, <2>3
<1>6. a \in Seq(Path) /\ b \in Seq(Path) /\ Len(a) = Len(b) /\ \A n \in 1 .. Len(a) : a[n] = b[n]
  <2>1. Len(a) = Len(b) /\ Len(a) = Len(t)
    BY <1>1, <1>2, <1>3, <1>4
  <2> QED
    BY <1>3, <1>4, <1>5, <2>1
<1> HIDE DEF a, b
<1>7. a = b
  BY <1>6, SeqEqual
<1> QED
  BY <1>2, <1>7 DEF a, b, t, f

-----------------------------------------------------------------------------
(* The invariant of the four traversals.                                   *)

FieldOK(f) ==
  /\ DOMAIN f = {"name", "off", "nbytes", "kind", "typeName", "total", "elementBytes"}
  /\ f.off \in Nat /\ f.nbytes \in Nat /\ f.total \in Nat /\ f.elementBytes \in Nat

Loaded      == {Absolute[ToJson[ti]][b] : ti \in Types, b \in Nat}
Names       == STRING \cup {""}   \* of a root and of a member
ConvertItem == [ti : Types, member : BOOLEAN, name : Names, path : Path, base : Nat]
ParseItem   ==
  [json : Loaded, is_type_info : {TRUE}, path : Path]
    \cup [json : [name : STRING, byte_offset : Nat, type_info : Loaded],
          is_type_info : {FALSE}, path : Path]

Pointers == IF phase \in {"convert", "parse"} THEN PathsOf(stack) ELSE stack

\* Items with paths, work for the children of p, and pointers at fields that
\* have no children.
Routed(S)       == \A x \in S : x.path \in Path
Spread(c, p)    == \A m \in 1 .. Len(c) : c[m].path = Append(p, m - 1)
Childless(s, D) == \A m \in DOMAIN s : \A i \in Nat : Append(s[m].path, i) \notin D
FieldsOK(t)     == \A q \in DOMAIN t : FieldOK(t[q])

\* The tree is one; while it is loaded each pointer waits for a field that has
\* no children yet, and to its end no pointer waits above or at another.
Waiting ==
  /\ type \in Types
  /\ phase \in {"none", "convert", "parse", "expand", "collect", "settings", "ready"}
  /\ TreeOf(DOMAIN tree) /\ FieldsOK(tree)
  /\ phase = "convert" => stack \in Seq(ConvertItem)
  /\ phase = "parse" => stack \in Seq(ParseItem)
  /\ phase \in {"convert", "parse"} => Childless(stack, DOMAIN tree)
  /\ phase \notin {"convert", "parse", "expand", "collect"} => stack = <<>>
  /\ Live(Pointers, DOMAIN tree)

LEMMA ItemPaths ==
  Routed(ConvertItem) /\ Routed(ParseItem)
<1>1. \A x \in ConvertItem : x.path \in Path
  BY DEF ConvertItem
<1>2. \A x \in ParseItem : x.path \in Path
  BY DEF ParseItem
<1> QED
  BY <1>1, <1>2 DEF Routed

LEMMA RootTree == TreeOf({Root}) /\ \A i \in Nat : Append(Root, i) \notin {Root}
<1>1. Root \in Path /\ Len(Root) = 0
  BY DEF Root, Path
<1>2. \A i \in Nat : Append(Root, i) # Root
  BY <1>1, ChildrenApart
<1>3. \A q \in {Root} : \A p \in Path : IsPrefix(p, q) => p \in {Root}
  <2> SUFFICES ASSUME NEW p \in Path, IsPrefix(p, Root) PROVE p = Root
    OBVIOUS
  <2>1. Len(p) \in Nat /\ Len(p) <= 0
    <3>1. Len(p) \in Nat
      BY DEF Path
    <3>2. Len(p) <= Len(Root)
      BY <1>1, PrefixPointwise
    <3> QED
      BY <1>1, <3>1, <3>2
  <2> QED
    BY <1>1, <2>1, PrefixOrder
<1>4. \A p \in {Root} : \A i \in Nat : Append(p, i) \in {Root} <=> i < 0
  BY <1>2
<1>5. {Root} \subseteq Path /\ \A p \in {Root} : \E n \in Nat : \A i \in Nat : Append(p, i) \in {Root} <=> i < n
  BY <1>1, <1>4
<1> QED
  BY <1>2, <1>3, <1>5 DEF TreeOf

LEMMA LiveRoot ==
  ASSUME NEW D, TreeOf(D)
  PROVE  Live(<<Root>>, D) /\ Live(<<>>, D)
<1>1. Root \in D /\ Root \in Path
  BY DEF TreeOf
<1>2. <<Root>> \in Seq(Path) /\ DOMAIN <<Root>> = {1} /\ <<Root>>[1] = Root
  BY <1>1
<1>3. <<>> \in Seq(Path) /\ DOMAIN <<>> = {}
  OBVIOUS
<1> QED
  BY <1>1, <1>2, <1>3 DEF Live

LEMMA StoredDomain ==
  ASSUME NEW p, NEW f, NEW n
  PROVE  DOMAIN Stored(p, f, n) = DOMAIN tree \cup {p} \cup Offspring(p, n)
<1> DEFINE new == [r \in {p} \cup Offspring(p, n) |-> IF r = p THEN f ELSE NewField]
<1>1. Stored(p, f, n) = [r \in DOMAIN new \cup DOMAIN tree |->
                            IF r \in DOMAIN new THEN new[r] ELSE tree[r]]
  BY DEF Stored, With, Offspring
<1> QED
  BY <1>1

LEMMA StoredField ==
  ASSUME NEW p, NEW f, NEW n
  PROVE  Stored(p, f, n)[p] = f
<1> DEFINE new == [r \in {p} \cup Offspring(p, n) |-> IF r = p THEN f ELSE NewField]
<1>1. Stored(p, f, n) = [r \in DOMAIN new \cup DOMAIN tree |->
                            IF r \in DOMAIN new THEN new[r] ELSE tree[r]]
  BY DEF Stored, With, Offspring
<1> QED
  BY <1>1

LEMMA StoredChild ==
  ASSUME NEW p, NEW f, NEW n, NEW q \in Offspring(p, n), q # p
  PROVE  Stored(p, f, n)[q] = NewField
<1> DEFINE new == [r \in {p} \cup Offspring(p, n) |-> IF r = p THEN f ELSE NewField]
<1>1. Stored(p, f, n) = [r \in DOMAIN new \cup DOMAIN tree |->
                            IF r \in DOMAIN new THEN new[r] ELSE tree[r]]
  BY DEF Stored, With, Offspring
<1> QED
  BY <1>1

LEMMA StoredElsewhere ==
  ASSUME NEW p, NEW f, NEW n, NEW q \in DOMAIN tree, q # p, q \notin Offspring(p, n)
  PROVE  Stored(p, f, n)[q] = tree[q]
<1> DEFINE new == [r \in {p} \cup Offspring(p, n) |-> IF r = p THEN f ELSE NewField]
<1>1. Stored(p, f, n) = [r \in DOMAIN new \cup DOMAIN tree |->
                            IF r \in DOMAIN new THEN new[r] ELSE tree[r]]
  BY DEF Stored, With, Offspring
<1> QED
  BY <1>1

LEMMA OffspringOf ==
  ASSUME NEW p \in Path, NEW n \in Nat
  PROVE  /\ \A i \in 0 .. n - 1 : i \in Nat /\ Append(p, i) \in Offspring(p, n)
         /\ \A q \in Offspring(p, n) : q # p /\ q \in Path /\ \E i \in Nat : i < n /\ q = Append(p, i)
         /\ \A q \in Path, i \in Nat : Append(q, i) \in Offspring(p, n) <=> q = p /\ i < n
<1>1. \A i \in 0 .. n - 1 : i \in Nat /\ i < n /\ Append(p, i) \in Offspring(p, n)
  BY DEF Offspring
<1>2. \A q \in Offspring(p, n) : \E i \in 0 .. n - 1 : q = Append(p, i)
  BY DEF Offspring
<1>3. \A q \in Offspring(p, n) : q # p /\ q \in Path /\ \E i \in Nat : i < n /\ q = Append(p, i)
  <2> TAKE q \in Offspring(p, n)
  <2>1. PICK i \in 0 .. n - 1 : q = Append(p, i)
    BY <1>2
  <2>2. i \in Nat /\ i < n
    BY <1>1
  <2>3. q # p
    BY <2>1, <2>2, ChildrenApart
  <2>4. q \in Path
    BY <2>1, <2>2, Extended
  <2> QED
    BY <2>1, <2>2, <2>3, <2>4
<1>4. ASSUME NEW q \in Path, NEW i \in Nat
      PROVE  Append(q, i) \in Offspring(p, n) <=> q = p /\ i < n
  <2>1. ASSUME Append(q, i) \in Offspring(p, n) PROVE q = p /\ i < n
    <3>1. PICK k \in 0 .. n - 1 : Append(q, i) = Append(p, k)
      BY <1>2, <2>1
    <3>2. k \in Nat /\ k < n
      BY <1>1
    <3>3. q = p /\ i = k
      BY <3>1, <3>2, ChildrenApart
    <3> QED
      BY <3>2, <3>3
  <2>2. q = p /\ i < n => i \in 0 .. n - 1
    OBVIOUS
  <2> QED
    BY <1>1, <2>1, <2>2
<1> QED
  BY <1>1, <1>3, <1>4

\* A turn of the loop that stores a field and its children, and pushes work
\* for each child.
LEMMA Turn ==
  ASSUME TreeOf(DOMAIN tree), FieldsOK(tree),
         NEW S, Routed(S), stack \in Seq(S), stack # <<>>,
         Live(PathsOf(stack), DOMAIN tree), Childless(stack, DOMAIN tree),
         NEW c \in Seq(S), Spread(c, Top.path), NEW f, FieldOK(f),
         NEW g, g = Stored(Top.path, f, Len(c)), NEW t, t = Rest \o Reverse(c)
  PROVE  /\ TreeOf(DOMAIN g) /\ FieldsOK(g)
         /\ t \in Seq(S) /\ Live(PathsOf(t), DOMAIN g) /\ Childless(t, DOMAIN g)
<1> DEFINE D == DOMAIN tree
           p == Top.path
           n == Len(c)
           kids == Offspring(p, n)
           E == D \cup kids
           r == Reverse(c)
           s == PathsOf(stack)
<1>1. /\ r \in Seq(S) /\ Len(r) = n /\ n \in Nat
      /\ \A m \in 1 .. n : r[m] = c[n - m + 1] /\ n - m + 1 \in 1 .. n
  BY Reversed
<1>2. /\ s \in Seq(Path) /\ Len(s) = Len(stack) /\ DOMAIN s = DOMAIN stack
      /\ \A m \in DOMAIN stack : s[m] = stack[m].path
      /\ s # <<>> /\ Last(s) = p
  BY PathsOfSeq DEF Top, Routed
<1>3. Len(stack) \in Nat \ {0} /\ Top = stack[Len(stack)] /\ DOMAIN stack = 1 .. Len(stack)
  <2>1. Len(stack) \in Nat \ {0} /\ Last(stack) = stack[Len(stack)]
    BY FrontLast
  <2> QED
    BY <2>1 DEF Top
<1>4. p \in D /\ p \in Path /\ D \subseteq Path /\ \A i \in Nat : Append(p, i) \notin D
  <2>1. Len(stack) \in DOMAIN stack /\ p = stack[Len(stack)].path /\ p = s[Len(stack)]
    BY <1>2, <1>3
  <2>2. D \subseteq Path /\ (\A m \in DOMAIN s : s[m] \in D)
        /\ \A m \in DOMAIN stack : \A i \in Nat : Append(stack[m].path, i) \notin D
    BY DEF Live, TreeOf, Childless
  <2> HIDE DEF D, p, s
  <2> QED
    BY <1>2, <2>1, <2>2 DEF D
<1>0. /\ TreeOf(D) /\ g = Stored(p, f, n) /\ \A m \in 1 .. n : c[m].path = Append(p, m - 1)
      /\ t = Front(stack) \o r
  BY DEF Rest, Spread
<1> HIDE DEF D, n, p
<1>5. TreeOf(E) /\ \A q \in kids, j \in Nat : Append(q, j) \notin E
  <2>1. TreeOf(D) /\ p \in D /\ n \in Nat /\ \A i \in Nat : Append(p, i) \notin D
    BY <1>0, <1>1, <1>4
  <2> QED
    BY <2>1, GrownTree
<1>6. /\ \A i \in 0 .. n - 1 : i \in Nat /\ Append(p, i) \in kids
      /\ \A q \in kids : q # p
      /\ \A q \in Path, i \in Nat : Append(q, i) \in kids => q = p
  <2>1. p \in Path /\ n \in Nat
    BY <1>1, <1>4
  <2> QED
    BY <2>1, OffspringOf
<1>7. DOMAIN g = E /\ g[p] = f /\ (\A q \in kids : g[q] = NewField) /\ \A q \in D \ ({p} \cup kids) : g[q] = tree[q]
  <2>1. g = Stored(p, f, n)
    BY <1>0
  <2>2. /\ DOMAIN g = D \cup {p} \cup kids /\ g[p] = f
        /\ \A q \in kids : q # p => g[q] = NewField
        /\ \A q \in D : q # p /\ q \notin kids => g[q] = tree[q]
    <3>1. DOMAIN g = D \cup {p} \cup kids
      BY <2>1, StoredDomain DEF D
    <3>2. g[p] = f
      BY <2>1, StoredField
    <3>3. \A q \in kids : q # p => g[q] = NewField
      BY <2>1, StoredChild
    <3>4. \A q \in D : q # p /\ q \notin kids => g[q] = tree[q]
      BY <2>1, StoredElsewhere DEF D
    <3> QED
      BY <3>1, <3>2, <3>3, <3>4
  <2> QED
    BY <1>4, <1>6, <2>2
<1>8. \A q \in E : FieldOK(g[q])
  <2>1. FieldOK(NewField)
    BY DEF FieldOK, NewField
  <2> HIDE DEF kids
  <2>2. \A q \in E : q = p \/ q \in kids \/ q \in D \ ({p} \cup kids)
    OBVIOUS
  <2> QED
    BY <1>7, <2>1, <2>2 DEF D, FieldsOK
<1>9. t \in Seq(S) /\ PathsOf(t) = Front(s) \o PathsOf(r)
  <2>1. Front(stack) \o r \in Seq(S)
    BY <1>1, Replaced
  <2>2. PathsOf(Front(stack) \o r) = Front(PathsOf(stack)) \o PathsOf(r)
    BY <1>1, PathsReplaced DEF Routed
  <2> QED
    BY <1>0, <2>1, <2>2
<1>10. /\ PathsOf(r) \in Seq(Path) /\ Len(PathsOf(r)) = n
       /\ \A m \in 1 .. n : PathsOf(r)[m] = Append(p, n - m)
  <2>1. /\ PathsOf(r) \in Seq(Path) /\ Len(PathsOf(r)) = Len(r)
        /\ \A m \in DOMAIN r : PathsOf(r)[m] = r[m].path
    BY <1>1, PathsOfSeq DEF Routed
  <2>2. DOMAIN r = 1 .. n
    BY <1>1
  <2>3. \A m \in 1 .. n : r[m].path = Append(p, n - m)
    <3> TAKE m \in 1 .. n
    <3> DEFINE k == n - m + 1
    <3>1. k \in 1 .. n /\ r[m] = c[k] /\ k - 1 = n - m
      BY <1>1
    <3> HIDE DEF k
    <3>2. c[k].path = Append(p, k - 1)
      BY <1>0, <3>1
    <3> QED
      BY <3>1, <3>2
  <2> QED
    BY <1>1, <2>1, <2>2, <2>3
<1>11. Live(PathsOf(t), E)
  <2> DEFINE more == PathsOf(r)
  <2>1. D \subseteq E /\ E \subseteq Path
    BY <1>5 DEF TreeOf
  <2>2. /\ more \in Seq(Path) /\ Len(more) = n
        /\ \A m \in 1 .. n : more[m] = Append(Last(s), n - m)
    BY <1>2, <1>10
  <2>3. \A i \in 0 .. n - 1 : Append(Last(s), i) \in E
    BY <1>2, <1>6
  <2>4. Live(s, D) /\ s # <<>>
    BY <1>2 DEF D
  <2> HIDE DEF more, s, E, n
  <2>5. Live(Front(s) \o more, E)
    BY <1>1, <2>1, <2>2, <2>3, <2>4, LiveChildren
  <2> QED
    BY <1>9, <2>5 DEF more
<1>12. ASSUME NEW m \in DOMAIN t, NEW i \in Nat PROVE Append(t[m].path, i) \notin E
  <2>1. Among(t[m], stack, Len(stack) - 1) \/ Among(t[m], r, n)
    <3>1. r \in Seq(S) /\ t = Front(stack) \o r /\ n = Len(r)
      BY <1>0, <1>1
    <3> HIDE DEF r
    <3> QED
      BY <1>12, <3>1, ReplacedItems
  <2>2. CASE Among(t[m], stack, Len(stack) - 1)
    <3>1. PICK k \in 1 .. Len(stack) - 1 : t[m] = stack[k]
      BY <2>2 DEF Among
    <3> DEFINE q == stack[k].path
    <3>2. q = s[k] /\ q \in D /\ q \in Path /\ k # Len(stack) /\ p = s[Len(stack)] /\ k \in DOMAIN stack
      <4>1. k \in DOMAIN stack /\ k # Len(stack)
        <5> DEFINE l == Len(stack)
        <5>1. l \in Nat /\ k \in 1 .. l - 1 /\ DOMAIN stack = 1 .. l
          BY <1>3
        <5> HIDE DEF l
        <5>2. k \in 1 .. l /\ k # l
          BY <5>1
        <5> QED
          BY <5>1, <5>2 DEF l
      <4>2. q = s[k] /\ s[k] \in D
        BY <1>2, <4>1 DEF Live, D
      <4>3. p = s[Len(stack)]
        BY <1>2, <1>3 DEF p
      <4> QED
        BY <1>4, <4>1, <4>2, <4>3
    <3>3. q # p
      <4>1. IsPrefix(p, p)
        BY <1>4, PrefixOrder
      <4>2. \A a, b \in DOMAIN s : IsPrefix(s[a], s[b]) => a = b
        BY DEF Live
      <4>3. k \in DOMAIN s /\ Len(stack) \in DOMAIN s
        BY <1>2, <1>3, <3>2
      <4> HIDE DEF q, s
      <4> QED
        BY <3>2, <4>1, <4>2, <4>3
    <3>4. Append(q, i) \notin D
      BY <3>2 DEF D, Childless
    <3>5. Append(q, i) \notin kids
      BY <1>6, <3>2, <3>3
    <3> QED
      BY <3>1, <3>4, <3>5
  <2>3. CASE Among(t[m], r, n)
    <3>1. PICK k \in 1 .. n : t[m] = r[k]
      BY <2>3 DEF Among
    <3>2. n - k \in 0 .. n - 1 /\ k \in DOMAIN r
      BY <1>1
    <3>3. Append(p, n - k) \in kids
      BY <1>6, <3>2
    <3>4. r[k].path = Append(p, n - k)
      <4>1. PathsOf(r)[k] = r[k].path
        BY <1>1, <3>2, PathsOfSeq DEF Routed
      <4> QED
        BY <1>10, <3>2, <4>1
    <3> QED
      BY <1>5, <3>1, <3>3, <3>4
  <2> QED
    BY <2>1, <2>2, <2>3
<1> HIDE DEF E
<1> QED
  BY <1>5, <1>7, <1>8, <1>9, <1>11, <1>12 DEF FieldsOK, Childless

LEMMA InitWaiting == Init => Waiting
<1> SUFFICES ASSUME Init PROVE Waiting
  OBVIOUS
<1>1. DOMAIN tree = {Root} /\ tree[Root] = NewField /\ stack = <<>> /\ phase = "none"
  BY DEF Init
<1>2. FieldOK(NewField)
  BY DEF FieldOK, NewField
<1>3. FieldsOK(tree)
  BY <1>1, <1>2 DEF FieldsOK
<1>4. TreeOf(DOMAIN tree) /\ Live(Pointers, DOMAIN tree)
  BY <1>1, RootTree, LiveRoot DEF Pointers
<1>5. type \in Types
  BY TypesAssumption DEF Init
<1> QED
  BY <1>1, <1>3, <1>4, <1>5 DEF Waiting

\* A dropped file leaves an empty root, with one item waiting for it.
LEMMA ForgetWaiting ==
  ASSUME Waiting, Forget
  PROVE  /\ TreeOf((DOMAIN tree)') /\ FieldsOK(tree') /\ stack = <<>>
         /\ DOMAIN tree' = {Root} /\ type \in Types
<1> DEFINE f == [NewField EXCEPT !.name = "symbol"]
<1>1. tree' = [p \in {Root} |-> f]
  BY DEF Forget
<1>2. FieldOK(f)
  BY DEF FieldOK, NewField
<1> HIDE DEF f
<1>3. DOMAIN tree' = {Root} /\ FieldsOK(tree')
  BY <1>1, <1>2 DEF FieldsOK
<1>4. phase \in {"none", "ready"}
  BY DEF Forget
<1> QED
  BY <1>3, <1>4, RootTree DEF Waiting

LEMMA OneItem ==
  ASSUME NEW S, Routed(S), NEW x \in S, x.path = Root
  PROVE  /\ <<x>> \in Seq(S) /\ PathsOf(<<x>>) = <<Root>>
         /\ Childless(<<x>>, {Root})
<1>1. <<x>> \in Seq(S) /\ DOMAIN <<x>> = {1} /\ <<x>>[1] = x
  OBVIOUS
<1>2. PathsOf(<<x>>) = [n \in {1} |-> Root]
  BY <1>1 DEF PathsOf
<1>3. [n \in {1} |-> Root] = <<Root>>
  OBVIOUS
<1>4. Childless(<<x>>, {Root})
  BY <1>1, RootTree DEF Childless
<1> QED
  BY <1>1, <1>2, <1>3, <1>4

LEMMA DropElfWaiting ==
  ASSUME Waiting, DropElf
  PROVE  Waiting'
<1> DEFINE x == [ti |-> type, member |-> FALSE, name |-> "", path |-> Root, base |-> 0]
<1>1. /\ TreeOf((DOMAIN tree)') /\ FieldsOK(tree') /\ DOMAIN tree' = {Root} /\ type \in Types
  BY ForgetWaiting DEF DropElf
<1>2. phase' = "convert" /\ stack' = <<x>> /\ type' = type
  BY DEF DropElf
<1>3. x \in ConvertItem /\ x.path = Root
  <2>1. Root \in Path
    BY <1>1 DEF TreeOf
  <2> QED
    BY <1>1, <2>1 DEF ConvertItem, Names
<1> HIDE DEF x
<1>4. <<x>> \in Seq(ConvertItem) /\ PathsOf(<<x>>) = <<Root>> /\ Childless(<<x>>, {Root})
  BY <1>3, ItemPaths, OneItem
<1>5. Live(<<Root>>, DOMAIN tree')
  BY <1>1, LiveRoot
<1>6. Pointers' = PathsOf(stack')
  BY <1>2 DEF Pointers
<1> QED
  BY <1>1, <1>2, <1>4, <1>5, <1>6 DEF Waiting

LEMMA DropJsonWaiting ==
  ASSUME Waiting, DropJson
  PROVE  Waiting'
<1> DEFINE j == Absolute[ToJson[type]][0]
           x == [json |-> j, is_type_info |-> TRUE, path |-> Root]
<1>1. /\ TreeOf((DOMAIN tree)') /\ FieldsOK(tree') /\ DOMAIN tree' = {Root} /\ type \in Types
  BY ForgetWaiting DEF DropJson
<1>2. phase' = "parse" /\ stack' = <<x>> /\ type' = type
  BY DEF DropJson
<1>3. x \in ParseItem /\ x.path = Root
  <2>1. j \in Loaded
    BY <1>1 DEF Loaded
  <2> HIDE DEF j
  <2> QED
    BY <2>1 DEF ParseItem, Path, Root
<1> HIDE DEF x
<1>4. <<x>> \in Seq(ParseItem) /\ PathsOf(<<x>>) = <<Root>> /\ Childless(<<x>>, {Root})
  BY <1>3, ItemPaths, OneItem
<1>5. Live(<<Root>>, DOMAIN tree')
  BY <1>1, LiveRoot
<1>6. Pointers' = PathsOf(stack')
  BY <1>2 DEF Pointers
<1> QED
  BY <1>1, <1>2, <1>4, <1>5, <1>6 DEF Waiting

LEMMA LoadFailsWaiting ==
  ASSUME Waiting, LoadFails
  PROVE  Waiting'
<1>1. /\ TreeOf((DOMAIN tree)') /\ FieldsOK(tree') /\ DOMAIN tree' = {Root} /\ type \in Types
      /\ stack = <<>>
  BY ForgetWaiting DEF LoadFails
<1>2. phase' = "none" /\ stack' = stack /\ type' = type
  BY DEF LoadFails
<1>3. Live(Pointers', DOMAIN tree')
  BY <1>1, <1>2, LiveRoot DEF Pointers
<1> QED
  BY <1>1, <1>2, <1>3 DEF Waiting

\* How many children a type gives its field.
LEMMA ArityFacts ==
  ASSUME NEW ti \in Types
  PROVE  /\ Arity(ti) \in Nat /\ Arity(ti) <= Len(ti.fields)
         /\ Arity(ti) = IF ti.type = "array" THEN Arity(ti) ELSE Len(ti.fields)
<1>1. Len(ti.fields) \in Nat /\ (ti.type = "array" => Len(ti.fields) = 1)
      /\ (ti.type \notin Aggregate \cup {"array"} => Len(ti.fields) = 0)
  BY TypeFacts
<1>2. ti.type \in Aggregate => ti.type # "array"
  BY DEF Aggregate
<1>3. CASE ti.type \in Aggregate
  BY <1>1, <1>2, <1>3 DEF Arity
<1>4. CASE ti.type = "array"
  <2>1. Arity(ti) = IF ArrayOfAggregates(ti) THEN 1 ELSE 0
    BY <1>2, <1>4 DEF Arity
  <2>2. Arity(ti) = 1 \/ Arity(ti) = 0
    BY <2>1
  <2>3. Len(ti.fields) = 1
    BY <1>1, <1>4
  <2> HIDE DEF Arity
  <2> QED
    BY <1>4, <2>2, <2>3
<1>5. CASE ti.type \notin Aggregate \cup {"array"}
  BY <1>1, <1>5 DEF Arity, ArrayOfAggregates
<1> QED
  BY <1>3, <1>4, <1>5

LEMMA WithTypeOK ==
  ASSUME NEW f, FieldOK(f), NEW ti \in Types
  PROVE  FieldOK(WithType(f, ti))
<1>1. /\ ti.size \in Nat /\ ti.total \in Nat
      /\ ti.type = "array" => Element(ti) \in Types
  BY TypeFacts
<1>2. ti.type = "array" => Element(ti).size \in Nat
  BY <1>1, TypeFacts
<1> QED
  BY <1>1, <1>2 DEF WithType, FieldOK

\* What waits on top of the stack of a load.
LEMMA TopItem ==
  ASSUME NEW S, Routed(S), stack \in Seq(S), stack # <<>>, Live(PathsOf(stack), DOMAIN tree)
  PROVE  Top \in S /\ Top.path \in DOMAIN tree
<1>1. Top \in S
  BY FrontLast DEF Top
<1>2. /\ Len(PathsOf(stack)) = Len(stack) /\ PathsOf(stack) # <<>>
      /\ Last(PathsOf(stack)) = Top.path
      /\ PathsOf(stack) \in Seq(Path)
  BY PathsOfSeq DEF Top, Routed
<1>3. /\ Last(PathsOf(stack)) = PathsOf(stack)[Len(PathsOf(stack))]
      /\ Len(PathsOf(stack)) \in Nat \ {0}
  BY <1>2, FrontLast
<1>4. Top.path \in DOMAIN tree
  BY <1>2, <1>3 DEF Live
<1> QED
  BY <1>1, <1>4

\* The field ConvertStep stores and the work it leaves.
ConvertField ==
  WithType([tree[Top.path] EXCEPT !.off = Top.base, !.name = IF Top.member THEN Top.name ELSE @], Top.ti)
ConvertWork ==
  [n \in 1 .. Arity(Top.ti) |->
     [ti |-> Top.ti.fields[n].ti, member |-> Top.ti.type # "array",
      name |-> Top.ti.fields[n].name, path |-> Append(Top.path, n - 1),
      base |-> Top.base + Top.ti.fields[n].off]]

LEMMA ConvertTurn ==
  ASSUME Waiting, ConvertStep
  PROVE  /\ phase = "convert" /\ phase' = "convert" /\ stack # <<>> /\ type' = type
         /\ stack \in Seq(ConvertItem) /\ Live(PathsOf(stack), DOMAIN tree)
         /\ TreeOf(DOMAIN tree) /\ FieldsOK(tree) /\ Childless(stack, DOMAIN tree) /\ type \in Types
         /\ Top.ti \in Types /\ Top.path \in Path /\ Top.base \in Nat /\ Top.path \in DOMAIN tree
         /\ Top \in ConvertItem
         /\ tree' = Stored(Top.path, ConvertField, Arity(Top.ti)) /\ stack' = Rest \o Reverse(ConvertWork)
         /\ FieldOK(ConvertField) /\ FieldOK(tree[Top.path])
         /\ ConvertWork \in Seq(ConvertItem) /\ Len(ConvertWork) = Arity(Top.ti)
         /\ Spread(ConvertWork, Top.path)
<1> DEFINE ti == Top.ti
           p  == Top.path
           f  == [tree[p] EXCEPT !.off = Top.base, !.name = IF Top.member THEN Top.name ELSE @]
           c == [n \in 1 .. Arity(ti) |->
                   [ti |-> ti.fields[n].ti, member |-> ti.type # "array",
                    name |-> ti.fields[n].name, path |-> Append(p, n - 1),
                    base |-> Top.base + ti.fields[n].off]]
<1>1. /\ phase = "convert" /\ phase' = "convert" /\ stack # <<>> /\ type' = type
      /\ stack \in Seq(ConvertItem) /\ Live(PathsOf(stack), DOMAIN tree)
      /\ TreeOf(DOMAIN tree) /\ FieldsOK(tree) /\ Childless(stack, DOMAIN tree) /\ type \in Types
  BY DEF ConvertStep, Loading, Waiting, Pointers
<1>2. Top \in ConvertItem /\ p \in DOMAIN tree
  BY <1>1, ItemPaths, TopItem
<1>3. ti \in Types /\ p \in Path /\ Top.base \in Nat
  BY <1>2 DEF ConvertItem
<1>4. tree' = Stored(p, WithType(f, ti), Arity(ti)) /\ stack' = Rest \o Reverse(c)
  <2>1. Arity(ti) = IF ti.type = "array" THEN Arity(ti) ELSE Len(ti.fields)
    BY <1>3, ArityFacts
  <2> QED
    BY <2>1 DEF ConvertStep
<1>5. FieldOK(WithType(f, ti)) /\ FieldOK(tree[p])
  <2>1. FieldOK(tree[p])
    BY <1>1, <1>2 DEF FieldsOK
  <2>2. FieldOK(f)
    BY <1>3, <2>1 DEF FieldOK
  <2> QED
    BY <1>3, <2>1, <2>2, WithTypeOK
<1>6. c \in Seq(ConvertItem) /\ Len(c) = Arity(ti) /\ Spread(c, p)
  <2> DEFINE k == Arity(ti)
  <2>1. k \in Nat /\ k <= Len(ti.fields)
    BY <1>3, ArityFacts
  <2>2. \A n \in 1 .. k : c[n] \in ConvertItem
    <3> TAKE n \in 1 .. k
    <3>1. /\ ti.fields[n].ti \in Types /\ ti.fields[n].off \in Nat
          /\ ti.fields[n].name \in STRING
      <4>1. n \in DOMAIN ti.fields
        BY <1>3, <2>1, TypeFacts
      <4> QED
        BY <1>3, <4>1, TypeFacts
    <3>2. Append(p, n - 1) \in Path
      BY <1>3, <2>1, Extended
    <3>3. Top.base + ti.fields[n].off \in Nat
      BY <1>3, <3>1
    <3> QED
      BY <3>1, <3>2, <3>3 DEF ConvertItem, Names
  <2>3. \A n \in 1 .. k : c[n].path = Append(p, n - 1)
    OBVIOUS
  <2>4. DOMAIN c = 1 .. k /\ c = [n \in 1 .. k |-> c[n]]
    OBVIOUS
  <2> HIDE DEF c, k
  <2>5. c \in [1 .. k -> ConvertItem]
    BY <2>2, <2>4
  <2>6. c \in Seq(ConvertItem) /\ Len(c) = k
    BY <2>1, <2>5
  <2> QED
    BY <2>3, <2>6 DEF Spread, k
<1>7. ConvertField = WithType(f, ti) /\ ConvertWork = c
  BY DEF ConvertField, ConvertWork
<1> HIDE DEF c, f
<1> QED
  BY <1>1, <1>2, <1>3, <1>4, <1>5, <1>6, <1>7

LEMMA ConvertWaiting ==
  ASSUME Waiting, ConvertStep
  PROVE  Waiting'
<1> DEFINE c == ConvertWork
           F == ConvertField
<1>1. /\ phase = "convert" /\ phase' = "convert" /\ stack # <<>> /\ type' = type
      /\ stack \in Seq(ConvertItem) /\ Live(PathsOf(stack), DOMAIN tree)
      /\ TreeOf(DOMAIN tree) /\ FieldsOK(tree) /\ Childless(stack, DOMAIN tree) /\ type \in Types
      /\ tree' = Stored(Top.path, F, Len(c)) /\ stack' = Rest \o Reverse(c)
      /\ FieldOK(F) /\ c \in Seq(ConvertItem) /\ Spread(c, Top.path)
  BY ConvertTurn
<1> HIDE DEF c, F
<1>2. /\ TreeOf(DOMAIN tree') /\ FieldsOK(tree')
      /\ stack' \in Seq(ConvertItem) /\ Live(PathsOf(stack'), DOMAIN tree') /\ Childless(stack', DOMAIN tree')
  BY <1>1, ItemPaths, Turn
<1> QED
  BY <1>1, <1>2 DEF Waiting, Pointers

LEMMA ParseFieldWaiting ==
  ASSUME Waiting, ParseField
  PROVE  Waiting'
<1> DEFINE p == Top.path
           x == [json |-> Top.json.type_info, is_type_info |-> TRUE, path |-> p]
           g == [tree EXCEPT ![p].name = Top.json.name, ![p].off = Top.json.byte_offset]
<1>1. /\ phase = "parse" /\ phase' = "parse" /\ stack # <<>> /\ type' = type
      /\ stack \in Seq(ParseItem) /\ Live(PathsOf(stack), DOMAIN tree)
      /\ TreeOf(DOMAIN tree) /\ FieldsOK(tree) /\ Childless(stack, DOMAIN tree) /\ type \in Types
      /\ ~Top.is_type_info /\ tree' = g /\ stack' = Append(Front(stack), x)
  BY DEF ParseField, Loading, Waiting, Pointers, Rest
<1>2. Top \in ParseItem /\ p \in DOMAIN tree
  BY <1>1, ItemPaths, TopItem
<1>3. Top.json \in [name : STRING, byte_offset : Nat, type_info : Loaded] /\ p \in Path
  BY <1>1, <1>2 DEF ParseItem
<1>4. x \in ParseItem /\ x.path = p
  BY <1>3 DEF ParseItem
<1>5. DOMAIN g = DOMAIN tree /\ FieldsOK(g)
  <2>1. FieldOK(tree[p]) /\ DOMAIN g = DOMAIN tree /\ Top.json.byte_offset \in Nat
    BY <1>1, <1>2, <1>3 DEF FieldsOK
  <2>2. \A q \in DOMAIN tree : q # p => g[q] = tree[q]
    OBVIOUS
  <2>3. g[p] = [tree[p] EXCEPT !.name = Top.json.name, !.off = Top.json.byte_offset]
    BY <1>2
  <2> HIDE DEF g
  <2>4. FieldOK(g[p])
    BY <2>1, <2>3 DEF FieldOK
  <2> QED
    BY <1>1, <2>1, <2>2, <2>4 DEF FieldsOK
<1> HIDE DEF x, g
<1>6. stack' \in Seq(ParseItem) /\ PathsOf(stack') = PathsOf(stack)
  <2>1. Append(Front(stack), x) \in Seq(ParseItem) /\ PathsOf(Append(Front(stack), x)) = PathsOf(stack)
    <3>1. x.path = Last(stack).path
      BY <1>4 DEF Top
    <3> QED
      BY <1>1, <1>4, <3>1, ItemPaths, ReplacedTop DEF Routed
  <2> QED
    BY <1>1, <2>1
<1>7. Childless(stack', DOMAIN tree)
  <2> SUFFICES ASSUME NEW m \in DOMAIN stack', NEW i \in Nat
               PROVE Append(stack'[m].path, i) \notin DOMAIN tree
    BY DEF Childless
  <2>1. m \in DOMAIN PathsOf(stack') /\ stack'[m].path = PathsOf(stack')[m]
    BY DEF PathsOf
  <2>2. m \in DOMAIN stack /\ stack[m].path = PathsOf(stack)[m]
    BY <1>6, <2>1 DEF PathsOf
  <2> QED
    BY <1>1, <1>6, <2>1, <2>2 DEF Childless
<1> QED
  BY <1>1, <1>5, <1>6, <1>7 DEF Waiting, Pointers

LEMMA NoElement ==
  Value([type |-> ""], "size", 0) = 0 /\ [type |-> ""].type \notin Aggregate
  BY DEF Value, Aggregate

LEMMA LoadedObject ==
  ASSUME NEW t \in Types, NEW b \in Nat
  PROVE  Absolute[ToJson[t]][b] \in Loaded
  BY DEF Loaded

LEMMA ObjectSize ==
  ASSUME NEW t \in Types, NEW b \in Nat
  PROVE  /\ Value(ToJson[t], "size", 0) = t.size /\ ToJson[t].type = t.type
         /\ Value(Absolute[ToJson[t]][b], "size", 0) = t.size
         /\ Absolute[ToJson[t]][b].type = t.type
<1> DEFINE o == ToJson[t]
           a == Absolute[ToJson[t]][b]
<1>1. /\ DOMAIN o = JsonKeys(t) /\ o.type = t.type
      /\ t.typedef # "" => o.typedef = t.typedef
      /\ t.size > 0 => o.size = t.size
  BY ToJsonFacts
<1>2. /\ DOMAIN a = JsonKeys(t) /\ a.type = t.type
      /\ t.typedef # "" => a.typedef = t.typedef
      /\ t.size > 0 => a.size = t.size
  BY AbsoluteFacts
<1> HIDE DEF o, a
<1>3. Value(o, "size", 0) = t.size
  BY <1>1, ObjectValues
<1>4. Value(a, "size", 0) = t.size
  BY <1>2, ObjectValues
<1> QED
  BY <1>1, <1>2, <1>3, <1>4 DEF o, a

\* The element of an array as the JSON file describes it.
LEMMA ElementObject ==
  ASSUME NEW ti \in Types, NEW b \in Nat, NEW j, j = Absolute[ToJson[ti]][b],
         NEW e, e = Value(j, "element_type", [type |-> ""])
  PROVE  /\ e.type \in Aggregate <=> ArrayOfAggregates(ti)
         /\ ArrayOfAggregates(ti) => e \in Loaded /\ e = Absolute[ToJson[Element(ti)]][b]
         /\ ti.type = "array" => Value(e, "size", 0) = Element(ti).size
         /\ Value(e, "size", 0) \in Nat
<1>1. /\ DOMAIN j = JsonKeys(ti) /\ j.type = ti.type
      /\ ti.typedef # "" => j.typedef = ti.typedef
      /\ ti.size > 0 => j.size = ti.size
      /\ ti.type = "array" =>
           j.element_type = IF ArrayOfAggregates(ti) THEN Absolute[ToJson[Element(ti)]][b]
                            ELSE ToJson[Element(ti)]
  BY AbsoluteFacts
<1>2. "element_type" \in DOMAIN j <=> ti.type = "array"
  BY <1>1, ObjectValues
<1>3. CASE ti.type = "array"
  <2>1. Element(ti) \in Types /\ e = j.element_type
    BY <1>2, <1>3, TypeFacts DEF Value
  <2>0. PICK t \in Types : t = Element(ti)
    BY <2>1
  <2>2. t.size \in Nat
    BY <2>0, TypeFacts
  <2>3. ArrayOfAggregates(ti) <=> t.type \in Aggregate
    BY <1>3, <2>0 DEF ArrayOfAggregates
  <2>4. CASE ArrayOfAggregates(ti)
    <3>1. e = Absolute[ToJson[t]][b]
      BY <1>1, <1>3, <2>0, <2>1, <2>4
    <3>2. Value(Absolute[ToJson[t]][b], "size", 0) = t.size /\ Absolute[ToJson[t]][b].type = t.type
      BY <2>0, ObjectSize
    <3>3. Absolute[ToJson[t]][b] \in Loaded
      BY <2>0, LoadedObject
    <3>4. Value(e, "size", 0) = t.size /\ e.type = t.type /\ e \in Loaded
      BY ONLY <3>1, <3>2, <3>3, Zenon
    <3>5. Value(e, "size", 0) = Element(ti).size /\ e = Absolute[ToJson[Element(ti)]][b]
      BY ONLY <2>0, <3>1, <3>4
    <3> QED
      BY <1>3, <2>2, <2>3, <2>4, <3>4, <3>5
  <2>5. CASE ~ArrayOfAggregates(ti)
    <3>1. e = ToJson[t]
      BY <1>1, <1>3, <2>0, <2>1, <2>5
    <3>2. Value(ToJson[t], "size", 0) = t.size /\ ToJson[t].type = t.type
      BY <2>0, ObjectSize
    <3>3. Value(e, "size", 0) = t.size /\ e.type = t.type
      BY ONLY <3>1, <3>2, Zenon
    <3>4. Value(e, "size", 0) = Element(ti).size
      BY ONLY <2>0, <3>3
    <3> QED
      BY <1>3, <2>2, <2>3, <2>5, <3>3, <3>4
  <2> QED
    BY <2>4, <2>5
<1>4. CASE ti.type # "array"
  <2>1. e = [type |-> ""]
    BY <1>2, <1>4 DEF Value
  <2>2. Value(e, "size", 0) = 0 /\ e.type \notin Aggregate
    BY <2>1, NoElement
  <2>3. ~ArrayOfAggregates(ti)
    BY <1>4 DEF ArrayOfAggregates
  <2>4. 0 \in Nat
    OBVIOUS
  <2> QED
    BY ONLY <1>4, <2>2, <2>3, <2>4, Zenon
<1> QED
  BY <1>3, <1>4

\* What a turn of parse_fields_iterative() stores and asks for next when the
\* item on top describes type ti at address b.
ParseElement == Value(Top.json, "element_type", [type |-> ""])
ParseNamed == IF Top.json.type = "array" /\ ParseElement.type \notin Aggregate
              THEN ParseElement ELSE Top.json
ParseStored ==
  [tree[Top.path] EXCEPT !.kind = ParseFieldType(Top.json.type), !.nbytes = Value(Top.json, "size", 0),
     !.typeName = Value(ParseNamed, "typedef", ParseNamed.type),
     !.total = Value(Top.json, "total_elements", 0), !.elementBytes = Value(ParseElement, "size", 0)]
ParseWork ==
  CASE Top.json.type \in Aggregate ->
         [n \in DOMAIN Top.json.fields |->
           [json |-> Top.json.fields[n], is_type_info |-> FALSE, path |-> Append(Top.path, n - 1)]]
    [] Top.json.type = "array" /\ ParseElement.type \in Aggregate ->
         <<[json |-> ParseElement, is_type_info |-> TRUE, path |-> Append(Top.path, 0)]>>
    [] OTHER -> <<>>

LEMMA ParseTurn ==
  ASSUME Waiting, ParseType
  PROVE  /\ phase = "parse" /\ phase' = "parse" /\ stack # <<>> /\ type' = type
         /\ stack \in Seq(ParseItem) /\ Live(PathsOf(stack), DOMAIN tree)
         /\ TreeOf(DOMAIN tree) /\ FieldsOK(tree) /\ Childless(stack, DOMAIN tree) /\ type \in Types
         /\ Top.is_type_info /\ tree' = Stored(Top.path, ParseStored, Len(ParseWork))
         /\ stack' = Rest \o Reverse(ParseWork)
         /\ Top \in ParseItem /\ Top.path \in DOMAIN tree /\ Top.json \in Loaded /\ Top.path \in Path
         /\ FieldOK(tree[Top.path])
<1>1. /\ phase = "parse" /\ phase' = "parse" /\ stack # <<>> /\ type' = type
      /\ stack \in Seq(ParseItem) /\ Live(PathsOf(stack), DOMAIN tree)
      /\ TreeOf(DOMAIN tree) /\ FieldsOK(tree) /\ Childless(stack, DOMAIN tree) /\ type \in Types
  BY DEF ParseType, Loading, Waiting, Pointers
<1>2. Top.is_type_info /\ tree' = Stored(Top.path, ParseStored, Len(ParseWork))
      /\ stack' = Rest \o Reverse(ParseWork)
  BY DEF ParseType, ParseStored, ParseWork, ParseElement, ParseNamed
<1>3. Top \in ParseItem /\ Top.path \in DOMAIN tree
  BY <1>1, ItemPaths, TopItem
<1>4. Top.json \in Loaded /\ Top.path \in Path
  BY <1>2, <1>3 DEF ParseItem
<1>5. FieldOK(tree[Top.path])
  BY <1>1, <1>3 DEF FieldsOK
<1> QED
  BY <1>1, <1>2, <1>3, <1>4, <1>5

LEMMA ParseTypeField ==
  ASSUME FieldOK(tree[Top.path]), NEW ti \in Types, NEW b \in Nat, Top.json = Absolute[ToJson[ti]][b]
  PROVE  /\ FieldOK(ParseStored)
         /\ ParseStored.nbytes = ti.size /\ ParseStored.kind = ParseFieldType(ti.type)
         /\ ParseStored.total = (IF ti.type = "array" THEN ti.total ELSE 0)
         /\ ti.type = "array" => ParseStored.elementBytes = Element(ti).size
         /\ ParseStored.off = tree[Top.path].off /\ ParseStored.name = tree[Top.path].name
<1>j. PICK j : j = Top.json
  OBVIOUS
<1>0. j = Absolute[ToJson[ti]][b]
  BY <1>j
<1>v. PICK e : e = Value(j, "element_type", [type |-> ""])
  OBVIOUS
<1>e. e = ParseElement
  BY <1>j, <1>v DEF ParseElement
<1> DEFINE old == tree[Top.path]
           kind == ParseFieldType(j.type)
           tn == Value(ParseNamed, "typedef", ParseNamed.type)
           size == Value(j, "size", 0)
           total == Value(j, "total_elements", 0)
           eb == Value(e, "size", 0)
<1>1. /\ DOMAIN j = JsonKeys(ti) /\ j.type = ti.type
      /\ ti.typedef # "" => j.typedef = ti.typedef
      /\ ti.size > 0 => j.size = ti.size
      /\ ti.type = "array" => j.total_elements = ti.total
  BY <1>0, AbsoluteFacts
<1>2. size = ti.size /\ ("total_elements" \in DOMAIN j <=> ti.type = "array")
  BY <1>1, ObjectValues
<1>3. (ti.type = "array" => eb = Element(ti).size) /\ eb \in Nat
  BY <1>0, <1>v, ElementObject
<1>4. ti.size \in Nat /\ ti.total \in Nat
  BY TypeFacts
<1>5. total = (IF ti.type = "array" THEN ti.total ELSE 0)
  BY <1>1, <1>2 DEF Value
<1>6. ParseStored = [old EXCEPT !.kind = kind, !.nbytes = size, !.typeName = tn,
                       !.total = total, !.elementBytes = eb]
  BY <1>j, <1>e DEF ParseStored
<1>7. kind = ParseFieldType(ti.type)
  BY <1>1
<1> HIDE DEF old, kind, tn, size, total, eb
<1>8. /\ ParseStored.kind = kind /\ ParseStored.nbytes = size /\ ParseStored.total = total
      /\ ParseStored.elementBytes = eb /\ ParseStored.off = old.off /\ ParseStored.name = old.name
      /\ FieldOK(ParseStored)
  <2>1. FieldOK(old)
    BY DEF old
  <2>2. total \in Nat /\ size \in Nat
    BY <1>2, <1>4, <1>5
  <2> QED
    BY <1>3, <1>6, <2>1, <2>2 DEF FieldOK
<1> QED
  BY <1>2, <1>3, <1>5, <1>7, <1>8 DEF old

\* What it asks for: the members of a struct by name, the element of an array.
MembersAsked(ti, b) ==
  \A m \in 1 .. Len(ParseWork) :
    /\ ~ParseWork[m].is_type_info
    /\ ParseWork[m].json = [name |-> ti.fields[m].name, byte_offset |-> b + ti.fields[m].off,
                            type_info |-> Absolute[ToJson[ti.fields[m].ti]][b + ti.fields[m].off]]

LEMMA ParseItems ==
  ASSUME Top.path \in Path, NEW ti \in Types, NEW b \in Nat, Top.json = Absolute[ToJson[ti]][b]
  PROVE  /\ ParseWork \in Seq(ParseItem) /\ Spread(ParseWork, Top.path) /\ Len(ParseWork) = Arity(ti)
         /\ ti.type \in Aggregate => MembersAsked(ti, b)
         /\ ArrayOfAggregates(ti) => /\ ParseWork[1].is_type_info
                                     /\ ParseWork[1].json = Absolute[ToJson[Element(ti)]][b]
<1>j. PICK j : j = Top.json
  OBVIOUS
<1>0. j = Absolute[ToJson[ti]][b]
  BY <1>j
<1>v. PICK e : e = Value(j, "element_type", [type |-> ""])
  OBVIOUS
<1>e. e = ParseElement
  BY <1>j, <1>v DEF ParseElement
<1> DEFINE p == Top.path
           c == ParseWork
<1>1. /\ DOMAIN j = JsonKeys(ti) /\ j.type = ti.type
      /\ ti.type \in Aggregate =>
                  j.fields = [n \in DOMAIN ti.fields |->
                                [name |-> ti.fields[n].name, byte_offset |-> b + ti.fields[n].off,
                                 type_info |-> Absolute[ToJson[ti.fields[n].ti]][b + ti.fields[n].off]]]
  BY <1>0, AbsoluteFacts
<1>2. /\ e.type \in Aggregate <=> ArrayOfAggregates(ti)
      /\ ArrayOfAggregates(ti) => e \in Loaded /\ e = Absolute[ToJson[Element(ti)]][b]
  BY <1>0, <1>v, ElementObject
<1>3. c = CASE j.type \in Aggregate ->
                 [n \in DOMAIN j.fields |->
                    [json |-> j.fields[n], is_type_info |-> FALSE, path |-> Append(p, n - 1)]]
            [] j.type = "array" /\ e.type \in Aggregate ->
                 <<[json |-> e, is_type_info |-> TRUE, path |-> Append(p, 0)]>>
            [] OTHER -> <<>>
  BY <1>j, <1>e DEF ParseWork
<1>4. p \in Path
  OBVIOUS
<1>a. "array" \notin Aggregate
  BY DEF Aggregate
<1> HIDE DEF p, c
<1>5. CASE ti.type \in Aggregate
  <2> DEFINE l == Len(ti.fields)
  <2>1. l \in Nat /\ DOMAIN ti.fields = 1 .. l /\ \A n \in DOMAIN ti.fields :
            /\ ti.fields[n].ti \in Types /\ ti.fields[n].off \in Nat
            /\ ti.fields[n].name \in STRING
    BY TypeFacts
  <2>2. DOMAIN j.fields = 1 .. l
    BY <1>1, <1>5, <2>1
  <2>0. Arity(ti) = l /\ ~ArrayOfAggregates(ti)
    BY <1>5, <1>a DEF Arity, ArrayOfAggregates
  <2> HIDE DEF l
  <2>3. c = [n \in 1 .. l |->
               [json |-> j.fields[n], is_type_info |-> FALSE, path |-> Append(p, n - 1)]]
    <3>1. c = [n \in DOMAIN j.fields |->
                 [json |-> j.fields[n], is_type_info |-> FALSE, path |-> Append(p, n - 1)]]
      BY <1>1, <1>3, <1>5, <1>a
    <3> QED
      BY <2>2, <3>1
  <2>4. ASSUME NEW n \in 1 .. l
        PROVE  /\ c[n] \in ParseItem /\ c[n].path = Append(p, n - 1) /\ ~c[n].is_type_info
               /\ c[n].json = [name |-> ti.fields[n].name, byte_offset |-> b + ti.fields[n].off,
                               type_info |-> Absolute[ToJson[ti.fields[n].ti]][b + ti.fields[n].off]]
    <3>1. Append(p, n - 1) \in Path
      <4>1. n - 1 \in Nat
        BY <2>1
      <4> QED
        BY <1>4, <4>1, Extended
    <3> DEFINE m == ti.fields[n]
    <3>2. m.ti \in Types /\ m.off \in Nat /\ m.name \in STRING /\ n \in DOMAIN ti.fields
      BY <2>1
    <3>3. j.fields[n] = [name |-> m.name, byte_offset |-> b + m.off,
                         type_info |-> Absolute[ToJson[m.ti]][b + m.off]]
      BY <1>1, <1>5, <3>2
    <3> HIDE DEF m
    <3>4. b + m.off \in Nat
      BY <3>2
    <3>5. Absolute[ToJson[m.ti]][b + m.off] \in Loaded
      BY <3>2, <3>4 DEF Loaded
    <3>6. j.fields[n] \in [name : STRING, byte_offset : Nat, type_info : Loaded]
      BY <3>2, <3>3, <3>4, <3>5
    <3>7. c[n] = [json |-> j.fields[n], is_type_info |-> FALSE, path |-> Append(p, n - 1)]
      BY <2>3
    <3>8. c[n] \in ParseItem
      BY <3>1, <3>6, <3>7 DEF ParseItem
    <3>9. c[n].json = j.fields[n] /\ c[n].path = Append(p, n - 1) /\ c[n].is_type_info = FALSE
      BY <3>7
    <3> QED
      BY <3>3, <3>8, <3>9 DEF m
  <2>5. DOMAIN c = 1 .. l /\ c = [n \in 1 .. l |-> c[n]]
    BY <2>3
  <2>6. c \in [1 .. l -> ParseItem]
    BY <2>4, <2>5
  <2>7. c \in Seq(ParseItem) /\ Len(c) = l
    BY <2>1, <2>6
  <2> QED
    BY <2>0, <2>4, <2>7 DEF Spread, MembersAsked, c, p
<1>6. CASE ArrayOfAggregates(ti)
  <2> DEFINE x == [json |-> e, is_type_info |-> TRUE, path |-> Append(p, 0)]
  <2>0. ti.type = "array" /\ ti.type \notin Aggregate /\ Arity(ti) = 1
    BY <1>6, <1>a DEF ArrayOfAggregates, Arity
  <2>1. c = <<x>>
    BY <1>1, <1>2, <1>3, <1>6, <2>0
  <2>2. Append(p, 0) \in Path
    BY <1>4, Extended
  <2>3. x \in ParseItem /\ x.path = Append(p, 0) /\ x.is_type_info /\ x.json = e
    BY <1>2, <1>6, <2>2 DEF ParseItem
  <2> HIDE DEF x
  <2>4. c \in Seq(ParseItem) /\ Len(c) = 1 /\ c[1] = x
    BY <2>1, <2>3
  <2>5. \A m \in 1 .. Len(c) : m = 1
    BY <2>4
  <2> QED
    BY <1>2, <1>6, <2>0, <2>3, <2>4, <2>5 DEF Spread, c, p
<1>7. CASE ti.type \notin Aggregate /\ ~ArrayOfAggregates(ti)
  <2>1. c = <<>>
    BY <1>1, <1>2, <1>3, <1>7
  <2>2. c \in Seq(ParseItem) /\ Len(c) = 0 /\ Arity(ti) = 0
    BY <1>7, <2>1 DEF Arity
  <2>3. \A m \in 1 .. Len(c) : FALSE
    BY <2>2
  <2> QED
    BY <1>7, <2>2, <2>3 DEF Spread, c
<1> QED
  BY <1>5, <1>6, <1>7

LEMMA ParseTypeWaiting ==
  ASSUME Waiting, ParseType
  PROVE  Waiting'
<1> DEFINE c == ParseWork
           f == ParseStored
<1>1. /\ phase = "parse" /\ phase' = "parse" /\ stack # <<>> /\ type' = type
      /\ stack \in Seq(ParseItem) /\ Live(PathsOf(stack), DOMAIN tree)
      /\ TreeOf(DOMAIN tree) /\ FieldsOK(tree) /\ Childless(stack, DOMAIN tree) /\ type \in Types
      /\ tree' = Stored(Top.path, f, Len(c)) /\ stack' = Rest \o Reverse(c)
      /\ Top.json \in Loaded /\ Top.path \in Path /\ FieldOK(tree[Top.path])
  BY ParseTurn
<1>2. PICK ti \in Types, b \in Nat : Top.json = Absolute[ToJson[ti]][b]
  BY <1>1 DEF Loaded
<1>3. FieldOK(f) /\ c \in Seq(ParseItem) /\ Spread(c, Top.path)
  BY <1>1, <1>2, ParseTypeField, ParseItems
<1> HIDE DEF c, f
<1>4. /\ TreeOf(DOMAIN tree') /\ FieldsOK(tree')
      /\ stack' \in Seq(ParseItem) /\ Live(PathsOf(stack'), DOMAIN tree') /\ Childless(stack', DOMAIN tree')
  BY <1>1, <1>3, ItemPaths, Turn
<1> QED
  BY <1>1, <1>4 DEF Waiting, Pointers

-----------------------------------------------------------------------------
LEMMA WithFields ==
  ASSUME NEW new
  PROVE  /\ DOMAIN With(new) = DOMAIN new \cup DOMAIN tree
         /\ \A q \in DOMAIN new : With(new)[q] = new[q]
         /\ \A q \in DOMAIN tree : q \notin DOMAIN new => With(new)[q] = tree[q]
  BY DEF With

LEMMA WithOK ==
  ASSUME FieldsOK(tree), NEW new, FieldsOK(new)
  PROVE  FieldsOK(With(new))
  BY WithFields DEF FieldsOK

LEMMA ProductNat ==
  ASSUME NEW a \in Nat, NEW b \in Nat, NEW c \in Nat
  PROVE  c + a * b \in Nat
<1>1. a * b \in Nat
  OBVIOUS
<1> QED
  BY <1>1

\* The elements of an array of primitives.
LEMMA ElementsTree ==
  ASSUME TreeOf(DOMAIN tree), FieldsOK(tree), NEW p \in DOMAIN tree, IsLeaf(p)
  PROVE  /\ TreeOf(DOMAIN With(Elements(p))) /\ FieldsOK(With(Elements(p)))
         /\ DOMAIN tree \subseteq DOMAIN With(Elements(p))
<1> DEFINE D == DOMAIN tree
           n == tree[p].total
           e == Elements(p)
<1>1. /\ n \in Nat /\ tree[p].elementBytes \in Nat /\ tree[p].off \in Nat /\ p \in Path
      /\ D \subseteq Path
  BY DEF FieldsOK, FieldOK, TreeOf
<1>2. \A i \in Nat : Append(p, i) \notin D
  <2> SUFFICES ASSUME NEW i \in Nat, Append(p, i) \in D PROVE FALSE
    OBVIOUS
  <2>1. Len(Append(p, i)) = Len(p) + 1 /\ IsPrefix(p, Append(p, i))
    BY <1>1, Extended, PrefixOfChild
  <2>2. Append(p, i) \in Children(p)
    BY <2>1 DEF Children
  <2> QED
    BY <2>2 DEF IsLeaf
<1>3. DOMAIN e = Offspring(p, n)
  BY DEF Elements, Offspring
<1>4. FieldsOK(e)
  <2> SUFFICES ASSUME NEW q \in DOMAIN e PROVE FieldOK(e[q])
    BY DEF FieldsOK
  <2>1. PICK i \in Nat : q = Append(p, i)
    <3>1. q \in Offspring(p, n)
      BY <1>3
    <3> HIDE DEF n
    <3> QED
      BY <1>1, <3>1, OffspringOf
  <2>2. Last(q) = i
    <3>1. Len(q) = Len(p) + 1 /\ q[Len(p) + 1] = i
      BY <1>1, <2>1 DEF Path
    <3> QED
      BY <3>1 DEF Last
  <2> DEFINE o == tree[p].off + Last(q) * tree[p].elementBytes
  <2>3. o \in Nat
    BY <1>1, <2>2, ProductNat
  <2>4. e[q] = [NewField EXCEPT !.name = ElementName(Last(q)), !.off = o,
                  !.nbytes = tree[p].elementBytes,
                  !.kind = ParseFieldType(tree[p].typeName), !.typeName = tree[p].typeName]
    BY DEF Elements
  <2> HIDE DEF o, e
  <2> QED
    BY <1>1, <2>3, <2>4 DEF NewField, FieldOK
<1> HIDE DEF e, D, n
<1>5. DOMAIN With(e) = D \cup Offspring(p, n)
  BY <1>3, WithFields DEF D
<1>6. TreeOf(D \cup Offspring(p, n))
  <2>1. TreeOf(D) /\ p \in D
    BY DEF D
  <2> QED
    BY <1>1, <1>2, <2>1, GrownTree
<1>7. FieldsOK(With(e))
  BY <1>4, WithOK
<1> QED
  BY <1>5, <1>6, <1>7 DEF e, D

LEMMA ClonesDomain ==
  ASSUME NEW p
  PROVE  DOMAIN tree \cup DOMAIN Clones(p) = Cloned(DOMAIN tree, p, tree[p].total)
  BY DEF Clones, Moved, Below, Cloned

LEMMA ClonesItem ==
  ASSUME NEW p, NEW q \in DOMAIN Clones(p)
  PROVE  \E t \in DOMAIN tree, i \in 0 .. tree[p].total - 1 :
           IsPrefix(Append(p, 0), t) /\ q = Moved(p, t, i)
  BY DEF Clones, Moved, Below

LEMMA ClonesField ==
  ASSUME NEW p, NEW q \in DOMAIN Clones(p), NEW f,
         f = Shifted(tree[Moved(p, q, 0)], Branch(p, q) * tree[p].elementBytes, Len(q) - (Len(p) + 1))
  PROVE  Clones(p)[q] = IF Len(q) = Len(p) + 1 THEN [f EXCEPT !.name = ElementName(Branch(p, q))] ELSE f
  BY DEF Clones, Moved, Branch

\* The clones of the element of an array of structs.
LEMMA ClonesTree ==
  ASSUME TreeOf(DOMAIN tree), FieldsOK(tree), NEW p \in DOMAIN tree, IsTemplate(p),
         tree[p].total > 0
  PROVE  /\ TreeOf(DOMAIN With(Clones(p))) /\ FieldsOK(With(Clones(p)))
         /\ DOMAIN tree \subseteq DOMAIN With(Clones(p))
<1> DEFINE D == DOMAIN tree
           n == tree[p].total
           e == Clones(p)
           C == Cloned(D, p, n)
<1>1. /\ n \in Nat \ {0} /\ tree[p].elementBytes \in Nat /\ p \in Path /\ D \subseteq Path
      /\ p \in D
      /\ TreeOf(D)
  <2>1. tree[p].total \in Nat /\ tree[p].elementBytes \in Nat
    BY DEF FieldsOK, FieldOK
  <2>2. p \in Path /\ D \subseteq Path
    BY DEF TreeOf
  <2>3. n \in Nat /\ n # 0
    BY <2>1
  <2> QED
    BY <2>1, <2>2, <2>3
<1>2. \A i \in Nat : Append(p, i) \in D <=> i < 1
  <2> TAKE i \in Nat
  <2>1. Append(p, 0) \in D
    BY DEF IsTemplate, Children
  <2>2. ASSUME Append(p, i) \in D PROVE i = 0
    <3>1. Len(Append(p, i)) = Len(p) + 1 /\ IsPrefix(p, Append(p, i))
      BY <1>1, Extended, PrefixOfChild
    <3>2. Append(p, i) \in Children(p)
      BY <2>2, <3>1 DEF Children
    <3>3. Append(p, i) = Append(p, 0)
      BY <3>2 DEF IsTemplate
    <3> QED
      BY <1>1, <3>3, ChildrenApart
  <2> QED
    BY <2>1, <2>2
<1>3. DOMAIN With(e) = C
  <2>1. C = D \cup DOMAIN e
    BY ClonesDomain
  <2>2. DOMAIN With(e) = DOMAIN e \cup D
    BY WithFields
  <2> QED
    BY <2>1, <2>2
<1>4. TreeOf(C) /\ D \subseteq C
  <2> HIDE DEF D, n
  <2> QED
    BY <1>1, <1>2, ClonedTree, ClonedPaths
<1>5. FieldsOK(e)
  <2> SUFFICES ASSUME NEW q \in DOMAIN e PROVE FieldOK(e[q])
    BY DEF FieldsOK
  <2>1. q \in Path /\ Beneath(p, q) /\ Branch(p, q) \in Nat /\ Moved(p, q, 0) \in D
    <3>1. PICK t \in D, i \in 0 .. n - 1 : IsPrefix(Append(p, 0), t) /\ q = Moved(p, t, i)
      BY ClonesItem
    <3>2. t \in Path /\ i \in Nat /\ Beneath(p, t) /\ Branch(p, t) = 0
      BY <1>1, <3>1, BeneathChild
    <3>3. Moved(p, t, 0) = t
      BY <1>1, <3>2, MovedFacts
    <3> DEFINE u == Moved(p, t, i)
    <3>4. u \in Path /\ Beneath(p, u)
      BY <1>1, <3>2, MovedFacts
    <3>5. Branch(p, u) = i
      BY <1>1, <3>2, MovedFacts
    <3>6. Moved(p, u, 0) = t
      BY <1>1, <3>2, <3>3, MovedFacts
    <3> HIDE DEF u
    <3>7. q = u
      BY <3>1 DEF u
    <3> HIDE DEF D
    <3> QED
      BY <3>1, <3>2, <3>4, <3>5, <3>6, <3>7
  <2> DEFINE d == Branch(p, q) * tree[p].elementBytes
             a == tree[Moved(p, q, 0)]
             f == Shifted(a, d, Len(q) - (Len(p) + 1))
  <2>2. FieldOK(a)
    BY <2>1 DEF FieldsOK
  <2>3. a.off + d \in Nat
    <3>1. a.off \in Nat
      BY <2>2 DEF FieldOK
    <3> HIDE DEF a
    <3> QED
      BY <1>1, <2>1, <3>1, ProductNat
  <2>4. e[q] = IF Len(q) = Len(p) + 1 THEN [f EXCEPT !.name = ElementName(Branch(p, q))] ELSE f
    BY ClonesField
  <2>5. f = [a EXCEPT !.off = a.off + d]
    BY DEF Shifted
  <2> HIDE DEF f, a, d, e
  <2>6. FieldOK(f)
    BY <2>2, <2>3, <2>5 DEF FieldOK
  <2>7. FieldOK([f EXCEPT !.name = ElementName(Branch(p, q))])
    BY <2>6 DEF FieldOK
  <2> QED
    BY <2>4, <2>6, <2>7
<1>6. FieldsOK(With(e))
  <2> HIDE DEF e
  <2> QED
    BY <1>5, WithOK
<1> QED
  BY <1>3, <1>4, <1>6

LEMMA ExpandedTree ==
  ASSUME TreeOf(DOMAIN tree), FieldsOK(tree), NEW p \in DOMAIN tree, NEW g, g = ExpandedAt(p)
  PROVE  TreeOf(DOMAIN g) /\ FieldsOK(g) /\ DOMAIN tree \subseteq DOMAIN g
  BY ElementsTree, ClonesTree DEF ExpandedAt

\* The top of the stack gives way to its children in g.
LEMMA WalkOn ==
  ASSUME NEW D, NEW E, TreeOf(D), TreeOf(E), D \subseteq E, NEW s, Live(s, D), s # <<>>
  PROVE  Live(Front(s) \o Pushed(Kids(E, Last(s))), E)
<1> DEFINE p == Last(s)
<1>1. p \in D
  <2>1. Len(s) \in DOMAIN s /\ p = s[Len(s)]
    <3>1. s \in Seq(Path)
      BY DEF Live
    <3>2. Last(s) = s[Len(s)] /\ Len(s) \in Nat \ {0}
      BY <3>1, FrontLast
    <3> QED
      BY <3>1, <3>2
  <2> QED
    BY <2>1 DEF Live
<1>2. E \subseteq Path /\ p \in E /\ p \in Path
  BY <1>1 DEF TreeOf
<1> HIDE DEF p
<1>3. PICK n \in Nat : \A i \in Nat : Append(p, i) \in E <=> i < n
  BY <1>2 DEF TreeOf
<1>4. Kids(E, p) = Offspring(p, n)
  BY <1>2, <1>3, KidsOf
<1> DEFINE more == Pushed(Offspring(p, n))
<1>5. /\ more \in Seq(Path) /\ Len(more) = n
      /\ \A m \in 1 .. n : more[m] = Append(p, n - m)
  BY <1>2, <1>3, PushedKids
<1>6. \A i \in 0 .. n - 1 : Append(p, i) \in E
  BY <1>3
<1> HIDE DEF more
<1>7. Live(Front(s) \o more, E)
  BY <1>2, <1>3, <1>5, <1>6, LiveChildren DEF p
<1> QED
  BY <1>4, <1>7 DEF p, more

LEMMA ExpandWaiting ==
  ASSUME Waiting, ExpandStep
  PROVE  Waiting'
<1>1. /\ phase = "expand" /\ phase' = "expand" /\ stack # <<>> /\ type' = type
      /\ Live(stack, DOMAIN tree) /\ TreeOf(DOMAIN tree) /\ FieldsOK(tree) /\ type \in Types
  BY DEF ExpandStep, Loading, Waiting, Pointers
<1>2. tree' = ExpandedAt(Last(stack)) /\ stack' = Front(stack) \o Pushed(Kids(DOMAIN tree', Last(stack)))
  BY DEF ExpandStep, Kids, Top, Rest
<1>3. Last(stack) \in DOMAIN tree
  <2>1. Len(stack) \in DOMAIN stack /\ Last(stack) = stack[Len(stack)]
    <3>1. stack \in Seq(Path)
      BY <1>1 DEF Live
    <3>2. Last(stack) = stack[Len(stack)] /\ Len(stack) \in Nat \ {0}
      BY <1>1, <3>1, FrontLast
    <3> QED
      BY <3>1, <3>2
  <2> QED
    BY <1>1, <2>1 DEF Live
<1>4. TreeOf(DOMAIN tree') /\ FieldsOK(tree') /\ DOMAIN tree \subseteq DOMAIN tree'
  BY <1>1, <1>2, <1>3, ExpandedTree
<1>5. Live(stack', DOMAIN tree')
  BY <1>1, <1>2, <1>4, WalkOn
<1> QED
  BY <1>1, <1>4, <1>5 DEF Waiting, Pointers

LEMMA CollectWaiting ==
  ASSUME Waiting, CollectStep
  PROVE  Waiting'
<1>1. /\ phase = "collect" /\ phase' = "collect" /\ stack # <<>> /\ type' = type /\ tree' = tree
      /\ Live(stack, DOMAIN tree) /\ TreeOf(DOMAIN tree) /\ FieldsOK(tree) /\ type \in Types
  BY DEF CollectStep, Loading, Waiting, Pointers
<1>2. stack' = Front(stack) \o Pushed(Kids(DOMAIN tree, Last(stack)))
  BY DEF CollectStep, Kids, Children, Top, Rest
<1>3. Live(stack', DOMAIN tree)
  BY <1>1, <1>2, WalkOn
<1> QED
  BY <1>1, <1>3 DEF Waiting, Pointers

\* A new traversal starts at the root, none waits when it is over.
LEMMA TurnedWaiting ==
  ASSUME Waiting, LoadDone \/ ExpandDone \/ CollectDone
  PROVE  Waiting'
<1>1. TreeOf(DOMAIN tree) /\ FieldsOK(tree) /\ type \in Types
  BY DEF Waiting
<1>2. tree' = tree /\ type' = type
  BY DEF LoadDone, ExpandDone, CollectDone, Loading
<1>3. CASE LoadDone \/ ExpandDone
  <2>1. stack' = <<Root>> /\ phase' \in {"expand", "collect"}
    BY <1>3 DEF LoadDone, ExpandDone
  <2>2. Pointers' = stack'
    BY <2>1 DEF Pointers
  <2> QED
    BY <1>1, <1>2, <2>1, <2>2, LiveRoot DEF Waiting
<1>4. CASE CollectDone
  <2>1. stack = <<>> /\ stack' = <<>> /\ phase' \in {"ready", "settings"}
    BY <1>4 DEF CollectDone
  <2>2. Pointers' = <<>>
    BY <2>1 DEF Pointers
  <2> QED
    BY <1>1, <1>2, <2>1, <2>2, LiveRoot DEF Waiting
<1> QED
  BY <1>3, <1>4

\* What touches no tree.
LEMMA StillWaiting ==
  ASSUME Waiting, type' = type, tree' = tree, stack' = stack,
         phase' = phase \/ (phase = "settings" /\ phase' = "ready")
  PROVE  Waiting'
<1>1. CASE phase' = phase
  BY <1>1 DEF Waiting, Pointers
<1>2. CASE phase = "settings" /\ phase' = "ready"
  <2>1. stack = <<>> /\ Pointers' = stack
    BY <1>2 DEF Waiting, Pointers
  <2> QED
    BY <1>2, <2>1, LiveRoot DEF Waiting
<1> QED
  BY <1>1, <1>2

LEMMA NextWaiting == Waiting /\ [Next]_vars => Waiting'
<1> SUFFICES ASSUME Waiting, [Next]_vars PROVE Waiting'
  OBVIOUS
<1>1. CASE DropElf
  BY <1>1, DropElfWaiting
<1>2. CASE DropJson
  BY <1>2, DropJsonWaiting
<1>3. CASE LoadFails
  BY <1>3, LoadFailsWaiting
<1>4. CASE ConvertStep
  BY <1>4, ConvertWaiting
<1>5. CASE ParseField
  BY <1>5, ParseFieldWaiting
<1>6. CASE ParseType
  BY <1>6, ParseTypeWaiting
<1>7. CASE LoadDone \/ ExpandDone \/ CollectDone
  BY <1>7, TurnedWaiting
<1>8. CASE ExpandStep
  BY <1>8, ExpandWaiting
<1>9. CASE CollectStep
  BY <1>9, CollectWaiting
<1>10. CASE LoadSettings
  BY <1>10, StillWaiting DEF LoadSettings
<1>11. CASE Save
  BY <1>11, StillWaiting DEF Save
<1>12. CASE \E p \in DOMAIN tree : ClickLeaf(p) \/ ClickParent(p) \/ SelectY(p)
  BY <1>12, StillWaiting DEF ClickLeaf, ClickParent, SelectY
<1>13. CASE UNCHANGED vars
  <2>1. type' = type /\ tree' = tree /\ stack' = stack
    BY <1>13 DEF vars
  <2>2. phase' = phase
    BY <1>13 DEF vars
  <2> QED
    BY <2>1, <2>2 DEF Waiting, Pointers
<1> QED
  BY <1>1, <1>2, <1>3, <1>4, <1>5, <1>6, <1>7, <1>8, <1>9, <1>10, <1>11, <1>12, <1>13 DEF Next

\* What waits, as a set.
PointedAt(s) == {s[n] : n \in DOMAIN s}

LEMMA LiveSet ==
  ASSUME NEW D, NEW s, Live(s, D), NEW P, P = PointedAt(s)
  PROVE  /\ P \subseteq D /\ Cardinality(P) = Len(s)
         /\ \A p, q \in P : IsPrefix(p, q) => p = q
<1>1. s \in Seq(Path) /\ DOMAIN s = 1 .. Len(s) /\ Len(s) \in Nat
  BY DEF Live
<1>0. P = {s[n] : n \in DOMAIN s}
  BY DEF PointedAt
<1>2. P \subseteq D /\ \A p, q \in P : IsPrefix(p, q) => p = q
  BY <1>0 DEF Live
<1>3. \A m, n \in DOMAIN s : s[m] = s[n] => m = n
  <2> SUFFICES ASSUME NEW m \in DOMAIN s, NEW n \in DOMAIN s, s[m] = s[n] PROVE m = n
    OBVIOUS
  <2>1. s[m] \in Path
    BY <1>1
  <2>2. IsPrefix(s[m], s[n])
    BY <2>1, PrefixOrder
  <2> QED
    BY <2>2 DEF Live
<1>4. Cardinality(P) = Len(s)
  <2> DEFINE k == Len(s)
  <2>1. k \in Nat /\ DOMAIN s = 1 .. k
    BY <1>1
  <2> HIDE DEF k
  <2>2. s \in [1 .. k -> P]
    BY <1>0, <1>1, <2>1
  <2>3. s \in Bijection(1 .. k, P)
    BY <1>0, <1>3, <2>1, <2>2 DEF Bijection, Injection, Surjection, IsInjective
  <2>4. ExistsBijection(1 .. k, P)
    BY <2>3 DEF ExistsBijection
  <2>5. IsFiniteSet(1 .. k) /\ Cardinality(1 .. k) = k
    BY <2>1, FS_Interval
  <2> QED
    BY <2>4, <2>5, FS_Bijection DEF k
<1> QED
  BY <1>2, <1>4

LEMMA WaitingStackIsLive == Waiting => StackIsLive
<1> SUFFICES ASSUME Waiting PROVE StackIsLive
  OBVIOUS
<1>1. Live(Pointers, DOMAIN tree)
  BY DEF Waiting
<1>2. Paths = PointedAt(Pointers) /\ Len(Pointers) = Len(stack)
  <2>1. CASE phase \in {"convert", "parse"}
    <3>1. Pointers = PathsOf(stack) /\ DOMAIN PathsOf(stack) = DOMAIN stack
      BY <2>1 DEF Pointers, PathsOf
    <3>2. Len(PathsOf(stack)) = Len(stack)
      <4>1. phase = "convert" => stack \in Seq(ConvertItem)
        BY DEF Waiting
      <4>2. phase = "parse" => stack \in Seq(ParseItem)
        BY DEF Waiting
      <4> QED
        BY <2>1, <4>1, <4>2, ItemPaths, PathsOfSeq DEF Routed
    <3>3. Paths = PointedAt(PathsOf(stack))
      BY <2>1 DEF Paths, PathsOf, PointedAt
    <3> QED
      BY <3>1, <3>2, <3>3
  <2>2. CASE phase \notin {"convert", "parse"}
    BY <2>2 DEF Pointers, Paths, PointedAt
  <2> QED
    BY <2>1, <2>2
<1> HIDE DEF Pointers
<1>3. /\ Paths \subseteq DOMAIN tree /\ Cardinality(Paths) = Len(stack)
      /\ \A p, q \in Paths : IsPrefix(p, q) => p = q
  BY <1>1, <1>2, LiveSet
<1> QED
  BY <1>3 DEF StackIsLive

\* Whatever the types of the symbols, their nesting and the sizes of their
\* arrays, the pointers that type_info_to_dartt_field, parse_fields_iterative,
\* expand_array_elements and collect_leaves keep on their stacks name distinct
\* fields of the tree that are still there: no vector they point into was
\* replaced or resized while they waited, and none of them lies inside another.
THEOREM StackStaysLive == Spec => []StackIsLive
<1>1. Spec => []Waiting
  BY InitWaiting, NextWaiting, PTL DEF Spec
<1> QED
  BY <1>1, WaitingStackIsLive, PTL

-----------------------------------------------------------------------------
(* The parts of the symbol, and the fields that stand for them.            *)

\* A type whose field keeps the name and the offset it was given: the expansion
\* and the list look at them.
Flat(ti) == ti.type \notin Aggregate \/ ti.fields = <<>>
\* How many children the field of a type has when all is expanded.
Slots(ti) == Len(Members(ti))
\* A part of the symbol: its type, its offset and its name; the symbol itself
\* and member i of a part.
Whole(ti) == [ti |-> ti, base |-> 0, name |-> "symbol"]
Inside(x, i) ==
  LET m == Members(x.ti)[i + 1]
  IN  [ti |-> m.ti, base |-> x.base + m.off, name |-> m.name]

\* The ghost g tells, for the field at each path of D, which part of a symbol
\* of type ty it stands for.
Placed(g, D, ty) ==
  /\ \A q \in D : g[q].ti \in Types /\ g[q].base \in Nat
  /\ g[Root] = Whole(ty)
  /\ \A q \in D, i \in Nat : Append(q, i) \in D =>
       i < Slots(g[q].ti) /\ g[Append(q, i)] = Inside(g[q], i)

\* What field f holds of the part x it stands for.
Holds(f, x) ==
  /\ f.nbytes = x.ti.size
  /\ f.total = IF x.ti.type = "array" THEN x.ti.total ELSE 0
  /\ x.ti.type = "array" => f.elementBytes = Element(x.ti).size
  /\ x.ti.type \in Aggregate => f.kind \in Aggregate
  /\ Flat(x.ti) => f.off = x.base /\ f.name = x.name

\* The path q has n children in D.
Wide(D, q, n) == \A i \in Nat : Append(q, i) \in D <=> i < n

\* The item x of a stack of type_info_to_dartt_field or parse_fields_iterative
\* asks for the part y to be stored in field f.
Asked(x, y, f) ==
  IF "ti" \in DOMAIN x
  THEN /\ x.ti = y.ti /\ x.base = y.base
       /\ Flat(y.ti) => IF x.member THEN x.name = y.name ELSE f.name = y.name
  ELSE IF x.is_type_info
  THEN /\ x.json = Absolute[ToJson[y.ti]][y.base]
       /\ Flat(y.ti) => f.off = y.base /\ f.name = y.name
  ELSE x.json = [name |-> y.name, byte_offset |-> y.base,
                 type_info |-> Absolute[ToJson[y.ti]][y.base]]

\* An item of stack s points at q.
Pointed(s, q) == \E n \in DOMAIN s : s[n].path = q

\* While the tree is loaded: what is not on the stack is stored, what is on it
\* asks for the part the ghost has for it.
LoadsAs(g, t, s, ty) ==
  /\ Placed(g, DOMAIN t, ty)
  /\ \A q \in DOMAIN t :
       Pointed(s, q) \/ (Holds(t[q], g[q]) /\ Wide(DOMAIN t, q, Arity(g[q].ti)))
  /\ \A n \in DOMAIN s : Asked(s[n], g[s[n].path], t[s[n].path])

\* The expansion has yet to come to q, or to what it is in.
Waits(s, q) == \E n \in DOMAIN s : IsPrefix(s[n], q)

\* While arrays are expanded: what waits has the children the load gave it, the
\* rest has all of them.
ExpandsAs(g, t, s, ty) ==
  /\ Placed(g, DOMAIN t, ty)
  /\ \A q \in DOMAIN t :
       /\ Holds(t[q], g[q])
       /\ Wide(DOMAIN t, q, IF Waits(s, q) THEN Arity(g[q].ti) ELSE Slots(g[q].ti))

\* The names of fields.
Labels    == STRING \cup {"symbol"} \cup {ElementName(i) : i \in Nat}
MemberSet == [name : Labels, off : Nat, ti : Types]
Part(x) == x.ti \in Types /\ x.base \in Nat /\ x.name \in Labels

LEMMA SymbolLabel == "symbol" \in Labels
  BY DEF Labels

LEMMA ElementFacts ==
  ASSUME NEW ti \in Types, ti.type = "array"
  PROVE  /\ Element(ti) \in Types /\ Element(ti).size \in Nat /\ ti.total \in Nat
         /\ Nesting[Element(ti)] < Nesting[ti] /\ Nesting[Element(ti)] \in Nat /\ Nesting[ti] \in Nat
<1>1. /\ 1 \in DOMAIN ti.fields /\ Element(ti) \in Types /\ Nesting[ti] \in Nat
      /\ ti.total \in Nat
  BY TypeFacts
<1>2. Nesting[ti.fields[1].ti] < Nesting[ti] /\ Nesting[ti.fields[1].ti] \in Nat
  BY <1>1, TypeFacts
<1>3. Element(ti).size \in Nat
  <2> PICK t \in Types : t = Element(ti)
    BY <1>1
  <2>1. t.size \in Nat
    BY TypeFacts
  <2> QED
    BY <2>1
<1> QED
  BY <1>1, <1>2, <1>3 DEF Element

\* The members of a type, of an array the elements.
LEMMA MembersOf ==
  ASSUME NEW ti \in Types
  PROVE  /\ Members(ti) \in Seq(MemberSet) /\ Slots(ti) \in Nat
         /\ DOMAIN Members(ti) = 1 .. Slots(ti)
         /\ ti.type = "array" => Slots(ti) = ti.total
         /\ ti.type # "array" => Members(ti) = ti.fields
         /\ Members(ti) = <<>> <=> Slots(ti) = 0
         /\ \A n \in 1 .. Slots(ti) : /\ Members(ti)[n] \in MemberSet
                                      /\ Nesting[Members(ti)[n].ti] < Nesting[ti]
                                      /\ Nesting[Members(ti)[n].ti] \in Nat
<1>1. CASE ti.type = "array"
  <2> DEFINE k == ti.total
             e == Element(ti)
             f == [n \in 1 .. k |-> [name |-> ElementName(n - 1), off |-> (n - 1) * e.size, ti |-> e]]
  <2>1. /\ e \in Types /\ e.size \in Nat /\ k \in Nat
        /\ Nesting[e] < Nesting[ti] /\ Nesting[e] \in Nat
    BY <1>1, ElementFacts
  <2>2. Members(ti) = f
    BY <1>1 DEF Members
  <2> HIDE DEF k, e
  <2>3. ASSUME NEW n \in 1 .. k PROVE f[n] \in MemberSet /\ f[n].ti = e
    <3>1. n - 1 \in Nat
      BY <2>1
    <3>2. (n - 1) * e.size \in Nat
      <4>1. \A a, b \in Nat : a * b \in Nat
        OBVIOUS
      <4> QED
        BY <2>1, <3>1, <4>1
    <3>3. f[n] = [name |-> ElementName(n - 1), off |-> (n - 1) * e.size, ti |-> e]
      OBVIOUS
    <3>4. ElementName(n - 1) \in Labels
      BY <3>1 DEF Labels
    <3> QED
      BY <2>1, <3>2, <3>3, <3>4 DEF MemberSet
  <2>4. f = [n \in 1 .. k |-> f[n]]
    OBVIOUS
  <2> HIDE DEF f
  <2>5. f \in [1 .. k -> MemberSet]
    BY <2>3, <2>4
  <2>6. f \in Seq(MemberSet) /\ Len(f) = k /\ DOMAIN f = 1 .. k
    BY <2>1, <2>5
  <2>7. f = <<>> <=> Len(f) = 0
    BY <2>6
  <2> QED
    BY <1>1, <2>1, <2>2, <2>3, <2>6, <2>7 DEF Slots, k
<1>2. CASE ti.type # "array"
  <2>1. Members(ti) = ti.fields
    BY <1>2 DEF Members
  <2>2. /\ ti.fields \in Seq([name : STRING, off : Nat, ti : Types])
    BY TypesAssumption
  <2>3. STRING \subseteq Labels
    BY DEF Labels
  <2> DEFINE s == ti.fields
             R == [name : STRING, off : Nat, ti : Types]
  <2>4. Len(s) \in Nat /\ DOMAIN s = 1 .. Len(s) /\ \A n \in 1 .. Len(s) : s[n] \in R
    <3>1. s \in Seq(R)
      BY <2>2
    <3> HIDE DEF s, R
    <3> QED
      BY <3>1, ItemOf
  <2>5. \A n \in 1 .. Len(s) : s[n] \in MemberSet
    BY <2>3, <2>4 DEF MemberSet
  <2>6. s \in Seq(MemberSet) /\ (s = <<>> <=> Len(s) = 0)
    <3>0. s \in Seq(R)
      BY <2>2
    <3> HIDE DEF s, R
    <3>1. s \in [1 .. Len(s) -> MemberSet]
      BY <2>4, <2>5, <3>0
    <3> QED
      BY <2>4, <3>0, <3>1
  <2>7. \A n \in 1 .. Len(s) : Nesting[s[n].ti] < Nesting[ti] /\ Nesting[s[n].ti] \in Nat
    BY TypeFacts
  <2> QED
    BY <1>2, <2>1, <2>4, <2>5, <2>6, <2>7 DEF Slots
<1> QED
  BY <1>1, <1>2

\* A part of a part of the symbol.
LEMMA InsideFacts ==
  ASSUME NEW x, x.ti \in Types, x.base \in Nat, NEW i \in Nat, i < Slots(x.ti)
  PROVE  /\ Inside(x, i).ti \in Types /\ Inside(x, i).base \in Nat /\ Inside(x, i).name \in Labels
         /\ x.ti.type = "array" =>
              Inside(x, i) = [ti |-> Element(x.ti), base |-> x.base + i * Element(x.ti).size,
                              name |-> ElementName(i)]
         /\ x.ti.type # "array" =>
              Inside(x, i) = [ti |-> x.ti.fields[i + 1].ti, base |-> x.base + x.ti.fields[i + 1].off,
                              name |-> x.ti.fields[i + 1].name]
<1> DEFINE m == Members(x.ti)[i + 1]
<1>1. i + 1 \in 1 .. Slots(x.ti)
  BY MembersOf
<1>2. m \in MemberSet
  BY <1>1, MembersOf
<1>3. Inside(x, i) = [ti |-> m.ti, base |-> x.base + m.off, name |-> m.name]
  BY DEF Inside
<1>4. x.ti.type = "array" => m = [name |-> ElementName(i), off |-> i * Element(x.ti).size, ti |-> Element(x.ti)]
  <2> SUFFICES ASSUME x.ti.type = "array"
               PROVE m = [name |-> ElementName(i), off |-> i * Element(x.ti).size, ti |-> Element(x.ti)]
    OBVIOUS
  <2>1. Slots(x.ti) = x.ti.total
    BY MembersOf
  <2>2. (i + 1) - 1 = i
    OBVIOUS
  <2> DEFINE j == i + 1
  <2>3. m = [name |-> ElementName(j - 1), off |-> (j - 1) * Element(x.ti).size, ti |-> Element(x.ti)]
    BY <1>1, <2>1 DEF Members
  <2> QED
    BY <2>2, <2>3
<1>5. x.ti.type # "array" => m = x.ti.fields[i + 1]
  BY DEF Members
<1> HIDE DEF m
<1>6. m.ti \in Types /\ m.off \in Nat /\ m.name \in Labels
  BY <1>2 DEF MemberSet
<1> QED
  BY <1>3, <1>4, <1>5, <1>6

\* The load gives a field no more children than it has members, and the
\* expansion the rest.
LEMMA ArityOf ==
  ASSUME Expandable, NEW ti \in Types
  PROVE  /\ Arity(ti) \in Nat /\ Arity(ti) <= Slots(ti)
         /\ ti.type # "array" => Arity(ti) = Slots(ti) /\ Slots(ti) = Len(ti.fields)
         /\ ArrayOfAggregates(ti) => Arity(ti) = 1 /\ ti.total > 0 /\ ~Flat(Element(ti))
         /\ ti.type = "array" /\ ~ArrayOfAggregates(ti) =>
              /\ Arity(ti) = 0 /\ (ti.total = 0 \/ Element(ti).size > 0)
              /\ Flat(Element(ti)) /\ Slots(Element(ti)) = 0 /\ Arity(Element(ti)) = 0
              /\ Element(ti).type \notin Aggregate \cup {"array"}
<1>1. Arity(ti) \in Nat /\ Arity(ti) = IF ti.type = "array" THEN Arity(ti) ELSE Len(ti.fields)
  BY ArityFacts
<1>2. ti.type # "array" => Slots(ti) = Len(ti.fields)
  BY MembersOf DEF Slots
<1>3. ti.type = "array" => ti.type \notin Aggregate
  BY DEF Aggregate
<1>4. CASE ti.type # "array"
  BY <1>1, <1>2, <1>4 DEF ArrayOfAggregates
<1>5. CASE ti.type = "array"
  <2>1. Arity(ti) = IF ArrayOfAggregates(ti) THEN 1 ELSE 0
    BY <1>3, <1>5 DEF Arity
  <2>2. /\ Element(ti).type # "array"
        /\ IF Element(ti).type \in Aggregate THEN ti.total > 0 /\ Element(ti).fields # <<>>
           ELSE ti.total = 0 \/ Element(ti).size > 0
    BY <1>5 DEF Expandable
  <2>3. Slots(ti) = ti.total /\ ti.total \in Nat /\ Slots(ti) \in Nat
    BY <1>5, MembersOf, ElementFacts
  <2>4. CASE ArrayOfAggregates(ti)
    <3>1. Element(ti).type \in Aggregate
      BY <2>4 DEF ArrayOfAggregates
    <3>2. ti.total > 0 /\ ~Flat(Element(ti))
      BY <2>2, <3>1 DEF Flat
    <3> QED
      BY <1>5, <2>1, <2>3, <2>4, <3>2
  <2>5. CASE ~ArrayOfAggregates(ti)
    <3>1. Element(ti).type \notin Aggregate \cup {"array"} /\ Element(ti) \in Types
      BY <1>5, <2>2, <2>5, ElementFacts DEF ArrayOfAggregates
    <3> PICK e \in Types : e = Element(ti)
      BY <3>1
    <3>2. Flat(e) /\ Len(e.fields) = 0 /\ Slots(e) = Len(e.fields) /\ Arity(e) = Len(e.fields)
      <4>1. Len(e.fields) = 0
        BY <3>1, TypeFacts
      <4>2. Slots(e) = Len(e.fields)
        BY <3>1, MembersOf DEF Slots
      <4>3. Arity(e) = Len(e.fields)
        BY <3>1, ArityFacts
      <4> QED
        BY <3>1, <4>1, <4>2, <4>3 DEF Flat
    <3>3. ti.total = 0 \/ e.size > 0
      BY <2>2, <3>1
    <3> QED
      BY <1>5, <2>1, <2>3, <2>5, <3>1, <3>2, <3>3
  <2> QED
    BY <2>4, <2>5
<1> QED
  BY <1>4, <1>5

-----------------------------------------------------------------------------
(* The loads.                                                              *)

\* The ghost of a tree whose field p has been given n children.
Grown(k, E, g, D, p, n, ty) ==
  /\ Placed(k, E, ty)
  /\ \A q \in D : k[q] = g[q]
  /\ \A i \in Nat : i < n => k[Append(p, i)] = Inside(g[p], i)

\* There is one, whatever the ghost was.
LEMMA Grows ==
  ASSUME NEW D, TreeOf(D), NEW p \in D, \A i \in Nat : Append(p, i) \notin D, NEW n \in Nat,
         NEW E, E = D \cup Offspring(p, n), NEW g, NEW ty, Placed(g, D, ty), n <= Slots(g[p].ti)
  PROVE  /\ \E k : Grown(k, E, g, D, p, n, ty)
         /\ Wide(E, p, n)
         /\ \A q \in D, m \in Nat : q # p /\ Wide(D, q, m) => Wide(E, q, m)
         /\ \A i \in Nat : i < n => Wide(E, Append(p, i), 0) /\ Append(p, i) \in E
<1> DEFINE k == [q \in E |-> IF q \in D THEN g[q] ELSE Inside(g[p], Last(q))]
<1>1. p \in Path /\ D \subseteq Path /\ Root \in D
  BY DEF TreeOf
<1>2. /\ \A q \in Offspring(p, n), j \in Nat : Append(q, j) \notin E
      /\ TreeOf(E)
  BY GrownTree
<1>3. /\ \A q \in Offspring(p, n) : \E i \in Nat : i < n /\ q = Append(p, i)
      /\ \A q \in Path, i \in Nat : Append(q, i) \in Offspring(p, n) <=> q = p /\ i < n
  BY <1>1, OffspringOf
<1>4. \A q \in D, i \in Nat : Append(q, i) \in E <=> Append(q, i) \in D \/ (q = p /\ i < n)
  BY <1>1, <1>3
<1>5. ASSUME NEW i \in Nat, i < n
      PROVE  Append(p, i) \in E /\ k[Append(p, i)] = Inside(g[p], i)
  <2>1. Append(p, i) \in E /\ Append(p, i) \notin D
    BY <1>4, <1>5
  <2>2. Last(Append(p, i)) = i
    BY <1>1, Extended
  <2> QED
    BY <2>1, <2>2
<1>6. \A q \in D : k[q] = g[q]
  OBVIOUS
<1> HIDE DEF k
<1>7. g[p].ti \in Types /\ g[p].base \in Nat /\ Slots(g[p].ti) \in Nat
  BY MembersOf DEF Placed
<1>8. ASSUME NEW q \in E PROVE k[q].ti \in Types /\ k[q].base \in Nat
  <2>1. CASE q \in D
    BY <1>6, <2>1 DEF Placed
  <2>2. CASE q \in Offspring(p, n)
    <3>1. PICK i \in Nat : i < n /\ q = Append(p, i)
      BY <1>3, <2>2
    <3>2. k[q] = Inside(g[p], i) /\ i < Slots(g[p].ti)
      BY <1>5, <1>7, <3>1
    <3> QED
      BY <1>7, <3>2, InsideFacts
  <2> QED
    BY <2>1, <2>2
<1>9. ASSUME NEW q \in E, NEW i \in Nat, Append(q, i) \in E
      PROVE  i < Slots(k[q].ti) /\ k[Append(q, i)] = Inside(k[q], i)
  <2>1. q \in D
    BY <1>2, <1>9
  <2>2. k[q] = g[q]
    BY <1>6, <2>1
  <2>3. CASE Append(q, i) \in D
    BY <1>6, <2>1, <2>2, <2>3 DEF Placed
  <2>4. CASE q = p /\ i < n
    BY <1>5, <1>7, <2>2, <2>4
  <2> QED
    BY <1>4, <1>9, <2>1, <2>3, <2>4
<1>10. Placed(k, E, ty)
  <2>1. k[Root] = Whole(ty)
    BY <1>1, <1>6 DEF Placed
  <2> QED
    BY <1>8, <1>9, <2>1 DEF Placed
<1>11. Wide(E, p, n)
  BY <1>4 DEF Wide
<1>12. \A q \in D, m \in Nat : q # p /\ Wide(D, q, m) => Wide(E, q, m)
  BY <1>4 DEF Wide
<1>13. \A i \in Nat : i < n => Wide(E, Append(p, i), 0)
  <2> SUFFICES ASSUME NEW i \in Nat, i < n, NEW j \in Nat
               PROVE  Append(Append(p, i), j) \in E <=> j < 0
    BY DEF Wide
  <2>1. Append(p, i) \in Offspring(p, n)
    BY <1>1, <1>3
  <2> QED
    BY <1>2, <2>1
<1> QED
  BY <1>5, <1>6, <1>10, <1>11, <1>12, <1>13 DEF Grown

\* A turn of the loop that stores what its item asked for.
LEMMA TurnLoads ==
  ASSUME Expandable, TreeOf(DOMAIN tree),
         NEW S, Routed(S), stack \in Seq(S), stack # <<>>,
         Live(PathsOf(stack), DOMAIN tree), Childless(stack, DOMAIN tree),
         NEW c \in Seq(S), Spread(c, Top.path), NEW f,
         NEW u, u = Stored(Top.path, f, Len(c)), NEW t, t = Rest \o Reverse(c),
         NEW g, LoadsAs(g, tree, stack, type),
         Holds(f, g[Top.path]), Len(c) = Arity(g[Top.path].ti),
         \A m \in 1 .. Len(c) : Asked(c[m], Inside(g[Top.path], m - 1), NewField)
  PROVE  \E k : LoadsAs(k, u, t, type)
<1> DEFINE D == DOMAIN tree
           p == Top.path
           n == Len(c)
           E == D \cup Offspring(p, n)
           r == Reverse(c)
<1>1. /\ r \in Seq(S) /\ Len(r) = n /\ n \in Nat
      /\ \A m \in 1 .. n : r[m] = c[n - m + 1] /\ n - m + 1 \in 1 .. n
  BY Reversed
<1>2. Top \in S /\ p \in D
  BY TopItem DEF D
<1>0. /\ Len(stack) \in Nat \ {0} /\ DOMAIN stack = 1 .. Len(stack)
      /\ stack[Len(stack)].path = p
  <2>1. Len(stack) \in Nat /\ DOMAIN stack = 1 .. Len(stack)
    BY ONLY stack \in Seq(S)
  <2>2. Len(stack) # 0 /\ Last(stack) = stack[Len(stack)]
    BY ONLY stack \in Seq(S), stack # <<>>, FrontLast
  <2> QED
    BY ONLY <2>1, <2>2 DEF Top
<1>3. D \subseteq Path /\ p \in Path
  BY <1>2 DEF TreeOf
<1>4. \A i \in Nat : Append(p, i) \notin D
  <2>1. Len(stack) \in DOMAIN stack /\ stack[Len(stack)].path = p
    BY <1>0
  <2> QED
    BY <2>1 DEF Childless, D
<1>5. Placed(g, D, type) /\ n <= Slots(g[p].ti) /\ g[p].ti \in Types /\ g[p].base \in Nat
      /\ Slots(g[p].ti) \in Nat
  <2>1. Placed(g, D, type)
    BY DEF LoadsAs
  <2>2. g[p].ti \in Types /\ g[p].base \in Nat
    BY <1>2, <2>1 DEF Placed
  <2> QED
    BY <2>1, <2>2, ArityOf, MembersOf
<1>6. TreeOf(D)
  BY DEF D
<1>e. E = D \cup Offspring(p, n) /\ n = Len(c)
  OBVIOUS
<1> HIDE DEF r, D, E, n, p
<1>17. PICK k : Grown(k, E, g, D, p, n, type)
  BY ONLY <1>e, <1>1, <1>2, <1>4, <1>5, <1>6, Grows
<1>7. /\ Placed(k, E, type) /\ \A q \in D : k[q] = g[q]
      /\ \A i \in Nat : i < n => k[Append(p, i)] = Inside(g[p], i)
  BY ONLY <1>17 DEF Grown
<1>8. /\ Wide(E, p, n)
      /\ \A q \in D, m \in Nat : q # p /\ Wide(D, q, m) => Wide(E, q, m)
  BY ONLY <1>e, <1>1, <1>2, <1>4, <1>5, <1>6, Grows
<1>9. DOMAIN u = E
  <2>1. DOMAIN u = D \cup {p} \cup Offspring(p, n)
    BY <1>e, StoredDomain DEF D, p
  <2> QED
    BY <1>2, <1>e, <2>1
<1>10. /\ u[p] = f
       /\ \A q \in D : q # p => u[q] = tree[q]
       /\ \A i \in Nat : i < n => u[Append(p, i)] = NewField
  <2>1. /\ \A q \in Offspring(p, n) : q # p
        /\ \A q \in Offspring(p, n) : \E i \in Nat : i < n /\ q = Append(p, i)
        /\ \A i \in Nat : i < n => Append(p, i) \in Offspring(p, n)
    BY ONLY <1>1, <1>3, OffspringOf
  <2>2. \A q \in D : q \notin Offspring(p, n)
    BY <1>4, <2>1
  <2> QED
    BY <1>e, <2>1, <2>2, StoredField, StoredChild, StoredElsewhere DEF D, p
<1>11. /\ t \in Seq(S) /\ Len(stack) - 1 \in Nat /\ Len(t) = Len(stack) - 1 + n
       /\ \A m \in 1 .. Len(stack) - 1 : t[m] = stack[m]
       /\ \A m \in 1 .. n : t[Len(stack) - 1 + m] = r[m]
  <2>1. t = Front(stack) \o r /\ stack \in Seq(S) /\ stack # <<>>
    BY DEF Rest, r
  <2>2. PICK s, more, w : s = stack /\ more = r /\ w = t
    OBVIOUS
  <2>3. s \in Seq(S) /\ s # <<>> /\ more \in Seq(S) /\ w = Front(s) \o more
    BY <1>1, <2>1, <2>2
  <2>4. /\ w \in Seq(S) /\ Len(s) - 1 \in Nat /\ Len(w) = Len(s) - 1 + Len(more)
        /\ \A m \in 1 .. Len(s) - 1 : w[m] = s[m]
        /\ \A m \in 1 .. Len(more) : w[Len(s) - 1 + m] = more[m]
    <3>1. w \in Seq(S) /\ Len(s) - 1 \in Nat
      BY ONLY <2>3, Replaced
    <3>2. Len(w) = Len(s) - 1 + Len(more)
      BY ONLY <2>3, Replaced
    <3>3. \A m \in 1 .. Len(s) - 1 : w[m] = s[m]
      BY ONLY <2>3, Replaced
    <3>4. \A m \in 1 .. Len(more) : w[Len(s) - 1 + m] = more[m]
      BY ONLY <2>3, Replaced
    <3> QED
      BY ONLY <3>1, <3>2, <3>3, <3>4
  <2> QED
    BY ONLY <1>1, <2>2, <2>4
<1>12. \A m \in 1 .. Len(stack) - 1 : /\ m \in DOMAIN stack /\ stack[m].path # p
                                      /\ stack[m].path \in D
  <2> TAKE m \in 1 .. Len(stack) - 1
  <2>1. m \in DOMAIN stack /\ Len(stack) \in DOMAIN stack /\ m # Len(stack)
    <3> DEFINE l == Len(stack)
    <3>1. l \in Nat \ {0} /\ DOMAIN stack = 1 .. l /\ m \in 1 .. l - 1
      BY <1>0
    <3> HIDE DEF l
    <3>2. m \in 1 .. l /\ l \in 1 .. l /\ m # l
      BY ONLY <3>1
    <3> QED
      BY <3>1, <3>2 DEF l
  <2>2. stack[Len(stack)].path = p
    BY <1>0
  <2>3. /\ PathsOf(stack)[m] = stack[m].path /\ PathsOf(stack)[Len(stack)] = p
        /\ DOMAIN PathsOf(stack) = DOMAIN stack
    BY <2>1, <2>2 DEF PathsOf
  <2>4. stack[m].path \in D
    BY <2>1, <2>3 DEF Live, D
  <2>5. stack[m].path # p
    <3>1. IsPrefix(p, p)
      BY <1>3, PrefixOrder
    <3> QED
      BY <2>1, <2>3, <3>1 DEF Live
  <2> QED
    BY <2>1, <2>4, <2>5
<1>13. \A m \in 1 .. n : Pointed(t, Append(p, m - 1))
  <2> TAKE m \in 1 .. n
  <2> DEFINE l == n - m + 1
  <2>1. l \in 1 .. n /\ n - l + 1 = m
    BY <1>1
  <2> HIDE DEF l
  <2>2. r[l] = c[m]
    BY <1>1, <2>1
  <2>3. t[Len(stack) - 1 + l] = c[m] /\ Len(stack) - 1 + l \in DOMAIN t
    <3>1. Len(stack) - 1 + l \in 1 .. Len(t)
      BY ONLY <1>0, <1>1, <1>11, <2>1
    <3>2. DOMAIN t = 1 .. Len(t)
      BY ONLY <1>11
    <3> QED
      BY ONLY <1>11, <2>1, <2>2, <3>1, <3>2
  <2>4. c[m].path = Append(p, m - 1)
    BY <1>e DEF Spread, p
  <2> QED
    BY <2>3, <2>4 DEF Pointed
<1>14. ASSUME NEW q \in D, q # p, Pointed(stack, q) PROVE Pointed(t, q)
  <2>1. PICK m \in DOMAIN stack : stack[m].path = q
    BY <1>14 DEF Pointed
  <2>2. m \in 1 .. Len(stack) - 1
    <3>1. m # Len(stack) /\ m \in 1 .. Len(stack)
      BY <1>0, <1>14, <2>1
    <3> QED
      BY ONLY <1>0, <3>1
  <2>3. m \in DOMAIN t /\ t[m] = stack[m]
    <3>1. DOMAIN t = 1 .. Len(t) /\ m \in 1 .. Len(t)
      BY ONLY <1>0, <1>1, <1>11, <2>2
    <3> QED
      BY ONLY <1>11, <2>2, <3>1
  <2> QED
    BY <2>1, <2>3 DEF Pointed
<1>15. ASSUME NEW q \in E
       PROVE  Pointed(t, q) \/ (Holds(u[q], k[q]) /\ Wide(E, q, Arity(k[q].ti)))
  <2>1. CASE q = p
    <3>1. u[q] = f /\ k[q] = g[p] /\ Arity(k[q].ti) = n /\ Holds(f, g[p])
      BY <1>e, <1>2, <1>7, <1>10, <2>1 DEF p
    <3> QED
      BY <1>8, <2>1, <3>1
  <2>2. CASE q \in D /\ q # p
    <3>1. u[q] = tree[q] /\ k[q] = g[q]
      BY <1>7, <1>10, <2>2
    <3>2. Pointed(stack, q) \/ (Holds(tree[q], g[q]) /\ Wide(D, q, Arity(g[q].ti)))
      BY <2>2 DEF LoadsAs, D
    <3>3. Arity(g[q].ti) \in Nat
      BY <1>5, <2>2, ArityOf DEF Placed
    <3> QED
      BY <1>8, <1>14, <2>2, <3>1, <3>2, <3>3
  <2>3. CASE q \in Offspring(p, n)
    <3>1. PICK i \in Nat : i < n /\ q = Append(p, i)
      BY ONLY <1>1, <1>3, <2>3, OffspringOf
    <3>2. i + 1 \in 1 .. n /\ (i + 1) - 1 = i
      BY <1>1, <3>1
    <3>3. Pointed(t, Append(p, (i + 1) - 1))
      BY <1>13, <3>2
    <3> QED
      BY <3>1, <3>2, <3>3
  <2> QED
    BY <1>e, <2>1, <2>2, <2>3
<1>16. ASSUME NEW m \in DOMAIN t PROVE Asked(t[m], k[t[m].path], u[t[m].path])
  <2>1. CASE m \in 1 .. Len(stack) - 1
    <3>1. /\ t[m] = stack[m] /\ k[t[m].path] = g[stack[m].path]
          /\ u[t[m].path] = tree[stack[m].path] /\ m \in DOMAIN stack
      BY <1>7, <1>10, <1>11, <1>12, <2>1
    <3> QED
      BY <3>1 DEF LoadsAs
  <2>2. CASE m > Len(stack) - 1
    <3> DEFINE a == m - (Len(stack) - 1)
               l == n - a + 1
    <3>1. a \in 1 .. n /\ Len(stack) - 1 + a = m
      BY <1>1, <1>11, <2>2
    <3>2. t[m] = c[l] /\ l \in 1 .. n
      <4>1. r[a] = c[n - a + 1] /\ n - a + 1 \in 1 .. n /\ t[Len(stack) - 1 + a] = r[a]
        BY <1>1, <1>11, <3>1
      <4> QED
        BY <3>1, <4>1
    <3> HIDE DEF l
    <3>3. l - 1 \in Nat /\ l - 1 < n
      BY <1>1, <3>2
    <3>4. t[m].path = Append(p, l - 1)
      BY <1>e, <3>2 DEF Spread, p
    <3>5. k[t[m].path] = Inside(g[p], l - 1) /\ u[t[m].path] = NewField
      BY <1>7, <1>10, <3>3, <3>4
    <3>6. Asked(c[l], Inside(g[p], l - 1), NewField)
      BY <1>e, <3>2 DEF p
    <3> QED
      BY <3>2, <3>5, <3>6
  <2>3. m \in 1 .. Len(t)
    BY <1>11
  <2> QED
    BY <1>11, <2>1, <2>2, <2>3
<1> QED
  BY <1>7, <1>9, <1>15, <1>16 DEF LoadsAs

\* The kind of a struct or union is that.
LEMMA AggregateKind ==
  ASSUME NEW name \in Aggregate
  PROVE  ParseFieldType(name) \in Aggregate
<1>1. name = "struct" \/ name = "union"
  BY DEF Aggregate
<1>2. ParseFieldType("struct") = "struct" /\ ParseFieldType("union") = "union"
  BY DEF ParseFieldType
<1> QED
  BY <1>1, <1>2 DEF Aggregate

\* What type_info_to_dartt_field stores of a type.
LEMMA ConvertHolds ==
  ASSUME NEW f, FieldOK(f), NEW x, x.ti \in Types, Flat(x.ti) => f.off = x.base /\ f.name = x.name
  PROVE  Holds(WithType(f, x.ti), x)
<1> DEFINE ti == x.ti
           h == WithType(f, ti)
<1>1. /\ h.nbytes = ti.size /\ h.off = f.off /\ h.name = f.name
      /\ h.total = IF ti.type = "array" THEN ti.total ELSE 0
      /\ ti.type = "array" => h.elementBytes = Element(ti).size
      /\ ti.type # "array" => h.kind = ParseFieldType(ti.type)
  BY DEF WithType, FieldOK
<1>2. ti.type \in Aggregate => h.kind \in Aggregate
  <2>1. ti.type \in Aggregate => ti.type # "array"
    BY DEF Aggregate
  <2> QED
    BY <1>1, <2>1, AggregateKind
<1> HIDE DEF h
<1> QED
  BY <1>1, <1>2 DEF Holds, h

\* A turn of type_info_to_dartt_field keeps the ghost.
LEMMA ConvertLoads ==
  ASSUME Expandable, Waiting, ConvertStep, NEW g, LoadsAs(g, tree, stack, type)
  PROVE  \E k : LoadsAs(k, tree', stack', type')
<1> DEFINE ti == Top.ti
           p  == Top.path
           x  == g[p]
           c  == ConvertWork
           F  == ConvertField
<1>1. /\ stack # <<>> /\ type' = type /\ stack \in Seq(ConvertItem)
      /\ Live(PathsOf(stack), DOMAIN tree) /\ TreeOf(DOMAIN tree) /\ Childless(stack, DOMAIN tree)
      /\ ti \in Types /\ p \in Path /\ Top.base \in Nat /\ p \in DOMAIN tree /\ Top \in ConvertItem
      /\ tree' = Stored(p, F, Arity(ti)) /\ stack' = Rest \o Reverse(c) /\ FieldOK(tree[p])
      /\ c \in Seq(ConvertItem) /\ Len(c) = Arity(ti) /\ Spread(c, p)
  BY ConvertTurn
<1>2. Asked(Top, x, tree[p]) /\ Placed(g, DOMAIN tree, type)
  <2>1. Len(stack) \in DOMAIN stack /\ Top = stack[Len(stack)]
    <3>1. Len(stack) \in Nat /\ DOMAIN stack = 1 .. Len(stack)
      BY ONLY <1>1
    <3>2. Len(stack) # 0 /\ Last(stack) = stack[Len(stack)]
      BY ONLY <1>1, FrontLast
    <3> QED
      BY <3>1, <3>2 DEF Top
  <2> QED
    BY <2>1 DEF LoadsAs
<1>3. /\ ti = x.ti /\ Top.base = x.base /\ x.base \in Nat
      /\ Flat(ti) => x.name = IF Top.member THEN Top.name ELSE tree[p].name
  <2>1. "ti" \in DOMAIN Top
    BY <1>1 DEF ConvertItem
  <2>2. Placed(g, DOMAIN tree, type) => x.base \in Nat
    BY <1>1 DEF Placed
  <2> QED
    BY <1>2, <2>1, <2>2 DEF Asked
<1>4. Holds(F, x)
  <2> DEFINE f == [tree[p] EXCEPT !.off = Top.base, !.name = IF Top.member THEN Top.name ELSE @]
  <2>1. FieldOK(f) /\ f.off = Top.base /\ f.name = IF Top.member THEN Top.name ELSE tree[p].name
    BY <1>1 DEF FieldOK
  <2>2. F = WithType(f, x.ti)
    BY <1>3 DEF ConvertField
  <2> HIDE DEF f, F
  <2>3. Holds(WithType(f, x.ti), x)
    BY <1>1, <1>3, <2>1, ConvertHolds
  <2> QED
    BY <2>2, <2>3
<1>5. ASSUME NEW m \in 1 .. Len(c) PROVE Asked(c[m], Inside(x, m - 1), NewField)
  <2> DEFINE y == Inside(x, m - 1)
  <2>1. /\ Arity(ti) \in Nat /\ Arity(ti) <= Slots(ti) /\ Slots(ti) \in Nat
        /\ ArrayOfAggregates(ti) => Arity(ti) = 1 /\ ~Flat(Element(ti))
        /\ ti.type = "array" /\ ~ArrayOfAggregates(ti) => Arity(ti) = 0
    BY <1>1, ArityOf, MembersOf
  <2>2. m \in 1 .. Arity(ti) /\ m - 1 \in Nat /\ m - 1 < Slots(ti) /\ m - 1 + 1 = m
    BY <1>1, <2>1
  <2>3. c[m] = [ti |-> ti.fields[m].ti, member |-> ti.type # "array",
                name |-> ti.fields[m].name, path |-> Append(p, m - 1),
                base |-> Top.base + ti.fields[m].off]
    BY <2>2 DEF ConvertWork
  <2>4. /\ ti.type = "array" =>
             y = [ti |-> Element(ti), base |-> x.base + (m - 1) * Element(ti).size,
                  name |-> ElementName(m - 1)]
        /\ ti.type # "array" =>
             y = [ti |-> ti.fields[m - 1 + 1].ti, base |-> x.base + ti.fields[m - 1 + 1].off,
                  name |-> ti.fields[m - 1 + 1].name]
    <3> HIDE DEF x, ti
    <3> QED
      BY <1>1, <1>3, <2>2, InsideFacts
  <2> HIDE DEF c, y, x, ti
  <2>5. CASE ti.type # "array"
    <3>1. y = [ti |-> ti.fields[m].ti, base |-> x.base + ti.fields[m].off,
               name |-> ti.fields[m].name]
      BY <2>2, <2>4, <2>5
    <3>2. /\ "ti" \in DOMAIN c[m] /\ c[m].ti = y.ti /\ c[m].base = y.base
          /\ c[m].name = y.name
      BY <1>3, <2>3, <3>1
    <3>3. c[m].member
      <4>1. c[m].member = (ti.type # "array")
        BY <2>3
      <4> QED
        BY <2>5, <4>1, Zenon
    <3> QED
      BY <3>2, <3>3 DEF Asked, y
  <2>6. CASE ti.type = "array"
    <3>1. m = 1 /\ ~Flat(Element(ti))
      BY <2>1, <2>2, <2>6
    <3>2. Element(ti).size \in Nat
      BY <1>1, <2>6, ElementFacts
    <3>3. (m - 1) * Element(ti).size = 0
      BY <3>1, <3>2
    <3>4. y.ti = Element(ti) /\ y.base = x.base
      BY <1>3, <2>4, <2>6, <3>3
    <3>5. ti.fields[m].ti = Element(ti) /\ ti.fields[m].off = 0
      <4>1. ti.fields[1].off = 0
        BY <1>1, <2>6, TypeFacts
      <4> QED
        BY <3>1, <4>1 DEF Element
    <3>6. c[m].ti = y.ti /\ c[m].base = y.base /\ "ti" \in DOMAIN c[m]
      BY <1>3, <2>3, <3>4, <3>5
    <3> QED
      BY <3>1, <3>4, <3>6 DEF Asked, y
  <2> QED
    BY <2>5, <2>6 DEF y, c, x
<1> HIDE DEF c, F
<1>6. tree' = Stored(p, F, Len(c)) /\ Len(c) = Arity(g[p].ti)
  BY <1>1, <1>3
<1> QED
  BY <1>1, <1>4, <1>5, <1>6, ItemPaths, TurnLoads

\* No item of the JSON parser has a type.
LEMMA ParseShape == \A x \in ParseItem : "ti" \notin DOMAIN x
<1> SUFFICES ASSUME NEW x \in ParseItem PROVE "ti" \notin DOMAIN x
  OBVIOUS
<1>1. DOMAIN x = {"json", "is_type_info", "path"}
  BY DEF ParseItem
<1>2. "ti" \notin {"json", "is_type_info", "path"}
  OBVIOUS
<1> QED
  BY <1>1, <1>2

\* The item on top asks for what the ghost has for its path.
LEMMA TopAsked ==
  ASSUME NEW S, stack \in Seq(S), stack # <<>>, NEW g, LoadsAs(g, tree, stack, type)
  PROVE  /\ Asked(Top, g[Top.path], tree[Top.path]) /\ Placed(g, DOMAIN tree, type)
         /\ Len(stack) \in DOMAIN stack /\ Top = stack[Len(stack)]
<1>1. Len(stack) \in Nat /\ DOMAIN stack = 1 .. Len(stack)
  BY ONLY stack \in Seq(S)
<1>2. Len(stack) # 0 /\ Last(stack) = stack[Len(stack)]
  BY ONLY stack \in Seq(S), stack # <<>>, FrontLast
<1>3. Len(stack) \in DOMAIN stack /\ Top = stack[Len(stack)]
  BY <1>1, <1>2 DEF Top
<1> QED
  BY <1>3 DEF LoadsAs

\* A member of an object names its field and gives its type.
LEMMA ParseFieldLoads ==
  ASSUME Waiting, ParseField, NEW g, LoadsAs(g, tree, stack, type)
  PROVE  LoadsAs(g, tree', stack', type')
<1> DEFINE p == Top.path
           x == [json |-> Top.json.type_info, is_type_info |-> TRUE, path |-> p]
           u == [tree EXCEPT ![p].name = Top.json.name, ![p].off = Top.json.byte_offset]
<1>1. /\ phase = "parse" /\ stack # <<>> /\ type' = type
      /\ stack \in Seq(ParseItem) /\ Live(PathsOf(stack), DOMAIN tree)
      /\ TreeOf(DOMAIN tree) /\ FieldsOK(tree)
      /\ ~Top.is_type_info /\ tree' = u /\ stack' = Append(Front(stack), x)
  BY DEF ParseField, Loading, Waiting, Pointers, Rest
<1>2. Top \in ParseItem /\ p \in DOMAIN tree
  BY <1>1, ItemPaths, TopItem
<1>3. Top.json \in [name : STRING, byte_offset : Nat, type_info : Loaded] /\ p \in Path
  BY <1>1, <1>2 DEF ParseItem
<1>4. x \in ParseItem /\ x.path = p
  BY <1>3 DEF ParseItem
<1>5. /\ Asked(Top, g[p], tree[p]) /\ Placed(g, DOMAIN tree, type)
      /\ Len(stack) \in DOMAIN stack /\ Top = stack[Len(stack)]
  BY <1>1, TopAsked
<1>6. Top.json = [name |-> g[p].name, byte_offset |-> g[p].base,
                  type_info |-> Absolute[ToJson[g[p].ti]][g[p].base]]
  <2>1. "ti" \notin DOMAIN Top
    BY <1>2, ParseShape
  <2> QED
    BY <1>1, <1>5, <2>1 DEF Asked
<1>7. /\ DOMAIN u = DOMAIN tree /\ u[p].name = g[p].name /\ u[p].off = g[p].base
      /\ \A q \in DOMAIN tree : q # p => u[q] = tree[q]
  <2>1. u[p] = [tree[p] EXCEPT !.name = Top.json.name, !.off = Top.json.byte_offset]
    BY <1>2
  <2>2. FieldOK(tree[p])
    BY <1>1, <1>2 DEF FieldsOK
  <2>3. DOMAIN u = DOMAIN tree /\ \A q \in DOMAIN tree : q # p => u[q] = tree[q]
    OBVIOUS
  <2> HIDE DEF u
  <2>4. u[p].name = Top.json.name /\ u[p].off = Top.json.byte_offset
    BY <2>1, <2>2 DEF FieldOK
  <2> QED
    BY <1>6, <2>3, <2>4
<1>8. Asked(x, g[p], u[p])
  <2>1. "ti" \notin DOMAIN x /\ x.is_type_info /\ x.json = Top.json.type_info
    OBVIOUS
  <2>2. x.json = Absolute[ToJson[g[p].ti]][g[p].base]
    BY <1>6, <2>1
  <2> HIDE DEF x, u
  <2> QED
    BY <1>7, <2>1, <2>2 DEF Asked
<1> HIDE DEF x, u
<1>9. PathsOf(stack') = PathsOf(stack) /\ stack' \in Seq(ParseItem)
  <2>1. x.path = Last(stack).path
    BY <1>4 DEF Top
  <2> QED
    BY <1>1, <1>4, <2>1, ItemPaths, ReplacedTop DEF Routed
<1>10. \A n \in DOMAIN stack : n \in DOMAIN stack' /\ stack'[n].path = stack[n].path
  <2> SUFFICES ASSUME NEW n \in DOMAIN stack
               PROVE n \in DOMAIN stack' /\ stack'[n].path = stack[n].path
    OBVIOUS
  <2>1. n \in DOMAIN PathsOf(stack) /\ stack[n].path = PathsOf(stack)[n]
    BY DEF PathsOf
  <2> QED
    BY <1>9, <2>1 DEF PathsOf
<1>11. ASSUME NEW q \in DOMAIN u
       PROVE  Pointed(stack', q) \/ (Holds(u[q], g[q]) /\ Wide(DOMAIN u, q, Arity(g[q].ti)))
  <2>1. CASE q = p
    BY <1>5, <1>10, <2>1 DEF Pointed
  <2>2. CASE q # p
    <3>1. Pointed(stack, q) \/ (Holds(tree[q], g[q]) /\ Wide(DOMAIN tree, q, Arity(g[q].ti)))
      BY <1>7 DEF LoadsAs
    <3>2. Pointed(stack, q) => Pointed(stack', q)
      BY <1>10 DEF Pointed
    <3> QED
      BY <1>7, <2>2, <3>1, <3>2
  <2> QED
    BY <2>1, <2>2
<1>12. ASSUME NEW n \in DOMAIN stack' PROVE Asked(stack'[n], g[stack'[n].path], u[stack'[n].path])
  <2>1. PICK s : s = stack
    OBVIOUS
  <2>2. /\ Len(s) \in Nat \ {0} /\ Front(s) \in Seq(ParseItem) /\ Len(Front(s)) = Len(s) - 1
        /\ \A m \in 1 .. Len(s) - 1 : Front(s)[m] = s[m]
    BY <1>1, <2>1, FrontLast
  <2> DEFINE f == Front(s)
  <2>3. f \in Seq(ParseItem) /\ stack' = Append(f, x) /\ n \in DOMAIN Append(f, x) /\ Len(f) = Len(s) - 1
    BY <1>1, <1>12, <2>1, <2>2
  <2> HIDE DEF f
  <2>4. n \in 1 .. Len(s) /\ (n = Len(s) => Append(f, x)[n] = x)
        /\ (n # Len(s) => Append(f, x)[n] = f[n])
    BY <1>4, <2>2, <2>3
  <2>5. CASE n = Len(s)
    BY <1>4, <1>8, <2>3, <2>4, <2>5
  <2>6. CASE n # Len(s)
    <3>1. stack'[n] = stack[n] /\ n \in DOMAIN stack
      <4>1. n \in 1 .. Len(s) - 1
        BY <2>2, <2>4, <2>6
      <4>2. f[n] = s[n] /\ n \in DOMAIN s
        <5>1. DOMAIN s = 1 .. Len(s)
          BY <1>1, <2>1
        <5> QED
          BY <2>2, <4>1, <5>1 DEF f
      <4> QED
        BY <2>1, <2>3, <2>4, <2>6, <4>2
    <3>2. /\ PathsOf(stack)[n] = stack[n].path /\ PathsOf(stack)[Len(stack)] = p
          /\ n \in DOMAIN PathsOf(stack) /\ Len(stack) \in DOMAIN PathsOf(stack)
      BY <1>5, <3>1 DEF PathsOf
    <3>3. stack[n].path # p /\ stack[n].path \in DOMAIN tree
      <4>1. IsPrefix(p, p) /\ n # Len(stack)
        BY <1>3, <2>1, <2>6, PrefixOrder
      <4> HIDE DEF p
      <4> QED
        BY <1>1, <3>2, <4>1 DEF Live
    <3>4. Asked(stack[n], g[stack[n].path], tree[stack[n].path])
      BY <3>1 DEF LoadsAs
    <3> QED
      BY <1>7, <3>1, <3>3, <3>4
  <2> QED
    BY <2>5, <2>6
<1>13. Placed(g, DOMAIN u, type)
  BY <1>5, <1>7
<1> QED
  BY <1>1, <1>11, <1>12, <1>13 DEF LoadsAs

\* A turn of parse_fields_iterative on a type keeps the ghost.
LEMMA ParseTypeLoads ==
  ASSUME Expandable, Waiting, ParseType, NEW g, LoadsAs(g, tree, stack, type)
  PROVE  \E k : LoadsAs(k, tree', stack', type')
<1> DEFINE p == Top.path
           c == ParseWork
           f == ParseStored
<1>1. /\ stack # <<>> /\ type' = type /\ stack \in Seq(ParseItem)
      /\ Live(PathsOf(stack), DOMAIN tree) /\ TreeOf(DOMAIN tree) /\ Childless(stack, DOMAIN tree)
      /\ Top.is_type_info /\ tree' = Stored(p, f, Len(c)) /\ stack' = Rest \o Reverse(c)
      /\ Top \in ParseItem /\ p \in DOMAIN tree /\ p \in Path /\ FieldOK(tree[p])
  BY ParseTurn
<1>2. Asked(Top, g[p], tree[p]) /\ Placed(g, DOMAIN tree, type)
  BY <1>1, TopAsked
<1>x. PICK x : x = g[p]
  OBVIOUS
<1>t. PICK ti : ti = x.ti
  OBVIOUS
<1>3. ti \in Types /\ x.base \in Nat
  BY <1>1, <1>2, <1>x, <1>t DEF Placed
<1>4. /\ Top.json = Absolute[ToJson[ti]][x.base]
      /\ Flat(ti) => tree[p].off = x.base /\ tree[p].name = x.name
  <2>1. "ti" \notin DOMAIN Top
    BY <1>1, ParseShape
  <2> QED
    BY <1>1, <1>2, <1>x, <1>t, <2>1 DEF Asked
<1>5. /\ f.nbytes = ti.size /\ f.kind = ParseFieldType(ti.type)
      /\ f.total = IF ti.type = "array" THEN ti.total ELSE 0
      /\ ti.type = "array" => f.elementBytes = Element(ti).size
      /\ f.off = tree[p].off /\ f.name = tree[p].name
  BY <1>1, <1>3, <1>4, ParseTypeField
<1>6. /\ c \in Seq(ParseItem) /\ Spread(c, p) /\ Len(c) = Arity(ti)
      /\ ti.type \in Aggregate => MembersAsked(ti, x.base)
      /\ ArrayOfAggregates(ti) => c[1].is_type_info /\ c[1].json = Absolute[ToJson[Element(ti)]][x.base]
  BY <1>1, <1>3, <1>4, ParseItems
<1>7. Holds(f, g[p])
  <2>1. ti.type \in Aggregate => f.kind \in Aggregate
    BY <1>5, AggregateKind
  <2> HIDE DEF f
  <2>2. Holds(f, x)
    BY <1>t, <1>4, <1>5, <2>1 DEF Holds
  <2> QED
    BY <1>x, <2>2
<1>8. ASSUME NEW m \in 1 .. Len(c) PROVE Asked(c[m], Inside(g[p], m - 1), NewField)
  <2>y. PICK y : y = Inside(x, m - 1)
    OBVIOUS
  <2>1. /\ Arity(ti) \in Nat /\ Arity(ti) <= Slots(ti) /\ Slots(ti) \in Nat
        /\ ArrayOfAggregates(ti) => ~Flat(Element(ti))
    BY <1>3, ArityOf, MembersOf
  <2>2. m \in 1 .. Arity(ti) /\ m - 1 \in Nat /\ m - 1 < Slots(ti) /\ m - 1 + 1 = m
    BY <1>6, <2>1
  <2>3. "ti" \notin DOMAIN c[m]
    <3>1. c[m] \in ParseItem
      BY <1>6
    <3> QED
      BY <3>1, ParseShape
  <2>4. /\ ti.type = "array" =>
             y = [ti |-> Element(ti), base |-> x.base + (m - 1) * Element(ti).size,
                  name |-> ElementName(m - 1)]
        /\ ti.type # "array" =>
             y = [ti |-> ti.fields[m - 1 + 1].ti, base |-> x.base + ti.fields[m - 1 + 1].off,
                  name |-> ti.fields[m - 1 + 1].name]
    BY <1>t, <1>3, <2>2, <2>y, InsideFacts
  <2> HIDE DEF c
  <2>5. CASE ti.type \in Aggregate
    <3>1. ti.type # "array"
      BY <2>5 DEF Aggregate
    <3>2. y = [ti |-> ti.fields[m].ti, base |-> x.base + ti.fields[m].off, name |-> ti.fields[m].name]
      BY <2>2, <2>4, <3>1
    <3>3. /\ ~c[m].is_type_info
          /\ c[m].json = [name |-> ti.fields[m].name, byte_offset |-> x.base + ti.fields[m].off,
                          type_info |-> Absolute[ToJson[ti.fields[m].ti]][x.base + ti.fields[m].off]]
      BY <1>6, <2>5 DEF MembersAsked, c
    <3>4. y.ti = ti.fields[m].ti /\ y.base = x.base + ti.fields[m].off /\ y.name = ti.fields[m].name
      BY <3>2
    <3>5. c[m].json = [name |-> y.name, byte_offset |-> y.base,
                       type_info |-> Absolute[ToJson[y.ti]][y.base]]
      BY ONLY <3>3, <3>4
    <3>6. Asked(c[m], y, NewField)
      BY ONLY <2>3, <3>3, <3>5 DEF Asked
    <3> QED
      BY <1>x, <2>y, <3>6 DEF c
  <2>6. CASE ArrayOfAggregates(ti)
    <3>1. m = 1 /\ ~Flat(Element(ti)) /\ ti.type = "array" /\ Element(ti).size \in Nat
      BY <1>3, <2>1, <2>2, <2>6, ElementFacts, ArityOf DEF ArrayOfAggregates
    <3>2. (m - 1) * Element(ti).size = 0
      BY <3>1
    <3>3. y.ti = Element(ti) /\ y.base = x.base
      BY <1>3, <2>4, <3>1, <3>2
    <3>4. c[m].is_type_info /\ c[m].json = Absolute[ToJson[y.ti]][y.base] /\ ~Flat(y.ti)
      BY <1>6, <2>6, <3>1, <3>3 DEF c
    <3>5. Asked(c[m], y, NewField)
      BY ONLY <2>3, <3>4 DEF Asked
    <3> QED
      BY <1>x, <2>y, <3>5 DEF c
  <2>7. CASE ti.type \notin Aggregate /\ ~ArrayOfAggregates(ti)
    BY <2>2, <2>7 DEF Arity
  <2> QED
    BY <2>5, <2>6, <2>7
<1> HIDE DEF c, f
<1>9. Len(c) = Arity(g[p].ti)
  BY <1>x, <1>t, <1>6
<1> QED
  BY <1>1, <1>6, <1>7, <1>8, <1>9, ItemPaths, TurnLoads

\* The root alone stands for the symbol.
LEMMA RootPlaced ==
  ASSUME NEW ty \in Types
  PROVE  \E g : Placed(g, {Root}, ty) /\ g[Root] = Whole(ty)
<1> DEFINE g == [q \in {Root} |-> Whole(ty)]
<1>1. g[Root] = Whole(ty) /\ \A q \in {Root} : q = Root
  OBVIOUS
<1> HIDE DEF g
<1>2. Whole(ty).ti = ty /\ Whole(ty).base = 0
  BY DEF Whole
<1>3. Placed(g, {Root}, ty)
  BY <1>1, <1>2, RootTree DEF Placed
<1> QED
  BY <1>1, <1>3

\* Either load starts by asking for the symbol.
LEMMA DropLoads ==
  ASSUME type \in Types, DropElf \/ DropJson
  PROVE  \E g : LoadsAs(g, tree', stack', type')
<1>1. PICK g : Placed(g, {Root}, type) /\ g[Root] = Whole(type)
  BY RootPlaced
<1> DEFINE u == tree'
           s == stack'
           f == [NewField EXCEPT !.name = "symbol"]
<1>2. u = [p \in {Root} |-> f] /\ type' = type
  BY DEF DropElf, DropJson, Forget
<1>3. DOMAIN u = {Root} /\ u[Root] = f
  BY <1>2
<1>4. f.name = "symbol" /\ f.off = 0
  BY DEF NewField
<1>w. g[Root].ti = type /\ g[Root].base = 0 /\ g[Root].name = "symbol"
  BY <1>1 DEF Whole
<1> HIDE DEF u, f
<1>5. PICK x : s = <<x>> /\ x.path = Root /\ Asked(x, g[Root], u[Root])
  <2>1. CASE DropElf
    <3> DEFINE x == [ti |-> type, member |-> FALSE, name |-> "", path |-> Root, base |-> 0]
    <3>1. s = <<x>>
      BY <2>1 DEF DropElf
    <3>2. "ti" \in DOMAIN x /\ x.ti = type /\ x.base = 0 /\ ~x.member /\ x.path = Root
      OBVIOUS
    <3> HIDE DEF x
    <3>3. Asked(x, g[Root], u[Root])
      BY <1>3, <1>4, <1>w, <3>2 DEF Asked
    <3> QED
      BY <3>1, <3>2, <3>3
  <2>2. CASE DropJson
    <3> DEFINE x == [json |-> Absolute[ToJson[type]][0], is_type_info |-> TRUE, path |-> Root]
    <3>1. s = <<x>>
      BY <2>2 DEF DropJson
    <3>2. "ti" \notin DOMAIN x /\ x.json = Absolute[ToJson[type]][0] /\ x.is_type_info /\ x.path = Root
      OBVIOUS
    <3> HIDE DEF x
    <3>3. Asked(x, g[Root], u[Root])
      BY <1>3, <1>4, <1>w, <3>2 DEF Asked
    <3> QED
      BY <3>1, <3>2, <3>3
  <2> QED
    BY <2>1, <2>2
<1>6. DOMAIN s = {1} /\ s[1] = x
  BY <1>5
<1> HIDE DEF s
<1>7. \A q \in DOMAIN u : Pointed(s, q)
  BY <1>3, <1>5, <1>6 DEF Pointed
<1>8. \A n \in DOMAIN s : Asked(s[n], g[s[n].path], u[s[n].path])
  BY <1>5, <1>6
<1>9. LoadsAs(g, u, s, type)
  BY <1>1, <1>3, <1>7, <1>8 DEF LoadsAs
<1> QED
  BY <1>2, <1>9 DEF u, s

\* Once all is loaded every field waits to be expanded, for the root does.
LEMMA LoadedExpands ==
  ASSUME TreeOf(DOMAIN tree), LoadDone, NEW g, LoadsAs(g, tree, stack, type)
  PROVE  ExpandsAs(g, tree', stack', type')
<1>1. stack = <<>> /\ stack' = <<Root>> /\ tree' = tree /\ type' = type
  BY DEF LoadDone
<1>2. \A q \in DOMAIN tree : ~Pointed(stack, q)
  BY <1>1 DEF Pointed
<1>3. \A q \in DOMAIN tree : Waits(stack', q)
  <2> SUFFICES ASSUME NEW q \in DOMAIN tree PROVE Waits(stack', q)
    OBVIOUS
  <2>1. q \in Path /\ Root \in Path
    BY DEF TreeOf
  <2>2. IsPrefix(Root, q)
    BY <2>1, PrefixPointwise DEF Root
  <2>3. 1 \in DOMAIN stack' /\ stack'[1] = Root
    BY <1>1
  <2> QED
    BY <2>2, <2>3 DEF Waits
<1> QED
  BY <1>1, <1>2, <1>3 DEF LoadsAs, ExpandsAs

-----------------------------------------------------------------------------
(* The expansion of arrays.                                                *)

\* The top of a stack that is not empty.
LEMMA TopOf ==
  ASSUME NEW D, NEW s, Live(s, D), s # <<>>
  PROVE  Len(s) \in DOMAIN s /\ Last(s) = s[Len(s)] /\ Last(s) \in D
<1>1. s \in Seq(Path)
  BY DEF Live
<1>2. Len(s) \in Nat \ {0} /\ Last(s) = s[Len(s)]
  BY <1>1, FrontLast
<1>3. Len(s) \in DOMAIN s
  BY <1>1, <1>2
<1> QED
  BY <1>2, <1>3 DEF Live

\* The n children of the top p of s have taken its place in t, the first on top.
WalkedTo(s, t, p, n) ==
  /\ p \in Path /\ Len(s) \in Nat \ {0} /\ p = s[Len(s)] /\ DOMAIN s = 1 .. Len(s)
  /\ t \in Seq(Path) /\ Len(t) = Len(s) - 1 + n /\ Len(s) - 1 \in Nat
  /\ \A m \in 1 .. Len(s) - 1 : t[m] = s[m]
  /\ \A m \in 1 .. n : t[Len(s) - 1 + m] = Append(p, n - m)

\* The top p of stack s in tree D gives way to its children in E.
Walks(s, t, p, D, E) ==
  /\ TreeOf(D) /\ TreeOf(E) /\ D \subseteq E /\ Live(s, D) /\ s # <<>>
  /\ p = Last(s) /\ t = Front(s) \o Pushed(Kids(E, p))

\* The stack after the children of its top have taken the place of it.
LEMMA Walked ==
  ASSUME NEW D, NEW E, NEW s, NEW p, NEW t, Walks(s, t, p, D, E), NEW n \in Nat, Wide(E, p, n)
  PROVE  p \in D /\ Kids(E, p) = Offspring(p, n) /\ WalkedTo(s, t, p, n)
<1> /\ TreeOf(D) /\ TreeOf(E) /\ D \subseteq E /\ Live(s, D) /\ s # <<>>
    /\ p = Last(s) /\ t = Front(s) \o Pushed(Kids(E, p))
  BY DEF Walks
<1>1. s \in Seq(Path) /\ \A m \in DOMAIN s : s[m] \in D
  BY DEF Live
<1>2. Len(s) \in Nat \ {0} /\ p = s[Len(s)] /\ DOMAIN s = 1 .. Len(s) /\ Len(s) - 1 \in Nat
  <2>1. Len(s) \in Nat \ {0} /\ Last(s) = s[Len(s)]
    BY <1>1, FrontLast
  <2>2. DOMAIN s = 1 .. Len(s)
    BY <1>1
  <2> QED
    BY <2>1, <2>2
<1>3. p \in D /\ p \in Path /\ E \subseteq Path
  <2>1. Len(s) \in DOMAIN s
    BY <1>2
  <2> QED
    BY <1>1, <1>2, <2>1 DEF TreeOf
<1>4. Kids(E, p) = Offspring(p, n)
  BY <1>3, KidsOf DEF Wide
<1> DEFINE more == Pushed(Offspring(p, n))
<1>5. /\ more \in Seq(Path) /\ Len(more) = n
      /\ \A m \in 1 .. n : more[m] = Append(p, n - m)
  BY <1>3, PushedKids
<1>6. t = Front(s) \o more
  BY <1>4
<1> HIDE DEF more
<1>f. Front(s) \in Seq(Path) /\ Len(Front(s)) = Len(s) - 1
      /\ \A m \in 1 .. Len(s) - 1 : Front(s)[m] = s[m]
  BY <1>1, FrontLast
<1>g. PICK f : f = Front(s)
  OBVIOUS
<1>h. /\ t \in Seq(Path) /\ Len(t) = Len(f) + Len(more)
      /\ \A m \in 1 .. Len(f) : t[m] = f[m]
      /\ \A m \in 1 .. Len(more) : t[Len(f) + m] = more[m]
  <2>1. f \in Seq(Path) /\ t = f \o more
    BY <1>6, <1>f, <1>g
  <2>2. more \in Seq(Path)
    BY <1>5
  <2>3. f \o more \in Seq(Path) /\ Len(f \o more) = Len(f) + Len(more)
    BY ONLY <2>1, <2>2, Concatenated
  <2>4. \A m \in 1 .. Len(f) : (f \o more)[m] = f[m]
    BY ONLY <2>1, <2>2, Concatenated
  <2>5. \A m \in 1 .. Len(more) : (f \o more)[Len(f) + m] = more[m]
    BY ONLY <2>1, <2>2, Concatenated
  <2> QED
    BY ONLY <2>1, <2>3, <2>4, <2>5
<1>7. /\ t \in Seq(Path) /\ Len(t) = Len(s) - 1 + Len(more)
      /\ \A m \in 1 .. Len(s) - 1 : t[m] = s[m]
      /\ \A m \in 1 .. Len(more) : t[Len(s) - 1 + m] = more[m]
  BY ONLY <1>f, <1>g, <1>h
<1> QED
  BY <1>2, <1>3, <1>4, <1>5, <1>7 DEF WalkedTo

\* Only the field whose children have just been pushed waits no longer.
LEMMA WalkWaits ==
  ASSUME NEW D, NEW E, NEW s, NEW p, NEW t, Walks(s, t, p, D, E)
  PROVE  /\ p \in D /\ Waits(s, p) /\ ~Waits(t, p)
         /\ \A q \in E : IsPrefix(p, q) => Waits(s, q)
         /\ \A q \in E : q # p => (Waits(t, q) <=> Waits(s, q))
<1> /\ TreeOf(D) /\ TreeOf(E) /\ D \subseteq E /\ Live(s, D) /\ s # <<>>
    /\ p = Last(s) /\ t = Front(s) \o Pushed(Kids(E, p))
  BY DEF Walks
<1>0. s \in Seq(Path)
  BY DEF Live
<1>1. p \in D /\ p \in Path /\ E \subseteq Path /\ D \subseteq Path
  BY TopOf DEF TreeOf
<1>2. PICK n \in Nat : Wide(E, p, n)
  <2>1. p \in E
    BY <1>1
  <2> QED
    BY <2>1 DEF TreeOf, Wide
<1>w. /\ Len(s) \in Nat \ {0} /\ p = s[Len(s)] /\ DOMAIN s = 1 .. Len(s)
      /\ t \in Seq(Path) /\ Len(t) = Len(s) - 1 + n /\ Len(s) - 1 \in Nat
      /\ \A m \in 1 .. Len(s) - 1 : t[m] = s[m]
      /\ \A m \in 1 .. n : t[Len(s) - 1 + m] = Append(p, n - m)
  <2>1. WalkedTo(s, t, p, n)
    BY <1>2, Walked
  <2> QED
    BY <2>1 DEF WalkedTo
<1>r. PICK r : r = Len(s) - 1
  OBVIOUS
<1>4. /\ DOMAIN s = 1 .. r + 1 /\ p = s[r + 1] /\ DOMAIN t = 1 .. r + n /\ r \in Nat
  BY <1>w, <1>r
<1>3. /\ \A m \in 1 .. r : t[m] = s[m]
      /\ \A m \in 1 .. n : t[r + m] = Append(p, n - m)
  BY ONLY <1>w, <1>r
<1>5. \A q : IsPrefix(p, q) => Waits(s, q)
  BY <1>4 DEF Waits
<1>6. \A m \in 1 .. r : m \in DOMAIN s /\ m \in DOMAIN t /\ t[m] = s[m] /\ ~IsPrefix(s[m], p)
                        /\ s[m] \in Path
  <2> TAKE m \in 1 .. r
  <2>1. m \in DOMAIN s /\ m \in DOMAIN t /\ r + 1 \in DOMAIN s /\ m # r + 1
    BY <1>4
  <2>2. t[m] = s[m] /\ s[m] \in Path
    BY <1>0, <1>3, <2>1
  <2>3. ~IsPrefix(s[m], p)
    BY <1>4, <2>1 DEF Live
  <2> QED
    BY <2>1, <2>2, <2>3
<1>7. \A m \in DOMAIN t : m \in 1 .. r \/ \E i \in Nat : i < n /\ t[m] = Append(p, i)
  <2> TAKE m \in DOMAIN t
  <2>1. CASE m > r
    <3> DEFINE a == m - r
    <3>1. a \in 1 .. n /\ r + a = m /\ n - a \in Nat /\ n - a < n
      <4>1. m \in 1 .. r + n /\ r \in Nat
        BY <1>4
      <4> QED
        BY ONLY <2>1, <4>1, n \in Nat
    <3> HIDE DEF a
    <3> QED
      BY <1>3, <3>1
  <2>2. m \in 1 .. r \/ m > r
    <3>1. m \in 1 .. r + n /\ r \in Nat
      BY <1>4
    <3> QED
      BY ONLY <3>1, n \in Nat
  <2> QED
    BY ONLY <2>1, <2>2
<1>8. ~Waits(t, p)
  <2> SUFFICES ASSUME NEW m \in DOMAIN t, IsPrefix(t[m], p) PROVE FALSE
    BY DEF Waits
  <2>1. CASE m \in 1 .. r
    BY <1>6, <2>1
  <2>2. ASSUME NEW i \in Nat, t[m] = Append(p, i) PROVE FALSE
    <3>1. Append(p, i) \in Path /\ Len(Append(p, i)) = Len(p) + 1 /\ Len(p) \in Nat
      BY <1>1, Extended
    <3>2. Len(Append(p, i)) <= Len(p)
      BY <1>1, <2>2, <3>1, PrefixPointwise
    <3> QED
      BY <3>1, <3>2
  <2> QED
    BY <1>7, <2>1, <2>2
<1>9. ASSUME NEW q \in E, q # p, Waits(t, q) PROVE Waits(s, q)
  <2>1. PICK m \in DOMAIN t : IsPrefix(t[m], q)
    BY <1>9 DEF Waits
  <2>2. CASE m \in 1 .. r
    BY <1>6, <2>1, <2>2 DEF Waits
  <2>3. ASSUME NEW i \in Nat, t[m] = Append(p, i) PROVE Waits(s, q)
    <3>1. q \in Path /\ IsPrefix(p, q)
      BY <1>1, <2>1, <2>3, PrefixOfChild
    <3> QED
      BY <1>5, <3>1
  <2> QED
    BY <1>7, <2>2, <2>3
<1>10. ASSUME NEW q \in E, q # p, Waits(s, q) PROVE Waits(t, q)
  <2>0. q \in Path
    BY <1>1
  <2>1. PICK m \in DOMAIN s : IsPrefix(s[m], q)
    BY <1>10 DEF Waits
  <2>2. CASE m \in 1 .. r
    BY <1>6, <2>1, <2>2 DEF Waits
  <2>3. CASE m = r + 1
    <3>1. IsPrefix(p, q)
      BY <1>4, <2>1, <2>3
    <3>2. Len(p) \in Nat /\ Len(q) \in Nat
      BY <1>1, <2>0 DEF Path
    <3>3. Len(p) < Len(q)
      BY <1>1, <1>10, <2>0, <3>1, <3>2, PrefixPointwise, PrefixOrder
    <3>4. Beneath(p, q)
      BY <3>1, <3>3 DEF Beneath
    <3> DEFINE i == Branch(p, q)
    <3>5. i \in Nat /\ IsPrefix(Append(p, i), q) /\ Append(p, i) \in Path
      BY <1>1, <2>0, <3>4, BeneathChild, Extended
    <3> HIDE DEF i
    <3>6. Append(p, i) \in E
      BY <3>5 DEF TreeOf
    <3>7. i < n
      BY <1>2, <3>5, <3>6 DEF Wide
    <3> DEFINE a == n - i
    <3>8. a \in 1 .. n /\ n - a = i /\ r + a \in DOMAIN t
      BY <1>4, <3>5, <3>7
    <3> HIDE DEF a
    <3>9. t[r + a] = Append(p, i)
      BY <1>3, <3>8
    <3> QED
      BY <3>5, <3>8, <3>9 DEF Waits
  <2> QED
    BY <1>4, <2>2, <2>3
<1> QED
  BY <1>1, <1>5, <1>8, <1>9, <1>10, PrefixOrder

\* The children of p in the tree are as many as it has been given.
LEMMA ChildrenOf ==
  ASSUME TreeOf(DOMAIN tree), NEW p \in DOMAIN tree, NEW n \in Nat, Wide(DOMAIN tree, p, n)
  PROVE  /\ Children(p) = Offspring(p, n) /\ (IsLeaf(p) <=> n = 0)
         /\ Children(p) = {Append(p, 0)} <=> n = 1
<1>1. DOMAIN tree \subseteq Path /\ p \in Path
  BY DEF TreeOf
<1>2. Children(p) = Offspring(p, n)
  BY <1>1, KidsOf DEF Wide, Children, Kids
<1>3. \A q : q \in Offspring(p, n) <=> \E i \in Nat : i < n /\ q = Append(p, i)
  <2>1. \A q \in Offspring(p, n) : \E i \in Nat : i < n /\ q = Append(p, i)
    BY <1>1, OffspringOf
  <2>2. \A i \in Nat : Append(p, i) \in Offspring(p, n) <=> i < n
    BY <1>1, OffspringOf
  <2> QED
    BY <2>1, <2>2
<1>4. IsLeaf(p) <=> n = 0
  <2>1. n > 0 => Append(p, 0) \in Children(p)
    BY <1>2, <1>3
  <2>2. n = 0 => Children(p) = {}
    BY <1>2, <1>3
  <2> QED
    BY <2>1, <2>2 DEF IsLeaf
<1>5. ASSUME Children(p) = {Append(p, 0)} PROVE n = 1
  <2>1. n # 0
    BY <1>4, <1>5 DEF IsLeaf
  <2>2. n > 1 => Append(p, 1) = Append(p, 0)
    BY <1>2, <1>3, <1>5
  <2>3. Append(p, 1) # Append(p, 0)
    BY <1>1, ChildrenApart
  <2> QED
    BY <2>1, <2>2, <2>3
<1>6. ASSUME n = 1 PROVE Children(p) = {Append(p, 0)}
  <2>1. \A i \in Nat : i < n <=> i = 0
    BY <1>6
  <2> QED
    BY <1>2, <1>3, <2>1
<1> QED
  BY <1>2, <1>4, <1>5, <1>6

\* A field about to be expanded.
LEMMA BeforeExpansion ==
  ASSUME Expandable, TreeOf(DOMAIN tree), NEW s, NEW p \in DOMAIN tree, Waits(s, p),
         NEW g, ExpandsAs(g, tree, s, type), NEW x, x = g[p], NEW ti, ti = x.ti
  PROVE  /\ Wide(DOMAIN tree, p, Arity(ti)) /\ ti \in Types /\ x.base \in Nat
         /\ Holds(tree[p], x) /\ Placed(g, DOMAIN tree, type)
         /\ tree[p].total = IF ti.type = "array" THEN ti.total ELSE 0
         /\ ti.type = "array" => tree[p].elementBytes = Element(ti).size /\ tree[p].off = x.base
         /\ IsLeaf(p) <=> Arity(ti) = 0
         /\ Children(p) = {Append(p, 0)} <=> Arity(ti) = 1
<1>1. Placed(g, DOMAIN tree, type) /\ Holds(tree[p], x) /\ Wide(DOMAIN tree, p, Arity(ti))
  BY DEF ExpandsAs
<1>2. ti \in Types /\ x.base \in Nat
  BY <1>1 DEF Placed
<1>3. Arity(ti) \in Nat
  BY <1>2, ArityOf
<1>4. ti.type = "array" => Flat(ti)
  BY DEF Flat, Aggregate
<1>5. (IsLeaf(p) <=> Arity(ti) = 0) /\ (Children(p) = {Append(p, 0)} <=> Arity(ti) = 1)
  BY <1>1, <1>3, ChildrenOf
<1>6. /\ tree[p].total = IF ti.type = "array" THEN ti.total ELSE 0
      /\ ti.type = "array" => tree[p].elementBytes = Element(ti).size /\ tree[p].off = x.base
  BY <1>1, <1>4 DEF Holds
<1> QED
  BY <1>1, <1>2, <1>5, <1>6

\* The tree u, in which p has been expanded and its children wait.
Laid(k, u, s, p, ty) ==
  /\ Placed(k, DOMAIN u, ty)
  /\ \A q \in DOMAIN u : Holds(u[q], k[q])
  /\ Wide(DOMAIN u, p, Slots(k[p].ti))
  /\ \A q \in DOMAIN u : q # p =>
       Wide(DOMAIN u, q, IF Waits(s, q) THEN Arity(k[q].ti) ELSE Slots(k[q].ti))

\* An array of primitives gets a field for each element.
LEMMA ElementsLaid ==
  ASSUME Expandable, TreeOf(DOMAIN tree), FieldsOK(tree), NEW s, NEW p \in DOMAIN tree,
         \A q : IsPrefix(p, q) => Waits(s, q), Waits(s, p), NEW g, ExpandsAs(g, tree, s, type),
         tree[p].total > 0, IsLeaf(p)
  PROVE  \E k : Laid(k, With(Elements(p)), s, p, type)
<1> DEFINE D == DOMAIN tree
<1>x. PICK x, ti : x = g[p] /\ ti = x.ti
  OBVIOUS
<1>1. /\ Wide(D, p, Arity(ti)) /\ ti \in Types /\ x.base \in Nat /\ Placed(g, D, type)
      /\ tree[p].total = IF ti.type = "array" THEN ti.total ELSE 0
      /\ ti.type = "array" => tree[p].elementBytes = Element(ti).size /\ tree[p].off = x.base
      /\ Arity(ti) = 0
  BY <1>x, BeforeExpansion
<1>2. ti.type = "array" /\ tree[p].total = ti.total
  BY <1>1
<1>3. /\ Element(ti).type \notin Aggregate \cup {"array"} /\ Arity(Element(ti)) = 0
      /\ Slots(ti) = ti.total /\ ti.total \in Nat /\ Element(ti).size \in Nat
  <2>1. ~ArrayOfAggregates(ti)
    BY <1>1, ArityOf
  <2> QED
    BY <1>1, <1>2, <2>1, ArityOf, MembersOf, ElementFacts
<1> DEFINE n == ti.total
           E == D \cup Offspring(p, n)
           u == With(Elements(p))
<1>4. p \in Path /\ D \subseteq Path /\ TreeOf(D) /\ p \in D
  BY DEF TreeOf
<1>5. \A i \in Nat : Append(p, i) \notin D
  BY <1>1 DEF Wide
<1>6. DOMAIN Elements(p) = Offspring(p, n)
  BY <1>2 DEF Elements, Offspring
<1>7. DOMAIN u = E
  BY <1>6, WithFields
<1>8. \A i \in Nat : Append(p, i) \in Offspring(p, n) <=> i < n
  BY <1>3, <1>4, OffspringOf
<1>9. \A q \in D : q \notin Offspring(p, n)
  <2>0. n \in Nat
    BY <1>3
  <2> HIDE DEF n
  <2>1. \A q \in Offspring(p, n) : \E i \in Nat : i < n /\ q = Append(p, i)
    BY <1>4, <2>0, OffspringOf
  <2> QED
    BY <1>5, <2>1
<1>10. \A q \in D : u[q] = tree[q]
  BY <1>6, <1>9, WithFields
<1>11. ASSUME NEW i \in Nat, i < n
       PROVE  u[Append(p, i)] = [NewField EXCEPT !.name = ElementName(i),
                      !.off = x.base + i * Element(ti).size, !.nbytes = Element(ti).size,
                      !.kind = ParseFieldType(tree[p].typeName), !.typeName = tree[p].typeName]
  <2> DEFINE q == Append(p, i)
  <2>1. q \in DOMAIN Elements(p) /\ Last(q) = i
    BY <1>4, <1>6, <1>8, <1>11, Extended
  <2>2. u[q] = Elements(p)[q]
    BY <2>1, WithFields
  <2>3. Elements(p)[q] =
          [NewField EXCEPT !.name = ElementName(Last(q)),
                      !.off = tree[p].off + Last(q) * tree[p].elementBytes,
                      !.nbytes = tree[p].elementBytes,
                      !.kind = ParseFieldType(tree[p].typeName),
                      !.typeName = tree[p].typeName]
    <3> HIDE DEF q
    <3> QED
      BY <2>1 DEF Elements
  <2> HIDE DEF q, u
  <2> QED
    BY <1>1, <1>2, <2>1, <2>2, <2>3 DEF q
<1>e. E = D \cup Offspring(p, n) /\ n \in Nat /\ n <= Slots(g[p].ti) /\ Slots(g[p].ti) = n
  BY <1>x, <1>3
<1> HIDE DEF u, E, D, n
<1>12. PICK k : Grown(k, E, g, D, p, n, type)
  BY ONLY <1>e, <1>1, <1>4, <1>5, Grows
<1>13. /\ Placed(k, E, type) /\ \A q \in D : k[q] = g[q]
       /\ \A i \in Nat : i < n => k[Append(p, i)] = Inside(g[p], i)
  BY ONLY <1>12 DEF Grown
<1>14. /\ Wide(E, p, n)
       /\ \A q \in D, m \in Nat : q # p /\ Wide(D, q, m) => Wide(E, q, m)
       /\ \A i \in Nat : i < n => Wide(E, Append(p, i), 0) /\ Append(p, i) \in E
  <2>0. Wide(E, p, n)
    BY ONLY <1>e, <1>1, <1>4, <1>5, Grows
  <2>1. ASSUME NEW q \in D, NEW m \in Nat, q # p, Wide(D, q, m) PROVE Wide(E, q, m)
    <3>1. \A i \in Nat : Append(q, i) \in E <=> Append(q, i) \in D
      <4>1. q \in Path /\ \A i \in Nat : Append(q, i) \in Offspring(p, n) <=> q = p /\ i < n
        BY <1>e, <1>4, OffspringOf
      <4> QED
        BY <1>e, <2>1, <4>1
    <3> QED
      BY <2>1, <3>1 DEF Wide
  <2>2. \A i \in Nat : i < n => Wide(E, Append(p, i), 0) /\ Append(p, i) \in E
    BY ONLY <1>e, <1>1, <1>4, <1>5, Grows
  <2> QED
    BY <2>0, <2>1, <2>2
<1>15. ASSUME NEW q \in D PROVE Holds(u[q], k[q]) /\ k[q] = g[q] /\ g[q].ti \in Types
  <2>1. Holds(tree[q], g[q])
    BY DEF ExpandsAs, D
  <2> QED
    BY <1>1, <1>10, <1>13, <2>1 DEF Placed
<1>16. ASSUME NEW i \in Nat, i < n
       PROVE  Holds(u[Append(p, i)], k[Append(p, i)]) /\ k[Append(p, i)].ti = Element(ti)
  <2>1. k[Append(p, i)] = Inside(x, i)
    BY <1>x, <1>13, <1>16
  <2> DEFINE y == Inside(x, i)
             f == u[Append(p, i)]
  <2>2. y = [ti |-> Element(ti), base |-> x.base + i * Element(ti).size, name |-> ElementName(i)]
    BY <1>x, <1>1, <1>2, <1>3, <1>16, InsideFacts DEF n
  <2> HIDE DEF y
  <2>3. y.ti = Element(ti) /\ y.base = x.base + i * Element(ti).size /\ y.name = ElementName(i)
    BY <2>2
  <2>4. /\ f.nbytes = Element(ti).size /\ f.total = 0 /\ f.name = ElementName(i)
        /\ f.off = x.base + i * Element(ti).size
    BY <1>11, <1>16 DEF NewField
  <2> HIDE DEF f
  <2>5. Holds(f, y)
    BY <1>3, <2>3, <2>4 DEF Holds
  <2> QED
    BY <2>1, <2>3, <2>5 DEF f, y
<1>17. \A q \in E : q \in D \/ \E i \in Nat : i < n /\ q = Append(p, i)
  BY ONLY <1>e, <1>4, OffspringOf
<1>18. \A q \in E : Holds(u[q], k[q])
  BY <1>15, <1>16, <1>17
<1>19. Wide(E, p, Slots(k[p].ti))
  BY <1>e, <1>4, <1>13, <1>14
<1>20. ASSUME NEW q \in E, q # p
       PROVE  Wide(E, q, IF Waits(s, q) THEN Arity(k[q].ti) ELSE Slots(k[q].ti))
  <2>1. CASE q \in D
    <3>1. Wide(D, q, IF Waits(s, q) THEN Arity(g[q].ti) ELSE Slots(g[q].ti))
      BY <2>1 DEF ExpandsAs, D
    <3>2. k[q] = g[q] /\ Arity(g[q].ti) \in Nat /\ Slots(g[q].ti) \in Nat
      BY <1>15, <2>1, ArityOf, MembersOf
    <3> QED
      BY <1>14, <1>20, <2>1, <3>1, <3>2
  <2>2. ASSUME NEW i \in Nat, i < n, q = Append(p, i)
        PROVE  Wide(E, q, IF Waits(s, q) THEN Arity(k[q].ti) ELSE Slots(k[q].ti))
    <3>1. IsPrefix(p, q)
      BY <1>4, <2>2, Extended, PrefixOfChild
    <3> QED
      BY <1>3, <1>14, <1>16, <2>2, <3>1
  <2> QED
    BY <1>17, <2>1, <2>2
<1>21. Laid(k, u, s, p, type)
  BY <1>7, <1>13, <1>18, <1>19, <1>20 DEF Laid
<1> QED
  BY <1>21 DEF u

\* The part a path beneath p stands for once child 0, of size z, is cloned.
ClonedPart(g, p, z, q) ==
  [ti   |-> g[Moved(p, q, 0)].ti,
   base |-> g[Moved(p, q, 0)].base + Branch(p, q) * z,
   name |-> IF Len(q) = Len(p) + 1 THEN ElementName(Branch(p, q)) ELSE g[Moved(p, q, 0)].name]

ClonedParts(k, g, C, p, z) ==
  \A q \in C : k[q] = IF Beneath(p, q) THEN ClonedPart(g, p, z, q) ELSE g[q]

\* Clones stand for the parts of the other elements.
LEMMA ClonesPlaced ==
  ASSUME NEW D, TreeOf(D), NEW p \in D, \A i \in Nat : Append(p, i) \in D <=> i < 1,
         NEW g, NEW ty, Placed(g, D, ty), NEW x, x = g[p], NEW ti, ti = x.ti,
         ti.type = "array", NEW n \in Nat \ {0}, n = ti.total, NEW z, z = Element(ti).size,
         NEW C, C = Cloned(D, p, n), NEW k, ClonedParts(k, g, C, p, z)
  PROVE  Placed(k, C, ty)
<1>1. p \in Path /\ Root \in D /\ Root \in Path /\ D \subseteq Path
  BY DEF TreeOf
<1>2. /\ C \subseteq Path /\ D \subseteq C
      /\ \A q \in C : IF Beneath(p, q) THEN Branch(p, q) \in 0 .. n - 1 /\ Moved(p, q, 0) \in D ELSE q \in D
      /\ \A q \in D : Beneath(p, q) => Branch(p, q) = 0 /\ Moved(p, q, 0) = q
  BY ClonedPaths
<1>3. /\ \A q \in D : g[q].ti \in Types /\ g[q].base \in Nat
      /\ g[Root] = Whole(ty)
      /\ \A q \in D, i \in Nat : Append(q, i) \in D =>
              i < Slots(g[q].ti) /\ g[Append(q, i)] = Inside(g[q], i)
  BY DEF Placed
<1>4. ti \in Types /\ x.base \in Nat /\ z \in Nat /\ Slots(ti) = n
  <2>1. ti \in Types /\ x.base \in Nat
    BY <1>3
  <2> QED
    BY <2>1, ElementFacts, MembersOf
<1>5. ASSUME NEW q \in C, Beneath(p, q)
      PROVE  /\ q \in Path /\ Branch(p, q) \in Nat /\ Branch(p, q) < n /\ Moved(p, q, 0) \in D
             /\ k[q].ti = g[Moved(p, q, 0)].ti
             /\ k[q].base = g[Moved(p, q, 0)].base + Branch(p, q) * z
             /\ k[q].name = IF Len(q) = Len(p) + 1 THEN ElementName(Branch(p, q))
                            ELSE g[Moved(p, q, 0)].name
             /\ k[q] = [ti |-> k[q].ti, base |-> k[q].base, name |-> k[q].name]
             /\ g[Moved(p, q, 0)].ti \in Types /\ g[Moved(p, q, 0)].base \in Nat
             /\ Branch(p, q) * z \in Nat
  <2>1. q \in Path /\ Branch(p, q) \in 0 .. n - 1 /\ Moved(p, q, 0) \in D
    BY <1>2, <1>5
  <2>2. k[q] = ClonedPart(g, p, z, q)
    BY <1>5 DEF ClonedParts
  <2>3. Branch(p, q) \in Nat /\ Branch(p, q) < n
    BY <2>1
  <2>4. Branch(p, q) * z \in Nat
    <3>1. \A a, b \in Nat : a * b \in Nat
      OBVIOUS
    <3> QED
      BY <1>4, <2>3, <3>1
  <2> QED
    BY <1>3, <2>1, <2>2, <2>3, <2>4 DEF ClonedPart
<1>6. \A q \in C : ~Beneath(p, q) => k[q] = g[q] /\ q \in D
  BY <1>2 DEF ClonedParts
<1>7. ASSUME NEW q \in C PROVE k[q].ti \in Types /\ k[q].base \in Nat
  <2>1. CASE Beneath(p, q)
    <3>1. /\ k[q].ti = g[Moved(p, q, 0)].ti
          /\ k[q].base = g[Moved(p, q, 0)].base + Branch(p, q) * z
          /\ g[Moved(p, q, 0)].ti \in Types /\ g[Moved(p, q, 0)].base \in Nat
          /\ Branch(p, q) * z \in Nat
      BY <1>5, <2>1
    <3>2. \A b1, b2 \in Nat : b1 + b2 \in Nat
      OBVIOUS
    <3> QED
      BY ONLY <3>1, <3>2
  <2>2. CASE ~Beneath(p, q)
    BY <1>3, <1>6, <2>2
  <2> QED
    BY <2>1, <2>2
<1>8. k[Root] = Whole(ty)
  <2>1. ~Beneath(p, Root)
    <3>1. Len(Root) = 0 /\ Len(p) \in Nat
      BY <1>1 DEF Root, Path
    <3> QED
      BY <3>1 DEF Beneath
  <2> QED
    BY <1>1, <1>2, <1>3, <1>6, <2>1
<1>9. ASSUME NEW q \in C, NEW i \in Nat, Append(q, i) \in C
      PROVE  i < Slots(k[q].ti) /\ k[Append(q, i)] = Inside(k[q], i)
  <2>0. q \in Path /\ Append(q, i) \in Path
    BY <1>2, <1>9
  <2>1. CASE Beneath(p, q)
    <3> DEFINE o == Moved(p, q, 0)
               r == Append(q, i)
               b == Branch(p, q)
    <3>1. /\ Beneath(p, r) /\ Branch(p, r) = b
      BY <1>1, <2>0, <2>1, BeneathChild
    <3>2. Moved(p, r, 0) = Append(o, i)
      BY <1>1, <2>0, <2>1, MovedChild
    <3>3. o \in D /\ Append(o, i) \in D
      BY <1>5, <1>9, <2>1, <3>1, <3>2
    <3>4. i < Slots(g[o].ti) /\ g[Append(o, i)] = Inside(g[o], i)
      BY <1>3, <3>3
    <3>5. Len(r) # Len(p) + 1
      <4>1. Len(p) < Len(q) /\ Len(p) \in Nat /\ Len(q) \in Nat /\ Len(r) = Len(q) + 1
        BY <1>1, <2>0, <2>1, Extended DEF Beneath, Path
      <4> QED
        BY <4>1
    <3>6. /\ k[q].ti = g[o].ti /\ k[q].base = g[o].base + b * z /\ g[o].base \in Nat /\ b * z \in Nat
          /\ g[o].ti \in Types
      BY <1>5, <2>1
    <3> HIDE DEF r, o, b
    <3>7. /\ k[r].ti = g[Append(o, i)].ti
          /\ k[r].base = g[Append(o, i)].base + b * z
          /\ k[r].name = g[Append(o, i)].name
          /\ k[r] = [ti |-> k[r].ti, base |-> k[r].base, name |-> k[r].name]
      <4>1. r \in C
        BY <1>9 DEF r
      <4> QED
        BY <1>5, <3>1, <3>2, <3>5, <4>1
    <3> DEFINE m == Members(g[o].ti)[i + 1]
    <3>8. Inside(g[o], i) = [ti |-> m.ti, base |-> g[o].base + m.off, name |-> m.name]
      BY DEF Inside
    <3>9. Inside(k[q], i) = [ti |-> m.ti, base |-> k[q].base + m.off, name |-> m.name]
      BY <3>6 DEF Inside
    <3>10. m.off \in Nat
      <4>1. i + 1 \in 1 .. Slots(g[o].ti)
        BY <3>4, <3>6, MembersOf
      <4> QED
        BY <3>6, <4>1, MembersOf DEF MemberSet
    <3> HIDE DEF m
    <3>11. g[Append(o, i)].base + b * z = k[q].base + m.off
      <4>1. g[Append(o, i)].base = g[o].base + m.off
        BY <3>4, <3>8
      <4>2. PICK b1, b2, b3 \in Nat : b1 = g[o].base /\ b2 = m.off /\ b3 = b * z
        BY <3>6, <3>10
      <4>3. b1 + b2 + b3 = b1 + b3 + b2
        OBVIOUS
      <4> QED
        BY <3>6, <4>1, <4>2, <4>3
    <3>12. k[r] = [ti |-> m.ti, base |-> k[q].base + m.off, name |-> m.name]
      BY <3>4, <3>7, <3>8, <3>11
    <3> QED
      BY <3>4, <3>6, <3>9, <3>12 DEF r
  <2>2. CASE q = p
    <3> DEFINE r == Append(p, i)
    <3>1. Beneath(p, r) /\ Branch(p, r) = i
      BY <1>1, BeneathChild
    <3>2. r \in C /\ Len(r) = Len(p) + 1
      BY <1>1, <1>9, <2>2, Extended
    <3>3. Moved(p, r, 0) = Append(p, 0)
      <4>1. Append(p, 0) \in D
        OBVIOUS
      <4>2. Beneath(p, Append(p, 0)) /\ Append(p, 0) \in Path
        BY <1>1, BeneathChild, Extended
      <4>4. Len(Append(p, 0)) = Len(p) + 1
        BY <1>1, Extended
      <4>5. r \in Path
        BY <2>0, <2>2
      <4> HIDE DEF r
      <4>3. Moved(p, r, 0) \in Path /\ Len(Moved(p, r, 0)) = Len(r)
            /\ IsPrefix(Append(p, 0), Moved(p, r, 0))
        BY <1>1, <3>1, <4>5, MovedFacts
      <4> QED
        BY <3>2, <4>2, <4>3, <4>4, PrefixOrder
    <3> HIDE DEF r
    <3>4. /\ i < n /\ k[r].ti = g[Append(p, 0)].ti /\ k[r].base = g[Append(p, 0)].base + i * z
          /\ k[r].name = ElementName(i) /\ i * z \in Nat
          /\ k[r] = [ti |-> k[r].ti, base |-> k[r].base, name |-> k[r].name]
      BY <1>5, <3>1, <3>2, <3>3
    <3>5. g[Append(p, 0)] = Inside(x, 0) /\ 0 < Slots(ti)
      BY <1>3
    <3>6. Inside(x, 0) = [ti |-> Element(ti), base |-> x.base + 0 * z, name |-> ElementName(0)]
      BY <1>4, <3>5, InsideFacts
    <3>7. Inside(x, i) = [ti |-> Element(ti), base |-> x.base + i * z, name |-> ElementName(i)]
      BY <1>4, <3>4, InsideFacts
    <3>8. 0 * z = 0 /\ x.base + 0 = x.base
      BY <1>4
    <3>9. k[p] = x
      <4>1. ~Beneath(p, p)
        BY <1>1 DEF Beneath, Path
      <4> QED
        BY <1>6, <2>2, <4>1
    <3>10. k[r].ti = Element(ti) /\ k[r].base = x.base + i * z
      BY <3>4, <3>5, <3>6, <3>8
    <3> QED
      BY <1>4, <2>2, <3>4, <3>7, <3>9, <3>10 DEF r
  <2>3. CASE q # p /\ ~Beneath(p, q)
    <3>1. ~Beneath(p, Append(q, i))
      BY <1>1, <2>0, <2>3, BeneathChild
    <3> QED
      BY <1>3, <1>6, <1>9, <2>3, <3>1
  <2> QED
    BY <2>1, <2>2, <2>3
<1> QED
  BY <1>7, <1>8, <1>9 DEF Placed

\* Every field under child 0 is cloned.
LEMMA ClonesHas ==
  ASSUME NEW p, NEW t \in DOMAIN tree, IsPrefix(Append(p, 0), t), NEW i \in 0 .. tree[p].total - 1
  PROVE  Moved(p, t, i) \in DOMAIN Clones(p)
  BY DEF Clones, Moved, Below

\* The clones are the fields beneath p.
LEMMA ClonesBeneath ==
  ASSUME TreeOf(DOMAIN tree), NEW p \in DOMAIN tree, NEW n \in Nat \ {0}, n = tree[p].total,
         \A i \in Nat : Append(p, i) \in DOMAIN tree <=> i < 1,
         NEW q \in Cloned(DOMAIN tree, p, n)
  PROVE  q \in DOMAIN Clones(p) <=> Beneath(p, q)
<1> DEFINE D == DOMAIN tree
<1>1. p \in Path /\ D \subseteq Path /\ q \in Path
      /\ (Beneath(p, q) => Branch(p, q) \in 0 .. n - 1 /\ Moved(p, q, 0) \in D)
  <2>1. p \in Path /\ D \subseteq Path
    BY DEF TreeOf
  <2> QED
    BY <2>1, ClonedPaths
<1>2. ASSUME Beneath(p, q) PROVE q \in DOMAIN Clones(p)
  <2>o. PICK o : o = Moved(p, q, 0)
    OBVIOUS
  <2>b. PICK b : b = Branch(p, q)
    OBVIOUS
  <2>1. b \in 0 .. n - 1 /\ b \in Nat /\ o \in D
    BY <1>1, <1>2, <2>o, <2>b
  <2>2. IsPrefix(Append(p, 0), o)
    BY <1>1, <1>2, <2>o, MovedFacts
  <2>3. Moved(p, o, b) = Moved(p, q, b)
    BY <1>1, <1>2, <2>o, <2>1, MovedFacts
  <2>4. Moved(p, q, b) = q
    BY <1>1, <1>2, <2>b, MovedFacts
  <2>5. Moved(p, o, b) \in DOMAIN Clones(p)
    BY <2>1, <2>2, ClonesHas
  <2> QED
    BY <2>3, <2>4, <2>5
<1>3. ASSUME q \in DOMAIN Clones(p) PROVE Beneath(p, q)
  <2>1. PICK t \in D, i \in 0 .. n - 1 : IsPrefix(Append(p, 0), t) /\ q = Moved(p, t, i)
    BY <1>3, ClonesItem
  <2>2. t \in Path /\ i \in Nat /\ Beneath(p, t)
    BY <1>1, <2>1, BeneathChild
  <2>3. Beneath(p, Moved(p, t, i))
    BY <1>1, <2>2, MovedFacts
  <2> QED
    BY <2>1, <2>3
<1> QED
  BY <1>2, <1>3

\* A field of a clone, d away from the field it is cloned from.
CloneField(f, d, child, name) ==
  IF child THEN [Shifted(f, d, 0) EXCEPT !.name = name] ELSE Shifted(f, d, 0)

ClonedBy(w, y, d, child, name) ==
  w.ti = y.ti /\ w.base = y.base + d /\ w.name = IF child THEN name ELSE y.name

\* What a clone holds.
LEMMA ClonedHolds ==
  ASSUME NEW f, FieldOK(f), NEW y, Holds(f, y), NEW d \in Nat, NEW w,
         NEW child \in BOOLEAN, NEW name, y.base \in Nat, ClonedBy(w, y, d, child, name)
  PROVE  Holds(CloneField(f, d, child, name), w)
<1> DEFINE o == f.off + d
           a == Shifted(f, d, 0)
           h == CloneField(f, d, child, name)
<1>1. a = [f EXCEPT !.off = o]
  BY DEF Shifted
<1>h. h = IF child THEN [a EXCEPT !.name = name] ELSE a
  BY DEF CloneField
<1> HIDE DEF a, o, h
<1>2. /\ a.nbytes = f.nbytes /\ a.total = f.total /\ a.elementBytes = f.elementBytes
      /\ a.kind = f.kind /\ a.off = o /\ a.name = f.name /\ DOMAIN a = DOMAIN f
  BY <1>1 DEF FieldOK
<1>3. /\ h.nbytes = f.nbytes /\ h.total = f.total /\ h.elementBytes = f.elementBytes
      /\ h.kind = f.kind /\ h.off = o /\ h.name = IF child THEN name ELSE f.name
  <2>1. CASE child
    BY <1>2, <1>h, <2>1 DEF FieldOK
  <2>2. CASE ~child
    BY <1>2, <1>h, <2>2
  <2> QED
    BY <2>1, <2>2
<1>4. Flat(y.ti) => h.off = w.base /\ h.name = w.name
  BY <1>3 DEF Holds, ClonedBy, o
<1>5. Holds(h, w)
  BY <1>3, <1>4 DEF Holds, ClonedBy
<1> QED
  BY <1>5 DEF h

\* Clones have as many children as what they are cloned from.
LEMMA ClonesWide ==
  ASSUME NEW D, TreeOf(D), NEW p \in D, NEW n \in Nat \ {0},
         \A i \in Nat : Append(p, i) \in D <=> i < 1, NEW C, C = Cloned(D, p, n)
  PROVE  /\ Wide(C, p, n)
         /\ \A q \in C, m \in Nat : Beneath(p, q) /\ Wide(D, Moved(p, q, 0), m) => Wide(C, q, m)
         /\ \A q \in C, m \in Nat : q # p /\ ~Beneath(p, q) /\ Wide(D, q, m) => Wide(C, q, m)
<1>1. p \in Path /\ D \subseteq Path
  BY DEF TreeOf
<1>2. /\ C \subseteq Path /\ D \subseteq C
      /\ \A q \in C : IF Beneath(p, q) THEN Branch(p, q) \in 0 .. n - 1 /\ Moved(p, q, 0) \in D ELSE q \in D
      /\ \A q \in Path : Beneath(p, q) /\ Branch(p, q) \in 0 .. n - 1 /\ Moved(p, q, 0) \in D => q \in C
  BY ClonedPaths
<1>3. Wide(C, p, n)
  BY ClonedTree DEF Wide
<1>4. ASSUME NEW q \in C, NEW i \in Nat, Beneath(p, q)
      PROVE  Append(q, i) \in C <=> Append(Moved(p, q, 0), i) \in D
  <2>1. q \in Path /\ Branch(p, q) \in 0 .. n - 1
    BY <1>2, <1>4
  <2>2. Append(q, i) \in Path /\ Beneath(p, Append(q, i)) /\ Branch(p, Append(q, i)) = Branch(p, q)
    BY <1>1, <1>4, <2>1, BeneathChild, Extended
  <2>3. Moved(p, Append(q, i), 0) = Append(Moved(p, q, 0), i)
    BY <1>1, <1>4, <2>1, MovedChild
  <2> QED
    BY <1>2, <2>1, <2>2, <2>3
<1>5. ASSUME NEW q \in C, NEW i \in Nat, q # p, ~Beneath(p, q)
      PROVE  Append(q, i) \in C <=> Append(q, i) \in D
  <2>1. q \in Path
    BY <1>2
  <2>2. ~Beneath(p, Append(q, i))
    BY <1>1, <1>5, <2>1, BeneathChild
  <2> QED
    BY <1>2, <2>2
<1> QED
  BY <1>3, <1>4, <1>5 DEF Wide

\* An array of structs or unions gets all its elements.
LEMMA ClonesLaid ==
  ASSUME Expandable, TreeOf(DOMAIN tree), FieldsOK(tree), NEW s, NEW p \in DOMAIN tree,
         \A q : IsPrefix(p, q) => Waits(s, q), Waits(s, p), NEW g, ExpandsAs(g, tree, s, type),
         tree[p].total > 0, IsTemplate(p)
  PROVE  \E k : Laid(k, With(Clones(p)), s, p, type)
<1> DEFINE D == DOMAIN tree
           n == tree[p].total
           C == Cloned(D, p, n)
           u == With(Clones(p))
           z == tree[p].elementBytes
           k == [q \in C |-> IF Beneath(p, q) THEN ClonedPart(g, p, z, q) ELSE g[q]]
<1>x. PICK x, ti : x = g[p] /\ ti = x.ti
  OBVIOUS
<1>1. /\ Wide(D, p, Arity(ti)) /\ ti \in Types /\ x.base \in Nat /\ Placed(g, D, type)
      /\ n = IF ti.type = "array" THEN ti.total ELSE 0
      /\ ti.type = "array" => z = Element(ti).size
      /\ Children(p) = {Append(p, 0)} <=> Arity(ti) = 1
  BY <1>x, BeforeExpansion
<1>2. ti.type = "array" /\ n = ti.total /\ z = Element(ti).size /\ n \in Nat \ {0} /\ z \in Nat
  <2>1. ti.type = "array"
    BY <1>1
  <2>2. ti.total \in Nat /\ Element(ti).size \in Nat
    BY <1>1, <2>1, ElementFacts
  <2> QED
    BY <1>1, <2>1, <2>2
<1>3. \A i \in Nat : Append(p, i) \in D <=> i < 1
  <2>1. Arity(ti) = 1
    BY <1>1 DEF IsTemplate
  <2> QED
    BY <1>1, <2>1 DEF Wide
<1>4. TreeOf(D) /\ p \in D /\ p \in Path /\ D \subseteq Path
  BY DEF TreeOf
<1>5. ClonedParts(k, g, C, p, z)
  BY DEF ClonedParts
<1> HIDE DEF k
<1>6. Slots(ti) = n
  BY <1>1, <1>2, MembersOf
<1>7. DOMAIN u = C
  <2>1. D \cup DOMAIN Clones(p) = C
    BY ClonesDomain
  <2>2. DOMAIN u = DOMAIN Clones(p) \cup D
    BY WithFields
  <2> QED
    BY <2>1, <2>2
<1>8. \A q \in C : q \in DOMAIN Clones(p) <=> Beneath(p, q)
  BY <1>2, <1>3, ClonesBeneath
<1>9. /\ \A q \in C : Beneath(p, q) => u[q] = Clones(p)[q]
      /\ \A q \in C : ~Beneath(p, q) => u[q] = tree[q] /\ q \in D
  <2>1. \A q \in C : ~Beneath(p, q) => q \in D
    <3> HIDE DEF D, n
    <3> QED
      BY <1>2, <1>3, <1>4, ClonedPaths
  <2> QED
    BY <1>8, <2>1, WithFields
<1>e. C = Cloned(D, p, n) /\ D = DOMAIN tree
  OBVIOUS
<1>f. \A q \in D : Holds(tree[q], g[q]) /\ FieldOK(tree[q])
                   /\ Wide(D, q, IF Waits(s, q) THEN Arity(g[q].ti) ELSE Slots(g[q].ti))
  BY DEF ExpandsAs, FieldsOK
<1>m. /\ C \subseteq Path
      /\ \A q \in C : Beneath(p, q) => Branch(p, q) \in 0 .. n - 1 /\ Moved(p, q, 0) \in D
  <2> HIDE DEF D, n
  <2> QED
    BY <1>2, <1>3, <1>4, ClonedPaths
<1>c. ASSUME NEW q \in C, Beneath(p, q)
      PROVE  Clones(p)[q] = IF Len(q) = Len(p) + 1
                THEN [Shifted(tree[Moved(p, q, 0)], Branch(p, q) * z, 0) EXCEPT !.name = ElementName(Branch(p, q))]
                ELSE Shifted(tree[Moved(p, q, 0)], Branch(p, q) * z, 0)
  <2>1. q \in DOMAIN Clones(p)
    BY <1>8, <1>c
  <2> DEFINE f == Shifted(tree[Moved(p, q, 0)], Branch(p, q) * z, Len(q) - (Len(p) + 1))
  <2>2. Clones(p)[q] = IF Len(q) = Len(p) + 1 THEN [f EXCEPT !.name = ElementName(Branch(p, q))] ELSE f
    BY <2>1, ClonesField
  <2>3. f = Shifted(tree[Moved(p, q, 0)], Branch(p, q) * z, 0)
    BY DEF Shifted
  <2> HIDE DEF f
  <2> QED
    BY <2>2, <2>3
<1> HIDE DEF u, C, D, n, z
<1>10. Placed(k, C, type)
  BY <1>e, <1>x, <1>1, <1>2, <1>3, <1>4, <1>5, ClonesPlaced
<1>11. /\ Wide(C, p, n)
       /\ \A q \in C, m \in Nat : Beneath(p, q) /\ Wide(D, Moved(p, q, 0), m) => Wide(C, q, m)
       /\ \A q \in C, m \in Nat : q # p /\ ~Beneath(p, q) /\ Wide(D, q, m) => Wide(C, q, m)
  BY <1>e, <1>2, <1>3, <1>4, ClonesWide
<1>12. \A q \in D : /\ g[q].ti \in Types /\ g[q].base \in Nat
                    /\ Arity(g[q].ti) \in Nat /\ Slots(g[q].ti) \in Nat
  <2>1. \A q \in D : g[q].ti \in Types /\ g[q].base \in Nat
    BY <1>1 DEF Placed
  <2> QED
    BY <2>1, ArityOf, MembersOf
<1>13. ASSUME NEW q \in C, Beneath(p, q)
       PROVE  /\ Holds(u[q], k[q])
              /\ Wide(C, q, IF Waits(s, q) THEN Arity(k[q].ti) ELSE Slots(k[q].ti))
  <2>o. PICK o, b : o = Moved(p, q, 0) /\ b = Branch(p, q)
    OBVIOUS
  <2>1. q \in Path /\ b \in Nat /\ o \in D /\ IsPrefix(p, q) /\ o \in Path
    BY <1>m, <1>4, <1>13, <2>o DEF Beneath
  <2>2. IsPrefix(p, o)
    <3>1. Beneath(p, Moved(p, q, 0))
      BY <1>4, <1>13, <2>1, MovedFacts
    <3> QED
      BY <2>o, <3>1 DEF Beneath
  <2>3. Waits(s, q) /\ Waits(s, o)
    BY <2>1, <2>2
  <2>4. /\ k[q].ti = g[o].ti /\ k[q].base = g[o].base + b * z
        /\ k[q].name = IF Len(q) = Len(p) + 1 THEN ElementName(b) ELSE g[o].name
    <3>1. k[q] = ClonedPart(g, p, z, q)
      BY <1>5, <1>13 DEF ClonedParts
    <3>2. k[q] = [ti |-> g[o].ti, base |-> g[o].base + b * z,
                  name |-> IF Len(q) = Len(p) + 1 THEN ElementName(b) ELSE g[o].name]
      BY ONLY <2>o, <3>1 DEF ClonedPart
    <3> QED
      BY ONLY <3>2
  <2>5. Wide(C, q, Arity(k[q].ti))
    <3>1. Wide(D, o, Arity(g[o].ti)) /\ Arity(g[o].ti) \in Nat
      BY <1>f, <1>12, <2>1, <2>3
    <3> QED
      BY <1>11, <1>13, <2>o, <2>4, <3>1
  <2>6. Holds(u[q], k[q])
    <3>d. PICK d : d = b * z
      OBVIOUS
    <3>c. PICK child : child = (Len(q) = Len(p) + 1)
      OBVIOUS
    <3>1. d \in Nat
      <4>1. \A a1, a2 \in Nat : a1 * a2 \in Nat
        OBVIOUS
      <4> QED
        BY <1>2, <2>1, <3>d, <4>1
    <3>2. u[q] = CloneField(tree[o], d, child, ElementName(b))
      <4>1. u[q] = Clones(p)[q]
        BY <1>9, <1>13
      <4>2. Clones(p)[q] = IF Len(q) = Len(p) + 1
                THEN [Shifted(tree[o], b * z, 0) EXCEPT !.name = ElementName(b)]
                ELSE Shifted(tree[o], b * z, 0)
        BY <1>c, <1>13, <2>o
      <4> QED
        BY ONLY <3>d, <3>c, <4>1, <4>2 DEF CloneField
    <3>3. /\ FieldOK(tree[o]) /\ Holds(tree[o], g[o]) /\ g[o].base \in Nat
      BY <1>f, <1>12, <2>1
    <3>4. ClonedBy(k[q], g[o], d, child, ElementName(b))
      BY ONLY <2>4, <3>d, <3>c DEF ClonedBy
    <3>5. child \in BOOLEAN
      BY <3>c
    <3> QED
      BY ONLY <3>1, <3>2, <3>3, <3>4, <3>5, ClonedHolds
  <2> QED
    BY <2>3, <2>5, <2>6
<1>14. ASSUME NEW q \in C, ~Beneath(p, q)
       PROVE  /\ Holds(u[q], k[q]) /\ k[q] = g[q]
              /\ q # p => Wide(C, q, IF Waits(s, q) THEN Arity(k[q].ti) ELSE Slots(k[q].ti))
  <2>1. u[q] = tree[q] /\ q \in D /\ k[q] = g[q]
    BY <1>5, <1>9, <1>14 DEF ClonedParts
  <2>2. CASE q # p
    <3>1. Wide(D, q, IF Waits(s, q) THEN Arity(g[q].ti) ELSE Slots(g[q].ti))
      BY <1>f, <2>1
    <3>2. (IF Waits(s, q) THEN Arity(g[q].ti) ELSE Slots(g[q].ti)) \in Nat
      BY <1>12, <2>1
    <3>3. Wide(C, q, IF Waits(s, q) THEN Arity(g[q].ti) ELSE Slots(g[q].ti))
      BY <1>11, <1>14, <2>2, <3>1, <3>2
    <3> QED
      BY <1>f, <2>1, <3>3
  <2>3. CASE q = p
    BY <1>f, <2>1, <2>3
  <2> QED
    BY <2>2, <2>3
<1>15. p \in C /\ ~Beneath(p, p)
  <2>1. ~Beneath(p, p)
    BY <1>4 DEF Beneath, Path
  <2>2. D \subseteq C
    BY <1>e, <1>2, <1>3, <1>4, ClonedPaths
  <2> QED
    BY <1>4, <2>1, <2>2
<1>16. Wide(C, p, Slots(k[p].ti))
  <2>1. k[p] = x
    BY <1>x, <1>14, <1>15
  <2> QED
    BY <1>x, <1>6, <1>11, <2>1
<1>17. Laid(k, u, s, p, type)
  <2>1. \A q \in C : Holds(u[q], k[q])
    BY <1>13, <1>14
  <2>2. \A q \in C : q # p => Wide(C, q, IF Waits(s, q) THEN Arity(k[q].ti) ELSE Slots(k[q].ti))
    BY <1>13, <1>14
  <2> QED
    BY <1>7, <1>10, <1>16, <2>1, <2>2 DEF Laid
<1> QED
  BY <1>17 DEF u

\* What is no array, and an array without elements, is as the load left it.
LEMMA ElseLaid ==
  ASSUME Expandable, TreeOf(DOMAIN tree), FieldsOK(tree), NEW s, NEW p \in DOMAIN tree,
         Waits(s, p), NEW g, ExpandsAs(g, tree, s, type),
         ~ (tree[p].total > 0 /\ IsLeaf(p) /\ tree[p].elementBytes > 0),
         ~ (tree[p].total > 0 /\ IsTemplate(p))
  PROVE  Laid(g, tree, s, p, type)
<1>x. PICK x, ti : x = g[p] /\ ti = x.ti
  OBVIOUS
<1>1. /\ Wide(DOMAIN tree, p, Arity(ti)) /\ ti \in Types /\ Placed(g, DOMAIN tree, type)
      /\ tree[p].total = IF ti.type = "array" THEN ti.total ELSE 0
      /\ ti.type = "array" => tree[p].elementBytes = Element(ti).size
      /\ IsLeaf(p) <=> Arity(ti) = 0
      /\ Children(p) = {Append(p, 0)} <=> Arity(ti) = 1
  BY <1>x, BeforeExpansion
<1>2. \A q \in DOMAIN tree : Holds(tree[q], g[q])
         /\ Wide(DOMAIN tree, q, IF Waits(s, q) THEN Arity(g[q].ti) ELSE Slots(g[q].ti))
  BY DEF ExpandsAs
<1>3. Arity(ti) = Slots(ti)
  <2>1. CASE ti.type # "array"
    BY <1>1, <2>1, ArityOf
  <2>2. CASE ti.type = "array" /\ ArrayOfAggregates(ti)
    <3>1. Arity(ti) = 1 /\ ti.total > 0
      BY <1>1, <2>2, ArityOf
    <3> DEFINE c == Append(p, 0)
    <3>2. c \in DOMAIN tree /\ 0 \in Nat
      BY <1>1, <3>1 DEF Wide
    <3>3. g[c] = Inside(x, 0) /\ 0 < Slots(ti)
      BY <1>x, <1>1, <3>2 DEF Placed
    <3>4. g[c].ti = Element(ti)
      <4>0. x.ti \in Types /\ x.base \in Nat
        BY <1>x, <1>1 DEF Placed
      <4>1. Inside(x, 0) = [ti |-> Element(ti), base |-> x.base + 0 * Element(ti).size,
                            name |-> ElementName(0)]
        BY <1>x, <2>2, <3>3, <4>0, InsideFacts
      <4> QED
        BY <3>3, <4>1
    <3>5. tree[c].kind \in Aggregate
      BY <1>2, <2>2, <3>2, <3>4 DEF Holds, ArrayOfAggregates
    <3>6. IsTemplate(p)
      BY <1>1, <3>1, <3>5 DEF IsTemplate
    <3> QED
      BY <1>1, <2>2, <3>1, <3>6
  <2>3. CASE ti.type = "array" /\ ~ArrayOfAggregates(ti)
    <3>1. /\ Arity(ti) = 0 /\ (ti.total = 0 \/ Element(ti).size > 0) /\ Slots(ti) = ti.total
          /\ ti.total \in Nat
      BY <1>1, <2>3, ArityOf, MembersOf, ElementFacts
    <3>2. ~ (ti.total > 0)
      BY <1>1, <2>3, <3>1
    <3> QED
      BY <3>1, <3>2, NotPositive
  <2> QED
    BY <2>1, <2>2, <2>3
<1> QED
  BY <1>x, <1>1, <1>2, <1>3 DEF Laid

\* A turn of expand_array_elements keeps a ghost.
LEMMA ExpandStepExpands ==
  ASSUME Expandable, Waiting, ExpandStep, NEW g, ExpandsAs(g, tree, stack, type)
  PROVE  \E k : ExpandsAs(k, tree', stack', type')
<1>p. PICK p : p = Last(stack)
  OBVIOUS
<1>1. /\ stack # <<>> /\ type' = type
      /\ Live(stack, DOMAIN tree) /\ TreeOf(DOMAIN tree) /\ FieldsOK(tree)
  BY DEF ExpandStep, Loading, Waiting, Pointers
<1>2. tree' = ExpandedAt(p) /\ stack' = Front(stack) \o Pushed(Kids(DOMAIN tree', p))
  BY <1>p DEF ExpandStep, Kids, Top, Rest
<1>3. p \in DOMAIN tree
  BY <1>p, <1>1, TopOf
<1>u. PICK u : u = tree'
  OBVIOUS
<1>4. TreeOf(DOMAIN u) /\ DOMAIN tree \subseteq DOMAIN u
  BY <1>1, <1>2, <1>3, <1>u, ExpandedTree
<1>5. /\ Waits(stack, p) /\ ~Waits(stack', p)
      /\ \A q \in DOMAIN u : q # p => (Waits(stack', q) <=> Waits(stack, q))
  <2>1. PICK s, t, D, E : s = stack /\ t = stack' /\ D = DOMAIN tree /\ E = DOMAIN u
    OBVIOUS
  <2>2. /\ Live(s, D) /\ s # <<>> /\ p = Last(s) /\ t = Front(s) \o Pushed(Kids(E, p))
        /\ TreeOf(D) /\ TreeOf(E) /\ D \subseteq E
    BY <1>p, <1>1, <1>2, <1>4, <1>u, <2>1
  <2>3. Walks(s, t, p, D, E)
    BY <2>2 DEF Walks
  <2>4. /\ Waits(s, p) /\ ~Waits(t, p)
        /\ \A q \in E : q # p => (Waits(t, q) <=> Waits(s, q))
    BY ONLY <2>3, WalkWaits
  <2> QED
    BY <2>1, <2>4
<1>6. \A q : IsPrefix(p, q) => Waits(stack, q)
  BY <1>p, <1>1, TopOf DEF Waits
<1>7. \E k : Laid(k, u, stack, p, type)
  <2>1. CASE tree[p].total > 0 /\ IsLeaf(p) /\ tree[p].elementBytes > 0
    <3>1. u = With(Elements(p))
      BY <1>2, <1>u, <2>1 DEF ExpandedAt
    <3> QED
      BY <1>1, <1>3, <1>5, <1>6, <2>1, <3>1, ElementsLaid
  <2>2. CASE ~ (tree[p].total > 0 /\ IsLeaf(p) /\ tree[p].elementBytes > 0)
             /\ tree[p].total > 0 /\ IsTemplate(p)
    <3>1. u = With(Clones(p))
      BY <1>2, <1>u, <2>2 DEF ExpandedAt
    <3> QED
      BY <1>1, <1>3, <1>5, <1>6, <2>2, <3>1, ClonesLaid
  <2>3. CASE /\ ~ (tree[p].total > 0 /\ IsLeaf(p) /\ tree[p].elementBytes > 0)
             /\ ~ (tree[p].total > 0 /\ IsTemplate(p))
    <3>1. u = tree
      BY <1>2, <1>u, <2>3 DEF ExpandedAt
    <3> QED
      BY <1>1, <1>3, <1>5, <2>3, <3>1, ElseLaid
  <2> QED
    BY <2>1, <2>2, <2>3
<1>8. PICK k : Laid(k, u, stack, p, type)
  BY <1>7
<1>9. ExpandsAs(k, u, stack', type)
  <2>1. \A q \in DOMAIN u :
          Wide(DOMAIN u, q, IF Waits(stack', q) THEN Arity(k[q].ti) ELSE Slots(k[q].ti))
    <3> TAKE q \in DOMAIN u
    <3>1. CASE q = p
      BY <1>5, <1>8, <3>1 DEF Laid
    <3>2. CASE q # p
      BY <1>5, <1>8, <3>2 DEF Laid
    <3> QED
      BY <3>1, <3>2
  <2> QED
    BY <1>8, <2>1 DEF Laid, ExpandsAs
<1> QED
  BY <1>1, <1>u, <1>9

-----------------------------------------------------------------------------
(* The leaves of a type, by the leaves of its members.                     *)

\* Concatenation.
LEMMA EmptyFront ==
  ASSUME NEW S, NEW s \in Seq(S)
  PROVE  /\ <<>> \o s = s /\ <<>> \in Seq(S)
         /\ \A a, b \in Seq(S) : (s \o a) \o b = s \o (a \o b)
  OBVIOUS

\* The sequences flattened so far: F[j] is the first j of ss in one.
Flattened(F, ss, S) ==
  /\ \A j \in 0 .. Len(ss) : F[j] \in Seq(S)
  /\ F[0] = <<>> /\ F[Len(ss)] = FlattenSeq(ss)
  /\ \A j \in 0 .. Len(ss) - 1 : F[j + 1] = F[j] \o ss[j + 1]

\* FlattenSeq is the last of them, by induction on how many are flattened.
LEMMA FlattenSums ==
  ASSUME NEW S, NEW ss \in Seq(Seq(S))
  PROVE  \E F : Flattened(F, ss, S)
<1>1. Len(ss) \in Nat /\ \A i \in 1 .. Len(ss) : ss[i] \in Seq(S)
  OBVIOUS
<1>2. CASE Len(ss) = 0
  <2> DEFINE F == [j \in {0} |-> <<>>]
  <2>1. FlattenSeq(ss) = <<>>
    BY <1>2 DEF FlattenSeq
  <2>2. F[0] = <<>> /\ <<>> \in Seq(S)
    OBVIOUS
  <2> HIDE DEF F
  <2>3. \A j \in 0 .. Len(ss) : j = 0
    BY <1>2
  <2>4. \A j \in 0 .. Len(ss) - 1 : FALSE
    BY <1>2
  <2>5. F[Len(ss)] = FlattenSeq(ss) /\ \A j \in 0 .. Len(ss) : F[j] \in Seq(S)
    BY <1>2, <2>1, <2>2, <2>3
  <2>6. Flattened(F, ss, S)
    BY <2>2, <2>4, <2>5 DEF Flattened
  <2> QED
    BY <2>6
<1>3. CASE Len(ss) # 0
  <2> DEFINE N == Len(ss)
             Body(f, i) == IF i = 1 THEN ss[i] ELSE f[i - 1] \o ss[i]
             Defined(n) == \E f : f = [i \in 1 .. n |-> Body(f, i)]
             T == {n \in Nat : Defined(n)}
  <2>1. 0 \in T
    <3> DEFINE f == [i \in {} |-> 0]
    <3>1. f = [i \in 1 .. 0 |-> Body(f, i)]
      OBVIOUS
    <3> QED
      BY <3>1
  <2>2. ASSUME NEW n \in Nat, n \in T PROVE n + 1 \in T
    <3>1. PICK f : f = [i \in 1 .. n |-> Body(f, i)]
      BY <2>2
    <3> DEFINE g == [i \in 1 .. n + 1 |-> Body(f, i)]
    <3>2. \A i \in 1 .. n : f[i] = g[i]
      <4> HIDE DEF Body
      <4>1. \A i \in 1 .. n : i \in 1 .. n + 1
        OBVIOUS
      <4>2. \A i \in 1 .. n : g[i] = Body(f, i)
        BY <4>1
      <4>3. \A i \in 1 .. n : f[i] = Body(f, i)
        BY <3>1
      <4> QED
        BY <4>2, <4>3
    <3>3. \A i \in 1 .. n + 1 : i = 1 \/ i - 1 \in 1 .. n
      OBVIOUS
    <3>4. \A i \in 1 .. n + 1 : Body(f, i) = Body(g, i)
      <4> HIDE DEF g
      <4> QED
        BY <3>2, <3>3
    <3> HIDE DEF Body
    <3>5. g = [i \in 1 .. n + 1 |-> Body(g, i)]
      BY <3>4
    <3> HIDE DEF g
    <3>6. Defined(n + 1)
      BY <3>5
    <3> HIDE DEF Defined
    <3> QED
      BY <3>6
  <2>3. Nat \subseteq T
    <3> HIDE DEF T
    <3> QED
      BY <2>1, <2>2, Climb
  <2>4. \E f : f = [i \in 1 .. N |-> Body(f, i)]
    <3>1. N \in T
      BY <1>1, <2>3
    <3> QED
      BY <3>1
  <2> DEFINE c == CHOOSE f : f = [i \in 1 .. N |-> Body(f, i)]
  <2>5. c = [i \in 1 .. N |-> Body(c, i)]
    BY <2>4
  <2>6. FlattenSeq(ss) = c[N]
    BY <1>3 DEF FlattenSeq
  <2> HIDE DEF c
  <2>7. /\ 1 \in 1 .. N => c[1] = ss[1]
        /\ \A i \in 1 .. N : i # 1 => c[i] = c[i - 1] \o ss[i]
    BY <2>5
  <2> HIDE DEF Body, T, N
  <2> DEFINE F == [j \in 0 .. N |-> IF j = 0 THEN <<>> ELSE c[j]]
  <2>8. N \in Nat /\ N # 0 /\ N = Len(ss)
    BY <1>1, <1>3 DEF N
  <2>9. F[0] = <<>> /\ \A j \in 1 .. N : F[j] = c[j]
    BY <2>8
  <2> HIDE DEF F
  <2>10. \A j \in 0 .. N - 1 : F[j + 1] = F[j] \o ss[j + 1]
    <3> TAKE j \in 0 .. N - 1
    <3>1. j + 1 \in 1 .. N /\ (j = 0 \/ (j \in 1 .. N /\ j + 1 # 1 /\ j + 1 - 1 = j))
      BY <2>8
    <3>2. ss[j + 1] \in Seq(S)
      BY <1>1, <2>8, <3>1
    <3>3. CASE j = 0
      <4>1. F[1] = ss[1] /\ <<>> \o ss[1] = ss[1]
        BY <2>7, <2>9, <3>1, <3>2, <3>3, EmptyFront
      <4>2. j + 1 = 1
        BY <3>3
      <4> QED
        BY ONLY <2>9, <3>3, <4>1, <4>2
    <3>4. CASE j # 0
      <4>1. j \in 1 .. N /\ j + 1 \in 1 .. N /\ j + 1 # 1 /\ j + 1 - 1 = j
        BY <3>1, <3>4
      <4>2. c[j + 1] = c[j] \o ss[j + 1]
        <5>1. PICK i : i = j + 1
          OBVIOUS
        <5>2. i \in 1 .. N /\ i # 1 /\ i - 1 = j
          BY <4>1, <5>1
        <5>3. c[i] = c[i - 1] \o ss[i]
          BY <2>7, <5>2
        <5> QED
          BY ONLY <5>1, <5>2, <5>3
      <4>3. F[j] = c[j] /\ F[j + 1] = c[j + 1]
        BY <2>9, <4>1
      <4> QED
        BY ONLY <4>2, <4>3
    <3> QED
      BY <3>3, <3>4
  <2> DEFINE U == {j \in Nat : j <= N => F[j] \in Seq(S)}
  <2>11. 0 \in U
    <3>1. <<>> \in Seq(S)
      OBVIOUS
    <3>2. F[0] \in Seq(S)
      BY <2>9, <3>1
    <3> QED
      BY <3>2
  <2>12. ASSUME NEW j \in Nat, j \in U PROVE j + 1 \in U
    <3>1. CASE j + 1 <= N
      <4>1. j \in 0 .. N - 1 /\ j + 1 \in 1 .. N /\ j <= N
        BY <2>8, <3>1
      <4>2. F[j] \in Seq(S) /\ ss[j + 1] \in Seq(S) /\ F[j + 1] = F[j] \o ss[j + 1]
        BY <1>1, <2>8, <2>10, <2>12, <4>1
      <4>3. F[j + 1] \in Seq(S)
        <5>1. \A a, b \in Seq(S) : a \o b \in Seq(S)
          OBVIOUS
        <5> QED
          BY <4>2, <5>1
      <4> QED
        BY <4>3
    <3> QED
      BY <3>1
  <2>13. Nat \subseteq U
    <3> HIDE DEF U
    <3> QED
      BY <2>11, <2>12, Climb
  <2>14. \A j \in 0 .. N : F[j] \in Seq(S)
    BY <2>13
  <2>15. F[N] = FlattenSeq(ss)
    BY <2>6, <2>8, <2>9
  <2>16. Flattened(F, ss, S)
    BY <2>8, <2>9, <2>10, <2>14, <2>15 DEF Flattened
  <2> QED
    BY <2>16
<1> QED
  BY <1>2, <1>3

\* What the list has of a leaf.
LeafRec == [name : Labels, off : Nat, nbytes : Nat]

\* The leaves of a part.
LeavesAt(x) ==
  IF Members(x.ti) = <<>> THEN <<[name |-> x.name, off |-> x.base, nbytes |-> x.ti.size]>>
  ELSE LeavesOf[x.ti][x.base]

\* LeavesOf satisfies the equation that defines it, as no type contains itself.
LEMMA LeavesOfUnfolds ==
  LeavesOf = [ti \in Types |-> [base \in Nat |->
    FlattenSeq([n \in DOMAIN Members(ti) |->
      LET m == Members(ti)[n]
      IN  IF Members(m.ti) = <<>>
          THEN <<[name |-> m.name, off |-> base + m.off, nbytes |-> m.ti.size]>>
          ELSE LeavesOf[m.ti][base + m.off]])]]
<1> DEFINE Body(f, ti, base) ==
      FlattenSeq([n \in DOMAIN Members(ti) |->
        IF Members(Members(ti)[n].ti) = <<>>
        THEN <<[name |-> Members(ti)[n].name, off |-> base + Members(ti)[n].off,
                nbytes |-> Members(ti)[n].ti.size]>>
        ELSE f[Members(ti)[n].ti][base + Members(ti)[n].off]])
     S(n) == {ti \in Types : Nesting[ti] < n}
     Defined(n) == \E f : f = [ti \in S(n) |-> [base \in Nat |-> Body(f, ti, base)]]
     T == {n \in Nat : Defined(n)}
<1>1. ASSUME NEW f, NEW g, NEW ti, NEW base,
             \A n \in DOMAIN Members(ti) :
               f[Members(ti)[n].ti][base + Members(ti)[n].off]
                 = g[Members(ti)[n].ti][base + Members(ti)[n].off]
      PROVE  Body(f, ti, base) = Body(g, ti, base)
  BY <1>1
<1> HIDE DEF Body
<1>2. 0 \in T
  <2>1. \A ti \in Types : ~ (Nesting[ti] < 0)
    BY TypesAssumption
  <2>2. S(0) = {}
    BY <2>1
  <2> DEFINE f == [j \in {} |-> 0]
  <2>3. f = [ti \in S(0) |-> [base \in Nat |-> Body(f, ti, base)]]
    BY <2>2
  <2> QED
    BY <2>3
<1>3. ASSUME NEW n \in Nat, n \in T PROVE n + 1 \in T
  <2>1. PICK f : f = [ti \in S(n) |-> [base \in Nat |-> Body(f, ti, base)]]
    BY <1>3
  <2> DEFINE g == [ti \in S(n + 1) |-> [base \in Nat |-> Body(f, ti, base)]]
  <2>2. \A ti \in S(n + 1) : \A m \in DOMAIN Members(ti) :
          Members(ti)[m].ti \in S(n) /\ Members(ti)[m].off \in Nat
    <3> SUFFICES ASSUME NEW ti \in Types, Nesting[ti] < n + 1, NEW m \in DOMAIN Members(ti)
                 PROVE  Members(ti)[m].ti \in S(n) /\ Members(ti)[m].off \in Nat
      OBVIOUS
    <3>1. m \in 1 .. Slots(ti)
      BY MembersOf
    <3>2. /\ Members(ti)[m] \in MemberSet /\ Nesting[Members(ti)[m].ti] < Nesting[ti]
          /\ Nesting[Members(ti)[m].ti] \in Nat /\ Nesting[ti] \in Nat
      BY <3>1, MembersOf, TypeFacts
    <3>3. Members(ti)[m].ti \in Types /\ Members(ti)[m].off \in Nat
      BY <3>2 DEF MemberSet
    <3> QED
      BY <3>2, <3>3
  <2>3. \A ti \in S(n) : ti \in S(n + 1)
    BY TypesAssumption
  <2>4. \A ti \in S(n), base \in Nat : f[ti][base] = g[ti][base]
    <3> HIDE DEF S
    <3> QED
      BY <2>1, <2>3
  <2>5. \A ti \in S(n + 1), base \in Nat : Body(f, ti, base) = Body(g, ti, base)
    <3> HIDE DEF g, S
    <3> SUFFICES ASSUME NEW ti \in S(n + 1), NEW base \in Nat
                 PROVE Body(f, ti, base) = Body(g, ti, base)
      OBVIOUS
    <3>1. \A a, b \in Nat : a + b \in Nat
      OBVIOUS
    <3>2. \A m \in DOMAIN Members(ti) :
             f[Members(ti)[m].ti][base + Members(ti)[m].off]
               = g[Members(ti)[m].ti][base + Members(ti)[m].off]
      BY <2>2, <2>4, <3>1
    <3> QED
      BY <1>1, <3>2
  <2>6. g = [ti \in S(n + 1) |-> [base \in Nat |-> Body(g, ti, base)]]
    <3> HIDE DEF S
    <3> QED
      BY <2>5
  <2> HIDE DEF g
  <2>7. Defined(n + 1)
    BY <2>6
  <2> HIDE DEF Defined
  <2> QED
    BY <2>7
<1>4. Nat \subseteq T
  <2> HIDE DEF T
  <2> QED
    BY <1>2, <1>3, Climb
<1>5. PICK m \in Nat : \A ti \in Types : Nesting[ti] < m
  BY NestingBounded
<1>6. S(m) = Types
  BY <1>5
<1>7. \E f : f = [ti \in Types |-> [base \in Nat |-> Body(f, ti, base)]]
  <2>1. m \in T
    BY <1>4
  <2> QED
    BY <1>6, <2>1
<1>8. LeavesOf = CHOOSE f : f = [ti \in Types |-> [base \in Nat |-> Body(f, ti, base)]]
  BY DEF LeavesOf, Body
<1>9. LeavesOf = [ti \in Types |-> [base \in Nat |-> Body(LeavesOf, ti, base)]]
  BY <1>7, <1>8
<1> QED
  BY <1>9 DEF Body

\* The leaves of a type are those of its members, one after the other.
LEMMA LeavesAtMembers ==
  ASSUME NEW x, x.ti \in Types, x.base \in Nat, Slots(x.ti) # 0,
         NEW ss, ss = [n \in 1 .. Slots(x.ti) |-> LeavesAt(Inside(x, n - 1))]
  PROVE  LeavesAt(x) = FlattenSeq(ss)
<1> DEFINE ti == x.ti
           b == x.base
           MemberLeaves(k, base, n) == 
             IF Members(Members(k)[n].ti) = <<>>
             THEN <<[name |-> Members(k)[n].name, off |-> base + Members(k)[n].off,
                     nbytes |-> Members(k)[n].ti.size]>>
             ELSE LeavesOf[Members(k)[n].ti][base + Members(k)[n].off]
<1>1. LeavesOf = [k \in Types |-> [base \in Nat |-> FlattenSeq([n \in DOMAIN Members(k) |-> MemberLeaves(k, base, n)])]]
  BY LeavesOfUnfolds
<1>4. \A n \in 1 .. Slots(ti) : MemberLeaves(ti, b, n) = LeavesAt(Inside(x, n - 1))
  <2> TAKE n \in 1 .. Slots(ti)
  <2>0. PICK m : m = Members(ti)[n]
    OBVIOUS
  <2>1. n - 1 + 1 = n
    BY MembersOf
  <2>2. Inside(x, n - 1) = [ti |-> m.ti, base |-> b + m.off, name |-> m.name]
    BY <2>0, <2>1 DEF Inside
  <2>3. LeavesAt(Inside(x, n - 1)) = IF Members(m.ti) = <<>>
             THEN <<[name |-> m.name, off |-> b + m.off, nbytes |-> m.ti.size]>>
             ELSE LeavesOf[m.ti][b + m.off]
    BY ONLY <2>2 DEF LeavesAt
  <2> QED
    BY ONLY <2>0, <2>3
<1> HIDE DEF MemberLeaves
<1>2. LeavesOf[ti] = [base \in Nat |-> FlattenSeq([n \in DOMAIN Members(ti) |-> MemberLeaves(ti, base, n)])]
  BY <1>1
<1>3. LeavesOf[ti][b] = FlattenSeq([n \in DOMAIN Members(ti) |-> MemberLeaves(ti, b, n)])
  BY <1>2
<1>5. DOMAIN Members(ti) = 1 .. Slots(ti) /\ Members(ti) # <<>>
  BY MembersOf
<1>6. [n \in DOMAIN Members(ti) |-> MemberLeaves(ti, b, n)] = ss
  BY <1>4, <1>5
<1>7. LeavesAt(x) = LeavesOf[ti][b]
  BY <1>5 DEF LeavesAt
<1> QED
  BY <1>3, <1>6, <1>7

\* The leaves of a part have a type, by induction on Nesting.
LEMMA LeavesTyped ==
  ASSUME NEW x, Part(x)
  PROVE  LeavesAt(x) \in Seq(LeafRec)
<1> DEFINE T == {n \in Nat : \A y : Part(y) /\ Nesting[y.ti] < n => LeavesAt(y) \in Seq(LeafRec)}
<1>1. 0 \in T
  <2>1. \A ti \in Types : ~ (Nesting[ti] < 0)
    BY TypesAssumption
  <2> QED
    BY <2>1 DEF Part
<1>2. ASSUME NEW n \in Nat, n \in T PROVE n + 1 \in T
  <2> SUFFICES ASSUME NEW y, Part(y), Nesting[y.ti] < n + 1 PROVE LeavesAt(y) \in Seq(LeafRec)
    OBVIOUS
  <2>1. y.ti \in Types /\ y.base \in Nat /\ y.name \in Labels /\ Slots(y.ti) \in Nat
        /\ (Members(y.ti) = <<>> <=> Slots(y.ti) = 0) /\ Nesting[y.ti] \in Nat
    BY MembersOf, TypeFacts DEF Part
  <2>2. CASE Slots(y.ti) = 0
    <3> DEFINE r == [name |-> y.name, off |-> y.base, nbytes |-> y.ti.size]
    <3>1. LeavesAt(y) = <<r>>
      BY <2>1, <2>2 DEF LeavesAt
    <3>2. y.ti.size \in Nat
      <4>1. PICK t \in Types : t = y.ti
        BY <2>1
      <4>2. t.size \in Nat
        BY TypeFacts
      <4> QED
        BY <4>1, <4>2
    <3>3. r \in LeafRec
      BY <2>1, <3>2 DEF LeafRec
    <3> HIDE DEF r
    <3> QED
      BY <3>1, <3>3
  <2>3. CASE Slots(y.ti) # 0
    <3> DEFINE k == Slots(y.ti)
               ss == [m \in 1 .. k |-> LeavesAt(Inside(y, m - 1))]
    <3>1. LeavesAt(y) = FlattenSeq(ss)
      BY <2>1, <2>3, LeavesAtMembers
    <3>2. \A m \in 1 .. k : LeavesAt(Inside(y, m - 1)) \in Seq(LeafRec)
      <4> TAKE m \in 1 .. k
      <4>1. m - 1 \in Nat /\ m - 1 < k /\ m - 1 + 1 = m
        BY <2>1
      <4>2. Part(Inside(y, m - 1))
        BY <2>1, <4>1, InsideFacts DEF Part
      <4>3. Inside(y, m - 1).ti = Members(y.ti)[m].ti
        BY <4>1 DEF Inside
      <4>4. Nesting[Members(y.ti)[m].ti] < Nesting[y.ti] /\ Nesting[Members(y.ti)[m].ti] \in Nat
        BY <2>1, MembersOf
      <4>5. Nesting[Inside(y, m - 1).ti] < n
        BY <2>1, <4>3, <4>4
      <4> QED
        BY <1>2, <4>2, <4>5
    <3>3. ss \in Seq(Seq(LeafRec))
      <4>1. ss \in [1 .. k -> Seq(LeafRec)]
        BY <3>2
      <4> HIDE DEF ss
      <4> QED
        BY <2>1, <4>1
    <3> HIDE DEF ss
    <3>4. PICK F : Flattened(F, ss, LeafRec)
      BY <3>3, FlattenSums
    <3>5. Len(ss) \in 0 .. Len(ss)
      BY <3>3
    <3> QED
      BY <3>1, <3>4, <3>5 DEF Flattened
  <2> QED
    BY <2>2, <2>3
<1>3. Nat \subseteq T
  <2> HIDE DEF T
  <2> QED
    BY <1>1, <1>2, Climb
<1>4. Nesting[x.ti] + 1 \in Nat /\ Nesting[x.ti] < Nesting[x.ti] + 1
  BY TypeFacts DEF Part
<1> QED
  BY <1>3, <1>4

\* F[j] holds the leaves of the first j members.
MemberSums(F, x, n) ==
  /\ \A j \in 0 .. n : F[j] \in Seq(LeafRec)
  /\ F[0] = <<>> /\ F[n] = LeavesAt(x)
  /\ \A j \in 0 .. n - 1 : /\ F[j + 1] = F[j] \o LeavesAt(Inside(x, j))
                           /\ LeavesAt(Inside(x, j)) \in Seq(LeafRec)

\* There are such.
LEMMA MembersSums ==
  ASSUME NEW x, x.ti \in Types, x.base \in Nat, NEW n, n = Slots(x.ti), n # 0
  PROVE  \E F : MemberSums(F, x, n)
<1> DEFINE ss == [m \in 1 .. n |-> LeavesAt(Inside(x, m - 1))]
<1>1. LeavesAt(x) = FlattenSeq(ss) /\ n \in Nat
  BY LeavesAtMembers, MembersOf
<1>2. \A j \in Nat : j < n => LeavesAt(Inside(x, j)) \in Seq(LeafRec)
  BY InsideFacts, LeavesTyped DEF Part
<1>3. \A m \in 1 .. n : m - 1 \in Nat /\ m - 1 < n
  BY <1>1
<1>4. ss \in [1 .. n -> Seq(LeafRec)] /\ \A m \in 1 .. n : ss[m] = LeavesAt(Inside(x, m - 1))
  BY <1>2, <1>3
<1> HIDE DEF ss
<1>5. ss \in Seq(Seq(LeafRec)) /\ Len(ss) = n
  BY <1>1, <1>4
<1>6. PICK F : Flattened(F, ss, LeafRec)
  BY <1>5, FlattenSums
<1>7. \A j \in 0 .. n - 1 : F[j + 1] = F[j] \o LeavesAt(Inside(x, j))
  <2> TAKE j \in 0 .. n - 1
  <2>1. j + 1 \in 1 .. n /\ j + 1 - 1 = j
    BY <1>1
  <2>2. ss[j + 1] = LeavesAt(Inside(x, j))
    BY <1>4, <2>1
  <2> QED
    BY <1>5, <1>6, <2>2 DEF Flattened
<1>8. \A j \in 0 .. n - 1 : j \in Nat /\ j < n
  BY <1>1
<1>9. MemberSums(F, x, n)
  BY <1>1, <1>2, <1>5, <1>6, <1>7, <1>8 DEF Flattened, MemberSums
<1> QED
  BY <1>9

-----------------------------------------------------------------------------
(* The collection of leaves.                                               *)

\* What the leaf list says.
Listed(ls, t) ==
  [n \in DOMAIN ls |-> [name |-> t[ls[n]].name, off |-> t[ls[n]].off, nbytes |-> t[ls[n]].nbytes]]

\* h[n] is the list as it will be when the stack s is down to n: what is listed
\* now is first, the list in the end is all.
Sums(h, g, s, first, all) ==
  /\ \A n \in 0 .. Len(s) : h[n] \in Seq(LeafRec)
  /\ h[0] = all /\ h[Len(s)] = first
  /\ \A n \in 1 .. Len(s) : h[n - 1] = h[n] \o LeavesAt(g[s[n]])

\* While leaves are collected: the tree is complete, and what is listed with
\* what is under the fields on the stack makes up the leaves of the symbol.
CollectsAs(g, t, s, ls, ty) ==
  /\ Placed(g, DOMAIN t, ty) /\ ls \in Seq(Path)
  /\ \A q \in DOMAIN t : Holds(t[q], g[q]) /\ Wide(DOMAIN t, q, Slots(g[q].ti))
  /\ \E h : Sums(h, g, s, Listed(ls, t), LeavesAt(Whole(ty)))

\* The empty list, and a leaf more.
LEMMA ListedNone ==
  ASSUME NEW t
  PROVE  Listed(<<>>, t) = <<>>
<1>1. Listed(<<>>, t) = [n \in DOMAIN <<>> |->
         [name |-> t[<<>>[n]].name, off |-> t[<<>>[n]].off, nbytes |-> t[<<>>[n]].nbytes]]
  BY DEF Listed
<1>2. DOMAIN <<>> = {}
  OBVIOUS
<1>3. DOMAIN Listed(<<>>, t) = {}
  BY <1>1, <1>2
<1> QED
  BY <1>1, <1>2

LEMMA ListedMore ==
  ASSUME NEW t, NEW ls \in Seq(Path), NEW p \in Path, NEW r,
         r = [name |-> t[p].name, off |-> t[p].off, nbytes |-> t[p].nbytes],
         Listed(ls, t) \in Seq(LeafRec), r \in LeafRec
  PROVE  Listed(Append(ls, p), t) = Listed(ls, t) \o <<r>>
<1> DEFINE rec(q) == [name |-> t[q].name, off |-> t[q].off, nbytes |-> t[q].nbytes]
<1>1. \A k : Listed(k, t) = [n \in DOMAIN k |-> rec(k[n])]
  BY DEF Listed
<1>2. r = rec(p)
  OBVIOUS
<1> HIDE DEF rec
<1>3. PICK m \in Nat : m = Len(ls) /\ DOMAIN ls = 1 .. m
  OBVIOUS
<1>k. PICK k : k = Append(ls, p)
  OBVIOUS
<1>4. /\ k \in Seq(Path) /\ Len(k) = m + 1 /\ DOMAIN k = 1 .. m + 1
      /\ k[m + 1] = p /\ \A n \in 1 .. m : k[n] = ls[n]
  BY <1>3, <1>k
<1>5. PICK a : a = Listed(ls, t)
  OBVIOUS
<1>6. a \in Seq(LeafRec) /\ Len(a) = m /\ \A n \in 1 .. m : a[n] = rec(ls[n])
  <2>1. a = [n \in 1 .. m |-> rec(ls[n])] /\ a \in Seq(LeafRec)
    BY <1>1, <1>3, <1>5
  <2>2. DOMAIN a = 1 .. m /\ DOMAIN a = 1 .. Len(a) /\ Len(a) \in Nat
    BY <2>1
  <2>3. Len(a) = m
    BY <1>3, <2>2
  <2> QED
    BY <2>1, <2>3
<1>7. /\ a \o <<r>> \in Seq(LeafRec) /\ Len(a \o <<r>>) = m + 1
      /\ \A n \in 1 .. m : (a \o <<r>>)[n] = a[n]
      /\ (a \o <<r>>)[m + 1] = r
  <2>1. <<r>> \in Seq(LeafRec) /\ Len(<<r>>) = 1 /\ <<r>>[1] = r
    OBVIOUS
  <2>2. PICK b : b = <<r>>
    OBVIOUS
  <2>3. a \o b \in Seq(LeafRec) /\ Len(a \o b) = m + 1
        /\ (\A n \in 1 .. m : (a \o b)[n] = a[n]) /\ (a \o b)[m + 1] = b[1]
    BY <1>3, <1>6, <2>1, <2>2
  <2> QED
    BY <2>1, <2>2, <2>3
<1>8. PICK c : c = a \o <<r>>
  OBVIOUS
<1>9. c = [n \in 1 .. m + 1 |-> c[n]]
  BY <1>7, <1>8
<1>10. Listed(k, t) = [n \in 1 .. m + 1 |-> rec(k[n])]
  BY <1>1, <1>4
<1>11. \A n \in 1 .. m + 1 : c[n] = rec(k[n])
  <2> TAKE n \in 1 .. m + 1
  <2>1. n \in 1 .. m \/ n = m + 1
    BY <1>3
  <2> QED
    BY <1>2, <1>4, <1>6, <1>7, <1>8, <2>1
<1>12. Listed(k, t) = c
  BY <1>9, <1>10, <1>11
<1> QED
  BY <1>5, <1>8, <1>k, <1>12

\* A field without members tells of itself alone.
LEMMA LeafHeld ==
  ASSUME NEW f, NEW x, Part(x), Holds(f, x), Slots(x.ti) = 0
  PROVE  /\ LeavesAt(x) = <<[name |-> f.name, off |-> f.off, nbytes |-> f.nbytes]>>
         /\ [name |-> f.name, off |-> f.off, nbytes |-> f.nbytes] \in LeafRec
<1>1. x.ti \in Types /\ x.base \in Nat /\ x.name \in Labels
  BY DEF Part
<1>t. PICK ti \in Types : ti = x.ti
  BY <1>1
<1>2. Members(ti) = <<>> /\ (ti.type # "array" => Members(ti) = ti.fields) /\ ti.size \in Nat
  <2>1. Slots(ti) = 0
    BY <1>t
  <2>2. (Members(ti) = <<>> <=> Slots(ti) = 0) /\ (ti.type # "array" => Members(ti) = ti.fields)
    BY MembersOf
  <2>3. ti.size \in Nat
    BY TypeFacts
  <2> QED
    BY <2>1, <2>2, <2>3
<1>3. Flat(ti)
  BY <1>2 DEF Flat, Aggregate
<1>4. f.nbytes = ti.size /\ f.off = x.base /\ f.name = x.name
  BY <1>3, <1>t DEF Holds
<1>5. LeavesAt(x) = <<[name |-> x.name, off |-> x.base, nbytes |-> ti.size]>>
  BY <1>2, <1>t DEF LeavesAt
<1>6. [name |-> x.name, off |-> x.base, nbytes |-> ti.size] \in LeafRec
  BY <1>1, <1>2 DEF LeafRec
<1> QED
  BY <1>4, <1>5, <1>6

\* The top of the stack is a leaf and has been listed.
LEMMA SumsLeaf ==
  ASSUME NEW h, NEW g, NEW s, NEW t, NEW p, NEW a, NEW b,
         WalkedTo(s, t, p, 0), Sums(h, g, s, a, b)
  PROVE  Sums(h, g, t, a \o LeavesAt(g[p]), b)
<1>1. /\ Len(s) \in Nat \ {0} /\ p = s[Len(s)] /\ Len(t) = Len(s) - 1
      /\ \A m \in 1 .. Len(s) - 1 : t[m] = s[m]
  BY DEF WalkedTo
<1>l. PICK l \in Nat : l = Len(s) - 1 /\ Len(s) = l + 1 /\ Len(t) = l
  BY <1>1
<1>2. /\ \A n \in 0 .. l + 1 : h[n] \in Seq(LeafRec)
      /\ h[0] = b /\ h[l + 1] = a
      /\ \A n \in 1 .. l + 1 : h[n - 1] = h[n] \o LeavesAt(g[s[n]])
  BY <1>l DEF Sums
<1>3. h[l] = a \o LeavesAt(g[p])
  <2>1. PICK n : n = l + 1
    OBVIOUS
  <2>2. n \in 1 .. l + 1 /\ n - 1 = l /\ s[n] = p
    BY <1>1, <1>l, <2>1
  <2>3. h[n - 1] = h[n] \o LeavesAt(g[s[n]])
    BY <1>2, <2>2
  <2> QED
    BY <1>2, <2>1, <2>2, <2>3
<1>4. \A n \in 1 .. l : h[n - 1] = h[n] \o LeavesAt(g[t[n]])
  <2> TAKE n \in 1 .. l
  <2>1. n \in 1 .. l + 1 /\ t[n] = s[n]
    BY <1>1, <1>l
  <2> QED
    BY <1>2, <2>1
<1>5. \A n \in 0 .. l : h[n] \in Seq(LeafRec)
  BY <1>2
<1> QED
  BY <1>2, <1>3, <1>4, <1>5, <1>l DEF Sums

\* The top of the stack has given way to its members.
LEMMA SumsInner ==
  ASSUME NEW h, NEW g, NEW s, NEW t, NEW p, NEW a, NEW b, NEW k \in Nat \ {0},
         WalkedTo(s, t, p, k), Sums(h, g, s, a, b), Part(g[p]), k = Slots(g[p].ti),
         \A i \in Nat : i < k => g[Append(p, i)] = Inside(g[p], i)
  PROVE  \E e : Sums(e, g, t, a, b)
<1>1. /\ Len(s) \in Nat \ {0} /\ p = s[Len(s)] /\ Len(t) = Len(s) - 1 + k
      /\ \A m \in 1 .. Len(s) - 1 : t[m] = s[m]
      /\ \A m \in 1 .. k : t[Len(s) - 1 + m] = Append(p, k - m)
  BY DEF WalkedTo
<1>l. PICK l \in Nat : l = Len(s) - 1 /\ Len(s) = l + 1 /\ Len(t) = l + k
  BY <1>1
<1>t. /\ \A m \in 1 .. l : t[m] = s[m]
      /\ \A m \in 1 .. k : t[l + m] = Append(p, k - m)
  BY <1>1, <1>l
<1>2. /\ \A n \in 0 .. l + 1 : h[n] \in Seq(LeafRec)
      /\ h[0] = b /\ h[l + 1] = a
      /\ \A n \in 1 .. l + 1 : h[n - 1] = h[n] \o LeavesAt(g[s[n]])
  BY <1>l DEF Sums
<1>3. h[l] = a \o LeavesAt(g[p])
  <2>1. PICK n : n = l + 1
    OBVIOUS
  <2>2. n \in 1 .. l + 1 /\ n - 1 = l /\ s[n] = p
    BY <1>1, <1>l, <2>1
  <2>3. h[n - 1] = h[n] \o LeavesAt(g[s[n]])
    BY <1>2, <2>2
  <2> QED
    BY <1>2, <2>1, <2>2, <2>3
<1>x. PICK x : x = g[p]
  OBVIOUS
<1>4. PICK F : /\ \A j \in 0 .. k : F[j] \in Seq(LeafRec)
               /\ F[0] = <<>> /\ F[k] = LeavesAt(x)
               /\ \A j \in 0 .. k - 1 : /\ F[j + 1] = F[j] \o LeavesAt(Inside(x, j))
                                        /\ LeavesAt(Inside(x, j)) \in Seq(LeafRec)
  <2>1. x.ti \in Types /\ x.base \in Nat /\ k = Slots(x.ti) /\ k # 0
    BY <1>x DEF Part
  <2>2. PICK F : MemberSums(F, x, k)
    BY <2>1, MembersSums
  <2> QED
    BY <2>2 DEF MemberSums
<1>5. a \in Seq(LeafRec) /\ l + 1 \in 0 .. l + 1
  BY <1>2
<1>6. /\ \A j \in 0 .. k : a \o F[j] \in Seq(LeafRec)
      /\ \A j \in 0 .. k - 1 : a \o F[j + 1] = (a \o F[j]) \o LeavesAt(Inside(x, j))
      /\ a \o F[0] = a
  <2>1. \A c, d \in Seq(LeafRec) : c \o d \in Seq(LeafRec)
    OBVIOUS
  <2>2. \A c, d \in Seq(LeafRec) : (a \o c) \o d = a \o (c \o d)
    BY <1>5, EmptyFront
  <2>3. a \o <<>> = a
    BY <1>5
  <2>4. \A j \in 0 .. k - 1 : j \in 0 .. k
    OBVIOUS
  <2>5. \A j \in 0 .. k : a \o F[j] \in Seq(LeafRec)
    BY <1>4, <1>5, <2>1
  <2>6. ASSUME NEW j \in 0 .. k - 1 PROVE a \o F[j + 1] = (a \o F[j]) \o LeavesAt(Inside(x, j))
    <3>1. PICK c, d : c = F[j] /\ d = LeavesAt(Inside(x, j))
      OBVIOUS
    <3>2. c \in Seq(LeafRec) /\ d \in Seq(LeafRec) /\ F[j + 1] = c \o d
      BY <1>4, <2>4, <3>1
    <3>3. (a \o c) \o d = a \o (c \o d)
      BY <2>2, <3>2
    <3> QED
      BY ONLY <3>1, <3>2, <3>3
  <2>7. a \o F[0] = a
    BY <1>4, <2>3
  <2> QED
    BY <2>5, <2>6, <2>7
<1>7. \A j \in 0 .. k - 1 : Inside(x, j) = g[Append(p, j)]
  BY <1>x
<1>F. PICK G : /\ \A j \in 0 .. k : G[j] \in Seq(LeafRec)
               /\ G[0] = a /\ G[k] = h[l]
               /\ \A j \in 0 .. k - 1 : G[j + 1] = G[j] \o LeavesAt(g[Append(p, j)])
  <2> DEFINE G == [j \in 0 .. k |-> a \o F[j]]
  <2>1. \A j \in 0 .. k : G[j] = a \o F[j]
    OBVIOUS
  <2> HIDE DEF G
  <2>2. 0 \in 0 .. k /\ k \in 0 .. k /\ \A j \in 0 .. k - 1 : j \in 0 .. k /\ j + 1 \in 0 .. k
    OBVIOUS
  <2>3. G[0] = a /\ G[k] = h[l]
    BY <1>3, <1>4, <1>6, <1>x, <2>1, <2>2
  <2>4. \A j \in 0 .. k - 1 : G[j + 1] = G[j] \o LeavesAt(g[Append(p, j)])
    BY <1>6, <1>7, <2>1, <2>2
  <2> QED
    BY <1>6, <2>1, <2>3, <2>4
<1> DEFINE e == [n \in 0 .. l + k |-> IF n <= l THEN h[n] ELSE G[k - (n - l)]]
<1>8. /\ \A n \in 0 .. l : e[n] = h[n]
      /\ \A m \in 0 .. k : e[l + m] = G[k - m]
  <2>1. \A n \in 0 .. l : n \in 0 .. l + k /\ n <= l
    OBVIOUS
  <2>2. \A m \in 0 .. k : l + m \in 0 .. l + k /\ (l + m <= l => m = 0) /\ k - (l + m - l) = k - m
                          /\ l + 0 = l /\ k - 0 = k
    OBVIOUS
  <2>3. \A n \in 0 .. l : e[n] = h[n]
    BY <2>1
  <2>4. ASSUME NEW m \in 0 .. k PROVE e[l + m] = G[k - m]
    <3>1. CASE m = 0
      BY <1>F, <2>2, <2>3, <3>1
    <3>2. CASE m # 0
      <4>1. PICK n : n = l + m
        OBVIOUS
      <4>2. n \in 0 .. l + k /\ ~(n <= l) /\ k - (n - l) = k - m
        BY <2>2, <3>2, <4>1
      <4>3. e[n] = G[k - (n - l)]
        BY <4>2
      <4> QED
        BY ONLY <4>1, <4>2, <4>3
    <3> QED
      BY <3>1, <3>2
  <2> QED
    BY <2>3, <2>4
<1> HIDE DEF e
<1>9. \A n \in 0 .. l + k : n \in 0 .. l \/ \E m \in 1 .. k : n = l + m
  <2> TAKE n \in 0 .. l + k
  <2>1. n > l => n - l \in 1 .. k /\ n = l + (n - l)
    OBVIOUS
  <2> QED
    BY <2>1
<1>10. \A n \in 0 .. l + k : e[n] \in Seq(LeafRec)
  <2> TAKE n \in 0 .. l + k
  <2>1. CASE n \in 0 .. l
    BY <1>2, <1>8, <2>1
  <2>2. ASSUME NEW m \in 1 .. k, n = l + m PROVE e[n] \in Seq(LeafRec)
    <3>1. m \in 0 .. k /\ k - m \in 0 .. k
      OBVIOUS
    <3> QED
      BY <1>8, <1>F, <2>2, <3>1
  <2> QED
    BY <1>9, <2>1, <2>2
<1>11. e[0] = b /\ e[l + k] = a
  <2>1. 0 \in 0 .. l /\ k \in 0 .. k /\ k - k = 0
    OBVIOUS
  <2>2. e[0] = h[0]
    BY <1>8, <2>1
  <2>3. e[l + k] = G[k - k]
    BY <1>8, <2>1
  <2> QED
    BY <1>2, <1>F, <2>1, <2>2, <2>3
<1>12. \A n \in 1 .. l + k : e[n - 1] = e[n] \o LeavesAt(g[t[n]])
  <2> TAKE n \in 1 .. l + k
  <2>1. CASE n \in 0 .. l
    <3>1. n \in 1 .. l /\ n - 1 \in 0 .. l /\ n \in 1 .. l + 1
      BY <2>1
    <3>2. e[n - 1] = h[n - 1] /\ e[n] = h[n] /\ t[n] = s[n] /\ h[n - 1] = h[n] \o LeavesAt(g[s[n]])
      BY <1>2, <1>8, <1>t, <2>1, <3>1
    <3> QED
      BY <3>2
  <2>2. ASSUME NEW m \in 1 .. k, n = l + m PROVE e[n - 1] = e[n] \o LeavesAt(g[t[n]])
    <3>1. PICK j, i : j = k - m /\ i = m - 1
      OBVIOUS
    <3>2. /\ i \in 0 .. k /\ n - 1 = l + i /\ k - i = j + 1 /\ j \in 0 .. k - 1 /\ m \in 0 .. k
      BY <2>2, <3>1
    <3>3. e[l + i] = G[k - i]
      BY <1>8, <3>2
    <3>4. e[l + m] = G[k - m]
      BY <1>8, <3>2
    <3>5. t[l + m] = Append(p, k - m)
      BY <1>t
    <3>6. G[j + 1] = G[j] \o LeavesAt(g[Append(p, j)])
      BY <1>F, <3>2
    <3> QED
      BY ONLY <2>2, <3>1, <3>2, <3>3, <3>4, <3>5, <3>6
  <2>3. n \in 0 .. l + k
    OBVIOUS
  <2> QED
    BY <1>9, <2>1, <2>2, <2>3
<1>13. Sums(e, g, t, a, b)
  BY <1>10, <1>11, <1>12, <1>l DEF Sums
<1> QED
  BY <1>13

\* Once every field is expanded the leaves of the whole symbol are to be
\* listed, from its root on.
LEMMA ExpandedCollects ==
  ASSUME Waiting, ExpandDone, leaves = <<>>, NEW g, ExpandsAs(g, tree, stack, type)
  PROVE  CollectsAs(g, tree', stack', leaves', type')
<1>1. /\ stack = <<>> /\ stack' = <<Root>> /\ tree' = tree /\ type' = type /\ leaves' = <<>>
      /\ TreeOf(DOMAIN tree) /\ type \in Types
  BY DEF ExpandDone, Loading, Waiting
<1>2. \A q \in DOMAIN tree : ~Waits(stack, q)
  BY <1>1 DEF Waits
<1>3. /\ Placed(g, DOMAIN tree, type)
      /\ \A q \in DOMAIN tree : Holds(tree[q], g[q]) /\ Wide(DOMAIN tree, q, Slots(g[q].ti))
  BY <1>2 DEF ExpandsAs
<1>w. PICK w : w = Whole(type)
  OBVIOUS
<1>4. g[Root] = w /\ Part(w)
  <2>1. w.ti = type /\ w.base = 0 /\ w.name = "symbol"
    BY <1>w DEF Whole
  <2> QED
    BY <1>1, <1>3, <1>w, <2>1, SymbolLabel DEF Placed, Part
<1>5. PICK all \in Seq(LeafRec) : all = LeavesAt(w)
  BY <1>4, LeavesTyped
<1>6. PICK s : s = <<Root>>
  OBVIOUS
<1>7. Len(s) = 1 /\ s[1] = Root
  BY <1>6
<1> DEFINE h == [n \in {0, 1} |-> IF n = 0 THEN all ELSE <<>>]
<1>8. h[0] = all /\ h[1] = <<>> /\ <<>> \in Seq(LeafRec) /\ <<>> \o all = all
  <2>1. h[0] = all /\ h[1] = <<>>
    OBVIOUS
  <2> HIDE DEF h
  <2> QED
    BY <2>1, EmptyFront
<1> HIDE DEF h
<1>9. Sums(h, g, s, <<>>, all)
  <2>1. \A n \in 0 .. Len(s) : n = 0 \/ n = 1
    BY <1>7
  <2>2. \A n \in 1 .. Len(s) : n = 1 /\ n - 1 = 0
    BY <1>7
  <2>3. \A n \in 0 .. Len(s) : h[n] \in Seq(LeafRec)
    BY <1>8, <2>1
  <2>4. h[0] = h[1] \o LeavesAt(g[s[1]])
    BY <1>4, <1>5, <1>7, <1>8
  <2>5. \A n \in 1 .. Len(s) : h[n - 1] = h[n] \o LeavesAt(g[s[n]])
    <3> TAKE n \in 1 .. Len(s)
    <3>1. n = 1 /\ n - 1 = 0
      BY <2>2
    <3> QED
      BY ONLY <2>4, <3>1
  <2> QED
    BY <1>7, <1>8, <2>3, <2>5 DEF Sums
<1>10. Listed(<<>>, tree) = <<>> /\ <<>> \in Seq(Path)
  BY ListedNone
<1>11. \E e : Sums(e, g, s, Listed(<<>>, tree), LeavesAt(Whole(type)))
  BY <1>5, <1>9, <1>10, <1>w
<1>12. CollectsAs(g, tree, s, <<>>, type)
  BY <1>3, <1>10, <1>11 DEF CollectsAs
<1> QED
  BY <1>1, <1>6, <1>12

\* A turn of collect_leaves keeps the sums.
LEMMA CollectStepCollects ==
  ASSUME Waiting, CollectStep, NEW g, CollectsAs(g, tree, stack, leaves, type)
  PROVE  CollectsAs(g, tree', stack', leaves', type')
<1>p. PICK p, s, t, D : p = Last(stack) /\ s = stack /\ t = stack' /\ D = DOMAIN tree
  OBVIOUS
<1>1. /\ stack # <<>> /\ type' = type /\ tree' = tree
      /\ Live(stack, DOMAIN tree) /\ TreeOf(DOMAIN tree) /\ type \in Types
  BY DEF CollectStep, Loading, Waiting, Pointers
<1>2. /\ stack' = Front(stack) \o Pushed(Kids(DOMAIN tree, p))
      /\ leaves' = IF IsLeaf(p) THEN Append(leaves, p) ELSE leaves
  BY <1>p DEF CollectStep, Kids, Children, Top, Rest
<1>3. /\ Placed(g, D, type) /\ leaves \in Seq(Path)
      /\ \A q \in D : Holds(tree[q], g[q]) /\ Wide(D, q, Slots(g[q].ti))
  BY <1>p DEF CollectsAs
<1>h. PICK h : Sums(h, g, s, Listed(leaves, tree), LeavesAt(Whole(type)))
  BY <1>p DEF CollectsAs
<1>4. p \in D /\ p \in Path
  BY <1>1, <1>p, TopOf DEF TreeOf
<1>5. Part(g[p])
  <2>0. Root \in D /\ \A q \in D : g[q].ti \in Types /\ g[q].base \in Nat
    BY <1>1, <1>3, <1>p DEF Placed, TreeOf
  <2>1. CASE p = Root
    <3>1. g[p] = Whole(type)
      BY <1>3, <2>1 DEF Placed
    <3>2. g[p].name = "symbol"
      BY <3>1 DEF Whole
    <3> QED
      BY <1>4, <2>0, <3>2, SymbolLabel DEF Part
  <2>2. CASE p # Root
    <3>1. /\ Front(p) \in Path /\ Last(p) \in Nat /\ p = Append(Front(p), Last(p))
          /\ IsPrefix(Front(p), p)
      BY <1>4, <2>2, ChildFront DEF Root
    <3>2. Front(p) \in D
      BY <1>1, <1>4, <1>p, <3>1 DEF TreeOf
    <3>3. PICK q, i : q = Front(p) /\ i = Last(p)
      OBVIOUS
    <3>4. q \in D /\ i \in Nat /\ p = Append(q, i)
      BY <3>1, <3>2, <3>3
    <3>5. i < Slots(g[q].ti) /\ g[p] = Inside(g[q], i)
      BY <1>3, <1>4, <3>4 DEF Placed
    <3>6. Inside(g[q], i).name \in Labels
      BY <2>0, <3>4, <3>5, InsideFacts
    <3> QED
      BY <1>4, <2>0, <3>5, <3>6 DEF Part
  <2> QED
    BY <2>1, <2>2
<1>k. PICK k \in Nat : k = Slots(g[p].ti)
  BY <1>5, MembersOf DEF Part
<1>6. Wide(D, p, k) /\ Holds(tree[p], g[p])
  BY <1>3, <1>4, <1>k
<1>7. WalkedTo(s, t, p, k)
  <2>1. Live(s, D) /\ s # <<>> /\ p = Last(s) /\ t = Front(s) \o Pushed(Kids(D, p)) /\ TreeOf(D)
    BY <1>1, <1>2, <1>p
  <2>2. Walks(s, t, p, D, D)
    BY <2>1 DEF Walks
  <2> QED
    BY <1>6, <2>2, Walked
<1>8. IsLeaf(p) <=> k = 0
  BY <1>1, <1>4, <1>6, <1>p, ChildrenOf
<1>9. /\ leaves' \in Seq(Path)
      /\ \E e : Sums(e, g, t, Listed(leaves', tree), LeavesAt(Whole(type)))
  <2>1. CASE k = 0
    <3>1. leaves' = Append(leaves, p)
      BY <1>2, <1>8, <2>1
    <3>2. leaves' \in Seq(Path)
      BY <1>3, <1>4, <3>1
    <3>r. PICK r : r = [name |-> tree[p].name, off |-> tree[p].off, nbytes |-> tree[p].nbytes]
      OBVIOUS
    <3>3. LeavesAt(g[p]) = <<r>> /\ r \in LeafRec
      BY <1>5, <1>6, <1>k, <2>1, <3>r, LeafHeld
    <3>4. Listed(leaves, tree) \in Seq(LeafRec)
      <4>1. Len(s) \in 0 .. Len(s)
        BY <1>7 DEF WalkedTo
      <4> QED
        BY <1>h, <4>1 DEF Sums
    <3>5. Listed(leaves', tree) = Listed(leaves, tree) \o <<r>>
      BY <1>3, <1>4, <3>1, <3>3, <3>4, <3>r, ListedMore
    <3>6. WalkedTo(s, t, p, 0)
      BY <1>7, <2>1
    <3>7. Sums(h, g, t, Listed(leaves, tree) \o LeavesAt(g[p]), LeavesAt(Whole(type)))
      BY <1>h, <3>6, SumsLeaf
    <3> QED
      BY <3>2, <3>3, <3>5, <3>7
  <2>2. CASE k # 0
    <3>1. leaves' = leaves
      BY <1>2, <1>8, <2>2
    <3>2. \A i \in Nat : i < k => g[Append(p, i)] = Inside(g[p], i)
      BY <1>3, <1>4, <1>6 DEF Placed, Wide
    <3>3. k \in Nat \ {0}
      BY <2>2
    <3>4. \E e : Sums(e, g, t, Listed(leaves, tree), LeavesAt(Whole(type)))
      BY <1>5, <1>7, <1>h, <1>k, <3>2, <3>3, SumsInner
    <3> QED
      BY <1>3, <3>1, <3>4
  <2> QED
    BY <2>1, <2>2
<1>10. CollectsAs(g, tree, t, leaves', type)
  BY <1>3, <1>9, <1>p DEF CollectsAs
<1> QED
  BY <1>1, <1>10, <1>p

\* With an empty stack all is listed.
LEMMA CollectedAll ==
  ASSUME stack = <<>>, NEW g, CollectsAs(g, tree, stack, leaves, type)
  PROVE  Listed(leaves, tree) = LeavesAt(Whole(type))
<1>1. PICK h : Sums(h, g, stack, Listed(leaves, tree), LeavesAt(Whole(type)))
  BY DEF CollectsAs
<1>2. Len(stack) = 0
  OBVIOUS
<1> QED
  BY <1>1, <1>2 DEF Sums

\* How far each traversal has brought the tree to the type it is of.
Laying ==
  /\ phase \in {"convert", "parse", "expand"} => leaves = <<>>
  /\ phase \in {"convert", "parse"} => \E g : LoadsAs(g, tree, stack, type)
  /\ phase = "expand" => \E g : ExpandsAs(g, tree, stack, type)
  /\ phase \in {"collect", "settings", "ready"} => \E g : CollectsAs(g, tree, stack, leaves, type)

\* Laying holds at first, and each step keeps it.
LEMMA InitLaying == Init => Laying
  BY DEF Init, Laying

LEMMA LoadLaying ==
  ASSUME Waiting, Laying, DropElf \/ DropJson \/ LoadFails \/ LoadDone
  PROVE  Laying'
<1>0. type \in Types /\ TreeOf(DOMAIN tree)
  BY DEF Waiting
<1>1. CASE DropElf \/ DropJson
  <2>1. leaves' = <<>> /\ phase' \in {"convert", "parse"}
    BY <1>1 DEF DropElf, DropJson, Forget
  <2>2. \E g : LoadsAs(g, tree', stack', type')
    BY <1>0, <1>1, DropLoads
  <2> QED
    BY <2>1, <2>2 DEF Laying
<1>2. CASE LoadFails
  <2>1. phase' = "none"
    BY <1>2 DEF LoadFails
  <2> QED
    BY <2>1 DEF Laying
<1>3. CASE LoadDone
  <2>1. phase \in {"convert", "parse"} /\ phase' = "expand" /\ leaves' = leaves
    BY <1>3 DEF LoadDone
  <2>2. PICK g : LoadsAs(g, tree, stack, type)
    BY <2>1 DEF Laying
  <2>3. ExpandsAs(g, tree', stack', type')
    BY <1>0, <1>3, <2>2, LoadedExpands
  <2> QED
    BY <2>1, <2>3 DEF Laying
<1> QED
  BY <1>1, <1>2, <1>3

LEMMA ConvertLaying ==
  ASSUME Expandable, Waiting, Laying, ConvertStep
  PROVE  Laying'
<1>1. phase = "convert" /\ phase' = "convert" /\ leaves' = leaves
  BY DEF ConvertStep, Loading
<1>2. PICK g : LoadsAs(g, tree, stack, type)
  BY <1>1 DEF Laying
<1>3. \E k : LoadsAs(k, tree', stack', type')
  BY <1>2, ConvertLoads
<1> QED
  BY <1>1, <1>3 DEF Laying

LEMMA ParseLaying ==
  ASSUME Expandable, Waiting, Laying, ParseField \/ ParseType
  PROVE  Laying'
<1>1. phase = "parse" /\ phase' = "parse" /\ leaves' = leaves
  BY DEF ParseField, ParseType, Loading
<1>2. PICK g : LoadsAs(g, tree, stack, type)
  BY <1>1 DEF Laying
<1>3. CASE ParseField
  BY <1>1, <1>2, <1>3, ParseFieldLoads DEF Laying
<1>4. CASE ParseType
  <2>1. \E k : LoadsAs(k, tree', stack', type')
    BY <1>2, <1>4, ParseTypeLoads
  <2> QED
    BY <1>1, <2>1 DEF Laying
<1> QED
  BY <1>3, <1>4

LEMMA ExpandLaying ==
  ASSUME Expandable, Waiting, Laying, ExpandStep \/ ExpandDone
  PROVE  Laying'
<1>1. phase = "expand" /\ leaves = <<>> /\ leaves' = leaves
  BY DEF ExpandStep, ExpandDone, Loading, Laying
<1>2. PICK g : ExpandsAs(g, tree, stack, type)
  BY <1>1 DEF Laying
<1>3. CASE ExpandStep
  <2>1. phase' = "expand"
    BY <1>1, <1>3 DEF ExpandStep
  <2>2. \E k : ExpandsAs(k, tree', stack', type')
    BY <1>2, <1>3, ExpandStepExpands
  <2> QED
    BY <1>1, <2>1, <2>2 DEF Laying
<1>4. CASE ExpandDone
  <2>1. phase' = "collect"
    BY <1>4 DEF ExpandDone
  <2>2. CollectsAs(g, tree', stack', leaves', type')
    BY <1>1, <1>2, <1>4, ExpandedCollects
  <2> QED
    BY <2>1, <2>2 DEF Laying
<1> QED
  BY <1>3, <1>4

LEMMA CollectLaying ==
  ASSUME Waiting, Laying, CollectStep \/ CollectDone
  PROVE  Laying'
<1>1. phase = "collect"
  BY DEF CollectStep, CollectDone, Loading
<1>2. PICK g : CollectsAs(g, tree, stack, leaves, type)
  BY <1>1 DEF Laying
<1>3. CASE CollectStep
  <2>1. phase' = "collect"
    BY <1>1, <1>3 DEF CollectStep
  <2>2. CollectsAs(g, tree', stack', leaves', type')
    BY <1>2, <1>3, CollectStepCollects
  <2> QED
    BY <2>1, <2>2 DEF Laying
<1>4. CASE CollectDone
  <2>1. /\ stack' = stack /\ phase' \in {"ready", "settings"}
        /\ leaves' = leaves /\ tree' = tree /\ type' = type
    BY <1>4 DEF CollectDone, Loading
  <2> QED
    BY <1>2, <2>1 DEF Laying
<1> QED
  BY <1>3, <1>4

\* What touches neither the tree nor the list.
LEMMA StillLaying ==
  ASSUME Laying, type' = type, tree' = tree, stack' = stack, leaves' = leaves,
         phase' = phase \/ (phase = "settings" /\ phase' = "ready")
  PROVE  Laying'
  BY DEF Laying

LEMMA NextLaying ==
  ASSUME Expandable
  PROVE  Waiting /\ Laying /\ [Next]_vars => Laying'
<1> SUFFICES ASSUME Waiting, Laying, [Next]_vars PROVE Laying'
  OBVIOUS
<1>1. CASE DropElf \/ DropJson \/ LoadFails \/ LoadDone
  BY <1>1, LoadLaying
<1>2. CASE ConvertStep
  BY <1>2, ConvertLaying
<1>3. CASE ParseField \/ ParseType
  BY <1>3, ParseLaying
<1>4. CASE ExpandStep \/ ExpandDone
  BY <1>4, ExpandLaying
<1>5. CASE CollectStep \/ CollectDone
  BY <1>5, CollectLaying
<1>6. CASE LoadSettings
  BY <1>6, StillLaying DEF LoadSettings
<1>7. CASE Save
  BY <1>7, StillLaying DEF Save
<1>8. CASE \E p \in DOMAIN tree : ClickLeaf(p) \/ ClickParent(p) \/ SelectY(p)
  BY <1>8, StillLaying DEF ClickLeaf, ClickParent, SelectY
<1>9. CASE UNCHANGED vars
  BY <1>9, StillLaying DEF vars
<1> QED
  BY <1>1, <1>2, <1>3, <1>4, <1>5, <1>6, <1>7, <1>8, <1>9 DEF Next

\* Laying says of a loaded configuration what the property asks.
LEMMA LaidLeaves == Waiting /\ Laying => LeavesMatchType
<1> SUFFICES ASSUME Waiting, Laying, phase = "ready"
             PROVE Listed(leaves, tree) = LeavesOfSymbol(type)
  BY DEF LeavesMatchType, Listed
<1>1. Listed(leaves, tree) = LeavesAt(Whole(type))
  BY CollectedAll DEF Laying, Waiting
<1>2. Whole(type).ti = type /\ Whole(type).base = 0 /\ Whole(type).name = "symbol"
  BY DEF Whole
<1>3. LeavesAt(Whole(type)) = LeavesOfSymbol(type)
  BY <1>2 DEF LeavesAt, LeavesOfSymbol
<1> QED
  BY <1>1, <1>3

\* Whatever the types of the symbols, how deep they nest and how long their
\* arrays are: if the debug information is Expandable, then however the
\* configuration is loaded, out of the ELF file or out of the JSON file made
\* of it, collect_leaves ends up with exactly the leaves the compiler laid
\* out, each once, under their names, at their absolute offsets, with their
\* sizes and in their order.
THEOREM LeavesAreTheTypes ==
  ASSUME Expandable
  PROVE  Spec => []LeavesMatchType
<1>1. Spec => []Waiting
  BY InitWaiting, NextWaiting, PTL DEF Spec
<1>2. Waiting /\ Laying /\ [Next]_vars => Laying'
  BY NextLaying
<1>3. Spec => []Laying
  BY <1>1, <1>2, InitLaying, PTL DEF Spec
<1> QED
  BY <1>1, <1>3, LaidLeaves, PTL

-----------------------------------------------------------------------------
(* The settings, from one load to the next.                                *)

\* The paths of D without children.
Ends(D) == {q \in D : Append(q, 0) \notin D}

\* While leaves are collected: every leaf is listed or under one that waits.
Gathers(D, s, ls) ==
  /\ ls \in Seq(Ends(D))
  /\ \A q \in Ends(D) : Waits(s, q) \/ \E n \in DOMAIN ls : ls[n] = q

\* Those are the leaves.
LEMMA LeafEnds ==
  ASSUME TreeOf(DOMAIN tree), NEW p \in DOMAIN tree
  PROVE  IsLeaf(p) <=> p \in Ends(DOMAIN tree)
<1>1. PICK n \in Nat : Wide(DOMAIN tree, p, n)
  BY DEF TreeOf, Wide
<1>2. IsLeaf(p) <=> n = 0
  BY <1>1, ChildrenOf
<1>3. Append(p, 0) \in DOMAIN tree <=> 0 < n
  BY <1>1 DEF Wide
<1> QED
  BY <1>2, <1>3 DEF Ends

\* A turn of collect_leaves lists its leaf, or leaves its children to wait.
LEMMA GathersOn ==
  ASSUME NEW D, NEW s, NEW p, NEW t, Walks(s, t, p, D, D), NEW ls, Gathers(D, s, ls),
         NEW ks, ks = IF p \in Ends(D) THEN Append(ls, p) ELSE ls
  PROVE  Gathers(D, t, ks)
<1> PICK S : S = Ends(D)
  OBVIOUS
<1>1. p \in D /\ \A q \in D : q # p => (Waits(t, q) <=> Waits(s, q))
  BY WalkWaits
<1>2. ls \in Seq(S) /\ \A q \in S : q \in D /\ (Waits(s, q) \/ \E n \in DOMAIN ls : ls[n] = q)
  BY DEF Gathers, Ends
<1>3. ks \in Seq(S) /\ (\A n \in DOMAIN ls : n \in DOMAIN ks /\ ks[n] = ls[n])
      /\ (p \in S => \E n \in DOMAIN ks : ks[n] = p)
  <2>1. CASE p \in S
    <3>1. ks = Append(ls, p)
      BY <2>1
    <3>2. /\ ks \in Seq(S) /\ Len(ls) \in Nat /\ DOMAIN ls = 1 .. Len(ls)
          /\ DOMAIN ks = 1 .. Len(ls) + 1 /\ ks[Len(ls) + 1] = p
          /\ \A n \in 1 .. Len(ls) : ks[n] = ls[n]
      BY ONLY <1>2, <2>1, <3>1
    <3>3. Len(ls) + 1 \in DOMAIN ks /\ \A n \in DOMAIN ls : n \in DOMAIN ks
      BY <3>2
    <3> QED
      BY <3>2, <3>3
  <2>2. CASE p \notin S
    BY <1>2, <2>2
  <2> QED
    BY <2>1, <2>2
<1>4. \A q \in S : Waits(t, q) \/ \E n \in DOMAIN ks : ks[n] = q
  BY <1>1, <1>2, <1>3
<1> QED
  BY <1>3, <1>4 DEF Gathers

\* Once leaves are collected the list has every leaf of the tree.
Gathered == phase \in {"collect", "settings", "ready"} => Gathers(DOMAIN tree, stack, leaves)

\* The stack of collect_leaves starts with the root, above every leaf.
LEMMA RootWaits ==
  ASSUME NEW D, TreeOf(D), NEW s, s = <<Root>>
  PROVE  \A q \in D : Waits(s, q)
<1> TAKE q \in D
<1>1. q \in Path /\ Root \in Path
  BY DEF TreeOf
<1>2. IsPrefix(Root, q)
  BY <1>1, PrefixPointwise DEF Root
<1>3. 1 \in DOMAIN s /\ s[1] = Root
  OBVIOUS
<1> QED
  BY <1>2, <1>3 DEF Waits

\* Each step keeps Gathered.
LEMMA NextGathered == Waiting /\ Laying /\ Gathered /\ [Next]_vars => Gathered'
<1> SUFFICES ASSUME Waiting, Laying, Gathered, [Next]_vars PROVE Gathered'
  OBVIOUS
<1>t. TreeOf(DOMAIN tree)
  BY DEF Waiting
<1>1. CASE \/ DropElf \/ DropJson \/ LoadFails \/ LoadDone \/ ConvertStep \/ ParseField \/ ParseType
           \/ ExpandStep
  <2>1. phase' \in {"convert", "parse", "none", "expand"}
    BY <1>1 DEF DropElf, DropJson, LoadFails, LoadDone, ConvertStep, ParseField, ParseType,
                ExpandStep, Loading
  <2> QED
    BY <2>1 DEF Gathered
<1>2. CASE ExpandDone
  <2>1. /\ phase = "expand" /\ stack' = <<Root>> /\ tree' = tree /\ leaves' = leaves
    BY <1>2 DEF ExpandDone, Loading
  <2>2. leaves = <<>>
    BY <2>1 DEF Laying
  <2>3. \A q \in DOMAIN tree : Waits(stack', q)
    BY <1>t, <2>1, RootWaits
  <2>4. Gathers(DOMAIN tree, stack', <<>>)
    BY <2>3 DEF Gathers, Ends
  <2> QED
    BY <2>1, <2>2, <2>4 DEF Gathered
<1>3. CASE CollectStep
  <2>p. PICK p, s, t, D : p = Last(stack) /\ s = stack /\ t = stack' /\ D = DOMAIN tree
    OBVIOUS
  <2>1. /\ phase = "collect" /\ stack # <<>> /\ tree' = tree /\ Live(stack, DOMAIN tree)
    BY <1>3 DEF CollectStep, Loading, Waiting, Pointers
  <2>2. /\ stack' = Front(stack) \o Pushed(Kids(DOMAIN tree, p))
        /\ leaves' = IF IsLeaf(p) THEN Append(leaves, p) ELSE leaves
    BY <1>3, <2>p DEF CollectStep, Kids, Children, Top, Rest
  <2>3. Live(s, D) /\ s # <<>> /\ p = Last(s) /\ t = Front(s) \o Pushed(Kids(D, p)) /\ TreeOf(D)
    BY <1>t, <2>1, <2>2, <2>p
  <2>4. Walks(s, t, p, D, D)
    BY <2>3 DEF Walks
  <2>5. p \in D
    BY <2>3, TopOf
  <2>6. IsLeaf(p) <=> p \in Ends(D)
    BY <1>t, <2>5, <2>p, LeafEnds
  <2>7. Gathers(D, s, leaves)
    BY <2>1, <2>p DEF Gathered
  <2>8. leaves' = IF p \in Ends(D) THEN Append(leaves, p) ELSE leaves
    BY <2>2, <2>6
  <2>9. Gathers(D, t, leaves')
    BY <2>4, <2>7, <2>8, GathersOn
  <2> QED
    BY <2>1, <2>9, <2>p DEF Gathered
<1>4. CASE CollectDone \/ LoadSettings
  <2>1. /\ phase \in {"collect", "settings"}
        /\ stack' = stack /\ tree' = tree /\ leaves' = leaves
    BY <1>4 DEF CollectDone, LoadSettings, Loading
  <2> QED
    BY <2>1 DEF Gathered
<1>5. CASE Save \/ (\E p \in DOMAIN tree : ClickLeaf(p) \/ ClickParent(p) \/ SelectY(p)) \/ UNCHANGED vars
  <2>1. /\ phase' = phase /\ stack' = stack /\ tree' = tree /\ leaves' = leaves
    BY <1>5 DEF Save, ClickLeaf, ClickParent, SelectY, vars
  <2> QED
    BY <2>1 DEF Gathered
<1> QED
  BY <1>1, <1>2, <1>3, <1>4, <1>5 DEF Next

\* The paths and the parts of a symbol with all its arrays expanded.
Shape(g, D, ty) == TreeOf(D) /\ Placed(g, D, ty) /\ \A q \in D : Wide(D, q, Slots(g[q].ti))

\* Two loads of one type give one tree.
LEMMA OneShape ==
  ASSUME NEW g, NEW D, NEW h, NEW E, NEW ty, Shape(g, D, ty), Shape(h, E, ty)
  PROVE  D = E /\ \A q \in D : g[q] = h[q]
<1> DEFINE T == {n \in Nat : \A q \in Path : Len(q) = n => (q \in D <=> q \in E) /\ (q \in D => g[q] = h[q])}
<1>1. /\ D \subseteq Path /\ E \subseteq Path /\ Root \in D /\ Root \in E
      /\ g[Root] = h[Root]
  BY DEF Shape, TreeOf, Placed
<1>2. 0 \in T
  <2> SUFFICES ASSUME NEW q \in Path, Len(q) = 0 PROVE q = Root
    BY <1>1
  <2> QED
    BY DEF Path, Root
<1>3. ASSUME NEW n \in Nat, n \in T PROVE n + 1 \in T
  <2> SUFFICES ASSUME NEW q \in Path, Len(q) = n + 1
               PROVE  (q \in D <=> q \in E) /\ (q \in D => g[q] = h[q])
    OBVIOUS
  <2>1. q # <<>>
    BY DEF Path
  <2>2. PICK f \in Path, i \in Nat : q = Append(f, i) /\ Len(f) = n
    <3>1. /\ Last(q) \in Nat /\ q = Append(Front(q), Last(q)) /\ Front(q) \in Path
      BY <2>1, ChildFront
    <3>2. Len(Front(q)) = n
      <4>1. Len(Append(Front(q), Last(q))) = Len(Front(q)) + 1 /\ Len(Front(q)) \in Nat
        BY <3>1, Extended
      <4> QED
        BY <3>1, <4>1
    <3> QED
      BY <3>1, <3>2
  <2>3. IsPrefix(f, q) /\ f \in Path
    <3>1. IsPrefix(Append(f, i), q)
      BY <2>2, PrefixOrder
    <3> QED
      BY <2>2, <3>1, PrefixOfChild
  <2>4. (q \in D => f \in D) /\ (q \in E => f \in E)
    BY <2>3 DEF Shape, TreeOf
  <2>5. (f \in D <=> f \in E) /\ (f \in D => g[f] = h[f])
    BY <1>3, <2>2
  <2>6. /\ f \in D => (q \in D <=> i < Slots(g[f].ti))
        /\ f \in E => (q \in E <=> i < Slots(h[f].ti))
    BY <2>2 DEF Shape, Wide
  <2>7. /\ q \in D /\ f \in D => g[q] = Inside(g[f], i)
        /\ q \in E /\ f \in E => h[q] = Inside(h[f], i)
    BY <2>2 DEF Shape, Placed
  <2> QED
    BY <2>4, <2>5, <2>6, <2>7
<1>4. Nat \subseteq T
  <2> HIDE DEF T
  <2> QED
    BY <1>2, <1>3, Climb
<1>5. \A q \in Path : Len(q) \in Nat
  BY DEF Path
<1> QED
  BY <1>1, <1>4, <1>5

\* The key of the part at q.
KeyAt(g, q) == <<g[q].base, g[q].name>>

\* What is known of a loaded configuration: its shape, its keys and its list.
Known(g) ==
  /\ Shape(g, DOMAIN tree, type)
  /\ \A q \in Ends(DOMAIN tree) : Key(q) = KeyAt(g, q)
  /\ leaves \in Seq(Ends(DOMAIN tree))
  /\ \A q \in Ends(DOMAIN tree) : \E n \in DOMAIN leaves : leaves[n] = q
  /\ \A m, n \in DOMAIN leaves : Key(leaves[m]) = Key(leaves[n]) => m = n

\* A loaded configuration is known.
LEMMA LoadedKnown ==
  ASSUME KeysDiffer, type \in Symbols, Waiting, Laying, Gathered, phase \in {"settings", "ready"}
  PROVE  \E g : Known(g)
<1>1. PICK g : CollectsAs(g, tree, stack, leaves, type)
  BY DEF Laying
<1>2. stack = <<>> /\ TreeOf(DOMAIN tree) /\ type \in Types
  BY DEF Waiting
<1>3. Shape(g, DOMAIN tree, type)
  BY <1>1, <1>2 DEF Shape, CollectsAs
<1>4. \A q \in Ends(DOMAIN tree) : Key(q) = KeyAt(g, q)
  <2> TAKE q \in Ends(DOMAIN tree)
  <2>1. q \in DOMAIN tree /\ Append(q, 0) \notin DOMAIN tree
    BY DEF Ends
  <2>2. Holds(tree[q], g[q]) /\ Wide(DOMAIN tree, q, Slots(g[q].ti)) /\ g[q].ti \in Types
    BY <1>1, <2>1 DEF CollectsAs, Placed
  <2>t. PICK ti \in Types : ti = g[q].ti
    BY <2>2
  <2>3. Slots(ti) = 0
    <3>1. Slots(ti) \in Nat /\ ~ (0 < Slots(ti))
      BY <2>1, <2>2, <2>t, MembersOf DEF Wide
    <3> QED
      BY <3>1
  <2>4. Flat(ti)
    <3>1. Members(ti) = <<>> /\ (ti.type # "array" => Members(ti) = ti.fields)
      BY <2>3, MembersOf
    <3> QED
      BY <3>1 DEF Flat, Aggregate
  <2> QED
    BY <2>2, <2>4, <2>t DEF Holds, Key, KeyAt
<1>5. /\ leaves \in Seq(Ends(DOMAIN tree))
      /\ \A q \in Ends(DOMAIN tree) : \E n \in DOMAIN leaves : leaves[n] = q
  BY <1>2 DEF Gathered, Gathers, Waits
<1>6. \A m, n \in DOMAIN leaves : Key(leaves[m]) = Key(leaves[n]) => m = n
  <2> DEFINE r(q) == [name |-> tree[q].name, off |-> tree[q].off, nbytes |-> tree[q].nbytes]
  <2>1. Listed(leaves, tree) = LeavesOfSymbol(type)
    <3>1. Listed(leaves, tree) = LeavesAt(Whole(type))
      BY <1>1, <1>2, CollectedAll
    <3>2. Whole(type).ti = type /\ Whole(type).base = 0 /\ Whole(type).name = "symbol"
      BY DEF Whole
    <3> QED
      BY <3>1, <3>2 DEF LeavesAt, LeavesOfSymbol
  <2>2. PICK ls : ls = Listed(leaves, tree)
    OBVIOUS
  <2>3. \A m, n \in DOMAIN ls : ls[m].off = ls[n].off /\ ls[m].name = ls[n].name => m = n
    BY <2>1, <2>2 DEF KeysDiffer
  <2>4. ls = [n \in DOMAIN leaves |-> r(leaves[n])]
    BY <2>2 DEF Listed
  <2>5. DOMAIN ls = DOMAIN leaves /\ \A n \in DOMAIN leaves : ls[n] = r(leaves[n])
    BY <2>4
  <2>6. \A q : r(q).off = tree[q].off /\ r(q).name = tree[q].name
    OBVIOUS
  <2> HIDE DEF r
  <2> SUFFICES ASSUME NEW m \in DOMAIN leaves, NEW n \in DOMAIN leaves,
                      Key(leaves[m]) = Key(leaves[n])
               PROVE  m = n
    OBVIOUS
  <2>7. tree[leaves[m]].off = tree[leaves[n]].off /\ tree[leaves[m]].name = tree[leaves[n]].name
    BY DEF Key
  <2> QED
    BY <2>3, <2>5, <2>6, <2>7
<1> QED
  BY <1>3, <1>4, <1>5, <1>6 DEF Known

\* In a loaded configuration each key is in one place.
LEMMA OnePlace ==
  ASSUME NEW g, Known(g), NEW n \in DOMAIN leaves, NEW key, key = Key(leaves[n])
  PROVE  Places(key) = {n} /\ Max(Places(key)) = n /\ Min(Places(key)) = n /\ n \in Nat
<1>1. Places(key) = {n}
  BY DEF Known, Places
<1>2. n \in Nat
  <2>1. leaves \in Seq(Ends(DOMAIN tree))
    BY DEF Known
  <2> QED
    BY <2>1
<1>3. Max({n}) = n /\ Min({n}) = n
  <2>1. n >= n /\ n <= n
    BY <1>2
  <2>2. Max({n}) = n
    BY <2>1 DEF Max
  <2>3. Min({n}) = n
    BY <2>1 DEF Min
  <2> QED
    BY <2>2, <2>3
<1> QED
  BY <1>1, <1>2, <1>3

\* The file f holds the settings w of a symbol of shape g.
Recorded(g, D, f, w) ==
  /\ w.leaves \subseteq Ends(D)
  /\ \A q \in Ends(D) : KeyAt(g, q) \in DOMAIN f.ui
  /\ \A q \in Ends(D) : f.ui[KeyAt(g, q)] <=> q \in w.leaves
  /\ w.y = Nowhere => f.y = <<>>
  /\ w.y # Nowhere => w.y \in Ends(D) /\ f.y = KeyAt(g, w.y)

\* The file as it is generated.
Unset == file = NoSettings /\ wanted = [leaves |-> {}, y |-> Nowhere]

\* The file has what was wanted at its last save, under the keys that the type
\* of the symbol gives its leaves.
Kept ==
  /\ type \in Symbols
  /\ ysource = Nowhere \/ (phase = "ready" /\ ysource \in Ends(DOMAIN tree))
  /\ Unset \/ \E g, D : Shape(g, D, type) /\ Recorded(g, D, file, wanted)

\* A save records what is ticked and plotted.
LEMMA SaveRecords ==
  ASSUME NEW g, Known(g), Save, ysource \in Ends(DOMAIN tree) \cup {Nowhere}
  PROVE  Recorded(g, DOMAIN tree, file', wanted')
<1> DEFINE E == Ends(DOMAIN tree)
           ui == [key \in {Key(p) : p \in Range(leaves)} |-> SavedFlag(key)]
<1>1. /\ file'.ui = ui /\ file'.y = IF ysource = Nowhere THEN <<>> ELSE Key(ysource)
      /\ wanted'.leaves = subscribed \cap Range(leaves) /\ wanted'.y = ysource
  BY DEF Save
<1>2. /\ Range(leaves) = E /\ \A q \in E : Key(q) = KeyAt(g, q)
      /\ \A q \in E : \E n \in DOMAIN leaves : leaves[n] = q
  <2>1. /\ leaves \in Seq(E) /\ \A q \in E : \E n \in DOMAIN leaves : leaves[n] = q
        /\ \A q \in E : Key(q) = KeyAt(g, q)
    BY DEF Known
  <2>2. \A n \in DOMAIN leaves : leaves[n] \in E
    BY <2>1
  <2> QED
    BY <2>1, <2>2 DEF Range
<1> HIDE DEF E
<1>3. \A q \in E : KeyAt(g, q) \in DOMAIN ui /\ ui[KeyAt(g, q)] = SavedFlag(KeyAt(g, q))
  <2> TAKE q \in E
  <2>1. KeyAt(g, q) \in {Key(p) : p \in Range(leaves)}
    BY <1>2
  <2> HIDE DEF KeyAt
  <2> QED
    BY <2>1
<1>4. \A q \in E : SavedFlag(KeyAt(g, q)) <=> q \in subscribed
  <2> SUFFICES ASSUME NEW q \in E PROVE SavedFlag(KeyAt(g, q)) <=> q \in subscribed
    OBVIOUS
  <2>1. PICK n \in DOMAIN leaves : leaves[n] = q
    BY <1>2
  <2>2. KeyAt(g, q) = Key(leaves[n])
    BY <1>2, <2>1
  <2>3. Max(Places(KeyAt(g, q))) = n
    BY <2>2, OnePlace
  <2> QED
    BY <2>1, <2>3 DEF SavedFlag
<1> HIDE DEF ui
<1>5. \A q \in E : file'.ui[KeyAt(g, q)] <=> q \in wanted'.leaves
  BY <1>1, <1>2, <1>3, <1>4
<1> QED
  BY <1>1, <1>2, <1>3, <1>5 DEF Recorded, E

\* A load finds it again.
LEMMA LoadRestores ==
  ASSUME NEW g, Known(g), Kept, LoadSettings
  PROVE  subscribed' = wanted.leaves /\ ysource' = Plotted(wanted.y)
         /\ ysource' \in Ends(DOMAIN tree) \cup {Nowhere}
<1> DEFINE E == Ends(DOMAIN tree)
<1>1. /\ subscribed' = {p \in Range(leaves) : Key(p) \in DOMAIN file.ui /\ file.ui[Key(p)]}
      /\ ysource' = IF NoSource(file.y) THEN Nowhere ELSE FindField(file.y)
  BY DEF LoadSettings
<1>2. /\ Range(leaves) = E /\ \A q \in E : Key(q) = KeyAt(g, q)
      /\ \A q \in E : \E n \in DOMAIN leaves : leaves[n] = q
  <2>1. /\ leaves \in Seq(E) /\ \A q \in E : \E n \in DOMAIN leaves : leaves[n] = q
        /\ \A q \in E : Key(q) = KeyAt(g, q)
    BY DEF Known
  <2>2. \A n \in DOMAIN leaves : leaves[n] \in E
    BY <2>1
  <2> QED
    BY <2>1, <2>2 DEF Range
<1>3. CASE Unset
  <2>1. file.ui = <<>> /\ file.y = <<>> /\ wanted.leaves = {} /\ wanted.y = Nowhere
    BY <1>3 DEF Unset, NoSettings
  <2>2. \A k : k \notin DOMAIN file.ui
    BY <2>1
  <2> QED
    BY <1>1, <2>1, <2>2 DEF NoSource, Plotted
<1>4. CASE ~Unset
  <2>1. PICK h, D : Shape(h, D, type) /\ Recorded(h, D, file, wanted)
    BY <1>4 DEF Kept
  <2>2. D = DOMAIN tree /\ \A q \in DOMAIN tree : h[q] = g[q]
    <3>1. Shape(g, DOMAIN tree, type)
      BY DEF Known
    <3> QED
      BY <2>1, <3>1, OneShape
  <2>3. \A q \in E : KeyAt(h, q) = Key(q)
    BY <1>2, <2>2 DEF KeyAt, Ends
  <2>4. /\ wanted.leaves \subseteq E
        /\ \A q \in E : Key(q) \in DOMAIN file.ui
        /\ \A q \in E : file.ui[Key(q)] <=> q \in wanted.leaves
        /\ wanted.y = Nowhere => file.y = <<>>
        /\ wanted.y # Nowhere => wanted.y \in E /\ file.y = Key(wanted.y)
    BY <2>1, <2>2, <2>3 DEF Recorded
  <2> HIDE DEF E
  <2>5. subscribed' = wanted.leaves
    BY <1>1, <1>2, <2>4
  <2>6. ysource' = Plotted(wanted.y) /\ Plotted(wanted.y) \in E \cup {Nowhere}
    <3>1. CASE wanted.y = Nowhere
      BY <1>1, <2>4, <3>1 DEF NoSource, Plotted
    <3>2. CASE wanted.y # Nowhere
      <4>1. wanted.y \in E /\ file.y = Key(wanted.y)
        BY <2>4, <3>2
      <4>2. PICK n \in DOMAIN leaves : leaves[n] = wanted.y
        BY <1>2, <4>1
      <4>3. Places(file.y) = {n} /\ Min(Places(file.y)) = n
        BY <4>1, <4>2, OnePlace
      <4>4. FindField(file.y) = wanted.y
        BY <4>2, <4>3 DEF FindField
      <4>5. NoSource(file.y) <=> tree[wanted.y].name = "none"
        BY <4>1 DEF Key, NoSource
      <4> QED
        BY <1>1, <3>2, <4>1, <4>4, <4>5 DEF Plotted
    <3> QED
      BY <3>1, <3>2
  <2> QED
    BY <2>4, <2>5, <2>6 DEF E
<1> QED
  BY <1>3, <1>4

\* Both hold at first, and each step keeps Kept.
LEMMA InitKept == Init => Gathered /\ Kept
  BY DEF Init, Gathered, Kept, Unset

LEMMA NextKept ==
  ASSUME KeysDiffer
  PROVE  Waiting /\ Laying /\ Gathered /\ Kept /\ [Next]_vars => Kept'
<1> SUFFICES ASSUME Waiting, Laying, Gathered, Kept, [Next]_vars PROVE Kept'
  OBVIOUS
<1>k. /\ type \in Symbols /\ (ysource = Nowhere \/ (phase = "ready" /\ ysource \in Ends(DOMAIN tree)))
      /\ Unset \/ \E g, D : Shape(g, D, type) /\ Recorded(g, D, file, wanted)
  BY DEF Kept
<1>1. CASE DropElf
  <2>1. ysource' = Nowhere /\ Unset' /\ type' = type
    BY <1>1 DEF DropElf, Forget, Unset
  <2> QED
    BY <1>k, <2>1 DEF Kept
<1>2. CASE DropJson \/ LoadFails
  <2>1. /\ type' = type /\ file' = file /\ wanted' = wanted /\ ysource' = Nowhere
    BY <1>2 DEF DropJson, LoadFails, Forget
  <2> QED
    BY <1>k, <2>1 DEF Kept, Unset
<1>3. CASE \/ ConvertStep \/ ParseField \/ ParseType \/ LoadDone \/ ExpandStep \/ ExpandDone
           \/ CollectStep \/ CollectDone
  <2>1. /\ type' = type /\ file' = file /\ wanted' = wanted /\ ysource' = ysource
        /\ phase # "ready"
    BY <1>3 DEF ConvertStep, ParseField, ParseType, LoadDone, ExpandStep, ExpandDone,
                CollectStep, CollectDone, Loading
  <2> QED
    BY <1>k, <2>1 DEF Kept, Unset
<1>4. CASE LoadSettings
  <2>1. /\ type' = type /\ file' = file /\ wanted' = wanted /\ tree' = tree
        /\ phase = "settings" /\ phase' = "ready"
    BY <1>4 DEF LoadSettings
  <2>2. PICK g : Known(g)
    BY <1>k, <2>1, LoadedKnown
  <2>3. ysource' \in Ends(DOMAIN tree) \cup {Nowhere}
    BY <1>4, <2>2, LoadRestores
  <2> QED
    BY <1>k, <2>1, <2>3 DEF Kept, Unset
<1>5. CASE Save
  <2>1. type' = type /\ tree' = tree /\ phase = "ready" /\ phase' = "ready" /\ ysource' = ysource
    BY <1>5 DEF Save
  <2>2. PICK g : Known(g)
    BY <1>k, <2>1, LoadedKnown
  <2>3. Recorded(g, DOMAIN tree, file', wanted')
    BY <1>5, <1>k, <2>2, SaveRecords
  <2>4. Shape(g, DOMAIN tree, type)
    BY <2>2 DEF Known
  <2> QED
    BY <1>k, <2>1, <2>3, <2>4 DEF Kept
<1>6. CASE \E p \in DOMAIN tree : ClickLeaf(p) \/ ClickParent(p) \/ SelectY(p)
  <2>1. PICK p \in DOMAIN tree : ClickLeaf(p) \/ ClickParent(p) \/ SelectY(p)
    BY <1>6
  <2>2. /\ type' = type /\ file' = file /\ wanted' = wanted /\ tree' = tree
        /\ phase = "ready" /\ phase' = "ready"
        /\ ysource' = ysource \/ (ysource' = p /\ IsLeaf(p))
    BY <2>1 DEF ClickLeaf, ClickParent, SelectY
  <2>3. IsLeaf(p) => p \in Ends(DOMAIN tree)
    BY LeafEnds DEF Waiting
  <2> QED
    BY <1>k, <2>2, <2>3 DEF Kept, Unset
<1>7. CASE UNCHANGED vars
  <2>1. /\ type' = type /\ file' = file /\ wanted' = wanted /\ ysource' = ysource
        /\ phase' = phase /\ tree' = tree
    BY <1>7 DEF vars
  <2> QED
    BY <1>k, <2>1 DEF Kept, Unset
<1> QED
  BY <1>1, <1>2, <1>3, <1>4, <1>5, <1>6, <1>7 DEF Next

\* Whatever the types of the symbols, if the debug information is Expandable
\* and no two leaves of a symbol share offset and name, then a load of the JSON
\* file ticks exactly the leaves that were ticked when it was last saved and
\* plots the one that was plotted then, or nothing if that one is named none,
\* through any number of loads of either kind, of failed loads, of clicks and
\* of saves in between, and none if the file has been generated since.
THEOREM SettingsAreRestored ==
  ASSUME Expandable, KeysDiffer
  PROVE  Spec => SettingsSurvive
<1> DEFINE Inv == Waiting /\ Laying /\ Gathered /\ Kept
<1>1. Init => Inv
  BY InitWaiting, InitLaying, InitKept
<1>2. Inv /\ [Next]_vars => Inv'
  BY NextWaiting, NextLaying, NextGathered, NextKept
<1>3. Inv /\ [Next]_vars => [LoadSettings => subscribed' = wanted.leaves /\ ysource' = Plotted(wanted.y)]_vars
  <2> SUFFICES ASSUME Inv, LoadSettings PROVE subscribed' = wanted.leaves /\ ysource' = Plotted(wanted.y)
    OBVIOUS
  <2>1. PICK g : Known(g)
    BY LoadedKnown DEF LoadSettings, Kept
  <2> QED
    BY <2>1, LoadRestores
<1>4. Spec => []Inv
  <2> HIDE DEF Inv
  <2> QED
    BY <1>1, <1>2, PTL DEF Spec
<1> QED
  <2> HIDE DEF Inv
  <2> QED
    BY <1>3, <1>4, PTL DEF Spec, SettingsSurvive

=============================================================================
