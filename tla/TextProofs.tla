---------------------------- MODULE TextProofs ------------------------------
(***************************************************************************)
(* What the proofs about texts rest on: induction over numbers and over    *)
(* texts, walks from position to position (the shape of every scan of a    *)
(* text in this project), and what the operators of the community modules  *)
(* return. The texts are sequences over any set.                           *)
(***************************************************************************)
EXTENDS Naturals, Sequences, SequencesExt, TLAPS, SequenceTheorems, WellFoundedInduction

\* Induction over the natural numbers, for a set.
LEMMA SetInduction ==
  ASSUME NEW S, 0 \in S, \A n \in Nat : n \in S => n+1 \in S
  PROVE  Nat \subseteq S
<1> SUFFICES ASSUME Nat \ S # {} PROVE FALSE
  OBVIOUS
<1>1. PICK x \in Nat \ S : \A y \in Nat \ S : ~(<<y,x>> \in OpToRel(<, Nat))
  BY NatLessThanWellFounded, WFMin
<1>2. \A y \in Nat \ S : ~ (y < x)
  BY <1>1 DEF OpToRel
<1>3. x # 0 
  OBVIOUS
<1>4. x - 1 \in Nat /\ x - 1 < x
  BY <1>3
<1>5. x-1 \in S
  BY <1>2, <1>4
<1> QED BY <1>5, <1>4

\* s \o t, for the provers to leave alone.
Cat(s, t) == s \o t

\* f walks over the positions 1..n: at i it puts out[i] before what it has at
\* next[i].
Walks(f, n, out, next) ==
    \A i \in Nat \ {0} : f[i] = IF i > n THEN <<>> ELSE Cat(out[i], f[next[i]])

Forward(n, next) == \A i \in 1..n : next[i] \in Nat /\ next[i] > i

\* f is the walk and nothing else.
IsWalk(f, n, out, next) ==
    f = [i \in Nat \ {0} |-> IF i > n THEN <<>> ELSE Cat(out[i], f[next[i]])]

\* A walk that only goes forward exists.
LEMMA WalkExists ==
  ASSUME NEW n \in Nat, NEW out, NEW next, Forward(n, next)
  PROVE  \E f : IsWalk(f, n, out, next)
<1> DEFINE Sound(f, m) ==
      /\ f = [i \in Nat \ {0} |-> f[i]]
      /\ \A i \in Nat \ {0} : i > n => f[i] = <<>>
      /\ \A i \in 1..n : i > n - m => f[i] = Cat(out[i], f[next[i]])
           S == {m \in Nat : \E f : Sound(f, m)}
<1>0. \A i \in 1..n : next[i] \in Nat /\ next[i] > i
  BY DEF Forward
<1>1. 0 \in S
  <2> DEFINE g == [i \in Nat \ {0} |-> <<>>]
  <2>1. g = [i \in Nat \ {0} |-> g[i]]
    OBVIOUS
  <2>2. \A i \in Nat \ {0} : g[i] = <<>>
    OBVIOUS
  <2> HIDE DEF g
  <2>3. Sound(g, 0)
    BY <2>1, <2>2
  <2> HIDE DEF Sound
  <2> QED
    BY <2>3
<1>2. ASSUME NEW m \in Nat, m \in S  PROVE m + 1 \in S
  <2>1. PICK f : Sound(f, m)
    BY <1>2
  <2>a. \A i \in Nat \ {0} : i > n => f[i] = <<>>
    BY <2>1
  <2>b. \A i \in 1..n : i > n - m => f[i] = Cat(out[i], f[next[i]])
    BY <2>1
  <2> DEFINE g == [i \in Nat \ {0} |-> IF i = n - m THEN Cat(out[i], f[next[i]]) ELSE f[i]]
  <2>2. g = [i \in Nat \ {0} |-> g[i]]
    OBVIOUS
  <2>3. \A i \in Nat \ {0} : g[i] = IF i = n - m THEN Cat(out[i], f[next[i]]) ELSE f[i]
    OBVIOUS
  <2> HIDE DEF g
  <2>4. \A i \in Nat \ {0} : i > n => g[i] = <<>>
    BY <2>a, <2>3
  <2>5. \A i \in 1..n : i > n - (m + 1) => g[next[i]] = f[next[i]]
    BY <1>0, <2>3
  <2>6. \A i \in 1..n : i > n - (m + 1) => g[i] = Cat(out[i], f[next[i]])
    <3> SUFFICES ASSUME NEW i \in 1..n, i > n - (m + 1)
                 PROVE  g[i] = Cat(out[i], f[next[i]])
      OBVIOUS
    <3>1. CASE i = n - m
      BY <3>1, <2>3
    <3>2. CASE i > n - m
      BY <3>2, <2>3, <2>b
    <3> QED
      BY <3>1, <3>2
  <2>7. Sound(g, m + 1)
    BY <2>2, <2>4, <2>5, <2>6
  <2> HIDE DEF Sound
  <2> QED
    BY <2>7
<1>3. n \in S
  <2> HIDE DEF S
  <2> QED
    BY <1>1, <1>2, SetInduction
<1>4. PICK f : Sound(f, n)
  BY <1>3
<1>5. \A i \in Nat \ {0} : f[i] = IF i > n THEN <<>> ELSE Cat(out[i], f[next[i]])
  <2> SUFFICES ASSUME NEW i \in Nat \ {0}, ~(i > n)  PROVE f[i] = Cat(out[i], f[next[i]])
    BY <1>4
  <2>1. i \in 1..n /\ i > n - n
    OBVIOUS
  <2> QED
    BY <1>4, <2>1
<1>6. f = [i \in Nat \ {0} |-> IF i > n THEN <<>> ELSE Cat(out[i], f[next[i]])]
  BY <1>4, <1>5
<1> QED
  BY <1>6 DEF IsWalk

\* One step of a walk.
LEMMA WalkStep ==
  ASSUME NEW n \in Nat, NEW out, NEW next, NEW f, Walks(f, n, out, next), NEW i \in 1..n
  PROVE  f[i] = Cat(out[i], f[next[i]])
<1>1. i \in Nat \ {0} /\ ~(i > n)
  OBVIOUS
<1> QED
  BY <1>1 DEF Walks

\* The other walk goes the same way d positions further on.
Delayed(d, n, out, next, later, nextLater) ==
    \A i \in 1..n : later[i + d] = out[i] /\ nextLater[i + d] = next[i] + d

\* Behind d more positions a walk finds what it found without them.
LEMMA WalkShift ==
  ASSUME NEW n \in Nat, NEW d \in Nat,
         NEW out, NEW next, NEW f, NEW later, NEW nextLater, NEW g,
         Forward(n, next), Walks(f, n, out, next), Walks(g, n + d, later, nextLater),
         Delayed(d, n, out, next, later, nextLater)
  PROVE  \A i \in Nat \ {0} : g[i + d] = f[i]
<1>a. \A i \in 1..n : next[i] \in Nat /\ next[i] > i
  BY DEF Forward
<1>b. \A i \in Nat \ {0} : f[i] = IF i > n THEN <<>> ELSE Cat(out[i], f[next[i]])
  BY DEF Walks
<1>c. \A i \in Nat \ {0} :
          g[i] = IF i > n + d THEN <<>> ELSE Cat(later[i], g[nextLater[i]])
  BY DEF Walks
<1>d. \A i \in 1..n : later[i + d] = out[i] /\ nextLater[i + d] = next[i] + d
  BY DEF Delayed
<1> DEFINE S == {m \in Nat : \A i \in Nat \ {0} : i > n - m => g[i + d] = f[i]}
<1>1. 0 \in S
  BY <1>b, <1>c
<1>2. ASSUME NEW m \in Nat, m \in S  PROVE m + 1 \in S
  <2>1. SUFFICES ASSUME NEW i \in Nat \ {0}, i > n - (m + 1)
                 PROVE  g[i + d] = f[i]
    OBVIOUS
  <2>2. \A j \in Nat \ {0} : j > n - m => g[j + d] = f[j]
    BY <1>2
  <2>3. CASE i > n
    BY <1>b, <1>c, <2>3
  <2>4. CASE i \in 1..n
    <3>1. next[i] \in Nat \ {0} /\ next[i] > n - m
      BY <1>a, <2>1, <2>4
    <3>2. g[next[i] + d] = f[next[i]]
      BY <2>2, <3>1
    <3>3. f[i] = Cat(out[i], f[next[i]])
      BY <1>b, <2>4
    <3>4. i + d \in Nat \ {0} /\ ~(i + d > n + d)
      BY <2>4
    <3>5. g[i + d] = Cat(later[i + d], g[nextLater[i + d]])
      BY <1>c, <3>4
    <3> QED
      BY <1>d, <2>4, <3>2, <3>3, <3>5
  <2> QED
    BY <2>3, <2>4
<1>3. n \in S
  <2> HIDE DEF S
  <2> QED
    BY <1>1, <1>2, SetInduction
<1> QED
  BY <1>3

\* What \o of two texts is, and what stands where in it.
LEMMA CatIs ==
  ASSUME NEW S, NEW s \in Seq(S), NEW t \in Seq(S)
  PROVE  Cat(s, t) \in Seq(S) /\ Len(Cat(s, t)) = Len(s) + Len(t)
  BY ConcatProperties DEF Cat

\* What stands in its first part,
LEMMA CatLeft ==
  ASSUME NEW S, NEW s \in Seq(S), NEW t \in Seq(S), NEW i \in 1..Len(s)
  PROVE  Cat(s, t)[i] = s[i]
<1>1. i <= Len(s) + Len(t) /\ i <= Len(s)
  OBVIOUS
<1> QED
  BY <1>1, ConcatProperties DEF Cat

\* and in its second.
LEMMA CatRight ==
  ASSUME NEW S, NEW s \in Seq(S), NEW t \in Seq(S), NEW i \in 1..Len(t)
  PROVE  Cat(s, t)[Len(s) + i] = t[i]
<1> DEFINE c == s \o t
           k == Len(s) + i
<1>1. /\ k \in 1..(Len(s) + Len(t)) /\ ~(k <= Len(s))
      /\ k - Len(s) = i
  OBVIOUS
<1> HIDE DEF k
<1>2. \A j \in 1..(Len(s) + Len(t)) :
             c[j] = IF j <= Len(s) THEN s[j] ELSE t[j - Len(s)]
  BY ConcatProperties
<1> HIDE DEF c
<1>3. c[k] = t[i]
  BY <1>1, <1>2
<1> QED
  BY <1>3 DEF c, Cat, k

\* The empty text adds nothing.
LEMMA CatEmpty ==
  ASSUME NEW S, NEW s \in Seq(S)
  PROVE  Cat(<<>>, s) = s /\ Cat(s, <<>>) = s
  BY ConcatEmptySeq DEF Cat

\* \o is associative.
LEMMA CatAssociative ==
  ASSUME NEW S, NEW s \in Seq(S), NEW t \in Seq(S), NEW u \in Seq(S)
  PROVE  Cat(Cat(s, t), u) = Cat(s, Cat(t, u))
  BY ConcatAssociative DEF Cat

\* Min of a set that is not empty is its least member.
LEMMA MinIs ==
  ASSUME NEW A \in SUBSET Nat, A # {}
  PROVE  Min(A) \in A /\ \A a \in A : Min(A) <= a
<1>1. PICK k \in A : \A j \in A : ~(<<j, k>> \in OpToRel(<, Nat))
  BY NatLessThanWellFounded, WFMin
<1>2. \A j \in A : ~(j < k)
  BY <1>1 DEF OpToRel
<1>3. \A j \in A : k <= j
  BY <1>2
<1> QED
  BY <1>3 DEF Min

\* Max of a bounded set that is not empty is its greatest member.
LEMMA MaxIs ==
  ASSUME NEW n \in Nat, NEW A \in SUBSET (0..n), A # {}
  PROVE  Max(A) \in A /\ \A a \in A : Max(A) >= a
<1> DEFINE B == {n - a : a \in A}
<1>0. \A a \in A : a \in 0..n /\ n - a \in Nat
  OBVIOUS
<1>1. B \in SUBSET Nat /\ B # {}
  BY <1>0
<1> DEFINE b == Min(B)
<1>2. b \in B /\ \A c \in B : b <= c
  BY <1>1, MinIs
<1> HIDE DEF b
<1>3. PICK k \in A : b = n - k
  BY <1>2
<1>4. \A a \in A : k >= a
  BY <1>2, <1>3
<1> QED
  BY <1>4 DEF Max

\* FlattenSeq(ss) as the last of a row of texts.
LEMMA FlattenIs ==
  ASSUME NEW S, NEW ss \in Seq(Seq(S))
  PROVE  \E f \in [0..Len(ss) -> Seq(S)] :
            /\ f[0] = <<>>
            /\ \A i \in 1..Len(ss) : f[i] = Cat(f[i - 1], ss[i])
            /\ FlattenSeq(ss) = f[Len(ss)]
<1> DEFINE Rows(m) == [0..m -> Seq(S)]
           Sound(f, m) == f[0] = <<>> /\ \A i \in 1..m : f[i] = Cat(f[i - 1], ss[i])
           Made(m) == m <= Len(ss) => \E f \in Rows(m) : Sound(f, m)
<1>0. Len(ss) \in Nat /\ \A i \in 1..Len(ss) : ss[i] \in Seq(S)
  OBVIOUS
<1>1. Made(0)
  <2> DEFINE f == [i \in 0..0 |-> <<>>]
  <2>1. f \in Rows(0) /\ f[0] = <<>>
    OBVIOUS
  <2> HIDE DEF f
  <2>2. Sound(f, 0)
    BY <2>1
  <2> QED
    BY <2>1, <2>2
<1>2. ASSUME NEW m \in Nat, Made(m)  PROVE Made(m + 1)
  <2> SUFFICES ASSUME m + 1 <= Len(ss)  PROVE \E f \in Rows(m + 1) : Sound(f, m + 1)
    OBVIOUS
  <2>0. m <= Len(ss)
    BY <1>0
  <2>1. PICK f \in Rows(m) : Sound(f, m)
    BY <1>2, <2>0
  <2> DEFINE new == Cat(f[m], ss[m + 1])
             g == [i \in 0..(m + 1) |-> IF i = m + 1 THEN new ELSE f[i]]
  <2>2. new \in Seq(S)
    <3>1. f[m] \in Seq(S) /\ ss[m + 1] \in Seq(S)
      BY <1>0
    <3> QED
      BY <3>1, CatIs
  <2> HIDE DEF new
  <2>3. g \in Rows(m + 1)
    BY <2>2
  <2>4. g[m + 1] = new /\ \A i \in 0..m : g[i] = f[i]
    OBVIOUS
  <2> HIDE DEF g
  <2>5. Sound(g, m + 1)
    <3>1. g[0] = <<>>
      BY <2>1, <2>4
    <3> SUFFICES ASSUME NEW i \in 1..(m + 1)  PROVE g[i] = Cat(g[i - 1], ss[i])
      BY <3>1
    <3>2. CASE i = m + 1
      BY <3>2, <2>4 DEF new
    <3>3. CASE i \in 1..m
      <4>1. f[i] = Cat(f[i - 1], ss[i])
        BY <2>1, <3>3
      <4>2. i - 1 \in 0..m /\ i \in 0..m
        BY <3>3
      <4> QED
        BY <2>4, <4>1, <4>2
    <3> QED
      BY <3>2, <3>3
  <2> HIDE DEF Sound, Rows
  <2> QED
    BY <2>3, <2>5
<1>3. Made(Len(ss))
  <2> HIDE DEF Made
  <2> DEFINE N == {m \in Nat : Made(m)}
  <2>1. 0 \in N /\ \A m \in Nat : m \in N => m + 1 \in N
    BY <1>1, <1>2
  <2> QED
    BY <1>0, <2>1, SetInduction
<1>4. PICK f \in Rows(Len(ss)) : Sound(f, Len(ss))
  BY <1>3
<1>5. CASE Len(ss) = 0
  <2>1. FlattenSeq(ss) = <<>>
    BY <1>5 DEF FlattenSeq
  <2> QED
    BY <1>4, <1>5, <2>1
<1>6. CASE Len(ss) # 0
  <2> DEFINE Is(h) == h = [i \in 1..Len(ss) |->
                               IF i = 1 THEN ss[i] ELSE Cat(h[i - 1], ss[i])]
             g == CHOOSE h : Is(h)
             r == [i \in 1..Len(ss) |-> f[i]]
  <2>1. FlattenSeq(ss) = g[Len(ss)]
    BY <1>6 DEF FlattenSeq, Cat
  <2>2. \A i \in 1..Len(ss) : r[i] = f[i]
    OBVIOUS
  <2>3. r = [i \in 1..Len(ss) |-> r[i]]
    OBVIOUS
  <2> HIDE DEF r
  <2>4. \A i \in 1..Len(ss) : r[i] = IF i = 1 THEN ss[i] ELSE Cat(r[i - 1], ss[i])
    <3> SUFFICES ASSUME NEW i \in 1..Len(ss)
                 PROVE  r[i] = IF i = 1 THEN ss[i] ELSE Cat(r[i - 1], ss[i])
      OBVIOUS
    <3>1. f[i] = Cat(f[i - 1], ss[i])
      BY <1>4
    <3>2. CASE i = 1
      <4>1. f[1] = Cat(<<>>, ss[1])
        BY <3>1, <3>2, <1>4
      <4>2. Cat(<<>>, ss[1]) = ss[1]
        BY <1>0, <3>2, CatEmpty
      <4> QED
        BY <2>2, <3>2, <4>1, <4>2
    <3>3. CASE i # 1
      <4>1. i - 1 \in 1..Len(ss)
        BY <3>3, <1>0
      <4> QED
        BY <2>2, <3>1, <3>3, <4>1
    <3> QED
      BY <3>2, <3>3
  <2>5. Is(r)
    BY <2>3, <2>4
  <2>6. Is(g)
    <3> HIDE DEF Is
    <3> QED
      BY <2>5
  <2> HIDE DEF g
  <2>7. \A i \in 1..Len(ss) : g[i] = IF i = 1 THEN ss[i] ELSE Cat(g[i - 1], ss[i])
    BY <2>6
  <2> DEFINE M == {m \in Nat : m + 1 <= Len(ss) => g[m + 1] = f[m + 1]}
  <2>8. 0 \in M
    BY <2>2, <2>4, <2>7
  <2>9. ASSUME NEW m \in Nat, m \in M  PROVE m + 1 \in M
    <3> SUFFICES ASSUME m + 2 <= Len(ss)  PROVE g[m + 2] = f[m + 2]
      OBVIOUS
    <3>1. g[m + 1] = f[m + 1]
      BY <2>9, <1>0
    <3>2. m + 2 \in 1..Len(ss) /\ m + 2 # 1 /\ (m + 2) - 1 = m + 1
      BY <1>0
    <3>3. f[m + 2] = Cat(f[m + 1], ss[m + 2])
      BY <1>4, <3>2
    <3> QED
      BY <2>7, <3>1, <3>2, <3>3
  <2>10. Len(ss) - 1 \in M
    <3> HIDE DEF M
    <3>1. Len(ss) - 1 \in Nat
      BY <1>0, <1>6
    <3> QED
      BY <2>8, <2>9, <3>1, SetInduction
  <2>11. g[Len(ss)] = f[Len(ss)]
    BY <1>0, <1>6, <2>10
  <2> QED
    BY <1>4, <2>1, <2>11
<1> QED
  BY <1>5, <1>6

\* FlattenSeq of texts over S is a text over S.
LEMMA FlattenType ==
  ASSUME NEW S, NEW ss \in Seq(Seq(S))
  PROVE  FlattenSeq(ss) \in Seq(S)
<1>1. PICK f \in [0..Len(ss) -> Seq(S)] : FlattenSeq(ss) = f[Len(ss)]
  BY FlattenIs
<1>2. Len(ss) \in 0..Len(ss)
  OBVIOUS
<1> QED
  BY <1>1, <1>2

\* FlattenSeq of nothing is empty.
LEMMA FlattenEmpty == FlattenSeq(<<>>) = <<>>
  BY DEF FlattenSeq

\* The text of one character.
LEMMA Single ==
  ASSUME NEW S, NEW x \in S
  PROVE  <<x>> \in Seq(S) /\ Len(<<x>>) = 1 /\ <<x>>[1] = x
  OBVIOUS

\* A text with a character put before it, and what stands where in it.
LEMMA ConsIs ==
  ASSUME NEW S, NEW x \in S, NEW s \in Seq(S)
  PROVE  /\ Cons(x, s) \in Seq(S)
         /\ Len(Cons(x, s)) = Len(s) + 1
         /\ Cons(x, s)[1] = x
<1> DEFINE one == <<x>>
           c == Cat(one, s)
<1>1. one \in Seq(S) /\ Len(one) = 1 /\ one[1] = x
  BY Single
<1> HIDE DEF one
<1>2. c \in Seq(S) /\ Len(c) = Len(one) + Len(s)
  BY <1>1, CatIs
<1>3. c[1] = one[1]
  BY <1>1, CatLeft
<1> HIDE DEF c
<1>4. Len(c) = Len(s) + 1
  BY <1>1, <1>2
<1> QED
  BY <1>1, <1>2, <1>3, <1>4 DEF c, one, Cons, Cat

\* Behind its first character stands the text that it was put before.
LEMMA ConsRest ==
  ASSUME NEW S, NEW x \in S, NEW s \in Seq(S), NEW i \in 1..Len(s)
  PROVE  Cons(x, s)[i + 1] = s[i]
<1> DEFINE one == <<x>>
           c == Cat(one, s)
<1>1. one \in Seq(S) /\ Len(one) = 1 /\ Len(one) + i = i + 1
  BY Single
<1> HIDE DEF one
<1>2. c[Len(one) + i] = s[i]
  BY <1>1, CatRight
<1> HIDE DEF c
<1>3. c[i + 1] = s[i]
  BY <1>1, <1>2
<1> QED
  BY <1>3 DEF c, one, Cons, Cat

\* FlattenSeq starts with the first of the texts.
LEMMA FlattenCons ==
  ASSUME NEW S, NEW x \in Seq(S), NEW ss \in Seq(Seq(S))
  PROVE  FlattenSeq(Cons(x, ss)) = Cat(x, FlattenSeq(ss))
<1> DEFINE xs == Cons(x, ss)
<1>1. Len(ss) \in Nat /\ \A i \in 1..Len(ss) : ss[i] \in Seq(S)
  OBVIOUS
<1>3. /\ xs \in Seq(Seq(S)) /\ Len(xs) = Len(ss) + 1
      /\ xs[1] = x
      /\ \A i \in 1..Len(ss) : xs[i + 1] = ss[i]
  <2>1. xs \in Seq(Seq(S)) /\ Len(xs) = Len(ss) + 1 /\ xs[1] = x
    BY ConsIs
  <2>2. \A i \in 1..Len(ss) : xs[i + 1] = ss[i]
    BY ConsRest
  <2> QED
    BY <2>1, <2>2
<1> HIDE DEF xs
<1>4. PICK f \in [0..Len(ss) -> Seq(S)] :
        /\ f[0] = <<>>
        /\ \A i \in 1..Len(ss) : f[i] = Cat(f[i - 1], ss[i])
        /\ FlattenSeq(ss) = f[Len(ss)]
  BY FlattenIs
<1>5. PICK g \in [0..Len(xs) -> Seq(S)] :
        /\ g[0] = <<>>
        /\ \A i \in 1..Len(xs) : g[i] = Cat(g[i - 1], xs[i])
        /\ FlattenSeq(xs) = g[Len(xs)]
  BY <1>3, FlattenIs
<1> DEFINE N == {m \in Nat : m <= Len(ss) => g[m + 1] = Cat(x, f[m])}
<1>6. 0 \in N
  <2>1. g[1] = Cat(g[0], xs[1])
    BY <1>1, <1>3, <1>5
  <2>2. Cat(<<>>, x) = x /\ Cat(x, <<>>) = x
    BY CatEmpty
  <2> QED
    BY <1>3, <1>4, <1>5, <2>1, <2>2
<1>7. ASSUME NEW m \in Nat, m \in N  PROVE m + 1 \in N
  <2> SUFFICES ASSUME m + 1 <= Len(ss)  PROVE g[m + 2] = Cat(x, f[m + 1])
    OBVIOUS
  <2>1. m <= Len(ss) /\ m + 1 \in 1..Len(ss) /\ m + 2 \in 1..Len(xs) /\ m \in 0..Len(ss)
        /\ (m + 2) - 1 = m + 1 /\ (m + 1) - 1 = m /\ (m + 1) + 1 = m + 2
    BY <1>1, <1>3
  <2>2. g[m + 1] = Cat(x, f[m])
    BY <1>7, <2>1
  <2>3. g[m + 2] = Cat(g[m + 1], xs[m + 2])
    BY <1>5, <2>1
  <2>4. xs[m + 2] = ss[m + 1] /\ ss[m + 1] \in Seq(S) /\ f[m] \in Seq(S)
    BY <1>1, <1>3, <2>1
  <2>5. f[m + 1] = Cat(f[m], ss[m + 1])
    BY <1>4, <2>1
  <2>6. Cat(Cat(x, f[m]), ss[m + 1]) = Cat(x, Cat(f[m], ss[m + 1]))
    BY <2>4, CatAssociative
  <2> QED
    BY <2>2, <2>3, <2>4, <2>5, <2>6
<1>8. Len(ss) \in N
  <2> HIDE DEF N
  <2> QED
    BY <1>1, <1>6, <1>7, SetInduction
<1>9. g[Len(ss) + 1] = Cat(x, f[Len(ss)])
  BY <1>1, <1>8
<1>10. FlattenSeq(xs) = Cat(x, FlattenSeq(ss))
  BY <1>1, <1>3, <1>4, <1>5, <1>9
<1> QED
  BY <1>10 DEF xs

\* A text is empty or has a first character.
LEMMA Decompose ==
  ASSUME NEW S, NEW t \in Seq(S), Len(t) # 0
  PROVE  /\ t[1] \in S /\ Tail(t) \in Seq(S) /\ Len(Tail(t)) = Len(t) - 1
         /\ t = Cons(t[1], Tail(t))
<1>1. Len(t) \in Nat /\ 1 \in 1..Len(t) /\ t # <<>>
  OBVIOUS
<1>2. t[1] \in S /\ Tail(t) \in Seq(S) /\ Len(Tail(t)) = Len(t) - 1
  BY <1>1, HeadTailProperties
<1>3. \A i \in 1..Len(Tail(t)) : Tail(t)[i] = t[i + 1]
  BY <1>1, HeadTailProperties
<1> DEFINE u == Tail(t)
           h == t[1]
           c == Cons(h, u)
<1> HIDE DEF u, h
<1>a. h \in S /\ u \in Seq(S)
  BY <1>2 DEF h, u
<1>4. /\ c \in Seq(S) /\ Len(c) = Len(u) + 1
      /\ c[1] = h
      /\ \A i \in 1..Len(u) : c[i + 1] = u[i]
  <2>1. c \in Seq(S) /\ Len(c) = Len(u) + 1 /\ c[1] = h
    BY <1>a, ConsIs
  <2>2. \A i \in 1..Len(u) : c[i + 1] = u[i]
    BY <1>a, ConsRest
  <2> QED
    BY <2>1, <2>2
<1> HIDE DEF c
<1>5. ASSUME NEW i \in 1..Len(t)  PROVE t[i] = c[i]
  <2>1. CASE i = 1
    BY <1>4, <2>1 DEF h
  <2>2. CASE i # 1
    <3>1. i - 1 \in 1..Len(u) /\ (i - 1) + 1 = i
      BY <1>1, <1>2, <2>2 DEF u
    <3> QED
      BY <1>3, <1>4, <3>1 DEF u
  <2> QED
    BY <2>1, <2>2
<1>6. Len(t) = Len(c)
  BY <1>1, <1>2, <1>4 DEF u
<1>7. t = c
  BY <1>4, <1>5, <1>6, SeqEqual
<1> QED
  BY <1>2, <1>7 DEF c, u, h

\* Induction over the texts of S, for a set.
LEMMA TextInduction ==
  ASSUME NEW S, NEW P, <<>> \in P,
         \A c \in S, t \in Seq(S) : t \in P => Cons(c, t) \in P
  PROVE  Seq(S) \subseteq P
<1> DEFINE N == {n \in Nat : \A t \in Seq(S) : Len(t) = n => t \in P}
<1>1. 0 \in N
  <2>1. \A t \in Seq(S) : Len(t) = 0 => t = <<>>
    OBVIOUS
  <2> QED
    BY <2>1
<1>2. ASSUME NEW n \in Nat, n \in N  PROVE n + 1 \in N
  <2> SUFFICES ASSUME NEW t \in Seq(S), Len(t) = n + 1  PROVE t \in P
    OBVIOUS
  <2>1. /\ t[1] \in S /\ Tail(t) \in Seq(S) /\ Len(Tail(t)) = n
        /\ t = Cons(t[1], Tail(t))
    BY Decompose
  <2>2. Tail(t) \in P
    BY <1>2, <2>1
  <2> QED
    BY <2>1, <2>2
<1>3. Nat \subseteq N
  <2> HIDE DEF N
  <2> QED
    BY <1>1, <1>2, SetInduction
<1> QED
  <2> SUFFICES ASSUME NEW t \in Seq(S)  PROVE t \in P
    OBVIOUS
  <2>1. Len(t) \in Nat
    OBVIOUS
  <2> QED
    BY <1>3, <2>1

\* The text of the images of the characters of t.
Image(t, img) == [k \in DOMAIN t |-> img[t[k]]]

Maps(img, S, R) == img \in [S -> R]

\* The images of a text are as many as its characters.
LEMMA ImageType ==
  ASSUME NEW S, NEW R, NEW t \in Seq(S), NEW img, Maps(img, S, R)
  PROVE  Image(t, img) \in Seq(R) /\ Len(Image(t, img)) = Len(t)
<1>1. Len(t) \in Nat /\ DOMAIN t = 1..Len(t) /\ \A k \in 1..Len(t) : img[t[k]] \in R
  BY DEF Maps
<1> QED
  BY <1>1 DEF Image

\* The image of the first character comes first.
LEMMA ImageCons ==
  ASSUME NEW S, NEW R, NEW c \in S, NEW t \in Seq(S), NEW img, Maps(img, S, R),
         NEW first, first = img[c]
  PROVE  Image(Cons(c, t), img) = Cons(first, Image(t, img))
<1> DEFINE u == Cons(c, t)
           row == Image(t, img)
           longer == Image(u, img)
           other == Cons(first, row)
<1>1. u \in Seq(S) /\ Len(u) = Len(t) + 1 /\ u[1] = c
  BY ConsIs
<1>2. \A k \in 1..Len(t) : u[k + 1] = t[k]
  BY ConsRest
<1> HIDE DEF u
<1>3. row \in Seq(R) /\ Len(row) = Len(t)
  BY ImageType
<1>4. longer \in Seq(R) /\ Len(longer) = Len(u)
  BY <1>1, ImageType
<1>5. \A k \in 1..Len(t) : row[k] = img[t[k]]
  BY DEF Image
<1>6. \A k \in 1..Len(u) : longer[k] = img[u[k]]
  BY <1>1 DEF Image
<1>7. first \in R /\ first = img[c]
  BY DEF Maps
<1>8. Len(t) \in Nat
  OBVIOUS
<1> HIDE DEF row, longer
<1>9. other \in Seq(R) /\ Len(other) = Len(row) + 1 /\ other[1] = first
  BY <1>3, <1>7, ConsIs
<1>10. \A k \in 1..Len(row) : other[k + 1] = row[k]
  BY <1>3, <1>7, ConsRest
<1> HIDE DEF other
<1>11. ASSUME NEW k \in 1..Len(longer)  PROVE longer[k] = other[k]
  <2>1. CASE k = 1
    BY <1>1, <1>4, <1>6, <1>7, <1>9, <2>1
  <2>2. CASE k # 1
    <3> DEFINE j == k - 1
    <3>1. j \in 1..Len(t) /\ j + 1 = k /\ k \in 1..Len(u)
      BY <1>1, <1>4, <1>8, <2>2
    <3> HIDE DEF j
    <3>2. longer[k] = img[t[j]]
      BY <1>2, <1>6, <3>1
    <3>3. other[k] = img[t[j]]
      BY <1>3, <1>5, <1>10, <3>1
    <3> QED
      BY <3>2, <3>3
  <2> QED
    BY <2>1, <2>2
<1>12. longer = other
  BY <1>1, <1>3, <1>4, <1>9, <1>11, SeqEqual
<1> QED
  BY <1>12 DEF longer, other, u, row
=============================================================================
