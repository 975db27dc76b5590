---------------------------- MODULE QueryProofs -----------------------------
(***************************************************************************)
(* What strip_comments and validate_query make of a text, for any text.    *)
(***************************************************************************)
EXTENDS QueryText, TextProofs

\* The scan of strip_comments.

\* Max of two numbers.
LEMMA MaxOfTwo ==
  ASSUME NEW a \in Nat, NEW b \in Nat
  PROVE  Max({a, b}) = IF a >= b THEN a ELSE b
<1> DEFINE A == {a, b}
           m == Max(A)
<1>1. a + b \in Nat /\ A \in SUBSET (0..(a + b)) /\ A # {}
  OBVIOUS
<1>2. m \in A /\ \A x \in A : m >= x
  BY <1>1, MaxIs
<1> HIDE DEF m
<1> QED
  BY <1>2 DEF m

\* Where a block comment that is skipped ends.
LEMMA AfterBlockIs ==
  ASSUME NEW S, NEW t \in Seq(S), NEW i \in Nat
  PROVE  \/ /\ Closings(t, i) = {}
            /\ AfterBlock(t, i) = Len(t) + 1
         \/ \E j \in i..Len(t) :
               /\ Two(t, j, Star, Slash)
               /\ \A k \in i..(j - 1) : ~Two(t, k, Star, Slash)
               /\ Closings(t, i) # {}
               /\ AfterBlock(t, i) = j + 2
<1> DEFINE ends == Closings(t, i)
<1>1. Len(t) \in Nat /\ ends \in SUBSET Nat
  BY DEF Closings
<1>2. AfterBlock(t, i) = IF ends = {} THEN Len(t) + 1 ELSE Min(ends) + 2
  BY DEF AfterBlock
<1>3. CASE ends = {}
  BY <1>2, <1>3
<1>4. CASE ends # {}
  <2> DEFINE m == Min(ends)
  <2>1. m \in ends /\ \A x \in ends : m <= x
    BY <1>1, <1>4, MinIs
  <2>2. AfterBlock(t, i) = m + 2
    BY <1>2, <1>4
  <2> HIDE DEF m
  <2>3. m \in i..Len(t) /\ Two(t, m, Star, Slash)
    BY <2>1 DEF Closings
  <2>4. \A k \in i..(m - 1) : ~Two(t, k, Star, Slash)
    <3> SUFFICES ASSUME NEW k \in i..(m - 1), Two(t, k, Star, Slash)  PROVE FALSE
      OBVIOUS
    <3>1. k \in ends
      BY <1>1, <2>3 DEF Closings
    <3> QED
      BY <2>1, <2>3, <3>1
  <2> HIDE DEF ends
  <2> QED
    BY <1>4, <2>2, <2>3, <2>4 DEF ends
<1> QED
  BY <1>3, <1>4

\* Where a line comment that is skipped ends.
LEMMA AfterLineIs ==
  ASSUME NEW S, NEW t \in Seq(S), NEW i \in Nat, i <= Len(t) + 1
  PROVE  /\ AfterLine(t, i) \in i..(Len(t) + 1)
         /\ \A k \in i..(AfterLine(t, i) - 1) : t[k] # NewLine
         /\ AfterLine(t, i) <= Len(t) => t[AfterLine(t, i)] = NewLine
<1> DEFINE last == Max({i, Len(t) + 1})
           ends == {j \in i..Len(t) : t[j] = NewLine} \cup {last}
           m == Min(ends)
<1>1. Len(t) \in Nat /\ Len(t) + 1 \in Nat
  OBVIOUS
<1>2. last = Len(t) + 1
  <2> DEFINE n == Len(t) + 1
  <2>1. n \in Nat /\ i <= n
    BY <1>1
  <2> HIDE DEF n
  <2>2. Max({i, n}) = n
    BY <2>1, MaxOfTwo
  <2> QED
    BY <2>2 DEF n
<1> HIDE DEF last
<1>3. ends \in SUBSET Nat /\ ends # {}
  BY <1>1, <1>2
<1>4. AfterLine(t, i) = m
  BY DEF AfterLine, last
<1> HIDE DEF ends
<1>5. m \in ends /\ \A x \in ends : m <= x
  BY <1>3, MinIs
<1> HIDE DEF m
<1>6. m \in i..(Len(t) + 1) /\ (m <= Len(t) => t[m] = NewLine)
  BY <1>1, <1>2, <1>5 DEF ends
<1>7. \A k \in i..(m - 1) : t[k] # NewLine
  <2> SUFFICES ASSUME NEW k \in i..(m - 1), t[k] = NewLine  PROVE FALSE
    OBVIOUS
  <2>1. k \in ends
    BY <1>1, <1>6 DEF ends
  <2> QED
    BY <1>5, <1>6, <2>1
<1> QED
  BY <1>4, <1>6, <1>7

Byte == 0..255

\* The bytes of a character.
LEMMA Utf8Is ==
  ASSUME NEW c \in Byte
  PROVE  /\ Utf8(c) \in Seq(Byte)
         /\ c < 128 => Utf8(c) = <<c>> /\ Last(Utf8(c)) = c
         /\ c >= 128 => /\ Len(Utf8(c)) # 0 /\ Utf8(c)[1] >= 192
                        /\ Last(Utf8(c)) \in 128..191
<1>1. CASE c < 128
  <2>1. Utf8(c) = <<c>>
    BY <1>1 DEF Utf8
  <2>2. Last(<<c>>) = c
    BY DEF Last
  <2> QED
    BY <1>1, <2>1, <2>2 DEF Byte
<1>2. CASE c >= 128
  <2> DEFINE a == 192 + (c \div 64)
             b == 128 + (c % 64)
  <2>1. ~(c < 128) /\ c \in Nat
    BY <1>2 DEF Byte
  <2>2. Utf8(c) = <<a, b>>
    BY <2>1 DEF Utf8
  <2>3. a \in 192..195
    BY DEF Byte
  <2>4. b \in 128..191
    BY DEF Byte
  <2> HIDE DEF a, b
  <2>5. Last(<<a, b>>) = b
    BY DEF Last
  <2> QED
    BY <2>1, <2>2, <2>3, <2>4, <2>5 DEF Byte
<1> QED
  BY <1>1, <1>2 DEF Byte

\* What a block comment leaves that is not closed: no word.
LEMMA KeptUnclosed ==
  ASSUME NEW t \in Seq(Byte), NEW i \in Nat, Len(t) # 0, Closings(t, i) = {}
  PROVE  \/ KeptOfBlock(t, i) = <<Blank>>
         \/ \E x \in Byte : x # Select /\ KeptOfBlock(t, i) = <<Blank, x>>
<1>1. CASE i > Len(t)
  BY <1>1 DEF KeptOfBlock
<1>2. CASE ~(i > Len(t))
  <2> DEFINE c == Last(t)
             x == IF c = Select THEN Word ELSE Last(Utf8(c))
  <2>1. KeptOfBlock(t, i) = <<Blank, x>>
    BY <1>2 DEF KeptOfBlock
  <2>2. c \in Byte
    BY DEF Last
  <2> HIDE DEF c
  <2>3. Last(Utf8(c)) \in Byte /\ (c # Select => Last(Utf8(c)) # Select)
    <3>1. CASE c < 128
      <4>1. Last(Utf8(c)) = c
        BY <2>2, <3>1, Utf8Is
      <4> QED
        BY <2>2, <4>1
    <3>2. CASE c >= 128
      <4>1. Last(Utf8(c)) \in 128..191
        BY <2>2, <3>2, Utf8Is
      <4> DEFINE b == Last(Utf8(c))
      <4> HIDE DEF b
      <4>2. b \in 128..191
        BY <4>1 DEF b
      <4>3. b \in Byte /\ b # Select
        BY <4>2 DEF Byte, Select
      <4> QED
        BY <4>3 DEF b
    <3> QED
      BY <2>2, <3>1, <3>2 DEF Byte
  <2>4. x \in Byte /\ x # Select
    BY <2>3 DEF Byte, Select, Word
  <2> HIDE DEF x
  <2> QED
    BY <2>1, <2>4
<1> QED
  BY <1>1, <1>2

\* What is put out is bytes.
LEMMA KeptType ==
  ASSUME NEW t \in Seq(Byte), NEW i \in 1..Len(t)
  PROVE  Kept(t, i) \in Seq(Byte)
<1>1. Blank \in Byte
  BY DEF Blank, Byte
<1> DEFINE k == i + 2
<1>4. t[i] \in Byte /\ k \in Nat /\ Len(t) # 0
  OBVIOUS
<1>2. KeptOfBlock(t, k) \in Seq(Byte)
  <2>1. CASE Closings(t, k) # {}
    BY <1>1, <2>1 DEF KeptOfBlock
  <2>2. CASE Closings(t, k) = {}
    <3> HIDE DEF k
    <3>1. \/ KeptOfBlock(t, k) = <<Blank>>
          \/ \E x \in Byte : x # Select /\ KeptOfBlock(t, k) = <<Blank, x>>
      BY <1>4, <2>2, KeptUnclosed
    <3> DEFINE out == KeptOfBlock(t, k)
    <3> HIDE DEF out
    <3>2. out = <<Blank>> \/ \E x \in Byte : out = <<Blank, x>>
      BY <3>1 DEF out
    <3>3. out \in Seq(Byte)
      <4>1. CASE out = <<Blank>>
        BY <1>1, <4>1, Single
      <4>2. CASE \E x \in Byte : out = <<Blank, x>>
        <5> PICK x \in Byte : out = <<Blank, x>>
          BY <4>2
        <5>1. <<Blank, x>> \in Seq(Byte)
          BY <1>1
        <5> QED
          BY <5>1
      <4> QED
        BY <3>2, <4>1, <4>2
    <3> QED
      BY <3>3 DEF out
  <2> QED
    BY <2>1, <2>2
<1>3. Utf8(t[i]) \in Seq(Byte)
  BY <1>4, Utf8Is
<1> QED
  BY <1>1, <1>2, <1>3 DEF Kept

Kepts(t) == [i \in 1..Len(t) |-> Kept(t, i)]
Pasts(t) == [i \in 1..Len(t) |-> Past(t, i)]

\* The scan of strip_comments goes on to the right.
LEMMA PastsForward ==
  ASSUME NEW S, NEW t \in Seq(S)
  PROVE  Forward(Len(t), Pasts(t))
<1> SUFFICES ASSUME NEW i \in 1..Len(t)
             PROVE  Past(t, i) \in Nat /\ Past(t, i) > i
  BY DEF Forward, Pasts
<1>1. Len(t) \in Nat
  OBVIOUS
<1> DEFINE k == i + 2
<1>2. k \in Nat /\ (i < Len(t) => k <= Len(t) + 1)
  BY <1>1
<1>3. CASE Two(t, i, Slash, Star)
  <2>1. i < Len(t) /\ Past(t, i) = AfterBlock(t, k)
    BY <1>3 DEF Two, Past
  <2> DEFINE a == AfterBlock(t, k)
  <2>2. a = Len(t) + 1 \/ \E j \in k..Len(t) : a = j + 2
    <3> HIDE DEF k
    <3> QED
      BY <1>2, AfterBlockIs
  <2> HIDE DEF a
  <2>3. a \in Nat /\ a > i
    BY <1>1, <2>2
  <2> QED
    BY <2>1, <2>3 DEF a
<1>4. CASE ~Two(t, i, Slash, Star) /\ Two(t, i, Dash, Dash)
  <2>1. i < Len(t) /\ Past(t, i) = AfterLine(t, k)
    BY <1>4 DEF Two, Past
  <2> DEFINE a == AfterLine(t, k)
  <2>2. a \in k..(Len(t) + 1)
    <3> HIDE DEF k
    <3> QED
      BY <1>2, <2>1, AfterLineIs
  <2> HIDE DEF a
  <2>3. a \in Nat /\ a > i
    BY <1>1, <2>2
  <2> QED
    BY <2>1, <2>3 DEF a
<1>5. CASE ~Two(t, i, Slash, Star) /\ ~Two(t, i, Dash, Dash)
  BY <1>5 DEF Past
<1> QED
  BY <1>3, <1>4, <1>5

\* StripComments is a walk over the text.
LEMMA StripCommentsIs ==
  ASSUME NEW S, NEW t \in Seq(S)
  PROVE  \E f : Walks(f, Len(t), Kepts(t), Pasts(t)) /\ StripComments(t) = f[1]
<1> DEFINE Is(f) == f = [i \in Nat \ {0} |-> IF i > Len(t) THEN <<>>
                                             ELSE Cat(Kept(t, i), f[Past(t, i)])]
           from == CHOOSE f : Is(f)
<1>1. StripComments(t) = from[1]
  BY DEF StripComments, Cat
<1>2. Len(t) \in Nat
  OBVIOUS
<1>3. PICK f : IsWalk(f, Len(t), Kepts(t), Pasts(t))
  BY <1>2, PastsForward, WalkExists
<1>4. \A i \in Nat \ {0} : ~(i > Len(t)) => /\ Kepts(t)[i] = Kept(t, i)
                                            /\ Pasts(t)[i] = Past(t, i)
  BY <1>2 DEF Kepts, Pasts
<1>5. Is(f)
  BY <1>3, <1>4 DEF IsWalk
<1>6. Is(from)
  <2> HIDE DEF Is
  <2> QED
    BY <1>5
<1> HIDE DEF from
<1>7. \A i \in Nat \ {0} : from[i] = IF i > Len(t) THEN <<>>
                                     ELSE Cat(Kept(t, i), from[Past(t, i)])
  BY <1>6
<1> HIDE DEF Is
<1>8. Walks(from, Len(t), Kepts(t), Pasts(t))
  BY <1>4, <1>7 DEF Walks
<1> QED
  BY <1>1, <1>8

\* Of an empty text nothing is left.
LEMMA NothingIsNothing == StripComments(<<>>) = <<>> /\ Trim(<<>>) = <<>>
<1>1. Trim(<<>>) = <<>>
  BY DEF Trim
<1>2. StripComments(<<>>) = <<>>
  <2>1. PICK f : Walks(f, Len(<<>>), Kepts(<<>>), Pasts(<<>>)) /\ StripComments(<<>>) = f[1]
    <3> DEFINE S == {}
    <3>1. <<>> \in Seq(S)
      OBVIOUS
    <3> HIDE DEF S
    <3> QED
      BY <3>1, StripCommentsIs
  <2>2. Len(<<>>) = 0 /\ 1 \in Nat \ {0} /\ 1 > 0
    OBVIOUS
  <2> QED
    BY <2>1, <2>2 DEF Walks
<1> QED
  BY <1>1, <1>2

\* An empty text is refused.
LEMMA NothingIsEmpty == ValidateQuery(<<>>) = "empty"
  BY NothingIsNothing DEF ValidateQuery

-----------------------------------------------------------------------------
\* The reference: what PostgreSQL reads.

\* f[i] is what the scanner knows after i characters of t.
Scans(f, t) ==
    /\ f[0] = Scanner
    /\ \A i \in 1..Len(t) : f[i] = Scan(t, f[i - 1], i)

\* Lex reads the text from its start.
LEMMA LexIs ==
  ASSUME NEW S, NEW t \in Seq(S)
  PROVE  \E f : Scans(f, t) /\ Lex(t) = f[Len(t)]
<1> DEFINE n == Len(t)
           Is(f) == f = [i \in 0..n |-> IF i = 0 THEN Scanner ELSE Scan(t, f[i - 1], i)]
           Sound(f, m) == /\ f = [i \in 0..n |-> f[i]] /\ f[0] = Scanner
                          /\ \A i \in 1..n : i <= m => f[i] = Scan(t, f[i - 1], i)
           N == {m \in Nat : \E f : Sound(f, m)}
           after == CHOOSE f : Is(f)
<1>1. Lex(t) = after[n]
  BY DEF Lex
<1>2. n \in Nat
  OBVIOUS
<1> HIDE DEF n
<1>3. 0 \in N
  <2> DEFINE f == [i \in 0..n |-> Scanner]
  <2>1. f = [i \in 0..n |-> f[i]] /\ f[0] = Scanner
    BY <1>2
  <2> HIDE DEF f
  <2>2. Sound(f, 0)
    BY <2>1
  <2> QED
    BY <2>2
<1>4. ASSUME NEW m \in Nat, m \in N  PROVE m + 1 \in N
  <2> PICK f : Sound(f, m)
    BY <1>4
  <2> DEFINE new == Scan(t, f[m], m + 1)
             g == [i \in 0..n |-> IF i = m + 1 THEN new ELSE f[i]]
  <2>1. g = [i \in 0..n |-> g[i]] /\ \A i \in 0..n : g[i] = IF i = m + 1 THEN new ELSE f[i]
    OBVIOUS
  <2> HIDE DEF g
  <2>2. g[0] = Scanner
    BY <1>2, <2>1
  <2>3. ASSUME NEW i \in 1..n, i <= m + 1  PROVE g[i] = Scan(t, g[i - 1], i)
    <3> DEFINE j == i - 1
    <3>1. j \in 0..n /\ i \in 0..n /\ j # m + 1 /\ (i = m + 1 => j = m)
      BY <1>2, <2>3
    <3> HIDE DEF j
    <3>2. g[j] = f[j]
      BY <2>1, <3>1
    <3>3. CASE i = m + 1
      BY <2>1, <3>1, <3>2, <3>3 DEF j
    <3>4. CASE i # m + 1
      <4>1. i <= m
        BY <1>2, <2>3, <3>4
      <4>2. f[i] = Scan(t, f[j], i)
        BY <4>1 DEF j
      <4> QED
        BY <2>1, <3>1, <3>2, <3>4, <4>2 DEF j
    <3> QED
      BY <3>3, <3>4
  <2>4. Sound(g, m + 1)
    BY <2>1, <2>2, <2>3
  <2> HIDE DEF Sound
  <2> QED
    BY <2>4
<1>5. n \in N
  <2> HIDE DEF N
  <2> QED
    BY <1>2, <1>3, <1>4, SetInduction
<1>6. PICK f : Sound(f, n)
  BY <1>5
<1>7. \A i \in 0..n : f[i] = IF i = 0 THEN Scanner ELSE Scan(t, f[i - 1], i)
  <2> SUFFICES ASSUME NEW i \in 0..n, i # 0  PROVE f[i] = Scan(t, f[i - 1], i)
    BY <1>6
  <2>1. i \in 1..n /\ i <= n
    BY <1>2
  <2> QED
    BY <1>6, <2>1
<1>8. Is(f)
  BY <1>6, <1>7
<1>9. Is(after)
  <2> HIDE DEF Is
  <2> QED
    BY <1>8
<1> HIDE DEF after
<1>10. after[0] = Scanner /\ \A i \in 1..n : after[i] = Scan(t, after[i - 1], i)
  <2>1. \A i \in 0..n : after[i] = IF i = 0 THEN Scanner ELSE Scan(t, after[i - 1], i)
    BY <1>9
  <2>2. 0 \in 0..n /\ \A i \in 1..n : i \in 0..n /\ i # 0
    BY <1>2
  <2> QED
    BY <2>1, <2>2
<1>11. Scans(after, t)
  BY <1>10 DEF Scans, n
<1> QED
  BY <1>1, <1>11 DEF n

Char == 0..1023
\* A byte that is read, as it is or in a literal, is no terminator.
LEMMA ByteRead ==
  ASSUME NEW x \in Byte
  PROVE  /\ x \in Char /\ Literal(x) \in Char /\ Terminator \in Char
         /\ x # Terminator /\ Literal(x) # Terminator
  BY DEF Byte, Char, Terminator, Literal

Places == {"code", "block", "line", "literal"}

State == [in : Places, depth : Nat, held : BOOLEAN, nested : BOOLEAN, live : Seq(Char)]

\* One character further, field by field.
LEMMA ScanHeld ==
  ASSUME NEW t, NEW i, NEW s \in State, s.held
  PROVE  /\ Scan(t, s, i) \in State
         /\ Scan(t, s, i).in = s.in /\ Scan(t, s, i).depth = s.depth
         /\ ~Scan(t, s, i).held
         /\ Scan(t, s, i).nested = s.nested /\ Scan(t, s, i).live = s.live
<1>1. Scan(t, s, i) = [s EXCEPT !.held = FALSE]
  BY DEF Scan
<1> QED
  BY <1>1 DEF State

\* A comment begins, in code or in a comment.
LEMMA ScanOpen ==
  ASSUME NEW t, NEW i, NEW s \in State, ~s.held,
         s.in \in {"code", "block"}, Two(t, i, Slash, Star)
  PROVE  /\ Scan(t, s, i) \in State
         /\ Scan(t, s, i).in = "block" /\ Scan(t, s, i).depth = s.depth + 1
         /\ Scan(t, s, i).held
         /\ s.nested \/ s.depth > 0 => Scan(t, s, i).nested
         /\ Scan(t, s, i).live = s.live
<1> DEFINE d == s.depth + 1
           b == s.nested \/ s.depth > 0
<1>1. Scan(t, s, i) = [[s EXCEPT !.held = TRUE] EXCEPT
                         !.in = "block", !.depth = d, !.nested = b]
  BY DEF Scan
<1>2. d \in Nat /\ b \in BOOLEAN
  BY DEF State
<1> HIDE DEF d, b
<1>3. /\ Scan(t, s, i) \in State
      /\ Scan(t, s, i).in = "block" /\ Scan(t, s, i).depth = d
      /\ Scan(t, s, i).held
      /\ Scan(t, s, i).nested = b
      /\ Scan(t, s, i).live = s.live
  BY <1>1, <1>2 DEF State, Places
<1> QED
  BY <1>3 DEF d, b

\* In a block comment.
LEMMA ScanBlock ==
  ASSUME NEW t, NEW i, NEW s \in State, ~s.held, s.in = "block", ~Two(t, i, Slash, Star)
  PROVE  IF Two(t, i, Star, Slash)
         THEN s.depth # 0 =>
              /\ Scan(t, s, i) \in State
              /\ Scan(t, s, i).in = IF s.depth = 1 THEN "code" ELSE "block"
              /\ Scan(t, s, i).depth = s.depth - 1
              /\ Scan(t, s, i).held
              /\ Scan(t, s, i).nested = s.nested /\ Scan(t, s, i).live = s.live
         ELSE Scan(t, s, i) = s
<1>1. CASE Two(t, i, Star, Slash)
  <2> SUFFICES ASSUME s.depth # 0
               PROVE  /\ Scan(t, s, i) \in State
                      /\ Scan(t, s, i).in = IF s.depth = 1 THEN "code" ELSE "block"
                      /\ Scan(t, s, i).depth = s.depth - 1
                      /\ Scan(t, s, i).held
                      /\ Scan(t, s, i).nested = s.nested /\ Scan(t, s, i).live = s.live
    BY <1>1
  <2> DEFINE d == s.depth - 1
             to == IF s.depth = 1 THEN "code" ELSE "block"
  <2>1. Scan(t, s, i) = [[s EXCEPT !.held = TRUE] EXCEPT !.in = to, !.depth = d]
    BY <1>1 DEF Scan
  <2>2. d \in Nat /\ to \in Places
    BY DEF State, Places
  <2> HIDE DEF d, to
  <2>3. /\ Scan(t, s, i) \in State
        /\ Scan(t, s, i).in = to
        /\ Scan(t, s, i).depth = d
        /\ Scan(t, s, i).held
        /\ Scan(t, s, i).nested = s.nested /\ Scan(t, s, i).live = s.live
    BY <2>1, <2>2 DEF State
  <2> QED
    BY <2>3 DEF d, to
<1>2. CASE ~Two(t, i, Star, Slash)
  BY <1>2 DEF Scan
<1> QED
  BY <1>1, <1>2

\* In a line comment.
LEMMA ScanLine ==
  ASSUME NEW t, NEW i, NEW s \in State, ~s.held, s.in = "line"
  PROVE  IF t[i] \in {NewLine, Return}
         THEN /\ Scan(t, s, i) \in State
              /\ Scan(t, s, i).in = "code" /\ Scan(t, s, i).depth = s.depth
              /\ ~Scan(t, s, i).held
              /\ Scan(t, s, i).nested = s.nested /\ Scan(t, s, i).live = s.live
         ELSE Scan(t, s, i) = s
<1>1. Scan(t, s, i) = IF t[i] \in {NewLine, Return} THEN [s EXCEPT !.in = "code"] ELSE s
  BY DEF Scan
<1> QED
  BY <1>1 DEF State, Places

\* In a literal everything is read, and marked.
LEMMA ScanLiteral ==
  ASSUME NEW t, NEW i, NEW s \in State, ~s.held, s.in = "literal", t[i] \in Byte
  PROVE  /\ Scan(t, s, i) \in State
         /\ Scan(t, s, i).in = (IF t[i] = Quote THEN "code" ELSE "literal")
         /\ Scan(t, s, i).depth = s.depth
         /\ ~Scan(t, s, i).held
         /\ Scan(t, s, i).nested = s.nested
         /\ Scan(t, s, i).live = Append(s.live, Literal(t[i]))
<1> DEFINE c == t[i]
           l == Append(s.live, Literal(c))
           to == IF c = Quote THEN "code" ELSE "literal"
<1>0. Literal(c) \in Char
  BY DEF Byte, Char, Literal
<1>1. Scan(t, s, i) = [[s EXCEPT !.live = l] EXCEPT !.in = to]
  BY DEF Scan, State
<1>2. l \in Seq(Char) /\ to \in Places
  BY <1>0 DEF State, Places
<1> HIDE DEF l, to
<1>3. /\ Scan(t, s, i) \in State
      /\ Scan(t, s, i).in = to
      /\ Scan(t, s, i).depth = s.depth
      /\ ~Scan(t, s, i).held
      /\ Scan(t, s, i).nested = s.nested
      /\ Scan(t, s, i).live = l
  BY <1>1, <1>2 DEF State
<1> QED
  BY <1>3 DEF l, to

\* A line comment begins.
LEMMA ScanDashes ==
  ASSUME NEW t, NEW i, NEW s \in State, ~s.held, s.in = "code", Two(t, i, Dash, Dash)
  PROVE  /\ Scan(t, s, i) \in State
         /\ Scan(t, s, i).in = "line"
         /\ Scan(t, s, i).depth = s.depth
         /\ ~Scan(t, s, i).held
         /\ Scan(t, s, i).nested = s.nested
         /\ Scan(t, s, i).live = s.live
<1>0. ~Two(t, i, Slash, Star)
  BY DEF Two, Slash, Dash
<1>1. Scan(t, s, i) = [s EXCEPT !.in = "line"]
  BY <1>0 DEF Scan
<1> QED
  BY <1>1 DEF State, Places

\* A blank in code is not read.
LEMMA ScanBlank ==
  ASSUME NEW t, NEW i, NEW s, ~s.held, s.in = "code", t[i] \in PgWhite
  PROVE  Scan(t, s, i) = s
<1>0. ~Two(t, i, Slash, Star) /\ ~Two(t, i, Dash, Dash)
  BY DEF Two, Slash, Dash, PgWhite, Blank
<1> QED
  BY <1>0 DEF Scan

\* Any other character in code is read.
LEMMA ScanCode ==
  ASSUME NEW t, NEW i, NEW s \in State, ~s.held, s.in = "code", t[i] \in Byte,
         ~Two(t, i, Slash, Star), ~Two(t, i, Dash, Dash), t[i] \notin PgWhite
  PROVE  /\ Scan(t, s, i) \in State
         /\ Scan(t, s, i).in = (IF t[i] = Quote THEN "literal" ELSE "code")
         /\ Scan(t, s, i).depth = s.depth
         /\ ~Scan(t, s, i).held
         /\ Scan(t, s, i).nested = s.nested
         /\ Scan(t, s, i).live =
               Append(s.live, IF t[i] = Semicolon THEN Terminator ELSE t[i])
<1> DEFINE c == t[i]
           l == IF c = Semicolon THEN Terminator ELSE c
<1>0. l \in Char /\ Quote # Semicolon
  BY DEF Byte, Char, Terminator, Quote, Semicolon
<1>1. Scan(t, s, i) = IF c = Quote
                      THEN [[s EXCEPT !.live = Append(@, Quote)] EXCEPT !.in = "literal"]
                      ELSE [s EXCEPT !.live = Append(@, l)]
  BY DEF Scan
<1>2. Append(s.live, l) \in Seq(Char)
  BY <1>0 DEF State
<1> HIDE DEF l
<1>3. c = Quote => l = c
  BY <1>0 DEF l
<1>4. CASE c = Quote
  BY <1>1, <1>2, <1>3, <1>4 DEF State, Places, l
<1>5. CASE c # Quote
  BY <1>1, <1>2, <1>5 DEF State, Places, l
<1> QED
  BY <1>4, <1>5

\* The depth counts the comments that are open.
Steady(s) == s \in State /\ (s.in = "block" <=> s.depth # 0)

\* The scanner begins in code, outside comments.
LEMMA ScannerIs == Steady(Scanner) /\ ~Scanner.held /\ ~Scanner.nested
  BY DEF Scanner, Steady, State, Places

\* What one character changes, as far as the text that is read goes.
Skips(t, i, s, r) ==
    /\ r.live = s.live
    /\ \/ s.held /\ ~r.held /\ r.in = s.in
       \/ /\ ~s.held /\ r.held /\ r.in \in {"code", "block"}
          /\ Two(t, i, Slash, Star) \/ Two(t, i, Star, Slash)
       \/ ~s.held /\ ~r.held /\ r.in = "block"
       \/ ~s.held /\ ~r.held /\ r.in = "line"
       \/ ~s.held /\ ~r.held /\ r.in = "code" /\ t[i] \in PgWhite

Reads(t, i, s, r) ==
    /\ ~s.held /\ ~r.held
    /\ \/ /\ s.in = "literal" /\ r.in = (IF t[i] = Quote THEN "code" ELSE "literal")
          /\ r.live = Append(s.live, Literal(t[i]))
       \/ /\ s.in = "code" /\ t[i] \notin PgWhite
          /\ r.in = (IF t[i] = Quote THEN "literal" ELSE "code")
          /\ r.live = Append(s.live, IF t[i] = Semicolon THEN Terminator ELSE t[i])

\* One character is skipped or read.
LEMMA ScanMoves ==
  ASSUME NEW t \in Seq(Byte), NEW i \in 1..Len(t), NEW s, Steady(s)
  PROVE  /\ Steady(Scan(t, s, i))
         /\ s.nested => Scan(t, s, i).nested
         /\ Skips(t, i, s, Scan(t, s, i)) \/ Reads(t, i, s, Scan(t, s, i))
<1>0. t[i] \in Byte /\ s \in State /\ s.in \in Places /\ s.nested \in BOOLEAN /\ s.depth \in Nat
  BY DEF Steady, State
<1> DEFINE r == Scan(t, s, i)
<1>1. CASE s.held
  <2>1. /\ r \in State /\ r.in = s.in /\ r.depth = s.depth /\ ~r.held
        /\ r.nested = s.nested /\ r.live = s.live
    BY <1>0, <1>1, ScanHeld
  <2> HIDE DEF r
  <2> QED
    BY <1>1, <2>1 DEF Steady, Skips, r
<1>2. CASE ~s.held /\ s.in \in {"code", "block"} /\ Two(t, i, Slash, Star)
  <2>1. /\ r \in State /\ r.in = "block" /\ r.depth = s.depth + 1 /\ r.held
        /\ (s.nested \/ s.depth > 0 => r.nested) /\ r.live = s.live
    BY <1>0, <1>2, ScanOpen
  <2> HIDE DEF r
  <2>2. r.depth # 0
    BY <1>0, <2>1
  <2>3. s.nested => r.nested
    BY <2>1
  <2> QED
    BY <1>2, <2>1, <2>2, <2>3 DEF Steady, Skips, r
<1>3. CASE ~s.held /\ s.in = "block" /\ ~Two(t, i, Slash, Star) /\ Two(t, i, Star, Slash)
  <2>0. s.depth # 0
    BY <1>3 DEF Steady
  <2>1. /\ r \in State /\ r.in = (IF s.depth = 1 THEN "code" ELSE "block")
        /\ r.depth = s.depth - 1 /\ r.held
        /\ r.nested = s.nested /\ r.live = s.live
    BY <1>0, <1>3, <2>0, ScanBlock
  <2> HIDE DEF r
  <2>2. r.in = "block" <=> r.depth # 0
    BY <1>0, <2>0, <2>1
  <2>3. r.in \in {"code", "block"}
    BY <2>1
  <2> QED
    BY <1>3, <2>1, <2>2, <2>3 DEF Steady, Skips, r
<1>4. CASE ~s.held /\ s.in = "block" /\ ~Two(t, i, Slash, Star) /\ ~Two(t, i, Star, Slash)
  <2>1. r = s
    BY <1>0, <1>4, ScanBlock
  <2> HIDE DEF r
  <2> QED
    BY <1>4, <2>1 DEF Steady, Skips, r
<1>5. CASE ~s.held /\ s.in = "line"
  <2>1. CASE t[i] \in {NewLine, Return}
    <3>1. /\ r \in State /\ r.in = "code" /\ r.depth = s.depth /\ ~r.held
          /\ r.nested = s.nested /\ r.live = s.live
      BY <1>0, <1>5, <2>1, ScanLine
    <3> HIDE DEF r
    <3>2. t[i] \in PgWhite
      BY <2>1 DEF PgWhite, NewLine, Return
    <3> QED
      BY <1>5, <3>1, <3>2 DEF Steady, Skips, r
  <2>2. CASE t[i] \notin {NewLine, Return}
    <3>1. r = s
      BY <1>0, <1>5, <2>2, ScanLine
    <3> HIDE DEF r
    <3> QED
      BY <1>5, <3>1 DEF Steady, Skips, r
  <2> QED
    BY <2>1, <2>2
<1>6. CASE ~s.held /\ s.in = "literal"
  <2>1. /\ r \in State /\ r.in = (IF t[i] = Quote THEN "code" ELSE "literal")
        /\ r.depth = s.depth /\ ~r.held /\ r.nested = s.nested
        /\ r.live = Append(s.live, Literal(t[i]))
    BY <1>0, <1>6, ScanLiteral
  <2> HIDE DEF r
  <2> QED
    BY <1>6, <2>1 DEF Steady, Reads, r
<1>7. CASE ~s.held /\ s.in = "code" /\ Two(t, i, Dash, Dash)
  <2>1. /\ r \in State /\ r.in = "line" /\ r.depth = s.depth /\ ~r.held
        /\ r.nested = s.nested /\ r.live = s.live
    BY <1>0, <1>7, ScanDashes
  <2> HIDE DEF r
  <2> QED
    BY <1>7, <2>1 DEF Steady, Skips, r
<1>8. CASE ~s.held /\ s.in = "code" /\ t[i] \in PgWhite
  <2>1. r = s
    BY <1>8, ScanBlank
  <2> HIDE DEF r
  <2> QED
    BY <1>8, <2>1 DEF Steady, Skips, r
<1>9. CASE /\ ~s.held /\ s.in = "code" /\ t[i] \notin PgWhite
           /\ ~Two(t, i, Slash, Star) /\ ~Two(t, i, Dash, Dash)
  <2>1. /\ r \in State /\ r.in = (IF t[i] = Quote THEN "literal" ELSE "code")
        /\ r.depth = s.depth /\ ~r.held /\ r.nested = s.nested
        /\ r.live = Append(s.live, IF t[i] = Semicolon THEN Terminator ELSE t[i])
    BY <1>0, <1>9, ScanCode
  <2> HIDE DEF r
  <2>2. r.in # "block"
    BY <2>1
  <2> QED
    BY <1>9, <2>1, <2>2 DEF Steady, Reads, r
<1> QED
  BY <1>0, <1>1, <1>2, <1>3, <1>4, <1>5, <1>6, <1>7, <1>8, <1>9 DEF Places

-----------------------------------------------------------------------------
\* Induction over a range of numbers, for a set.
LEMMA RangeInduction ==
  ASSUME NEW i \in Nat, NEW n \in Nat, NEW N, i \in N,
         \A k \in i..(n - 1) : k \in N => k + 1 \in N
  PROVE  \A k \in i..n : k \in N
<1> DEFINE M == {m \in Nat : i + m <= n => i + m \in N}
<1>1. 0 \in M
  BY i + 0 = i
<1>2. ASSUME NEW m \in Nat, m \in M  PROVE m + 1 \in M
  <2> SUFFICES ASSUME i + (m + 1) <= n  PROVE i + (m + 1) \in N
    OBVIOUS
  <2> DEFINE k == i + m
  <2>1. k \in i..(n - 1) /\ k <= n /\ k + 1 = i + (m + 1)
    OBVIOUS
  <2>2. k \in N
    BY <1>2, <2>1
  <2> HIDE DEF k
  <2>3. k + 1 \in N
    BY <2>1, <2>2
  <2> QED
    BY <2>1, <2>3
<1>3. Nat \subseteq M
  <2> HIDE DEF M
  <2> QED
    BY <1>1, <1>2, SetInduction
<1> SUFFICES ASSUME NEW k \in i..n  PROVE k \in N
  OBVIOUS
<1>4. k - i \in Nat /\ i + (k - i) = k
  OBVIOUS
<1>5. k - i \in M
  BY <1>3, <1>4
<1> QED
  BY <1>4, <1>5

\* What the scanner may be sure of after i characters of t.
Sure(t, i, s) ==
    /\ Steady(s)
    /\ s.held => /\ s.in \in {"code", "block"}
                 /\ i < Len(t) /\ t[i + 1] \in {Slash, Star}

\* One character further it still is,
LEMMA SureNext ==
  ASSUME NEW t \in Seq(Byte), NEW i \in Nat, i < Len(t), NEW s, Steady(s)
  PROVE  Sure(t, i + 1, Scan(t, s, i + 1))
<1> DEFINE j == i + 1
           r == Scan(t, s, j)
<1>1. j \in 1..Len(t)
  OBVIOUS
<1> HIDE DEF j
<1>2. Steady(r) /\ (Skips(t, j, s, r) \/ Reads(t, j, s, r))
  BY <1>1, ScanMoves
<1> HIDE DEF r
<1>3. r.held => /\ r.in \in {"code", "block"}
                /\ j < Len(t) /\ t[j + 1] \in {Slash, Star}
  BY <1>2 DEF Skips, Reads, Two
<1> QED
  BY <1>2, <1>3 DEF Sure, j, r

\* and so it is after every character.
LEMMA AlwaysSure ==
  ASSUME NEW t \in Seq(Byte), NEW f, Scans(f, t)
  PROVE  \A i \in 0..Len(t) : Sure(t, i, f[i])
<1> DEFINE N == {i \in Nat : Sure(t, i, f[i])}
           n == Len(t)
<1>1. 0 \in N /\ n \in Nat
  BY ScannerIs DEF Scans, Sure
<1>2. ASSUME NEW i \in 0..(n - 1), i \in N  PROVE i + 1 \in N
  <2> DEFINE j == i + 1
  <2>1. i \in Nat /\ i < Len(t) /\ Steady(f[i])
    BY <1>1, <1>2 DEF Sure
  <2>2. j \in 1..Len(t) /\ j - 1 = i /\ j \in Nat
    BY <2>1
  <2>3. Sure(t, i + 1, Scan(t, f[i], i + 1))
    BY <2>1, SureNext
  <2> HIDE DEF j
  <2>4. f[j] = Scan(t, f[j - 1], j)
    BY <2>2 DEF Scans
  <2>5. Sure(t, j, f[j])
    BY <2>2, <2>3, <2>4 DEF j
  <2> QED
    BY <2>2, <2>5 DEF j
<1> HIDE DEF N, n
<1>3. \A i \in 0..n : i \in N
  BY <1>1, <1>2, RangeInduction
<1> QED
  BY <1>3 DEF N, n

-----------------------------------------------------------------------------
\* At most one statement.

\* A character that Stacked looks for, among the first i of t.
Solid(t, p) == t[p] \notin White \cup {Semicolon}

\* What is read of the first i characters of t, live, is there for what stands
\* in them: a part that is not blank, one and its end, two of them.
Read1(t, i, live) ==
    (\E a \in 1..Len(live) : live[a] # Terminator) => \E p \in 1..i : Solid(t, p)

Read2(t, i, live) ==
    (\E a, b \in 1..Len(live) : a < b /\ live[a] # Terminator /\ live[b] = Terminator) =>
        \E p, q \in 1..i : p < q /\ Solid(t, p) /\ t[q] = Semicolon

Read3(t, i, live) ==
    (\E a, b, c \in 1..Len(live) : /\ a < b /\ b < c
                                   /\ live[a] # Terminator /\ live[b] = Terminator
                                   /\ live[c] # Terminator) =>
        \E p, q, r \in 1..i : /\ p < q /\ q < r
                              /\ Solid(t, p) /\ t[q] = Semicolon /\ Solid(t, r)

Accounted(t, i, live) == Read1(t, i, live) /\ Read2(t, i, live) /\ Read3(t, i, live)

\* A text with a character put behind it, and what stands where in it.
LEMMA AppendIs ==
  ASSUME NEW S, NEW s \in Seq(S), NEW x \in S
  PROVE  /\ Append(s, x) \in Seq(S) /\ Len(Append(s, x)) = Len(s) + 1
         /\ \A a \in 1..Len(s) : Append(s, x)[a] = s[a]
         /\ Append(s, x)[Len(s) + 1] = x
  OBVIOUS

\* A character that is not read changes nothing,
LEMMA AccountedLater ==
  ASSUME NEW t, NEW i \in Nat, NEW live, Accounted(t, i, live)
  PROVE  Accounted(t, i + 1, live)
<1>1. \A p \in 1..i : p \in 1..(i + 1)
  OBVIOUS
<1>2. Read1(t, i + 1, live)
  BY <1>1 DEF Accounted, Read1
<1>3. Read2(t, i + 1, live)
  BY <1>1 DEF Accounted, Read2
<1>4. Read3(t, i + 1, live)
  BY <1>1 DEF Accounted, Read3
<1> QED
  BY <1>2, <1>3, <1>4 DEF Accounted

\* a terminator is a semicolon,
LEMMA AccountedTerminator ==
  ASSUME NEW t, NEW i \in Nat, NEW live \in Seq(Char), Accounted(t, i, live),
         t[i + 1] = Semicolon
  PROVE  Accounted(t, i + 1, Append(live, Terminator))
<1> DEFINE n == Len(live)
           j == i + 1
           more == Append(live, Terminator)
<1>0. /\ Len(more) = n + 1 /\ \A a \in 1..n : more[a] = live[a]
      /\ more[n + 1] = Terminator /\ n \in Nat
  <2>1. Terminator \in Char
    BY DEF Terminator, Char
  <2> QED
    BY <2>1, AppendIs
<1>1. \A p \in 1..i : p \in 1..j /\ p < j
  OBVIOUS
<1>2. j \in 1..j /\ t[j] = Semicolon
  OBVIOUS
<1>3. \A a \in 1..(n + 1) : more[a] # Terminator => a \in 1..n /\ live[a] # Terminator
  BY <1>0
<1> HIDE DEF more, n, j
<1>4. Read1(t, j, more)
  BY <1>0, <1>1, <1>3 DEF Accounted, Read1, n
<1>5. Read2(t, j, more)
  BY <1>0, <1>1, <1>2, <1>3 DEF Accounted, Read1, Read2, n
<1>6. Read3(t, j, more)
  <2> SUFFICES ASSUME NEW a \in 1..(n + 1), NEW b \in 1..(n + 1), NEW c \in 1..(n + 1),
                      a < b, b < c, more[a] # Terminator, more[b] = Terminator,
                      more[c] # Terminator
               PROVE  \E p, q, r \in 1..j : /\ p < q /\ q < r
                              /\ Solid(t, p) /\ t[q] = Semicolon /\ Solid(t, r)
    BY <1>0 DEF Read3
  <2>1. c \in 1..n /\ a \in 1..n /\ b \in 1..n
    BY <1>0, <1>3
  <2>2. live[a] # Terminator /\ live[b] = Terminator /\ live[c] # Terminator
    BY <1>0, <2>1
  <2>3. \E p, q, r \in 1..i : /\ p < q /\ q < r
                              /\ Solid(t, p) /\ t[q] = Semicolon /\ Solid(t, r)
    BY <2>1, <2>2 DEF Accounted, Read3, n
  <2> QED
    BY <1>1, <2>3
<1> QED
  BY <1>4, <1>5, <1>6 DEF Accounted, j, more

\* another character that is not blank stands for itself,
LEMMA AccountedSolid ==
  ASSUME NEW t, NEW i \in Nat, NEW live \in Seq(Char), Accounted(t, i, live),
         NEW x \in Char, x # Terminator, Solid(t, i + 1)
  PROVE  Accounted(t, i + 1, Append(live, x))
<1> DEFINE n == Len(live)
           j == i + 1
           more == Append(live, x)
<1>0. /\ Len(more) = n + 1 /\ \A a \in 1..n : more[a] = live[a]
      /\ more[n + 1] = x /\ n \in Nat
  BY AppendIs
<1>1. \A p \in 1..i : p \in 1..j /\ p < j
  OBVIOUS
<1>2. j \in 1..j /\ Solid(t, j)
  OBVIOUS
<1>3. \A a \in 1..(n + 1) : more[a] = Terminator => a \in 1..n /\ live[a] = Terminator
  BY <1>0
<1> HIDE DEF more, n, j
<1>4. Read1(t, j, more)
  BY <1>2 DEF Read1
<1>5. Read2(t, j, more)
  <2> SUFFICES ASSUME NEW a \in 1..(n + 1), NEW b \in 1..(n + 1),
                      a < b, more[a] # Terminator, more[b] = Terminator
               PROVE  \E p, q \in 1..j : p < q /\ Solid(t, p) /\ t[q] = Semicolon
    BY <1>0 DEF Read2
  <2>1. a \in 1..n /\ b \in 1..n
    BY <1>0, <1>3
  <2>2. live[a] # Terminator /\ live[b] = Terminator
    BY <1>0, <2>1
  <2>3. \E p, q \in 1..i : p < q /\ Solid(t, p) /\ t[q] = Semicolon
    BY <2>1, <2>2 DEF Accounted, Read2, n
  <2> QED
    BY <1>1, <2>3
<1>6. Read3(t, j, more)
  <2> SUFFICES ASSUME NEW a \in 1..(n + 1), NEW b \in 1..(n + 1),
                      a < b, more[a] # Terminator, more[b] = Terminator
               PROVE  \E p, q, r \in 1..j : /\ p < q /\ q < r
                              /\ Solid(t, p) /\ t[q] = Semicolon /\ Solid(t, r)
    BY <1>0 DEF Read3
  <2>1. a \in 1..n /\ b \in 1..n
    BY <1>0, <1>3
  <2>2. live[a] # Terminator /\ live[b] = Terminator
    BY <1>0, <2>1
  <2>3. \E p, q \in 1..i : p < q /\ Solid(t, p) /\ t[q] = Semicolon
    BY <2>1, <2>2 DEF Accounted, Read2, n
  <2> QED
    BY <1>1, <1>2, <2>3
<1> QED
  BY <1>4, <1>5, <1>6 DEF Accounted, j, more

\* and one that is blank follows one that is not.
LEMMA AccountedMore ==
  ASSUME NEW t, NEW i \in Nat, NEW live \in Seq(Char), Accounted(t, i, live),
         NEW x \in Char, x # Terminator, Len(live) # 0, live[Len(live)] # Terminator
  PROVE  Accounted(t, i + 1, Append(live, x))
<1> DEFINE n == Len(live)
           j == i + 1
           more == Append(live, x)
<1>0. /\ Len(more) = n + 1 /\ \A a \in 1..n : more[a] = live[a]
      /\ more[n + 1] = x /\ n \in Nat
  BY AppendIs
<1>1. \A p \in 1..i : p \in 1..j
  OBVIOUS
<1>2. n \in 1..n /\ live[n] # Terminator
  BY <1>0
<1>3. \A a \in 1..(n + 1) : more[a] = Terminator => a \in 1..n /\ live[a] = Terminator
  BY <1>0
<1> HIDE DEF more, n, j
<1>4. Read1(t, j, more)
  <2>1. \E p \in 1..i : Solid(t, p)
    BY <1>2 DEF Accounted, Read1, n
  <2> QED
    BY <1>1, <2>1 DEF Read1
<1>5. Read2(t, j, more)
  <2> SUFFICES ASSUME NEW a \in 1..(n + 1), NEW b \in 1..(n + 1),
                      a < b, more[a] # Terminator, more[b] = Terminator
               PROVE  \E p, q \in 1..j : p < q /\ Solid(t, p) /\ t[q] = Semicolon
    BY <1>0 DEF Read2
  <2>1. a \in 1..n /\ b \in 1..n
    BY <1>0, <1>3
  <2>2. live[a] # Terminator /\ live[b] = Terminator
    BY <1>0, <2>1
  <2>3. \E p, q \in 1..i : p < q /\ Solid(t, p) /\ t[q] = Semicolon
    BY <2>1, <2>2 DEF Accounted, Read2, n
  <2> QED
    BY <1>1, <2>3
<1>6. Read3(t, j, more)
  <2> SUFFICES ASSUME NEW a \in 1..(n + 1), NEW b \in 1..(n + 1),
                      a < b, more[a] # Terminator, more[b] = Terminator
               PROVE  \E p, q, r \in 1..j : /\ p < q /\ q < r
                              /\ Solid(t, p) /\ t[q] = Semicolon /\ Solid(t, r)
    BY <1>0 DEF Read3
  <2>1. a \in 1..n /\ b \in 1..n
    BY <1>0, <1>3
  <2>2. live[a] # Terminator /\ live[b] = Terminator /\ b < n
    BY <1>0, <1>2, <2>1
  <2>3. \E p, q, r \in 1..i : /\ p < q /\ q < r
                              /\ Solid(t, p) /\ t[q] = Semicolon /\ Solid(t, r)
    BY <1>2, <2>1, <2>2 DEF Accounted, Read3, n
  <2> QED
    BY <1>1, <2>3
<1> QED
  BY <1>4, <1>5, <1>6 DEF Accounted, j, more

EndsOpen(live) == Len(live) # 0 /\ live[Len(live)] # Terminator

\* What the scanner knows after i characters of t.
Known(t, i, s) ==
    /\ Sure(t, i, s)
    /\ s.in = "literal" => EndsOpen(s.live)
    /\ s.in = "code" /\ i > 0 /\ t[i] >= 128 => EndsOpen(s.live)
    /\ Accounted(t, i, s.live)

\* So it is at the start of the text,
LEMMA KnownFirst ==
  ASSUME NEW t \in Seq(Byte)
  PROVE  Known(t, 0, Scanner)
<1>1. Accounted(t, 0, <<>>)
  BY DEF Accounted, Read1, Read2, Read3
<1>2. Scanner.live = <<>> /\ Scanner.in = "code"
  BY DEF Scanner
<1> QED
  BY <1>1, <1>2, ScannerIs DEF Known, Sure

\* What only char::is_whitespace takes for a blank follows a character beyond
\* ASCII, and is one.
LEMMA OddBlank ==
  ASSUME NEW t \in Seq(Byte), Plain(t), NEW i \in 1..Len(t),
         t[i] \in White, t[i] \notin PgWhite
  PROVE  i > 1 /\ t[i - 1] >= 128 /\ t[i] >= 128
<1> DEFINE c == t[i]
<1>1. i \in DOMAIN t /\ c \in White \ PgWhite
  OBVIOUS
<1>2. i > 1 /\ t[i - 1] >= 128
  BY <1>1 DEF Plain
<1>3. c \in {133, 160}
  BY <1>1 DEF White, PgWhite
<1> HIDE DEF c
<1>4. c >= 128
  BY <1>3
<1> QED
  BY <1>2, <1>4 DEF c

\* A statement that is read on is not ended.
LEMMA AppendEndsOpen ==
  ASSUME NEW live \in Seq(Char), NEW x \in Char, x # Terminator
  PROVE  EndsOpen(Append(live, x))
<1> DEFINE n == Len(live)
           more == Append(live, x)
<1>1. n \in Nat /\ Len(more) = n + 1 /\ more[n + 1] = x
  BY AppendIs
<1> HIDE DEF more, n
<1> QED
  BY <1>1 DEF EndsOpen, more

\* and one character further.
LEMMA KnownNext ==
  ASSUME NEW t \in Seq(Byte), Plain(t), NEW i \in Nat, i < Len(t), NEW s, Known(t, i, s)
  PROVE  Known(t, i + 1, Scan(t, s, i + 1))
<1> DEFINE j == i + 1
           r == Scan(t, s, j)
           c == t[j]
<1>0. /\ j \in 1..Len(t) /\ j \in Nat /\ j > 0 /\ c \in Byte /\ s.live \in Seq(Char)
      /\ Steady(s) /\ Accounted(t, i, s.live) /\ c # Terminator /\ c \in Char
      /\ Literal(c) # Terminator /\ Literal(c) \in Char
  <2>1. j \in 1..Len(t)
    OBVIOUS
  <2> HIDE DEF j
  <2>2. c \in Byte
    BY <2>1
  <2>3. c # Terminator /\ c \in Char /\ Literal(c) # Terminator /\ Literal(c) \in Char
    <3> HIDE DEF c
    <3> QED
      BY <2>2, ByteRead
  <2> QED
    BY <2>1, <2>2, <2>3 DEF Known, Sure, Steady, State
<1>1. Sure(t, j, r) /\ (Skips(t, j, s, r) \/ Reads(t, j, s, r))
  <2>1. Sure(t, j, r)
    BY <1>0, SureNext
  <2> HIDE DEF j
  <2> QED
    BY <1>0, <2>1, ScanMoves
<1>2. i = j - 1
  OBVIOUS
<1> SUFFICES Known(t, j, r)
  OBVIOUS
<1> HIDE DEF r
<1>3. CASE Skips(t, j, s, r)
  <2>1. Accounted(t, j, r.live)
    BY <1>0, <1>3, AccountedLater DEF Skips
  <2>2. r.in = "literal" => EndsOpen(r.live)
    BY <1>3 DEF Skips, Known
  <2>4. r.in = "code" => c < 128
    <3>1. CASE s.held
      <4>1. c \in {Slash, Star}
        BY <3>1 DEF Known, Sure
      <4> QED
        BY <4>1 DEF Slash, Star
    <3>2. CASE r.held
      <4>1. c \in {Slash, Star}
        BY <1>3, <3>2 DEF Skips, Two
      <4> QED
        BY <4>1 DEF Slash, Star
    <3>3. CASE ~s.held /\ ~r.held
      <4>1. r.in = "code" => c \in PgWhite
        BY <1>3, <3>3 DEF Skips
      <4> QED
        BY <4>1 DEF PgWhite, Blank
    <3> QED
      BY <3>1, <3>2, <3>3
  <2>5. ~(r.in = "code" /\ c >= 128)
    <3>1. c < 128 => ~(c >= 128)
      <4> HIDE DEF c
      <4> QED
        BY <1>0 DEF Byte
    <3> QED
      BY <2>4, <3>1
  <2> HIDE DEF j, c
  <2> QED
    BY <1>1, <2>1, <2>2, <2>5 DEF Known, c
<1>4. CASE Reads(t, j, s, r) /\ s.in = "literal"
  <2>1. r.live = Append(s.live, Literal(c)) /\ ~r.held
    BY <1>4 DEF Reads
  <2>2. EndsOpen(s.live)
    BY <1>4 DEF Known
  <2>3. Accounted(t, j, r.live)
    BY <1>0, <2>1, <2>2, AccountedMore DEF EndsOpen
  <2>4. EndsOpen(r.live)
    BY <1>0, <2>1, AppendEndsOpen
  <2> HIDE DEF j
  <2> QED
    BY <1>1, <2>1, <2>3, <2>4 DEF Known
<1>5. CASE Reads(t, j, s, r) /\ s.in = "code" /\ c = Semicolon
  <2>1. r.live = Append(s.live, Terminator) /\ ~r.held /\ r.in = "code"
    BY <1>5 DEF Reads, Semicolon, Quote
  <2>3. Accounted(t, j, r.live)
    BY <1>0, <1>5, <2>1, AccountedTerminator
  <2>4. ~(c >= 128)
    BY <1>5 DEF Semicolon
  <2> HIDE DEF j, c
  <2> QED
    BY <1>1, <2>1, <2>3, <2>4 DEF Known, c
<1>6. CASE Reads(t, j, s, r) /\ s.in = "code" /\ c # Semicolon
  <2>1. r.live = Append(s.live, c) /\ ~r.held
    BY <1>6 DEF Reads
  <2>2. EndsOpen(r.live)
    BY <1>0, <2>1, AppendEndsOpen
  <2>3. CASE Solid(t, j)
    <3>1. Accounted(t, j, r.live)
      BY <1>0, <2>1, <2>3, AccountedSolid
    <3> HIDE DEF j
    <3> QED
      BY <1>1, <2>1, <2>2, <3>1 DEF Known
  <2>4. CASE ~Solid(t, j)
    <3>1. c \in White /\ c \notin PgWhite
      BY <1>6, <2>4 DEF Solid, Reads
    <3>2. j > 1 /\ t[j - 1] >= 128
      <4> HIDE DEF j
      <4> QED
        BY <1>0, <3>1, OddBlank
    <3>3. i > 0 /\ t[i] >= 128
      BY <3>2
    <3>4. EndsOpen(s.live)
      BY <1>6, <3>3 DEF Known
    <3>5. Accounted(t, j, r.live)
      BY <1>0, <2>1, <3>4, AccountedMore DEF EndsOpen
    <3> HIDE DEF j
    <3> QED
      BY <1>1, <2>1, <2>2, <3>5 DEF Known
  <2> QED
    BY <2>3, <2>4
<1>7. Reads(t, j, s, r) => s.in \in {"literal", "code"}
  BY DEF Reads
<1> QED
  BY <1>1, <1>3, <1>4, <1>5, <1>6, <1>7

\* So much is known after every character.
LEMMA AlwaysKnown ==
  ASSUME NEW t \in Seq(Byte), Plain(t), NEW f, Scans(f, t)
  PROVE  \A i \in 0..Len(t) : Known(t, i, f[i])
<1> DEFINE N == {i \in Nat : i <= Len(t) => Known(t, i, f[i])}
<1>0. Len(t) \in Nat
  OBVIOUS
<1>1. 0 \in N
  BY KnownFirst DEF Scans
<1>2. ASSUME NEW i \in Nat, i \in N  PROVE i + 1 \in N
  <2> SUFFICES ASSUME i + 1 <= Len(t)  PROVE Known(t, i + 1, f[i + 1])
    OBVIOUS
  <2>1. i < Len(t) /\ Known(t, i, f[i])
    BY <1>0, <1>2
  <2> DEFINE j == i + 1
  <2>2. j \in 1..Len(t) /\ j - 1 = i
    BY <1>0, <2>1
  <2> HIDE DEF j
  <2>3. f[j] = Scan(t, f[j - 1], j)
    BY <2>2 DEF Scans
  <2>4. f[j] = Scan(t, f[i], j)
    BY <2>2, <2>3
  <2>5. Known(t, i + 1, Scan(t, f[i], i + 1))
    BY <2>1, KnownNext
  <2> QED
    BY <2>4, <2>5 DEF j
<1>3. Nat \subseteq N
  <2> HIDE DEF N
  <2> QED
    BY <1>1, <1>2, SetInduction
<1> QED
  BY <1>0, <1>3

\* What PostgreSQL reads as two statements, the validator finds stacked.
LEMMA OneStatementHolds ==
  ASSUME NEW t \in Seq(Byte), Plain(t), ~Stacked(t)
  PROVE  OneStatement(t)
<1>1. PICK f : Scans(f, t) /\ Lex(t) = f[Len(t)]
  BY LexIs
<1> DEFINE n == Len(t)
           live == Live(t)
<1>2. n \in Nat /\ n \in 0..n
  OBVIOUS
<1>3. Known(t, n, Lex(t))
  <2> HIDE DEF n
  <2> QED
    BY <1>1, <1>2, AlwaysKnown DEF n
<1>4. live \in Seq(Char) /\ Accounted(t, n, live)
  BY <1>3 DEF Known, Sure, Steady, State, Live
<1> HIDE DEF live
<1>5. SUFFICES ASSUME NEW a \in DOMAIN live, NEW b \in DOMAIN live, NEW c \in DOMAIN live,
                      a < b, b < c, live[b] = Terminator,
                      live[a] # Terminator, live[c] # Terminator
               PROVE  FALSE
  BY DEF OneStatement, live
<1>6. DOMAIN live = 1..Len(live)
  BY <1>4
<1>7. PICK p \in 1..n, q \in 1..n, r \in 1..n :
          p < q /\ q < r /\ Solid(t, p) /\ t[q] = Semicolon /\ Solid(t, r)
  BY <1>4, <1>5, <1>6 DEF Accounted, Read3
<1>8. DOMAIN t = 1..n
  OBVIOUS
<1> HIDE DEF n
<1>9. t[p] \notin White \cup {Semicolon} /\ t[r] \notin White \cup {Semicolon}
  BY <1>7 DEF Solid
<1>10. Stacked(t)
  BY <1>7, <1>8, <1>9 DEF Stacked
<1> QED
  BY <1>10

-----------------------------------------------------------------------------
\* Blanks at both ends.

\* core is u without the blanks at its end, and u does not begin with one.
Heads(core, u) ==
    /\ core \in Seq(Byte) /\ Len(core) # 0 /\ Len(core) <= Len(u)
    /\ \A i \in 1..Len(core) : core[i] = u[i]
    /\ core[1] \notin White /\ core[Len(core)] \notin White
    /\ \A k \in 1..Len(u) : k > Len(core) => u[k] \in White

\* u is t from behind its first d characters on.
Behind(u, t, d) ==
    /\ d + Len(u) = Len(t)
    /\ \A i \in 1..Len(u) : u[i] = t[d + i]

\* A part of a text, and what stands where in it.
LEMMA SubSeqIs ==
  ASSUME NEW S, NEW t \in Seq(S), NEW a \in Nat, NEW b \in Nat, a <= b, b <= Len(t)
  PROVE  /\ SubSeq(t, a + 1, b) \in Seq(S) /\ Len(SubSeq(t, a + 1, b)) = b - a
         /\ \A i \in 1..(b - a) : SubSeq(t, a + 1, b)[i] = t[a + i]
<1> DEFINE k == a + 1
           s == SubSeq(t, k, b)
<1>1. k \in 1..(Len(t) + 1) /\ b \in (k - 1)..Len(t) /\ b - k + 1 = b - a
  OBVIOUS
<1>2. \A i \in 1..(b - a) : k + i - 1 = a + i
  OBVIOUS
<1> HIDE DEF k
<1>3. s \in Seq(S) /\ Len(s) = b - k + 1 /\ \A i \in 1..(b - k + 1) : s[i] = t[k + i - 1]
  BY <1>1, SubSeqProperties
<1> HIDE DEF s
<1> QED
  BY <1>1, <1>2, <1>3 DEF s, k

\* What Trim cuts off.
LEMMA TrimIs ==
  ASSUME NEW S, NEW t \in Seq(S)
  PROVE  \/ Trim(t) = <<>> /\ \A k \in 1..Len(t) : t[k] \in White
         \/ \E a, b \in Nat :
               /\ a < b /\ b <= Len(t) /\ Trim(t) = SubSeq(t, a + 1, b)
               /\ t[a + 1] \notin White /\ t[b] \notin White
               /\ \A k \in 1..Len(t) : k <= a \/ k > b => t[k] \in White
<1> DEFINE n == Len(t)
           solid == {i \in 1..n : t[i] \notin White}
<1>1. n \in Nat /\ DOMAIN t = 1..n
  OBVIOUS
<1>2. Trim(t) = IF solid = {} THEN <<>> ELSE SubSeq(t, Min(solid), Max(solid))
  BY <1>1 DEF Trim
<1>3. solid \in SUBSET (0..n) /\ solid \in SUBSET Nat /\ \A k \in 1..n : k \in solid \/ t[k] \in White
  BY <1>1
<1>4. \A k \in solid : k \in 1..n /\ t[k] \notin White
  OBVIOUS
<1> HIDE DEF solid, n
<1>5. CASE solid = {}
  BY <1>2, <1>3, <1>5 DEF n
<1>6. CASE solid # {}
  <2> DEFINE x == Min(solid)
             b == Max(solid)
             a == x - 1
  <2>1. x \in solid /\ \A k \in solid : x <= k
    BY <1>3, <1>6, MinIs
  <2>2. b \in solid /\ \A k \in solid : b >= k
    BY <1>1, <1>3, <1>6, MaxIs
  <2>3. Trim(t) = SubSeq(t, x, b)
    BY <1>2, <1>6
  <2> HIDE DEF x, b
  <2>4. x \in 1..n /\ t[x] \notin White /\ b \in 1..n /\ t[b] \notin White /\ x <= b
    BY <1>4, <2>1, <2>2
  <2>5. a \in Nat /\ a + 1 = x /\ b \in Nat /\ a < b /\ b <= n
    BY <1>1, <2>4
  <2>6. \A k \in 1..n : k <= a \/ k > b => t[k] \in White
    <3> SUFFICES ASSUME NEW k \in 1..n, k <= a \/ k > b, t[k] \notin White  PROVE FALSE
      OBVIOUS
    <3>1. k \in solid
      BY <1>3
    <3>2. x <= k /\ b >= k
      BY <2>1, <2>2, <3>1
    <3> QED
      BY <1>1, <2>4, <3>2
  <2> HIDE DEF a
  <2>7. Trim(t) = SubSeq(t, a + 1, b) /\ t[a + 1] \notin White
    BY <2>3, <2>4, <2>5
  <2> QED
    BY <2>4, <2>5, <2>6, <2>7 DEF n
<1> QED
  BY <1>5, <1>6

\* The blanks that t begins with are blanks for PostgreSQL too.
Leads(t) ==
    \A k \in 1..Len(t) : (\A j \in 1..k : t[j] \in White) => t[k] \in PgWhite

\* So they are if only letters beyond ASCII have bytes that are not,
LEMMA PlainLeads ==
  ASSUME NEW t \in Seq(Byte), Plain(t)
  PROVE  Leads(t)
<1> DEFINE n == Len(t)
           N == {k \in Nat : k \in 1..n /\ (\A j \in 1..k : t[j] \in White) => t[k] \in PgWhite}
<1>1. 0 \in N /\ n \in Nat
  OBVIOUS
<1>2. ASSUME NEW k \in 0..(n - 1), k \in N  PROVE k + 1 \in N
  <2> DEFINE i == k + 1
  <2> SUFFICES ASSUME \A j \in 1..i : t[j] \in White, t[i] \notin PgWhite  PROVE FALSE
    BY <1>1
  <2>1. i \in 1..Len(t) /\ i - 1 = k /\ i \in 1..i /\ \A j \in 1..k : j \in 1..i
    BY <1>1
  <2> HIDE DEF i
  <2>2. i > 1 /\ t[i - 1] >= 128
    BY <2>1, OddBlank
  <2>3. k \in 1..n /\ t[k] >= 128
    BY <1>1, <2>1, <2>2 DEF i
  <2>4. t[k] \in PgWhite
    BY <1>2, <2>1, <2>3
  <2> QED
    BY <2>3, <2>4 DEF PgWhite, Blank
<1> HIDE DEF N
<1>3. \A k \in 0..n : k \in N
  BY <1>1, <1>2, RangeInduction
<1>4. ASSUME NEW k \in 1..n  PROVE k \in 0..n /\ k \in N
  BY <1>1, <1>3
<1> QED
  BY <1>4 DEF Leads, N

\* and if its ends are plain.
LEMMA PlainEndsLeads ==
  ASSUME NEW t \in Seq(Byte), PlainEnds(t)
  PROVE  Leads(t)
<1> DEFINE solid == {i \in DOMAIN t : t[i] \notin PgWhite \cup {Semicolon}}
           x == Min(solid)
<1> SUFFICES ASSUME NEW k \in 1..Len(t), \A j \in 1..k : t[j] \in White, t[k] \notin PgWhite
             PROVE  FALSE
  BY DEF Leads
<1>1. k \in solid
  <2>1. t[k] \in White
    OBVIOUS
  <2>2. t[k] # Semicolon
    BY <2>1 DEF White, Blank, Semicolon
  <2> QED
    BY <2>2
<1>2. t[x] \notin White
  BY <1>1 DEF PlainEnds
<1>3. solid \in SUBSET Nat /\ \A i \in solid : i \in 1..Len(t)
  OBVIOUS
<1> HIDE DEF solid
<1>4. x \in solid /\ x <= k
  BY <1>1, <1>3, MinIs
<1> HIDE DEF x
<1>5. x \in 1..k
  BY <1>3, <1>4
<1> QED
  BY <1>2, <1>5

\* The scanner looks at a character and, for these three pairs, at the next.
Same(t, i, u, j) ==
    /\ t[i] = u[j]
    /\ Two(t, i, Slash, Star) <=> Two(u, j, Slash, Star)
    /\ Two(t, i, Star, Slash) <=> Two(u, j, Star, Slash)
    /\ Two(t, i, Dash, Dash) <=> Two(u, j, Dash, Dash)

\* The scanner cannot tell the two places apart.
LEMMA ScanSame ==
  ASSUME NEW t, NEW i, NEW u, NEW j, NEW s \in State, Same(t, i, u, j)
  PROVE  Scan(t, s, i) = Scan(u, s, j)
<1> DEFINE c == t[i]
<1>0. c = u[j] /\ s.in \in Places
  BY DEF Same, State
<1> HIDE DEF c
<1>1. CASE s.held
  BY <1>1 DEF Scan
<1>2. CASE ~s.held /\ s.in \in {"code", "block"} /\ Two(t, i, Slash, Star)
  BY <1>2 DEF Scan, Same
<1>3. CASE ~s.held /\ s.in = "block" /\ ~Two(t, i, Slash, Star)
  <2>1. CASE Two(t, i, Star, Slash)
    BY <1>3, <2>1 DEF Scan, Same
  <2>2. CASE ~Two(t, i, Star, Slash)
    BY <1>3, <2>2 DEF Scan, Same
  <2> QED
    BY <2>1, <2>2
<1>4. CASE ~s.held /\ s.in = "line"
  BY <1>0, <1>4 DEF Scan, c
<1>5. CASE ~s.held /\ s.in = "literal"
  BY <1>0, <1>5 DEF Scan, c
<1>6. CASE ~s.held /\ s.in = "code" /\ ~Two(t, i, Slash, Star)
  <2>1. CASE Two(t, i, Dash, Dash)
    BY <1>6, <2>1 DEF Scan, Same
  <2>2. CASE ~Two(t, i, Dash, Dash)
    BY <1>0, <1>6, <2>2 DEF Scan, Same, c
  <2> QED
    BY <2>1, <2>2
<1> QED
  BY <1>0, <1>1, <1>2, <1>3, <1>4, <1>5, <1>6 DEF Places

\* A place in the text behind d characters.
LEMMA BehindSame ==
  ASSUME NEW S, NEW t \in Seq(S), NEW u \in Seq(S), NEW d \in Nat, Behind(u, t, d),
         NEW i \in 1..Len(u)
  PROVE  Same(t, d + i, u, i)
<1> DEFINE p == d + i
<1>1. t[p] = u[i]
  BY DEF Behind
<1>2. p \in Nat /\ (p < Len(t) <=> i < Len(u)) /\ p + 1 = d + (i + 1)
  BY DEF Behind
<1>3. i < Len(u) => t[p + 1] = u[i + 1]
  <2> SUFFICES ASSUME i < Len(u)  PROVE t[p + 1] = u[i + 1]
    OBVIOUS
  <2> DEFINE k == i + 1
  <2>1. k \in 1..Len(u)
    OBVIOUS
  <2>2. t[d + k] = u[k]
    BY <2>1 DEF Behind
  <2> QED
    BY <1>2, <2>2
<1> HIDE DEF p
<1> QED
  BY <1>1, <1>2, <1>3 DEF Same, Two, p

\* Behind blanks the scanner starts anew.
LEMMA LexBehind ==
  ASSUME NEW t \in Seq(Byte), Leads(t), NEW u \in Seq(Byte), NEW d \in Nat,
         Behind(u, t, d), \A k \in 1..d : t[k] \in White
  PROVE  Lex(t) = Lex(u)
<1> DEFINE m == Len(u)
           n == Len(t)
<1>0. m \in Nat /\ n \in Nat /\ d + m = n /\ d <= n
  BY DEF Behind
<1>1. PICK f : Scans(f, t) /\ Lex(t) = f[n]
  BY LexIs
<1>2. PICK g : Scans(g, u) /\ Lex(u) = g[m]
  BY LexIs
<1>3. ASSUME NEW k \in 1..d  PROVE t[k] \in PgWhite
  <2>1. k \in 1..Len(t) /\ \A j \in 1..k : j \in 1..d
    BY <1>0
  <2> QED
    BY <2>1 DEF Leads
<1> HIDE DEF m, n
<1>4. f[0] = Scanner /\ \A i \in 1..n : f[i] = Scan(t, f[i - 1], i)
  BY <1>1 DEF Scans, n
<1>5. g[0] = Scanner /\ \A i \in 1..m : g[i] = Scan(u, g[i - 1], i)
  BY <1>2 DEF Scans, m
<1> DEFINE N == {k \in Nat : k <= d => f[k] = Scanner}
<1>6. 0 \in N
  BY <1>4
<1>7. ASSUME NEW k \in Nat, k \in N  PROVE k + 1 \in N
  <2> SUFFICES ASSUME k + 1 <= d  PROVE f[k + 1] = Scanner
    OBVIOUS
  <2> DEFINE j == k + 1
  <2>1. j \in 1..n /\ j - 1 = k /\ j \in 1..d /\ k <= d
    BY <1>0
  <2> HIDE DEF j
  <2>2. f[k] = Scanner
    BY <1>7, <2>1
  <2>3. f[j] = Scan(t, f[j - 1], j)
    BY <1>4, <2>1
  <2>4. f[j] = Scan(t, Scanner, j) /\ t[j] \in PgWhite
    BY <1>3, <2>1, <2>2, <2>3
  <2>5. ~Scanner.held /\ Scanner.in = "code"
    BY DEF Scanner
  <2>6. Scan(t, Scanner, j) = Scanner
    BY <2>4, <2>5, ScanBlank
  <2> QED
    BY <2>4, <2>6 DEF j
<1>8. d \in N
  <2> HIDE DEF N
  <2>1. Nat \subseteq N
    BY <1>6, <1>7, SetInduction
  <2> QED
    BY <2>1
<1> DEFINE M == {i \in Nat : i <= m => f[d + i] = g[i]}
<1>9. 0 \in M
  <2>1. d + 0 = d
    OBVIOUS
  <2> QED
    BY <1>5, <1>8, <2>1
<1>10. ASSUME NEW i \in Nat, i \in M  PROVE i + 1 \in M
  <2> SUFFICES ASSUME i + 1 <= m  PROVE f[d + (i + 1)] = g[i + 1]
    OBVIOUS
  <2> DEFINE j == i + 1
             p == d + j
             q == d + i
  <2>1. j \in 1..m /\ j - 1 = i /\ p \in 1..n /\ p - 1 = q /\ q \in 0..n /\ i <= m
    BY <1>0
  <2> HIDE DEF j, q
  <2>2. f[q] = g[i]
    BY <1>10, <2>1 DEF q
  <2>3. Same(t, p, u, j)
    BY <2>1, BehindSame DEF m
  <2> HIDE DEF p
  <2>4. f[p] = Scan(t, f[p - 1], p) /\ g[j] = Scan(u, g[j - 1], j)
    BY <1>4, <1>5, <2>1
  <2>5. f[p] = Scan(t, g[i], p) /\ g[j] = Scan(u, g[i], j)
    BY <2>1, <2>2, <2>4
  <2>6. Sure(t, q, f[q])
    BY <1>1, <2>1, AlwaysSure DEF n
  <2>7. g[i] \in State
    BY <2>2, <2>6 DEF Sure, Steady
  <2>8. Scan(t, g[i], p) = Scan(u, g[i], j)
    BY <2>3, <2>7, ScanSame
  <2> QED
    BY <2>5, <2>8 DEF p, j
<1>11. m \in M
  <2> HIDE DEF M
  <2>1. Nat \subseteq M
    BY <1>9, <1>10, SetInduction
  <2> QED
    BY <1>0, <2>1
<1> QED
  BY <1>0, <1>1, <1>2, <1>11

\* The text that Trim keeps, with what follows it.
LEMMA HeadIs ==
  ASSUME NEW t \in Seq(Byte), Leads(t), Trim(t) # <<>>
  PROVE  \E u \in Seq(Byte), a \in Nat :
            Heads(Trim(t), u) /\ Lex(u) = Lex(t) /\ Behind(u, t, a)
<1> DEFINE n == Len(t)
           core == Trim(t)
<1>0. n \in Nat
  OBVIOUS
<1>1. PICK a \in Nat, b \in Nat :
               /\ a < b /\ b <= n /\ core = SubSeq(t, a + 1, b)
               /\ t[a + 1] \notin White /\ t[b] \notin White
               /\ \A k \in 1..n : k <= a \/ k > b => t[k] \in White
  BY TrimIs
<1> DEFINE u == SubSeq(t, a + 1, n)
           m == n - a
           l == b - a
<1>2. a <= n /\ m \in Nat /\ l \in Nat /\ l # 0 /\ l <= m /\ a + m = n /\ a + l = b /\ n \in Nat
  BY <1>0, <1>1
<1>3. u \in Seq(Byte) /\ Len(u) = m /\ \A i \in 1..m : u[i] = t[a + i]
  <2>1. n <= Len(t)
    BY <1>0
  <2> HIDE DEF n
  <2> QED
    BY <1>2, <2>1, SubSeqIs
<1>4. core \in Seq(Byte) /\ Len(core) = l /\ \A i \in 1..l : core[i] = t[a + i]
  BY <1>1, <1>2, SubSeqIs
<1>5. Behind(u, t, a)
  BY <1>2, <1>3 DEF Behind
<1> HIDE DEF u, core, m, l, n
<1>6. \A k \in 1..a : t[k] \in White
  BY <1>1, <1>2
<1>8. Lex(t) = Lex(u)
  BY <1>3, <1>5, <1>6, LexBehind
<1>9. Heads(core, u)
  <2>1. 1 \in 1..l /\ l \in 1..l
    BY <1>2
  <2>2. core[1] = t[a + 1] /\ core[l] = t[b]
    BY <1>2, <1>4, <2>1
  <2>3. \A i \in 1..l : core[i] = u[i]
    BY <1>2, <1>3, <1>4
  <2>4. \A k \in 1..m : k > l => u[k] \in White
    <3> SUFFICES ASSUME NEW k \in 1..m, k > l  PROVE u[k] \in White
      OBVIOUS
    <3>1. a + k \in 1..n /\ a + k > b /\ u[k] = t[a + k]
      BY <1>2, <1>3
    <3> QED
      BY <1>1, <3>1
  <2> QED
    BY <1>1, <1>2, <1>3, <1>4, <2>2, <2>3, <2>4 DEF Heads
<1> QED
  BY <1>3, <1>5, <1>8, <1>9 DEF core

\* Behind a carriage return stands a newline.
Lines(u) == \A i \in 1..Len(u) : u[i] = Return => i < Len(u) /\ u[i + 1] = NewLine

\* So it is behind the first d characters too.
LEMMA LinesBehind ==
  ASSUME NEW t \in Seq(Byte), Plain(t), NEW u \in Seq(Byte), NEW d \in Nat, Behind(u, t, d)
  PROVE  Lines(u)
<1> SUFFICES ASSUME NEW i \in 1..Len(u), u[i] = Return
             PROVE  i < Len(u) /\ u[i + 1] = NewLine
  BY DEF Lines
<1> DEFINE p == d + i
           k == i + 1
<1>1. p \in 1..Len(t) /\ t[p] = u[i] /\ p + 1 = d + k /\ d + Len(u) = Len(t)
  BY DEF Behind
<1>2. p < Len(t) /\ t[p + 1] = NewLine
  BY <1>1 DEF Plain
<1>3. k \in 1..Len(u)
  BY <1>1, <1>2
<1> HIDE DEF p, k
<1>4. u[k] = t[d + k]
  BY <1>3 DEF Behind
<1>5. u[k] = NewLine
  BY <1>1, <1>2, <1>4
<1> QED
  BY <1>3, <1>5 DEF k

-----------------------------------------------------------------------------
\* The first word.

\* One more character of u.
LEMMA ScansOn ==
  ASSUME NEW u \in Seq(Byte), NEW g, Scans(g, u), NEW i \in Nat, i < Len(u)
  PROVE  /\ g[i + 1] = Scan(u, g[i], i + 1)
         /\ Steady(g[i]) /\ Steady(g[i + 1])
         /\ g[i].nested => g[i + 1].nested
         /\ Skips(u, i + 1, g[i], g[i + 1]) \/ Reads(u, i + 1, g[i], g[i + 1])
<1> DEFINE j == i + 1
<1>1. j \in 1..Len(u) /\ j - 1 = i /\ i \in 0..Len(u)
  OBVIOUS
<1> HIDE DEF j
<1>2. g[j] = Scan(u, g[i], j)
  <2>1. g[j] = Scan(u, g[j - 1], j)
    BY <1>1 DEF Scans
  <2> QED
    BY <1>1, <2>1
<1>3. Steady(g[i])
  BY <1>1, AlwaysSure DEF Sure
<1>4. /\ Steady(g[j]) /\ (g[i].nested => g[j].nested)
      /\ Skips(u, j, g[i], g[j]) \/ Reads(u, j, g[i], g[j])
  BY <1>1, <1>2, <1>3, ScanMoves
<1> QED
  BY <1>2, <1>3, <1>4 DEF j

\* That a comment was nested is remembered.
LEMMA NestedStays ==
  ASSUME NEW u \in Seq(Byte), NEW g, Scans(g, u),
         NEW i \in 0..Len(u), ~g[Len(u)].nested
  PROVE  ~g[i].nested
<1> SUFFICES ASSUME g[i].nested  PROVE g[Len(u)].nested
  OBVIOUS
<1> DEFINE n == Len(u)
           N == {k \in Nat : g[k].nested}
<1>1. i \in Nat /\ n \in Nat /\ i \in N /\ n \in i..n
  OBVIOUS
<1>2. ASSUME NEW k \in i..(n - 1), k \in N  PROVE k + 1 \in N
  <2>1. k \in Nat /\ k < Len(u) /\ k + 1 \in Nat /\ g[k].nested
    BY <1>2
  <2> QED
    BY <2>1, ScansOn
<1> HIDE DEF n, N
<1>3. \A k \in i..n : k \in N
  BY <1>1, <1>2, RangeInduction
<1> QED
  BY <1>1, <1>3 DEF N, n

\* b begins with a.
Extends(b, a) ==
    /\ a \in Seq(Char) /\ b \in Seq(Char) /\ Len(a) <= Len(b)
    /\ \A k \in 1..Len(a) : b[k] = a[k]

\* What was read stays read.
LEMMA LiveGrows ==
  ASSUME NEW u \in Seq(Byte), NEW g, Scans(g, u), NEW i \in 0..Len(u)
  PROVE  Extends(g[Len(u)].live, g[i].live)
<1> DEFINE n == Len(u)
           N == {k \in Nat : Extends(g[k].live, g[i].live)}
<1>1. i \in Nat /\ n \in Nat /\ n \in i..n
  OBVIOUS
<1>2. i \in N
  <2>1. g[i].live \in Seq(Char)
    BY AlwaysSure DEF Sure, Steady, State
  <2> QED
    BY <1>1, <2>1 DEF Extends
<1>3. ASSUME NEW k \in i..(n - 1), k \in N  PROVE k + 1 \in N
  <2> DEFINE a == g[k].live
             j == k + 1
             b == g[j].live
  <2>1. k \in Nat /\ k < Len(u) /\ j \in Nat /\ j \in 1..Len(u)
    OBVIOUS
  <2>2. Extends(a, g[i].live)
    BY <1>3
  <2>3. Skips(u, j, g[k], g[j]) \/ Reads(u, j, g[k], g[j])
    BY <2>1, ScansOn
  <2>4. a \in Seq(Char)
    BY <2>2 DEF Extends
  <2>5. u[j] \in Char /\ Terminator \in Char /\ Literal(u[j]) \in Char
    <3>1. u[j] \in Byte
      BY <2>1
    <3> QED
      BY <3>1, ByteRead
  <2>6. b = a \/ \E x \in Char : b = Append(a, x)
    BY <2>3, <2>5 DEF Skips, Reads
  <2> HIDE DEF a, b
  <2>7. Extends(b, a)
    <3>1. CASE b = a
      BY <2>4, <3>1 DEF Extends
    <3>2. CASE \E x \in Char : b = Append(a, x)
      BY <2>4, <3>2, AppendIs DEF Extends
    <3> QED
      BY <2>6, <3>1, <3>2
  <2>8. Extends(b, g[i].live)
    BY <2>2, <2>7 DEF Extends
  <2> QED
    BY <2>1, <2>8 DEF b
<1> HIDE DEF n, N
<1>4. \A k \in i..n : k \in N
  BY <1>1, <1>2, <1>3, RangeInduction
<1> QED
  BY <1>1, <1>4 DEF N, n

\* Nothing is read yet: in code, in a line comment, in a block comment.
AtCode(s) == s \in State /\ ~s.held /\ s.in = "code" /\ s.depth = 0 /\ s.live = <<>>
AtLine(s) == s \in State /\ ~s.held /\ s.in = "line" /\ s.depth = 0 /\ s.live = <<>>
InBlock(s) == s \in State /\ ~s.held /\ s.in = "block" /\ s.depth = 1 /\ s.live = <<>>

\* A block comment that is not nested goes on to its end.
LEMMA BlockGoesOn ==
  ASSUME NEW u \in Seq(Byte), NEW g, Scans(g, u), ~g[Len(u)].nested,
         NEW i \in 0..Len(u), NEW j \in i..Len(u), InBlock(g[i]),
         \A k \in (i + 1)..j : ~Two(u, k, Star, Slash)
  PROVE  InBlock(g[j])
<1> DEFINE N == {k \in Nat : InBlock(g[k])}
<1>1. i \in Nat /\ j \in Nat /\ i \in N /\ j \in i..j
  OBVIOUS
<1>2. ASSUME NEW k \in i..(j - 1), k \in N  PROVE k + 1 \in N
  <2> DEFINE p == k + 1
  <2>1. k \in Nat /\ k < Len(u) /\ p \in Nat /\ p \in 1..Len(u) /\ p \in (i + 1)..j
        /\ k \in 0..Len(u) /\ p \in 0..Len(u)
    OBVIOUS
  <2>2. InBlock(g[k])
    BY <1>2
  <2>3. g[p] = Scan(u, g[k], p)
    BY <2>1, ScansOn
  <2> HIDE DEF p
  <2>4. ~Two(u, p, Star, Slash)
    BY <2>1
  <2>5. ~Two(u, p, Slash, Star)
    <3> SUFFICES ASSUME Two(u, p, Slash, Star)  PROVE FALSE
      OBVIOUS
    <3>1. g[k].depth > 0
      BY <2>2 DEF InBlock
    <3>2. g[p].nested
      BY <2>2, <2>3, <3>1, ScanOpen DEF InBlock
    <3> QED
      BY <2>1, <3>2, NestedStays
  <2>6. g[p] = g[k]
    BY <2>2, <2>3, <2>4, <2>5, ScanBlock DEF InBlock
  <2>7. p \in N
    BY <2>1, <2>2, <2>6
  <2> QED
    BY <2>7 DEF p
<1> HIDE DEF N
<1>3. \A k \in i..j : k \in N
  BY <1>1, <1>2, RangeInduction
<1> QED
  BY <1>1, <1>3 DEF N

\* A line comment goes on to its end.
LEMMA LineGoesOn ==
  ASSUME NEW u \in Seq(Byte), NEW g, Scans(g, u),
         NEW i \in 0..Len(u), NEW j \in i..Len(u), AtLine(g[i]),
         \A k \in (i + 1)..j : u[k] \notin {NewLine, Return}
  PROVE  AtLine(g[j])
<1> DEFINE N == {k \in Nat : AtLine(g[k])}
<1>1. i \in Nat /\ j \in Nat /\ i \in N /\ j \in i..j
  OBVIOUS
<1>2. ASSUME NEW k \in i..(j - 1), k \in N  PROVE k + 1 \in N
  <2> DEFINE p == k + 1
  <2>1. k \in Nat /\ k < Len(u) /\ p \in Nat /\ p \in (i + 1)..j
    OBVIOUS
  <2>2. AtLine(g[k])
    BY <1>2
  <2>3. g[p] = Scan(u, g[k], p)
    BY <2>1, ScansOn
  <2> HIDE DEF p
  <2>4. u[p] \notin {NewLine, Return}
    BY <2>1
  <2>6. g[p] = g[k]
    BY <2>2, <2>3, <2>4, ScanLine DEF AtLine
  <2>7. p \in N
    BY <2>1, <2>2, <2>6
  <2> QED
    BY <2>7 DEF p
<1> HIDE DEF N
<1>3. \A k \in i..j : k \in N
  BY <1>1, <1>2, RangeInduction
<1> QED
  BY <1>1, <1>3 DEF N

\* Two characters that are not blank stand in the trimmed text if they stand in the text.
LEMMA TwoInside ==
  ASSUME NEW u \in Seq(Byte), NEW core, Heads(core, u), NEW i \in 1..Len(core),
         NEW a, NEW b, b \notin White
  PROVE  Two(core, i, a, b) <=> Two(u, i, a, b)
<1> DEFINE m == Len(core)
           n == Len(u)
           j == i + 1
<1>0. m \in Nat /\ n \in Nat /\ m <= n /\ core[i] = u[i]
  BY DEF Heads
<1>1. CASE i < m
  <2>1. j \in 1..m /\ i < n
    BY <1>0, <1>1
  <2>2. core[j] = u[j]
    BY <2>1 DEF Heads
  <2> QED
    BY <1>0, <1>1, <2>1, <2>2 DEF Two
<1>2. CASE i >= m
  <2>1. ~Two(core, i, a, b)
    BY <1>0, <1>2 DEF Two
  <2>2. ~Two(u, i, a, b)
    <3> SUFFICES ASSUME i < n, u[j] = b  PROVE FALSE
      BY DEF Two
    <3>1. j \in 1..n /\ j > m
      BY <1>0, <1>2
    <3> QED
      BY <3>1 DEF Heads
  <2> QED
    BY <2>1, <2>2
<1> QED
  BY <1>0, <1>1, <1>2

\* The first character of x that is not blank is Select.
Starts(x) ==
    \E j \in 1..Len(x) : x[j] = Select /\ \A k \in 1..(j - 1) : x[k] \in White

\* An empty text does not start with SELECT.
LEMMA StartsEmpty == ~Starts(<<>>)
  BY DEF Starts

\* One character of a text that starts with SELECT.
LEMMA StartsCons ==
  ASSUME NEW S, NEW x \in Seq(S), NEW c \in S, Starts(Cat(<<c>>, x))
  PROVE  c = Select \/ (c \in White /\ Starts(x))
<1> DEFINE y == Cat(<<c>>, x)
<1>1. Len(y) = Len(x) + 1 /\ y[1] = c
  BY ConsIs DEF Cons, Cat
<1>2. \A k \in 1..Len(x) : y[k + 1] = x[k]
  BY ConsRest DEF Cons, Cat
<1>3. PICK j \in 1..Len(y) : y[j] = Select /\ \A k \in 1..(j - 1) : y[k] \in White
  BY DEF Starts
<1> HIDE DEF y
<1>4. CASE j = 1
  BY <1>1, <1>3, <1>4
<1>5. CASE j # 1
  <2> DEFINE i == j - 1
  <2>1. i \in 1..Len(x) /\ i + 1 = j /\ 1 \in 1..(j - 1)
    BY <1>1, <1>5
  <2>2. \A k \in 1..(i - 1) : k + 1 \in 1..(j - 1) /\ k \in 1..Len(x)
    BY <2>1
  <2> HIDE DEF i
  <2>3. x[i] = Select
    BY <1>2, <1>3, <2>1
  <2>4. \A k \in 1..(i - 1) : x[k] \in White
    BY <1>2, <1>3, <2>2
  <2>5. c \in White
    BY <1>1, <1>3, <2>1
  <2> QED
    BY <2>1, <2>3, <2>4, <2>5 DEF Starts
<1> QED
  BY <1>4, <1>5

\* The parts of a walk over texts are texts.
LEMMA WalkType ==
  ASSUME NEW S, NEW n \in Nat, NEW out, NEW next, NEW f,
         Forward(n, next), Walks(f, n, out, next), \A i \in 1..n : out[i] \in Seq(S)
  PROVE  \A i \in Nat \ {0} : f[i] \in Seq(S)
<1> DEFINE N == {m \in Nat : \A i \in Nat \ {0} : i > n - m => f[i] \in Seq(S)}
<1>1. 0 \in N
  <2>1. \A i \in Nat \ {0} : i > n => f[i] = <<>>
    BY DEF Walks
  <2>2. <<>> \in Seq(S)
    OBVIOUS
  <2>3. n - 0 = n
    OBVIOUS
  <2>4. \A i \in Nat \ {0} : i > n => f[i] \in Seq(S)
    BY <2>1, <2>2
  <2> QED
    BY <2>3, <2>4
<1>2. ASSUME NEW m \in Nat, m \in N  PROVE m + 1 \in N
  <2> SUFFICES ASSUME NEW i \in Nat \ {0}, i > n - (m + 1)  PROVE f[i] \in Seq(S)
    OBVIOUS
  <2>1. CASE i > n - m
    BY <1>2, <2>1
  <2>2. CASE ~(i > n - m)
    <3>1. i \in 1..n
      BY <2>2
    <3> DEFINE j == next[i]
    <3>2. j \in Nat /\ j > i
      BY <3>1 DEF Forward
    <3> HIDE DEF j
    <3>3. j \in Nat \ {0} /\ j > n - m
      BY <2>2, <3>2
    <3>4. f[j] \in Seq(S)
      BY <1>2, <3>3
    <3>5. f[i] = Cat(out[i], f[j])
      BY <3>1, WalkStep DEF j
    <3>6. out[i] \in Seq(S)
      BY <3>1
    <3> QED
      BY <3>4, <3>5, <3>6, CatIs
  <2> QED
    BY <2>1, <2>2
<1>3. n \in N
  <2> HIDE DEF N
  <2> QED
    BY <1>1, <1>2, SetInduction
<1> QED
  BY <1>3

\* Nor does one with a character before that, which is neither.
LEMMA StartsNot ==
  ASSUME NEW s \in Seq(Byte), NEW x \in Seq(Byte), NEW i \in 1..Len(s),
         s[i] \notin White, \A j \in 1..i : s[j] # Select
  PROVE  ~Starts(Cat(s, x))
<1> DEFINE y == Cat(s, x)
<1>1. \A j \in 1..Len(s) : y[j] = s[j]
  BY CatLeft
<1>2. SUFFICES ASSUME NEW j \in 1..Len(y), y[j] = Select, \A k \in 1..(j - 1) : y[k] \in White
               PROVE  FALSE
  BY DEF Starts
<1> HIDE DEF y
<1>3. CASE j <= i
  <2>1. j \in 1..i /\ j \in 1..Len(s)
    BY <1>3
  <2> QED
    BY <1>1, <1>2, <2>1
<1>4. CASE j > i
  <2>1. i \in 1..(j - 1)
    BY <1>4
  <2> QED
    BY <1>1, <1>2, <2>1
<1> QED
  BY <1>3, <1>4

\* g is what the scanner knows of u, w what strip_comments makes of core.
Setting(u, g, core, w) ==
    /\ u \in Seq(Byte) /\ Lines(u) /\ Scans(g, u) /\ ~g[Len(u)].nested
    /\ Heads(core, u)
    /\ Walks(w, Len(core), Kepts(core), Pasts(core))
    /\ \A i \in Nat \ {0} : w[i] \in Seq(Byte)

\* Nothing is read before the i-th character.
Ready(core, i, s) == AtCode(s) \/ (AtLine(s) /\ i <= Len(core) /\ core[i] = NewLine)

\* Select is the first that is read.
Goal(s) == s.live # <<>> /\ s.live[1] = Select

\* strip_comments at the i-th character: what it puts out, and what is behind.
LEMMA WalkAt ==
  ASSUME NEW u, NEW g, NEW core, NEW w, Setting(u, g, core, w), NEW i \in 1..Len(core)
  PROVE  /\ w[i] = Cat(Kept(core, i), w[Past(core, i)])
         /\ Past(core, i) \in Nat /\ Past(core, i) > i
         /\ w[Past(core, i)] \in Seq(Byte)
<1>1. core \in Seq(Byte) /\ Len(core) \in Nat /\ Walks(w, Len(core), Kepts(core), Pasts(core))
  BY DEF Setting, Heads
<1>2. Kepts(core)[i] = Kept(core, i) /\ Pasts(core)[i] = Past(core, i)
  BY DEF Kepts, Pasts
<1>3. Forward(Len(core), Pasts(core))
  BY <1>1, PastsForward
<1>4. Past(core, i) \in Nat /\ Past(core, i) > i
  BY <1>2, <1>3 DEF Forward
<1>5. w[i] = Cat(Kepts(core)[i], w[Pasts(core)[i]])
  BY <1>1, WalkStep
<1>6. Past(core, i) \in Nat \ {0}
  BY <1>4
<1>7. w[Past(core, i)] \in Seq(Byte)
  BY <1>6 DEF Setting
<1> QED
  BY <1>2, <1>4, <1>5, <1>7

\* The scan comes to a later character at which Ready and Starts hold again.
Moves(core, i, g, w) ==
    \E j \in Nat : /\ j > i /\ j <= Len(core) + 1
                   /\ Starts(w[j]) /\ Ready(core, j, g[j - 1])

\* A blank before SELECT.
LEMMA StartsBlank ==
  ASSUME NEW x \in Seq(Byte), NEW c \in Byte, c \in White, Starts(Cat(<<c>>, x))
  PROVE  Starts(x)
<1>1. c # Select
  BY DEF White, Select, Blank
<1> QED
  BY <1>1, StartsCons

\* What kinds of characters those in question are.
LEMMA TheBytes ==
  /\ Blank \in Byte /\ Blank \in White /\ NewLine \in Byte /\ NewLine \in White
  /\ NewLine \in PgWhite /\ Slash \notin White /\ Star \notin White /\ Dash \notin White
  /\ Slash < 128 /\ Star < 128 /\ NewLine < 128
  /\ NewLine \notin {Slash, Star, Dash} /\ Dash \notin {NewLine, Return, Slash, Star}
  BY DEF Blank, Byte, White, NewLine, PgWhite, Slash, Star, Dash, Return

\* What kinds of texts those in question are.
LEMMA TheTexts ==
  ASSUME NEW u, NEW g, NEW core, NEW w, Setting(u, g, core, w)
  PROVE  /\ u \in Seq(Byte) /\ Lines(u) /\ Scans(g, u) /\ ~g[Len(u)].nested
         /\ Heads(core, u) /\ core \in Seq(Byte)
         /\ Len(core) \in Nat /\ Len(u) \in Nat /\ Len(core) <= Len(u) /\ Len(core) # 0
  BY DEF Setting, Heads

\* At the newline that ends a line comment.
LEMMA AtNewLine ==
  ASSUME NEW u, NEW g, NEW core, NEW w, Setting(u, g, core, w), NEW i \in Nat, i < Len(core),
         AtLine(g[i]), core[i + 1] = NewLine, Starts(w[i + 1])
  PROVE  Moves(core, i + 1, g, w)
<1> DEFINE j == i + 1
           k == j + 1
<1>0. /\ u \in Seq(Byte) /\ Lines(u) /\ Scans(g, u) /\ Heads(core, u)
      /\ core \in Seq(Byte) /\ Len(core) \in Nat /\ Len(u) \in Nat /\ Len(core) <= Len(u)
  BY TheTexts
<1>1. j \in 1..Len(core) /\ j \in Nat /\ k \in Nat /\ k > j /\ k <= Len(core) + 1 /\ k - 1 = j
      /\ i < Len(u) /\ j \in 1..Len(u) /\ j > 0
  BY <1>0
<1>2. g[j] = Scan(u, g[i], j)
  BY <1>0, <1>1, ScansOn
<1>3. core[j] = NewLine /\ Starts(w[j])
  OBVIOUS
<1> HIDE DEF j
<1>4. u[j] = NewLine
  BY <1>0, <1>1, <1>3 DEF Heads
<1>5. AtCode(g[j])
  BY <1>2, <1>4, ScanLine DEF AtLine, AtCode
<1>6. Kept(core, j) = <<NewLine>> /\ Past(core, j) = k
  <2>1. ~Two(core, j, Slash, Star) /\ ~Two(core, j, Dash, Dash)
    BY <1>3, TheBytes DEF Two
  <2>2. Utf8(NewLine) = <<NewLine>>
    BY TheBytes, Utf8Is
  <2> QED
    BY <1>3, <2>1, <2>2 DEF Kept, Past
<1>7. Starts(w[k])
  <2>1. w[j] = Cat(<<NewLine>>, w[k]) /\ w[k] \in Seq(Byte)
    BY <1>1, <1>6, WalkAt
  <2> QED
    BY <1>3, <2>1, StartsBlank, TheBytes
<1> HIDE DEF k
<1>9. Ready(core, k, g[k - 1])
  BY <1>1, <1>5 DEF Ready
<1> QED
  BY <1>1, <1>7, <1>9 DEF Moves, j

\* At a block comment.
LEMMA AtBlock ==
  ASSUME NEW u, NEW g, NEW core, NEW w, Setting(u, g, core, w), NEW i \in Nat, i < Len(core),
         AtCode(g[i]), Two(core, i + 1, Slash, Star), Starts(w[i + 1])
  PROVE  Moves(core, i + 1, g, w)
<1> DEFINE j == i + 1
           k == j + 1
           l == j + 2
           m == Len(core)
           n == Len(u)
<1>0. /\ u \in Seq(Byte) /\ Lines(u) /\ Scans(g, u) /\ ~g[Len(u)].nested /\ Heads(core, u)
      /\ core \in Seq(Byte) /\ m \in Nat /\ n \in Nat /\ m <= n
  BY TheTexts
<1>1. j < m
  BY DEF Two
<1>2. /\ j \in 1..m /\ j \in Nat /\ k \in Nat /\ k \in 1..m /\ k \in 0..n /\ j < n /\ i < n
      /\ l \in Nat /\ l <= m + 1 /\ k + 1 = l /\ i < Len(u) /\ j < Len(u) /\ l > j
  BY <1>0, <1>1
<1>3. g[j] = Scan(u, g[i], j) /\ g[k] = Scan(u, g[j], k)
  BY <1>0, <1>2, ScansOn
<1>4. Two(core, j, Slash, Star) /\ Starts(w[j])
  OBVIOUS
<1> HIDE DEF j
<1>5. Two(u, j, Slash, Star)
  BY <1>0, <1>2, <1>4, TwoInside, TheBytes
<1>6. /\ g[j] \in State /\ g[j].in = "block" /\ g[j].depth = 1 /\ g[j].held
      /\ g[j].live = <<>>
  <2>1. /\ g[j] \in State /\ g[j].in = "block" /\ g[j].depth = g[i].depth + 1 /\ g[j].held
        /\ g[j].live = g[i].live
    BY <1>3, <1>5, ScanOpen DEF AtCode
  <2> QED
    BY <2>1 DEF AtCode
<1> HIDE DEF k
<1>7. InBlock(g[k])
  BY <1>3, <1>6, ScanHeld DEF InBlock
<1>8. Kept(core, j) = KeptOfBlock(core, l) /\ Past(core, j) = AfterBlock(core, l)
  BY <1>4 DEF Kept, Past
<1>9. /\ w[j] = Cat(KeptOfBlock(core, l), w[AfterBlock(core, l)])
      /\ w[AfterBlock(core, l)] \in Seq(Byte)
  BY <1>2, <1>8, WalkAt
<1> HIDE DEF l, m, n
<1>10. Closings(core, l) # {} => Starts(w[AfterBlock(core, l)])
  <2> SUFFICES ASSUME Closings(core, l) # {}  PROVE Starts(w[AfterBlock(core, l)])
    OBVIOUS
  <2>1. KeptOfBlock(core, l) = <<Blank>>
    BY DEF KeptOfBlock
  <2> QED
    BY <1>4, <1>9, <2>1, StartsBlank, TheBytes
<1>11. \/ Closings(core, l) = {} /\ AfterBlock(core, l) = m + 1
       \/ \E e \in l..m :
               /\ Two(core, e, Star, Slash)
               /\ \A p \in l..(e - 1) : ~Two(core, p, Star, Slash)
               /\ Closings(core, l) # {}
               /\ AfterBlock(core, l) = e + 2
  BY <1>0, <1>2, AfterBlockIs DEF m
<1>12. ASSUME Closings(core, l) = {}, AfterBlock(core, l) = m + 1  PROVE FALSE
  <2> DEFINE out == KeptOfBlock(core, l)
  <2>1. w[m + 1] = <<>>
    <3> DEFINE e == m + 1
    <3>1. e \in Nat \ {0} /\ e > Len(core) /\ Walks(w, Len(core), Kepts(core), Pasts(core))
      BY <1>0 DEF Setting, m
    <3> HIDE DEF e
    <3>2. w[e] = <<>>
      BY <3>1 DEF Walks
    <3> QED
      BY <3>2 DEF e
  <2>2. out = <<Blank>> \/ \E x \in Byte : x # Select /\ out = <<Blank, x>>
    <3>1. l \in Nat /\ Len(core) # 0
      BY <1>0, <1>2 DEF m
    <3> QED
      BY <1>0, <1>12, <3>1, KeptUnclosed
  <2>3. Starts(Cat(out, <<>>))
    BY <1>4, <1>9, <1>12, <2>1
  <2> HIDE DEF out
  <2>4. CASE out = <<Blank>>
    <3>1. Starts(Cat(<<Blank>>, <<>>)) /\ <<>> \in Seq(Byte)
      BY <2>3, <2>4
    <3> QED
      BY <3>1, StartsBlank, StartsEmpty, TheBytes
  <2>5. ASSUME NEW x \in Byte, x # Select, out = <<Blank, x>>  PROVE FALSE
    <3> DEFINE s == <<Blank, x>>
    <3>1. s \in Seq(Byte) /\ Len(s) = 2 /\ s[1] = Blank /\ s[2] = x
      BY TheBytes
    <3> HIDE DEF s
    <3>2. Cat(s, <<>>) = s
      BY <3>1, CatEmpty
    <3>3. Starts(s)
      BY <2>3, <2>5, <3>2 DEF s
    <3>4. \A p \in 1..Len(s) : s[p] # Select
      <4>1. \A p \in 1..Len(s) : p = 1 \/ p = 2
        BY <3>1
      <4>2. Blank # Select
        BY DEF Blank, Select
      <4> QED
        BY <2>5, <3>1, <4>1, <4>2
    <3> QED
      BY <3>3, <3>4 DEF Starts
  <2> QED
    BY <2>2, <2>4, <2>5
<1>13. ASSUME NEW e \in l..m, Two(core, e, Star, Slash),
              \A p \in l..(e - 1) : ~Two(core, p, Star, Slash),
              Closings(core, l) # {}, AfterBlock(core, l) = e + 2
       PROVE  Moves(core, j, g, w)
  <2> DEFINE a == e - 1
             b == e + 1
             z == e + 2
  <2>0. e < m
    BY <1>13 DEF Two, m
  <2>1. /\ a \in Nat /\ a \in k..n /\ a \in k..Len(u) /\ k \in 0..Len(u) /\ a + 1 = e
        /\ a < Len(u) /\ e < Len(u) /\ e \in Nat /\ b \in Nat /\ e \in 1..m /\ b \in 1..m
        /\ z \in Nat /\ z > j /\ z <= m + 1 /\ z - 1 = b /\ b + 1 = z /\ e + 1 = b /\ b > 0
        /\ e \in 1..Len(u) /\ b <= m
    BY <1>0, <1>2, <2>0 DEF n
  <2>2. ASSUME NEW p \in (k + 1)..a  PROVE ~Two(u, p, Star, Slash)
    <3>1. p \in l..(e - 1) /\ p \in 1..m
      BY <1>0, <1>2, <2>0, <2>1
    <3>2. ~Two(core, p, Star, Slash)
      BY <1>13, <3>1
    <3> QED
      BY <1>0, <3>1, <3>2, TwoInside, TheBytes DEF m
  <2> HIDE DEF a, z
  <2>3. InBlock(g[a])
    BY <1>0, <1>7, <2>1, <2>2, BlockGoesOn DEF n
  <2>4. g[e] = Scan(u, g[a], e)
    BY <1>0, <2>1, ScansOn
  <2>5. g[b] = Scan(u, g[e], b)
    BY <1>0, <2>1, ScansOn
  <2>6. Two(u, e, Star, Slash) /\ core[b] = Slash
    <3>1. core[b] = Slash
      BY <1>13 DEF Two
    <3> QED
      BY <1>0, <1>13, <2>1, <3>1, TwoInside, TheBytes DEF m
  <2> HIDE DEF b
  <2>7. ~Two(u, e, Slash, Star)
    BY <2>6 DEF Two, Slash, Star
  <2>8. /\ g[e] \in State /\ g[e].in = "code" /\ g[e].depth = 0 /\ g[e].held
        /\ g[e].live = <<>>
    <3> DEFINE s == g[a]
    <3>1. s \in State /\ ~s.held /\ s.in = "block" /\ s.depth = 1 /\ s.live = <<>>
      BY <2>3 DEF InBlock
    <3> HIDE DEF s
    <3>2. s.depth # 0 /\ s.depth - 1 = 0
      BY <3>1
    <3> DEFINE r == Scan(u, s, e)
    <3>3. /\ r \in State /\ r.in = (IF s.depth = 1 THEN "code" ELSE "block")
          /\ r.depth = s.depth - 1 /\ r.held /\ r.live = s.live
      BY <2>6, <2>7, <3>1, <3>2, ScanBlock
    <3>4. g[e] = r
      BY <2>4 DEF s
    <3> HIDE DEF r
    <3> QED
      BY <3>1, <3>2, <3>3, <3>4
  <2>9. AtCode(g[b])
    BY <2>5, <2>8, ScanHeld DEF AtCode
  <2>11. Ready(core, z, g[z - 1])
    BY <2>1, <2>9 DEF Ready
  <2>12. Starts(w[z])
    BY <1>10, <1>13 DEF z
  <2> QED
    BY <2>1, <2>11, <2>12 DEF Moves, m
<1> QED
  BY <1>11, <1>12, <1>13 DEF n, j

\* At a line comment.
LEMMA AtDashes ==
  ASSUME NEW u, NEW g, NEW core, NEW w, Setting(u, g, core, w), NEW i \in Nat, i < Len(core),
         AtCode(g[i]), Two(core, i + 1, Dash, Dash), Starts(w[i + 1])
  PROVE  Moves(core, i + 1, g, w)
<1> DEFINE j == i + 1
           l == j + 2
           m == Len(core)
           n == Len(u)
           e == AfterLine(core, l)
<1>0. /\ u \in Seq(Byte) /\ Lines(u) /\ Scans(g, u) /\ Heads(core, u)
      /\ core \in Seq(Byte) /\ m \in Nat /\ n \in Nat /\ m <= n
      /\ Walks(w, m, Kepts(core), Pasts(core))
  BY TheTexts DEF Setting
<1>1. j < m /\ core[j + 1] = Dash
  BY DEF Two
<1>2. /\ j \in 1..m /\ j \in Nat /\ l \in Nat /\ l <= Len(core) + 1 /\ i < Len(u) /\ l = j + 2
      /\ j \in 0..Len(u)
  BY <1>0, <1>1
<1>3. g[j] = Scan(u, g[i], j)
  BY <1>0, <1>2, ScansOn
<1>4. Two(core, j, Dash, Dash) /\ Starts(w[j])
  OBVIOUS
<1> HIDE DEF j
<1>5. Two(u, j, Dash, Dash)
  BY <1>0, <1>2, <1>4, TwoInside, TheBytes
<1>6. AtLine(g[j])
  BY <1>3, <1>5, ScanDashes DEF AtCode, AtLine
<1>7. Kept(core, j) = <<Blank>> /\ Past(core, j) = AfterLine(core, l)
  <2>1. ~Two(core, j, Slash, Star)
    BY <1>4, TheBytes DEF Two
  <2> QED
    BY <1>4, <2>1 DEF Kept, Past
<1> HIDE DEF l, m, n, e
<1>8. w[j] = Cat(<<Blank>>, w[e]) /\ w[e] \in Seq(Byte)
  BY <1>2, <1>7, WalkAt DEF e, m
<1>9. Starts(w[e])
  BY <1>4, <1>8, StartsBlank, TheBytes
<1>10. e \in l..(m + 1) /\ (\A p \in l..(e - 1) : core[p] # NewLine)
       /\ (e <= m => core[e] = NewLine)
  BY <1>0, <1>2, AfterLineIs DEF e, m
<1>11. e <= m
  <2> SUFFICES ASSUME ~(e <= m)  PROVE FALSE
    OBVIOUS
  <2>1. e \in Nat \ {0} /\ e > m
    BY <1>0, <1>2, <1>10
  <2>2. w[e] = <<>>
    BY <1>0, <2>1 DEF Walks
  <2> QED
    BY <1>9, <2>2, StartsEmpty
<1> DEFINE c == e - 1
           a == c - 1
<1>12. /\ c \in Nat /\ a \in Nat /\ a + 1 = c /\ c + 1 = e /\ c \in 1..m /\ e \in 1..m
       /\ a \in j..Len(u) /\ a < Len(u) /\ c \in 1..Len(u) /\ e \in Nat /\ e > j /\ e <= m + 1
       /\ c \in (j + 1)..m
  BY <1>0, <1>2, <1>10, <1>11 DEF n
<1>13. \A p \in (j + 1)..c : core[p] # NewLine
  <2> SUFFICES ASSUME NEW p \in (j + 1)..c  PROVE core[p] # NewLine
    OBVIOUS
  <2>1. CASE p = j + 1
    BY <1>1, <2>1, TheBytes DEF j
  <2>2. CASE p # j + 1
    <3>1. p \in l..(e - 1)
      BY <1>2, <1>12, <2>2
    <3> QED
      BY <1>10, <3>1
  <2> QED
    BY <2>1, <2>2
<1> HIDE DEF c, a
<1>14. ASSUME NEW p \in (j + 1)..a  PROVE u[p] \notin {NewLine, Return}
  <2> DEFINE q == p + 1
  <2>1. p \in (j + 1)..c /\ q \in (j + 1)..c /\ p \in 1..m /\ q \in 1..m /\ p \in 1..Len(u)
    BY <1>0, <1>2, <1>12 DEF n
  <2>2. core[p] # NewLine /\ core[q] # NewLine
    BY <1>13, <2>1
  <2>3. core[p] = u[p] /\ core[q] = u[q]
    BY <1>0, <2>1 DEF Heads, m
  <2>4. u[p] = Return => u[q] = NewLine
    BY <1>0, <2>1 DEF Lines
  <2> QED
    BY <2>2, <2>3, <2>4
<1>15. AtLine(g[a])
  BY <1>0, <1>2, <1>6, <1>12, <1>14, LineGoesOn
<1>16. g[c] = Scan(u, g[a], c)
  BY <1>0, <1>12, ScansOn
<1>17. AtCode(g[c]) \/ AtLine(g[c])
  <2>1. CASE u[c] \in {NewLine, Return}
    BY <1>15, <1>16, <2>1, ScanLine DEF AtLine, AtCode
  <2>2. CASE u[c] \notin {NewLine, Return}
    <3>1. g[c] = g[a]
      BY <1>15, <1>16, <2>2, ScanLine DEF AtLine
    <3> QED
      BY <1>15, <3>1
  <2> QED
    BY <2>1, <2>2
<1>18. core[e] = NewLine /\ e - 1 = c
  BY <1>10, <1>11 DEF c
<1>19. Ready(core, e, g[e - 1])
  BY <1>11, <1>17, <1>18, TheBytes DEF Ready, m
<1> QED
  BY <1>9, <1>12, <1>19 DEF Moves, m, j

\* At any other character.
LEMMA AtOther ==
  ASSUME NEW u, NEW g, NEW core, NEW w, Setting(u, g, core, w), NEW i \in Nat, i < Len(core),
         AtCode(g[i]),
         ~Two(core, i + 1, Slash, Star), ~Two(core, i + 1, Dash, Dash), Starts(w[i + 1])
  PROVE  Goal(g[Len(u)]) \/ Moves(core, i + 1, g, w)
<1> DEFINE j == i + 1
           k == j + 1
           m == Len(core)
<1>0. /\ u \in Seq(Byte) /\ Lines(u) /\ Scans(g, u) /\ Heads(core, u)
      /\ core \in Seq(Byte) /\ m \in Nat /\ Len(u) \in Nat /\ m <= Len(u)
  BY TheTexts
<1>1. j \in 1..m /\ j \in Nat /\ k \in Nat /\ k > j /\ k <= m + 1 /\ k - 1 = j
      /\ i < Len(u) /\ j \in 1..Len(u) /\ j > 0 /\ j <= Len(core) /\ j \in 0..Len(u)
  BY <1>0
<1>2. g[j] = Scan(u, g[i], j)
  BY <1>0, <1>1, ScansOn
<1>3. /\ ~Two(core, j, Slash, Star) /\ ~Two(core, j, Dash, Dash) /\ Starts(w[j])
  OBVIOUS
<1> HIDE DEF j
<1> DEFINE c == core[j]
<1>4. c = u[j] /\ c \in Byte
  <2>1. c = u[j]
    BY <1>0, <1>1 DEF Heads
  <2>2. c \in Byte
    BY <1>0, <1>1
  <2> QED
    BY <2>1, <2>2
<1>5. ~Two(u, j, Slash, Star) /\ ~Two(u, j, Dash, Dash)
  BY <1>0, <1>1, <1>3, TwoInside, TheBytes
<1>6. Kept(core, j) = Utf8(c) /\ Past(core, j) = k
  BY <1>3 DEF Kept, Past
<1>7. w[j] = Cat(Utf8(c), w[k]) /\ w[k] \in Seq(Byte)
  BY <1>1, <1>6, WalkAt
<1> HIDE DEF k, m
<1>10. c < 128
  <2> HIDE DEF c
  <2> SUFFICES ASSUME ~(c < 128)  PROVE FALSE
    OBVIOUS
  <2> DEFINE s == Utf8(c)
             a == s[1]
  <2>1. c >= 128
    BY <1>4 DEF Byte
  <2>2. s \in Seq(Byte) /\ Len(s) # 0 /\ a >= 192
    BY <1>4, <2>1, Utf8Is
  <2> HIDE DEF s
  <2>3. 1 \in 1..Len(s) /\ a \in Byte
    BY <2>2
  <2> HIDE DEF a
  <2>4. a \notin White /\ a # Select
    BY <2>2, <2>3 DEF White, Select, Byte, Blank
  <2>5. ~Starts(Cat(s, w[k]))
    BY <1>7, <2>2, <2>3, <2>4, StartsNot DEF a
  <2> QED
    BY <1>3, <1>7, <2>5 DEF s
<1>11. w[j] = Cat(<<c>>, w[k])
  BY <1>4, <1>7, <1>10, Utf8Is
<1>8. CASE c = Select
  <2>1. u[j] \in Byte /\ u[j] \notin PgWhite /\ u[j] = Select /\ Select # Semicolon
    BY <1>4, <1>8 DEF Select, PgWhite, Blank, Semicolon
  <2>2. g[j].live = Append(<<>>, Select)
    <3> DEFINE s == g[i]
    <3>1. s \in State /\ ~s.held /\ s.in = "code" /\ s.live = <<>>
      BY DEF AtCode
    <3> HIDE DEF s
    <3>2. Scan(u, s, j).live = Append(s.live, IF u[j] = Semicolon THEN Terminator ELSE u[j])
      BY <1>5, <2>1, <3>1, ScanCode
    <3> QED
      BY <1>2, <2>1, <3>1, <3>2 DEF s
  <2>3. Len(g[j].live) # 0 /\ g[j].live[1] = Select
    BY <2>2
  <2>4. Len(g[Len(u)].live) # 0 /\ g[Len(u)].live[1] = Select
    <3> DEFINE a == g[j].live
               b == g[Len(u)].live
    <3>1. Extends(b, a)
      BY <1>0, <1>1, LiveGrows
    <3>2. Len(a) # 0 /\ a[1] = Select
      BY <2>3
    <3> HIDE DEF a, b
    <3>3. Len(b) # 0 /\ b[1] = Select
      BY <3>1, <3>2 DEF Extends
    <3> QED
      BY <3>3 DEF b
  <2>5. Len(<<>>) = 0
    OBVIOUS
  <2> QED
    BY <2>4, <2>5 DEF Goal
<1>9. CASE c # Select
  <2>1. c \in White /\ Starts(w[k])
    BY <1>3, <1>4, <1>7, <1>9, <1>11, StartsCons
  <2>2. c \in PgWhite
    <3> HIDE DEF c
    <3> QED
      BY <1>10, <2>1 DEF White, PgWhite
  <2>3. g[j] = g[i]
    BY <1>2, <1>4, <2>2, ScanBlank DEF AtCode
  <2>6. Ready(core, k, g[k - 1])
    BY <1>1, <2>3 DEF Ready
  <2>7. Moves(core, j, g, w)
    BY <1>1, <2>1, <2>6 DEF Moves, m
  <2> QED
    BY <2>7 DEF j
<1> QED
  BY <1>8, <1>9

\* One step of strip_comments, whatever it looks at.
LEMMA WalkGoesOn ==
  ASSUME NEW u, NEW g, NEW core, NEW w, Setting(u, g, core, w),
         NEW j \in 1..Len(core), Starts(w[j]), Ready(core, j, g[j - 1])
  PROVE  Goal(g[Len(u)]) \/ Moves(core, j, g, w)
<1> DEFINE i == j - 1
<1>1. i \in Nat /\ i < Len(core) /\ i + 1 = j /\ j <= Len(core)
  OBVIOUS
<1>2. Ready(core, j, g[i])
  OBVIOUS
<1> HIDE DEF i
<1>3. CASE AtLine(g[i]) /\ core[j] = NewLine
  BY <1>1, <1>3, AtNewLine
<1>4. CASE AtCode(g[i]) /\ Two(core, j, Slash, Star)
  BY <1>1, <1>4, AtBlock
<1>5. CASE AtCode(g[i]) /\ Two(core, j, Dash, Dash)
  BY <1>1, <1>5, AtDashes
<1>6. CASE AtCode(g[i]) /\ ~Two(core, j, Slash, Star) /\ ~Two(core, j, Dash, Dash)
  BY <1>1, <1>2, <1>6, AtOther
<1> QED
  BY <1>1, <1>2, <1>3, <1>4, <1>5, <1>6 DEF Ready

\* So the walk of strip_comments finds what PostgreSQL reads first.
LEMMA FirstWord ==
  ASSUME NEW u, NEW g, NEW core, NEW w, Setting(u, g, core, w), Starts(w[1])
  PROVE  Goal(g[Len(u)])
<1> DEFINE m == Len(core)
           N == {k \in Nat : \A j \in 1..(m + 1) :
                     j + k >= m + 1 /\ Starts(w[j]) /\ Ready(core, j, g[j - 1]) =>
                         Goal(g[Len(u)])}
<1>0. /\ m \in Nat /\ m # 0 /\ Heads(core, u) /\ Scans(g, u)
      /\ Walks(w, m, Kepts(core), Pasts(core))
  BY TheTexts DEF Setting
<1> HIDE DEF m
<1>1. 0 \in N
  <2> SUFFICES ASSUME NEW j \in 1..(m + 1), j + 0 >= m + 1, Starts(w[j])  PROVE FALSE
    OBVIOUS
  <2>1. j \in Nat \ {0} /\ j > m
    BY <1>0
  <2>2. w[j] = <<>>
    BY <1>0, <2>1 DEF Walks
  <2> QED
    BY <2>2, StartsEmpty
<1>2. ASSUME NEW k \in Nat, k \in N  PROVE k + 1 \in N
  <2> SUFFICES ASSUME NEW j \in 1..(m + 1), j + (k + 1) >= m + 1, Starts(w[j]),
                      Ready(core, j, g[j - 1])
               PROVE  Goal(g[Len(u)])
    OBVIOUS
  <2>1. CASE j = m + 1
    <3>1. j \in Nat \ {0} /\ j > m
      BY <1>0, <2>1
    <3>2. w[j] = <<>>
      BY <1>0, <3>1 DEF Walks
    <3> QED
      BY <3>2, StartsEmpty
  <2>2. CASE j # m + 1
    <3>1. j \in 1..m
      BY <1>0, <2>2
    <3>2. Goal(g[Len(u)]) \/ Moves(core, j, g, w)
      BY <3>1, WalkGoesOn DEF m
    <3>3. ASSUME NEW i \in Nat, i > j, i <= m + 1, Starts(w[i]), Ready(core, i, g[i - 1])
          PROVE  Goal(g[Len(u)])
      <4>1. i \in 1..(m + 1) /\ i + k >= m + 1
        BY <1>0, <3>3
      <4> QED
        BY <1>2, <3>3, <4>1
    <3> QED
      BY <3>2, <3>3 DEF Moves, m
  <2> QED
    BY <2>1, <2>2
<1>3. m \in N
  <2> HIDE DEF N
  <2>1. Nat \subseteq N
    BY <1>1, <1>2, SetInduction
  <2> QED
    BY <1>0, <2>1
<1>4. Ready(core, 1, g[1 - 1])
  <2>1. g[0] = Scanner
    BY <1>0 DEF Scans
  <2>2. AtCode(Scanner)
    BY ScannerIs DEF Scanner, AtCode, Steady
  <2>3. 1 - 1 = 0
    OBVIOUS
  <2> QED
    BY <2>1, <2>2, <2>3 DEF Ready
<1>5. 1 \in 1..(m + 1) /\ 1 + m >= m + 1
  BY <1>0
<1> QED
  BY <1>3, <1>4, <1>5

\* A text starts with SELECT if it does once it is trimmed.
LEMMA StartsTrim ==
  ASSUME NEW S, NEW x \in Seq(S), Trim(x) # <<>>, Trim(x)[1] = Select
  PROVE  Starts(x)
<1>1. PICK a \in Nat, b \in Nat :
               /\ a < b /\ b <= Len(x) /\ Trim(x) = SubSeq(x, a + 1, b)
               /\ \A k \in 1..Len(x) : k <= a \/ k > b => x[k] \in White
  BY TrimIs
<1> DEFINE j == a + 1
<1>2. Trim(x)[1] = x[j]
  <2> DEFINE s == SubSeq(x, a + 1, b)
  <2>1. \A i \in 1..(b - a) : s[i] = x[a + i]
    BY <1>1, SubSeqIs
  <2>2. 1 \in 1..(b - a)
    BY <1>1
  <2> HIDE DEF s
  <2>3. s[1] = x[a + 1]
    BY <2>1, <2>2
  <2> QED
    BY <1>1, <2>3 DEF s
<1>3. j \in 1..Len(x) /\ \A k \in 1..(j - 1) : k \in 1..Len(x) /\ k <= a
  BY <1>1
<1> HIDE DEF j
<1>4. \A k \in 1..(j - 1) : x[k] \in White
  BY <1>1, <1>3
<1> QED
  BY <1>2, <1>3, <1>4 DEF Starts

\* What validate_query looks at.
LEMMA ValidIs ==
  ASSUME NEW t, ValidateQuery(t) = "ok"
  PROVE  /\ Trim(StripComments(Trim(t))) # <<>>
         /\ Trim(StripComments(Trim(t)))[1] = Select
         /\ ~Stacked(t)
  BY DEF ValidateQuery

\* In a text that is accepted strip_comments finds Select first.
LEMMA AcceptedStarts ==
  ASSUME NEW t, ValidateQuery(t) = "ok", NEW core \in Seq(Byte), core = Trim(t)
  PROVE  /\ core # <<>>
         /\ \E w : /\ Walks(w, Len(core), Kepts(core), Pasts(core))
                   /\ \A i \in Nat \ {0} : w[i] \in Seq(Byte)
                   /\ Starts(w[1])
<1> DEFINE x == StripComments(core)
<1>1. Trim(x) # <<>> /\ Trim(x)[1] = Select
  BY ValidIs
<1>2. core # <<>>
  <2> SUFFICES ASSUME core = <<>>  PROVE FALSE
    OBVIOUS
  <2>1. StripComments(<<>>) = <<>> /\ Trim(<<>>) = <<>>
    BY NothingIsNothing
  <2> QED
    BY <1>1, <2>1
<1>5. Len(core) \in Nat
  OBVIOUS
<1>6. PICK w : Walks(w, Len(core), Kepts(core), Pasts(core)) /\ x = w[1]
  BY StripCommentsIs
<1> HIDE DEF x
<1>7. \A i \in Nat \ {0} : w[i] \in Seq(Byte)
  <2>1. \A i \in 1..Len(core) : Kepts(core)[i] \in Seq(Byte)
    <3> SUFFICES ASSUME NEW i \in 1..Len(core)  PROVE Kept(core, i) \in Seq(Byte)
      BY DEF Kepts
    <3> QED
      BY KeptType
  <2>2. Forward(Len(core), Pasts(core))
    BY PastsForward
  <2> QED
    BY <1>5, <1>6, <2>1, <2>2, WalkType
<1>9. Starts(w[1])
  <2>1. w[1] \in Seq(Byte)
    BY <1>7
  <2> QED
    BY <1>1, <1>6, <2>1, StartsTrim
<1> QED
  BY <1>2, <1>6, <1>7, <1>9

\* Trim makes texts of texts.
LEMMA TrimType ==
  ASSUME NEW S, NEW t \in Seq(S)
  PROVE  Trim(t) \in Seq(S)
<1>1. CASE Trim(t) = <<>>
  BY <1>1
<1>2. CASE Trim(t) # <<>>
  <2>1. PICK a \in Nat, b \in Nat : a < b /\ b <= Len(t) /\ Trim(t) = SubSeq(t, a + 1, b)
    BY <1>2, TrimIs
  <2>2. SubSeq(t, a + 1, b) \in Seq(S)
    BY <2>1, SubSeqIs
  <2> QED
    BY <2>1, <2>2
<1> QED
  BY <1>1, <1>2

\* A text that is accepted begins with SELECT or WITH for PostgreSQL too.
LEMMA FirstIsSelect ==
  ASSUME NEW t \in Seq(Byte), Plain(t), ValidateQuery(t) = "ok", ~Lex(t).nested
  PROVE  Goal(Lex(t))
<1> DEFINE core == Trim(t)
<1>1. core \in Seq(Byte)
  BY TrimType
<1>2. /\ core # <<>>
      /\ \E w : /\ Walks(w, Len(core), Kepts(core), Pasts(core))
                /\ \A i \in Nat \ {0} : w[i] \in Seq(Byte)
                /\ Starts(w[1])
  BY <1>1, AcceptedStarts
<1>3. PICK u \in Seq(Byte) : Lines(u) /\ Heads(core, u) /\ Lex(u) = Lex(t)
  BY <1>2, PlainLeads, HeadIs, LinesBehind
<1>4. PICK g : Scans(g, u) /\ Lex(u) = g[Len(u)]
  BY LexIs
<1> HIDE DEF core
<1>5. PICK w : /\ Walks(w, Len(core), Kepts(core), Pasts(core))
               /\ \A i \in Nat \ {0} : w[i] \in Seq(Byte)
               /\ Starts(w[1])
  BY <1>2
<1>8. Setting(u, g, core, w)
  BY <1>3, <1>4, <1>5 DEF Setting
<1>10. Goal(g[Len(u)])
  BY <1>5, <1>8, FirstWord
<1> QED
  BY <1>3, <1>4, <1>10

-----------------------------------------------------------------------------
\* The preview.

\* What TrimSemicolons cuts off.
LEMMA TrimSemicolonsIs ==
  ASSUME NEW S, NEW t \in Seq(S)
  PROVE  \E k \in 0..Len(t) :
            /\ TrimSemicolons(t) = SubSeq(t, 1, k)
            /\ \A i \in 1..Len(t) : i > k => t[i] = Semicolon
<1> DEFINE n == Len(t)
           A == {0} \cup {i \in 1..n : t[i] # Semicolon}
           k == Max(A)
<1>1. n \in Nat /\ DOMAIN t = 1..n
  OBVIOUS
<1>2. TrimSemicolons(t) = SubSeq(t, 1, k)
  BY <1>1 DEF TrimSemicolons
<1>3. A \in SUBSET (0..n) /\ A # {} /\ \A i \in 1..n : i \in A \/ t[i] = Semicolon
  BY <1>1
<1> HIDE DEF A
<1>4. k \in A /\ \A i \in A : k >= i
  BY <1>1, <1>3, MaxIs
<1> HIDE DEF k
<1>5. k \in 0..n
  BY <1>3, <1>4
<1>6. \A i \in 1..n : i > k => t[i] = Semicolon
  <2> SUFFICES ASSUME NEW i \in 1..n, i > k, t[i] # Semicolon  PROVE FALSE
    OBVIOUS
  <2>1. i \in A
    BY <1>3
  <2> QED
    BY <1>1, <1>4, <1>5, <2>1
<1> QED
  BY <1>2, <1>5, <1>6

\* c is what u begins with, and PostgreSQL reads nothing but terminators behind
\* it.
Cut(c, u) ==
    /\ c \in Seq(Byte) /\ Len(c) # 0 /\ Len(c) <= Len(u)
    /\ \A i \in 1..Len(c) : c[i] = u[i]
    /\ \A k \in 1..Len(u) : k > Len(c) => u[k] \in PgWhite \cup {Semicolon}

\* What the wrapper puts between its parentheses is a beginning of the text.
LEMMA CoreIs ==
  ASSUME NEW u \in Seq(Byte), NEW core, Heads(core, u), core[1] # Semicolon
  PROVE  LET c == Trim(TrimSemicolons(core))
         IN /\ c \in Seq(Byte) /\ Len(c) # 0 /\ Len(c) <= Len(u)
            /\ \A i \in 1..Len(c) : c[i] = u[i]
            /\ c[1] \notin White /\ c[Len(c)] \notin White
            /\ \A k \in 1..Len(u) : k > Len(c) => u[k] \in White \cup {Semicolon}
<1> DEFINE m == Len(core)
           n == Len(u)
           z == TrimSemicolons(core)
           c == Trim(z)
<1>1. /\ core \in Seq(Byte) /\ m \in Nat /\ n \in Nat /\ m # 0 /\ m <= n
      /\ \A i \in 1..m : core[i] = u[i]
      /\ core[1] \notin White
      /\ \A k \in 1..n : k > m => u[k] \in White
  BY DEF Heads
<1>2. PICK k \in 0..m : /\ z = SubSeq(core, 1, k)
                        /\ \A i \in 1..m : i > k => core[i] = Semicolon
  BY <1>1, TrimSemicolonsIs
<1> HIDE DEF m, n, z
<1>3. k # 0
  BY <1>1, <1>2
<1>4. z \in Seq(Byte) /\ Len(z) = k /\ \A i \in 1..k : z[i] = core[i]
  <2>1. z = SubSeq(core, 0 + 1, k) /\ 0 \in Nat /\ k \in Nat /\ 0 <= k /\ k <= Len(core)
    BY <1>1, <1>2 DEF m
  <2>2. /\ z \in Seq(Byte) /\ Len(z) = k - 0
        /\ \A i \in 1..(k - 0) : z[i] = core[0 + i]
    BY <1>1, <2>1, SubSeqIs
  <2>3. k - 0 = k /\ \A i \in 1..k : 0 + i = i
    BY <1>2
  <2> QED
    BY <2>2, <2>3
<1>5. z[1] \notin White /\ 1 \in 1..k
  BY <1>1, <1>2, <1>3, <1>4
<1>6. PICK a \in Nat, b \in Nat :
          /\ a < b /\ b <= k /\ c = SubSeq(z, a + 1, b)
          /\ z[b] \notin White
          /\ \A i \in 1..k : i <= a \/ i > b => z[i] \in White
  BY <1>4, <1>5, TrimIs
<1> HIDE DEF c
<1>7. a = 0
  BY <1>5, <1>6
<1>8. c \in Seq(Byte) /\ Len(c) = b /\ \A i \in 1..b : c[i] = z[i]
  <2>1. /\ c \in Seq(Byte) /\ Len(c) = b - a
        /\ \A i \in 1..(b - a) : c[i] = z[a + i]
    BY <1>4, <1>6, SubSeqIs
  <2>2. b - a = b /\ \A i \in 1..b : a + i = i
    BY <1>7
  <2> QED
    BY <2>1, <2>2
<1>9. b # 0 /\ b <= n /\ \A i \in 1..b : i \in 1..k /\ i \in 1..m
  BY <1>1, <1>2, <1>6
<1>10. \A i \in 1..b : c[i] = u[i]
  BY <1>1, <1>4, <1>8, <1>9
<1>11. c[1] \notin White /\ c[b] \notin White
  BY <1>5, <1>6, <1>8, <1>9
<1>12. ASSUME NEW i \in 1..n, i > b  PROVE u[i] \in White \cup {Semicolon}
  <2>1. CASE i <= k
    <3>1. i \in 1..k /\ i \in 1..m
      BY <1>1, <1>2, <2>1
    <3>2. z[i] = u[i] /\ z[i] \in White
      BY <1>1, <1>4, <1>6, <1>12, <3>1
    <3> QED
      BY <3>2
  <2>2. CASE i > k /\ i <= m
    <3>1. i \in 1..m
      BY <1>1, <2>2
    <3>2. core[i] = Semicolon /\ core[i] = u[i]
      BY <1>1, <1>2, <2>2, <3>1
    <3> QED
      BY <3>2
  <2>3. CASE i > m
    BY <1>1, <2>3
  <2> QED
    BY <1>1, <1>2, <2>1, <2>2, <2>3
<1> QED
  BY <1>8, <1>9, <1>10, <1>11, <1>12 DEF n, c, z

\* An accepted text does not begin with a semicolon.
LEMMA AcceptedFirst ==
  ASSUME NEW t \in Seq(Byte), ValidateQuery(t) = "ok"
  PROVE  Trim(t) # <<>> /\ Trim(t)[1] # Semicolon
<1> DEFINE core == Trim(t)
<1>1. core \in Seq(Byte)
  BY TrimType
<1>2. /\ core # <<>>
      /\ \E w : /\ Walks(w, Len(core), Kepts(core), Pasts(core))
                /\ \A i \in Nat \ {0} : w[i] \in Seq(Byte)
                /\ Starts(w[1])
  BY <1>1, AcceptedStarts
<1> HIDE DEF core
<1>3. SUFFICES ASSUME core[1] = Semicolon  PROVE FALSE
  BY <1>2 DEF core
<1>4. PICK w : /\ Walks(w, Len(core), Kepts(core), Pasts(core))
               /\ \A i \in Nat \ {0} : w[i] \in Seq(Byte)
               /\ Starts(w[1])
  BY <1>2
<1> DEFINE p == Past(core, 1)
<1>5. 1 \in 1..Len(core) /\ 1 \in Nat \ {0} /\ Semicolon \in Byte
  BY <1>1, <1>2 DEF Semicolon, Byte
<1>6. Kept(core, 1) = <<Semicolon>> /\ p = 2
  <2>1. Utf8(Semicolon) = <<Semicolon>>
    BY <1>5, Utf8Is DEF Semicolon
  <2>2. ~Two(core, 1, Slash, Star) /\ ~Two(core, 1, Dash, Dash)
    BY <1>3 DEF Two, Slash, Dash, Semicolon
  <2> QED
    BY <1>3, <2>1, <2>2 DEF Kept, Past
<1>7. w[1] = Cat(<<Semicolon>>, w[p])
  <2>1. Kepts(core)[1] = <<Semicolon>> /\ Pasts(core)[1] = p
    BY <1>5, <1>6 DEF Kepts, Pasts
  <2>2. Len(core) \in Nat
    BY <1>1
  <2> HIDE DEF p
  <2>3. w[1] = Cat(Kepts(core)[1], w[Pasts(core)[1]])
    BY <1>4, <1>5, <2>2, WalkStep
  <2> QED
    BY <2>1, <2>3
<1>8. w[p] \in Seq(Byte)
  BY <1>4, <1>6
<1>9. Semicolon = Select \/ Semicolon \in White
  BY <1>4, <1>5, <1>7, <1>8, StartsCons
<1> QED
  BY <1>9 DEF Semicolon, Select, White, Blank

\* The wrapper's core in place: what PostgreSQL may read of the text behind it is
\* semicolons.
LEMMA CutIs ==
  ASSUME NEW t \in Seq(Byte), PlainEnds(t), NEW u \in Seq(Byte), NEW a \in Nat,
         Behind(u, t, a), Heads(Trim(t), u), Trim(t)[1] # Semicolon,
         NEW c, c = Trim(TrimSemicolons(Trim(t)))
  PROVE  Cut(c, u)
<1> DEFINE q == Len(c)
           n == Len(t)
           m == Len(u)
           solid == {k \in DOMAIN t : t[k] \notin PgWhite \cup {Semicolon}}
           last == Max(solid)
<1>1. /\ c \in Seq(Byte) /\ q # 0 /\ q <= m
      /\ \A i \in 1..q : c[i] = u[i]
      /\ \A k \in 1..m : k > q => u[k] \in White \cup {Semicolon}
  BY CoreIs
<1>2. solid # {} => t[last] \notin White
  BY DEF PlainEnds
<1>3. /\ n \in Nat /\ m \in Nat /\ q \in Nat /\ a + m = n
      /\ \A i \in 1..m : u[i] = t[a + i]
      /\ DOMAIN t = 1..n
  BY <1>1 DEF Behind
<1>5. \A k \in 1..n : k \in solid \/ t[k] \in PgWhite \cup {Semicolon}
  BY <1>3
<1>6. /\ solid \in SUBSET (0..n)
      /\ \A k \in solid : k \in 1..n /\ t[k] \notin PgWhite \cup {Semicolon}
  BY <1>3
<1> HIDE DEF solid, q, n, m
<1>8. ASSUME NEW k \in 1..m, k > q  PROVE u[k] \in PgWhite \cup {Semicolon}
  <2> SUFFICES ASSUME u[k] \notin PgWhite \cup {Semicolon}  PROVE FALSE
    OBVIOUS
  <2> DEFINE j == a + k
  <2>1. j \in 1..n /\ u[k] = t[j]
    BY <1>3
  <2>2. j \in solid
    BY <1>5, <2>1
  <2>3. last \in solid /\ last >= j
    BY <1>3, <1>6, <2>2, MaxIs
  <2> HIDE DEF last
  <2> DEFINE i == last - a
  <2>4. last \in 1..n /\ t[last] \notin PgWhite \cup {Semicolon} /\ t[last] \notin White
    BY <1>2, <1>6, <2>3
  <2>5. i \in 1..m /\ i > q /\ last = a + i
    BY <1>3, <1>8, <2>3, <2>4
  <2> HIDE DEF i, j
  <2>6. u[i] = t[last] /\ u[i] \in White \cup {Semicolon}
    BY <1>1, <1>3, <2>5
  <2> QED
    BY <2>4, <2>6
<1> QED
  BY <1>1, <1>8 DEF Cut, q, m

\* In the core a character and the next are those of the text.
LEMMA CutSame ==
  ASSUME NEW u \in Seq(Byte), NEW c, Cut(c, u), NEW i \in 1..Len(c)
  PROVE  Same(c, i, u, i)
<1> DEFINE q == Len(c)
           n == Len(u)
           j == i + 1
<1>0. q \in Nat /\ n \in Nat /\ q <= n /\ c[i] = u[i] /\ i \in 1..q
  BY DEF Cut
<1>1. ASSUME NEW x, NEW y \in {Slash, Star, Dash}
      PROVE  Two(c, i, x, y) <=> Two(u, i, x, y)
  <2>1. CASE i < q
    <3>1. j \in 1..q /\ i < n
      BY <1>0, <2>1
    <3>2. c[j] = u[j]
      BY <3>1 DEF Cut
    <3> QED
      BY <1>0, <2>1, <3>1, <3>2 DEF Two
  <2>2. CASE i >= q
    <3>1. ~Two(c, i, x, y)
      BY <1>0, <2>2 DEF Two
    <3>2. ~Two(u, i, x, y)
      <4> SUFFICES ASSUME i < n, u[j] = y  PROVE FALSE
        BY DEF Two
      <4>1. j \in 1..n /\ j > q
        BY <1>0, <2>2
      <4>2. u[j] \in PgWhite \cup {Semicolon}
        BY <4>1 DEF Cut
      <4> HIDE DEF j
      <4> QED
        BY <4>2, <1>1 DEF PgWhite, Semicolon, Blank, Slash, Star, Dash
    <3> QED
      BY <3>1, <3>2
  <2> QED
    BY <1>0, <2>1, <2>2
<1> QED
  BY <1>0, <1>1 DEF Same

\* So the scanner reads the core in the text as it reads the core alone.
LEMMA CutScan ==
  ASSUME NEW u \in Seq(Byte), NEW g, Scans(g, u),
         NEW c, Cut(c, u), NEW h, Scans(h, c)
  PROVE  \A i \in 0..Len(c) : h[i] = g[i]
<1> DEFINE q == Len(c)
           N == {i \in Nat : i <= q => h[i] = g[i]}
<1>0. q \in Nat /\ q <= Len(u)
  BY DEF Cut
<1>1. 0 \in N
  BY DEF Scans
<1>2. ASSUME NEW i \in Nat, i \in N  PROVE i + 1 \in N
  <2> DEFINE j == i + 1
  <2> SUFFICES ASSUME j <= q  PROVE h[j] = g[j]
    OBVIOUS
  <2>1. j \in 1..q /\ j - 1 = i /\ i <= q /\ j \in 1..Len(u) /\ i \in 0..Len(u)
    BY <1>0
  <2>2. h[i] = g[i]
    BY <1>2, <2>1
  <2>3. g[i] \in State
    BY <2>1, AlwaysSure DEF Sure, Steady
  <2> HIDE DEF j
  <2>4. h[j] = Scan(c, h[i], j) /\ g[j] = Scan(u, g[i], j)
    BY <2>1 DEF Scans
  <2>5. Same(c, j, u, j)
    BY <2>1, CutSame
  <2> QED
    BY <2>2, <2>3, <2>4, <2>5, ScanSame
<1>3. Nat \subseteq N
  <2> HIDE DEF N
  <2> QED
    BY <1>1, <1>2, SetInduction
<1> QED
  BY <1>0, <1>3

\* No statement of live is ended.
Unended(live) == \A a \in 1..Len(live) : live[a] # Terminator

\* Behind base stand terminators.
Ended(live, base) ==
    /\ live \in Seq(Char) /\ Len(base) <= Len(live)
    /\ \A a \in 1..Len(base) : live[a] = base[a]
    /\ \A a \in 1..Len(live) : a > Len(base) => live[a] = Terminator

\* A terminator ends the statement again.
LEMMA AppendEnded ==
  ASSUME NEW live, NEW base \in Seq(Char), Ended(live, base)
  PROVE  Ended(Append(live, Terminator), base)
<1> DEFINE n == Len(live)
           m == Len(base)
           more == Append(live, Terminator)
<1>1. Terminator \in Char /\ live \in Seq(Char)
  BY DEF Terminator, Char, Ended
<1>2. /\ n \in Nat /\ Len(more) = n + 1 /\ more[n + 1] = Terminator
      /\ more \in Seq(Char) /\ \A a \in 1..n : more[a] = live[a]
  BY <1>1, AppendIs
<1>3. m \in Nat /\ m <= n
  BY DEF Ended
<1>4. (\A a \in 1..m : live[a] = base[a]) /\ \A a \in 1..n : a > m => live[a] = Terminator
  BY DEF Ended
<1> HIDE DEF more, n, m
<1>5. \A a \in 1..m : more[a] = base[a]
  BY <1>2, <1>3, <1>4
<1>6. ASSUME NEW a \in 1..(n + 1), a > m  PROVE more[a] = Terminator
  <2>1. a \in 1..n \/ a = n + 1
    BY <1>2
  <2> QED
    BY <1>2, <1>4, <1>6, <2>1
<1> QED
  BY <1>2, <1>3, <1>5, <1>6 DEF Ended, more, m

\* Without the terminators at its end, what is read is the statement.
LEMMA EndedIs ==
  ASSUME NEW live, NEW base \in Seq(Char), Ended(live, base), Unended(base)
  PROVE  SubSeq(live, 1, Max({0} \cup {i \in DOMAIN live : live[i] # Terminator})) = base
<1> DEFINE n == Len(live)
           m == Len(base)
           A == {0} \cup {i \in DOMAIN live : live[i] # Terminator}
           k == Max(A)
<1>1. live \in Seq(Char) /\ n \in Nat /\ m \in Nat /\ m <= n /\ DOMAIN live = 1..n
  BY DEF Ended
<1>2. (\A a \in 1..m : live[a] = base[a]) /\ \A a \in 1..n : a > m => live[a] = Terminator
  BY DEF Ended
<1>3. \A a \in 1..m : base[a] # Terminator
  BY DEF Unended
<1>4. A \in SUBSET (0..n) /\ A # {}
  BY <1>1
<1>5. \A a \in A : a = 0 \/ (a \in 1..n /\ live[a] # Terminator)
  BY <1>1
<1>6. m \in A
  BY <1>1, <1>2, <1>3
<1> HIDE DEF A
<1>7. k \in A /\ \A i \in A : k >= i
  BY <1>1, <1>4, MaxIs
<1> HIDE DEF k
<1>8. k = m
  BY <1>1, <1>2, <1>5, <1>6, <1>7
<1> HIDE DEF n, m
<1> DEFINE s == SubSeq(live, 1, m)
<1>9. s \in Seq(Char) /\ Len(s) = m /\ \A i \in 1..m : s[i] = live[i]
  <2>1. s = SubSeq(live, 0 + 1, m) /\ 0 \in Nat /\ m \in Nat /\ 0 <= m /\ m <= Len(live)
    BY <1>1 DEF n
  <2>2. /\ s \in Seq(Char) /\ Len(s) = m - 0
        /\ \A i \in 1..(m - 0) : s[i] = live[0 + i]
    BY <1>1, <2>1, SubSeqIs
  <2>3. m - 0 = m /\ \A i \in 1..m : 0 + i = i
    BY <1>1
  <2> QED
    BY <2>2, <2>3
<1> HIDE DEF s
<1>10. s = base
  BY <1>2, <1>9, SeqEqual DEF m
<1> QED
  BY <1>8, <1>10 DEF s, k, A

\* Behind the core the scanner stays in code and reads terminators.
LEMMA ScanEnd ==
  ASSUME NEW u \in Seq(Byte), NEW g, Scans(g, u),
         NEW c, Cut(c, u), g[Len(c)].in = "code"
  PROVE  /\ ~g[Len(c)].held
         /\ Ended(g[Len(u)].live, g[Len(c)].live)
<1> DEFINE q == Len(c)
           n == Len(u)
           base == g[q].live
<1>0. q \in Nat /\ n \in Nat /\ q <= n /\ q \in 0..n
  BY DEF Cut
<1>1. Sure(u, q, g[q])
  BY <1>0, AlwaysSure
<1>2. ~g[q].held
  <2> SUFFICES ASSUME g[q].held  PROVE FALSE
    OBVIOUS
  <2> DEFINE j == q + 1
  <2>1. q < n /\ u[j] \in {Slash, Star}
    BY <1>1 DEF Sure
  <2>2. j \in 1..n /\ j > q
    BY <1>0, <2>1
  <2> HIDE DEF j
  <2>3. u[j] \in PgWhite \cup {Semicolon}
    BY <2>2 DEF Cut
  <2> QED
    BY <2>1, <2>3 DEF PgWhite, Semicolon, Blank, Slash, Star
<1>3. base \in Seq(Char)
  BY <1>1 DEF Sure, Steady, State
<1> DEFINE Fine(i) == g[i].in = "code" /\ ~g[i].held /\ Ended(g[i].live, base)
           N == {i \in Nat : i >= q /\ i <= n => Fine(i)}
<1>4. \A i \in Nat : i >= q /\ i <= n => (i = q \/ i > q)
  OBVIOUS
<1>5. Fine(q)
  BY <1>0, <1>2, <1>3 DEF Ended
<1> HIDE DEF base
<1>6. ASSUME NEW i \in Nat, i >= q, i < n, Fine(i)  PROVE Fine(i + 1)
  <2> DEFINE j == i + 1
             s == g[i]
             r == g[j]
             x == u[j]
  <2>1. j \in 1..n /\ j - 1 = i /\ j > q /\ i \in 0..n
    BY <1>0, <1>6
  <2>2. s \in State
    BY <2>1, AlwaysSure DEF Sure, Steady
  <2>3. s.in = "code" /\ ~s.held /\ Ended(s.live, base)
    BY <1>6
  <2>4. x \in PgWhite \cup {Semicolon} /\ x \in Byte
    BY <2>1 DEF Cut
  <2> HIDE DEF j
  <2>5. r = Scan(u, s, j)
    BY <2>1 DEF Scans
  <2>6. ~Two(u, j, Slash, Star) /\ ~Two(u, j, Dash, Dash)
    BY <2>4 DEF Two, PgWhite, Semicolon, Blank, Slash, Dash
  <2>7. r.in = "code" /\ ~r.held /\ (r.live = s.live \/ r.live = Append(s.live, Terminator))
    <3> HIDE DEF s, r, q, n
    <3>1. CASE x \in PgWhite
      BY <2>3, <2>5, <3>1, ScanBlank
    <3>2. CASE x \notin PgWhite
      <4>1. x = Semicolon /\ x # Quote
        BY <2>4, <3>2 DEF Semicolon, Quote
      <4>2. /\ r.in = (IF u[j] = Quote THEN "literal" ELSE "code")
            /\ ~r.held
            /\ r.live = Append(s.live, IF u[j] = Semicolon THEN Terminator ELSE u[j])
        BY <2>2, <2>3, <2>4, <2>5, <2>6, <3>2, ScanCode
      <4> QED
        BY <4>1, <4>2
    <3> QED
      BY <3>1, <3>2
  <2> HIDE DEF s, r, q, n, x
  <2>8. Ended(r.live, base)
    BY <1>3, <2>3, <2>7, AppendEnded
  <2> QED
    BY <2>7, <2>8 DEF j, r
<1> HIDE DEF Fine
<1>7. 0 \in N
  BY <1>0, <1>5
<1>8. ASSUME NEW i \in Nat, i \in N  PROVE i + 1 \in N
  <2> SUFFICES ASSUME i + 1 >= q, i + 1 <= n  PROVE Fine(i + 1)
    OBVIOUS
  <2> HIDE DEF q, n
  <2>1. CASE i + 1 = q
    BY <1>5, <2>1
  <2>2. CASE i + 1 # q
    <3>1. i >= q /\ i < n /\ i <= n
      BY <1>0, <2>2
    <3>2. Fine(i)
      BY <1>8, <3>1
    <3> QED
      BY <1>6, <3>1, <3>2
  <2> QED
    BY <2>1, <2>2
<1>9. Nat \subseteq N
  <2> HIDE DEF N
  <2> QED
    BY <1>7, <1>8, SetInduction
<1>10. Fine(n)
  BY <1>0, <1>9
<1> QED
  BY <1>2, <1>10 DEF Fine, base

\* s, when pre was read before.
Behindhand(pre, s) ==
    [in |-> s.in, depth |-> s.depth, held |-> s.held, nested |-> s.nested,
     live |-> Cat(pre, s.live)]

\* A character put behind two texts.
LEMMA CatAppend ==
  ASSUME NEW S, NEW s \in Seq(S), NEW t \in Seq(S), NEW x \in S
  PROVE  Cat(s, Append(t, x)) = Append(Cat(s, t), x)
<1> DEFINE one == <<x>>
<1>1. one \in Seq(S) /\ Append(t, x) = t \o one /\ Append(s \o t, x) = (s \o t) \o one
  BY AppendIsConcat, ConcatProperties
<1> HIDE DEF one
<1>2. Cat(Cat(s, t), one) = Cat(s, Cat(t, one))
  BY <1>1, CatAssociative
<1> QED
  BY <1>1, <1>2 DEF Cat

\* Two characters behind a text.
LEMMA AppendTwo ==
  ASSUME NEW S, NEW s \in Seq(S), NEW x \in S, NEW y \in S
  PROVE  Append(Append(s, x), y) = s \o <<x, y>>
<1> DEFINE n == Len(s)
           l == Append(s, x)
           m == Append(l, y)
           two == <<x, y>>
           r == Cat(s, two)
<1>0. n \in Nat /\ two \in Seq(S) /\ Len(two) = 2 /\ two[1] = x /\ two[2] = y
  OBVIOUS
<1> HIDE DEF two
<1>1. l \in Seq(S) /\ Len(l) = n + 1 /\ l[n + 1] = x /\ \A a \in 1..n : l[a] = s[a]
  BY AppendIs
<1> HIDE DEF l
<1>2. /\ m \in Seq(S) /\ Len(m) = Len(l) + 1 /\ m[Len(l) + 1] = y
      /\ \A a \in 1..Len(l) : m[a] = l[a]
  <2>1. l \in Seq(S)
    BY <1>1
  <2> QED
    BY <2>1, AppendIs
<1> HIDE DEF m
<1>3. r \in Seq(S) /\ Len(r) = n + 2
  <2>1. two \in Seq(S)
    BY <1>0
  <2>2. r \in Seq(S) /\ Len(r) = n + Len(two)
    BY <2>1, CatIs
  <2> QED
    BY <1>0, <2>2
<1>4. \A a \in 1..n : r[a] = s[a]
  <2>1. two \in Seq(S)
    BY <1>0
  <2> QED
    BY <2>1, CatLeft
<1>5. ASSUME NEW a \in 1..Len(two)  PROVE r[n + a] = two[a]
  <2>1. two \in Seq(S)
    BY <1>0
  <2> QED
    BY <2>1, CatRight
<1> HIDE DEF r, n
<1>6. r[n + 1] = x /\ r[n + 2] = y
  BY <1>0, <1>5
<1>7. ASSUME NEW a \in 1..(n + 2)  PROVE m[a] = r[a]
  <2>1. a \in 1..n \/ a = n + 1 \/ a = n + 2
    BY <1>0
  <2>2. Len(l) + 1 = n + 2 /\ n + 1 \in 1..Len(l) /\ \A k \in 1..n : k \in 1..Len(l)
    BY <1>0, <1>1
  <2> QED
    BY <1>1, <1>2, <1>4, <1>6, <2>1, <2>2
<1>8. Len(m) = n + 2
  BY <1>0, <1>1, <1>2
<1>9. m = r
  BY <1>2, <1>3, <1>7, <1>8, SeqEqual
<1> QED
  BY <1>9 DEF m, l, r, two, Cat

\* What was read before does not change how the scanner reads on.
LEMMA ScanBehindhand ==
  ASSUME NEW t \in Seq(Byte), NEW i \in 1..Len(t), NEW s \in State, NEW pre \in Seq(Char)
  PROVE  Scan(t, Behindhand(pre, s), i) = Behindhand(pre, Scan(t, s, i))
<1> DEFINE c == t[i]
           p == Behindhand(pre, s)
           l == Cat(pre, s.live)
<1>0. c \in Byte /\ s.in \in Places /\ s.live \in Seq(Char)
      /\ s = [in |-> s.in, depth |-> s.depth, held |-> s.held, nested |-> s.nested,
              live |-> s.live]
  BY DEF State
<1>1. p = [in |-> s.in, depth |-> s.depth, held |-> s.held, nested |-> s.nested, live |-> l]
  BY DEF Behindhand
<1>2. \A x \in Char : Cat(pre, Append(s.live, x)) = Append(l, x)
  BY <1>0, CatAppend
<1> SUFFICES Scan(t, p, i) = Behindhand(pre, Scan(t, s, i))
  OBVIOUS
<1>15. p = Behindhand(pre, s)
  OBVIOUS
<1> HIDE DEF l, p
<1>3. CASE s.held
  <2>1. Scan(t, s, i) = [s EXCEPT !.held = FALSE]
    BY <1>3 DEF Scan
  <2>2. Scan(t, p, i) = [p EXCEPT !.held = FALSE]
    BY <1>1, <1>3 DEF Scan
  <2> QED
    BY <1>0, <1>1, <2>1, <2>2 DEF Behindhand, l
<1>4. CASE ~s.held /\ s.in \in {"code", "block"} /\ Two(t, i, Slash, Star)
  <2> DEFINE d == s.depth + 1
             b == s.nested \/ s.depth > 0
  <2>1. Scan(t, s, i) = [[s EXCEPT !.held = TRUE] EXCEPT
                         !.in = "block", !.depth = d, !.nested = b]
    BY <1>4 DEF Scan
  <2>2. Scan(t, p, i) = [[p EXCEPT !.held = TRUE] EXCEPT
                         !.in = "block", !.depth = d, !.nested = b]
    BY <1>1, <1>4 DEF Scan
  <2> HIDE DEF d, b
  <2> QED
    BY <1>0, <1>1, <2>1, <2>2 DEF Behindhand, l
<1>5. CASE ~s.held /\ s.in = "block" /\ ~Two(t, i, Slash, Star) /\ Two(t, i, Star, Slash)
  <2> DEFINE d == s.depth - 1
             to == IF s.depth = 1 THEN "code" ELSE "block"
  <2>1. Scan(t, s, i) = [[s EXCEPT !.held = TRUE] EXCEPT !.in = to, !.depth = d]
    BY <1>5 DEF Scan
  <2>2. Scan(t, p, i) = [[p EXCEPT !.held = TRUE] EXCEPT !.in = to, !.depth = d]
    BY <1>1, <1>5 DEF Scan
  <2> HIDE DEF d, to
  <2> QED
    BY <1>0, <1>1, <2>1, <2>2 DEF Behindhand, l
<1>6. CASE ~s.held /\ s.in = "block" /\ ~Two(t, i, Slash, Star) /\ ~Two(t, i, Star, Slash)
  <2>1. Scan(t, s, i) = s
    BY <1>6 DEF Scan
  <2>2. Scan(t, p, i) = p
    BY <1>1, <1>6 DEF Scan
  <2> QED
    BY <1>15, <2>1, <2>2
<1>7. CASE ~s.held /\ s.in = "line"
  <2>1. Scan(t, s, i) = IF c \in {NewLine, Return} THEN [s EXCEPT !.in = "code"] ELSE s
    BY <1>7 DEF Scan
  <2>2. Scan(t, p, i) = IF c \in {NewLine, Return} THEN [p EXCEPT !.in = "code"] ELSE p
    BY <1>1, <1>7 DEF Scan
  <2> HIDE DEF c
  <2> QED
    BY <1>0, <1>1, <2>1, <2>2 DEF Behindhand, l
<1> DEFINE x == IF s.in = "literal" THEN Literal(c)
                ELSE IF c = Semicolon THEN Terminator ELSE c
<1>8. x \in Char
  BY <1>0, ByteRead
<1> DEFINE m == Append(l, x)
           k == Append(s.live, x)
<1>9. m = Cat(pre, k)
  BY <1>2, <1>8
<1>10. CASE ~s.held /\ s.in = "literal"
  <2> DEFINE to == IF c = Quote THEN "code" ELSE "literal"
  <2>1. x = Literal(c)
    BY <1>10
  <2>2. Scan(t, s, i) = [[s EXCEPT !.live = k] EXCEPT !.in = to]
    BY <1>0, <1>10, <2>1 DEF Scan
  <2>3. Scan(t, p, i) = [[p EXCEPT !.live = m] EXCEPT !.in = to]
    BY <1>1, <1>10, <2>1 DEF Scan
  <2> HIDE DEF to, m, k, x
  <2> QED
    BY <1>0, <1>1, <1>9, <2>2, <2>3 DEF Behindhand, l
<1>11. CASE ~s.held /\ s.in = "code" /\ ~Two(t, i, Slash, Star) /\ Two(t, i, Dash, Dash)
  <2>1. Scan(t, s, i) = [s EXCEPT !.in = "line"]
    BY <1>11 DEF Scan
  <2>2. Scan(t, p, i) = [p EXCEPT !.in = "line"]
    BY <1>1, <1>11 DEF Scan
  <2> QED
    BY <1>0, <1>1, <2>1, <2>2 DEF Behindhand, l
<1>12. CASE ~s.held /\ s.in = "code" /\ c \in PgWhite
  <2>1. Scan(t, s, i) = s
    BY <1>12, ScanBlank
  <2>2. Scan(t, p, i) = p
    BY <1>1, <1>12, ScanBlank
  <2> QED
    BY <1>15, <2>1, <2>2
<1>13. CASE /\ ~s.held /\ s.in = "code" /\ ~Two(t, i, Slash, Star) /\ ~Two(t, i, Dash, Dash)
            /\ c \notin PgWhite
  <2> DEFINE to == IF c = Quote THEN "literal" ELSE "code"
  <2>1. c = Quote => x = Quote
    BY <1>13 DEF Quote, Semicolon
  <2>4. c # Quote => x = (IF c = Semicolon THEN Terminator ELSE c)
    BY <1>13
  <2>2. Scan(t, s, i) = [[s EXCEPT !.live = k] EXCEPT !.in = to]
    BY <1>0, <1>13, <2>1, <2>4 DEF Scan
  <2>3. Scan(t, p, i) = [[p EXCEPT !.live = m] EXCEPT !.in = to]
    BY <1>1, <1>13, <2>1, <2>4 DEF Scan
  <2> HIDE DEF to, m, k, x
  <2> QED
    BY <1>0, <1>1, <1>9, <2>2, <2>3 DEF Behindhand, l
<1>14. s.in \in {"code", "block", "line", "literal"}
  BY <1>0 DEF Places
<1> HIDE DEF c, x, m, k
<1> QED
  BY <1>3, <1>4, <1>5, <1>6, <1>7, <1>10, <1>11, <1>12, <1>13, <1>14

\* What the wrapper puts before a text, and around it.
Before == <<Select, Open>>
Wrapped(c) == Before \o c \o <<Close, Sub>>

\* The wrapper's characters mean nothing to the scanner.
LEMMA TheWrapper ==
  /\ {Select, Open, Close, Sub} \cap {Slash, Star, Dash, Quote, Semicolon} = {}
  /\ {Select, Open, Close, Sub} \cap PgWhite = {}
  /\ {Select, Open, Close, Sub} \subseteq Byte /\ Byte \subseteq Char
  BY DEF Select, Open, Close, Sub, Slash, Star, Dash, Quote, Semicolon, PgWhite, Blank, Byte, Char

\* What the wrapper puts together, and what stands where in it.
LEMMA WrappedIs ==
  ASSUME NEW c \in Seq(Byte)
  PROVE  /\ Wrapped(c) \in Seq(Byte) /\ Len(Wrapped(c)) = Len(c) + 4
         /\ Wrapped(c)[1] = Select /\ Wrapped(c)[2] = Open
         /\ \A i \in 1..Len(c) : Wrapped(c)[2 + i] = c[i]
         /\ Wrapped(c)[Len(c) + 3] = Close /\ Wrapped(c)[Len(c) + 4] = Sub
<1> DEFINE q == Len(c)
           end == <<Close, Sub>>
           pre == Before
           x == Cat(pre, c)
           v == Cat(x, end)
<1>1. /\ pre \in Seq(Byte) /\ Len(pre) = 2 /\ pre[1] = Select /\ pre[2] = Open
      /\ end \in Seq(Byte) /\ Len(end) = 2 /\ end[1] = Close /\ end[2] = Sub
      /\ q \in Nat
  BY TheWrapper DEF Before
<1>2. Wrapped(c) = v
  BY DEF Wrapped, Cat
<1> HIDE DEF pre, end
<1>3. x \in Seq(Byte) /\ Len(x) = 2 + q
  BY <1>1, CatIs
<1>4. /\ \A i \in 1..2 : x[i] = pre[i]
      /\ \A i \in 1..q : x[2 + i] = c[i]
  <2>1. \A i \in 1..Len(pre) : x[i] = pre[i]
    BY <1>1, CatLeft
  <2>2. ASSUME NEW i \in 1..Len(c)  PROVE x[Len(pre) + i] = c[i]
    <3>1. pre \in Seq(Byte)
      BY <1>1
    <3> QED
      BY <3>1, CatRight
  <2> HIDE DEF x
  <2> QED
    BY <1>1, <2>1, <2>2
<1> HIDE DEF x, q
<1>5. v \in Seq(Byte) /\ Len(v) = 2 + q + 2
  BY <1>1, <1>3, CatIs
<1>6. /\ \A i \in 1..(2 + q) : v[i] = x[i]
      /\ \A i \in 1..2 : v[2 + q + i] = end[i]
  <2>1. \A i \in 1..Len(x) : v[i] = x[i]
    BY <1>1, <1>3, CatLeft
  <2>2. ASSUME NEW i \in 1..Len(end)  PROVE v[Len(x) + i] = end[i]
    <3>1. x \in Seq(Byte) /\ end \in Seq(Byte)
      BY <1>1, <1>3
    <3> QED
      BY <3>1, CatRight
  <2> HIDE DEF v
  <2> QED
    BY <1>1, <1>3, <2>1, <2>2
<1> HIDE DEF v
<1>7. v[1] = Select /\ v[2] = Open
  BY <1>1, <1>4, <1>6
<1>8. \A i \in 1..q : v[2 + i] = c[i]
  <2> SUFFICES ASSUME NEW i \in 1..q  PROVE v[2 + i] = c[i]
    OBVIOUS
  <2> DEFINE j == 2 + i
  <2>1. j \in 1..(2 + q) /\ x[j] = c[i]
    BY <1>1, <1>4
  <2> HIDE DEF j
  <2>2. v[j] = c[i]
    BY <1>6, <2>1
  <2> QED
    BY <2>2 DEF j
<1>9. v[q + 3] = Close /\ v[q + 4] = Sub
  <2>1. v[2 + q + 1] = Close /\ v[2 + q + 2] = Sub
    BY <1>1, <1>6
  <2>2. 2 + q + 1 = q + 3 /\ 2 + q + 2 = q + 4
    BY <1>1
  <2> QED
    BY <2>1, <2>2
<1>10. Len(v) = q + 4
  BY <1>1, <1>5
<1> QED
  BY <1>2, <1>5, <1>7, <1>8, <1>9, <1>10 DEF q

\* A character of the wrapper is read.
LEMMA ScanWrapper ==
  ASSUME NEW t, NEW i, NEW s \in State, ~s.held, s.in = "code",
         t[i] \in {Select, Open, Close, Sub}
  PROVE  /\ Scan(t, s, i) \in State /\ Scan(t, s, i).in = "code"
         /\ Scan(t, s, i).depth = s.depth /\ ~Scan(t, s, i).held
         /\ Scan(t, s, i).nested = s.nested
         /\ Scan(t, s, i).live = Append(s.live, t[i])
<1> DEFINE c == t[i]
<1>1. /\ c \in Byte /\ c \notin PgWhite /\ c # Quote /\ c # Semicolon
      /\ c \notin {Slash, Star, Dash}
  BY TheWrapper
<1>2. ~Two(t, i, Slash, Star) /\ ~Two(t, i, Dash, Dash)
  BY <1>1 DEF Two
<1> QED
  BY <1>1, <1>2, ScanCode

\* The wrapper's first two characters,
LEMMA ScanBefore ==
  ASSUME NEW c \in Seq(Byte), NEW p, Scans(p, Wrapped(c))
  PROVE  p[2] = Behindhand(Before, Scanner)
<1> DEFINE v == Wrapped(c)
<1>1. /\ Len(v) = Len(c) + 4 /\ v[1] = Select /\ v[2] = Open /\ Len(c) \in Nat
  BY WrappedIs
<1>2. 1 \in 1..Len(v) /\ 2 \in 1..Len(v)
  BY <1>1
<1> HIDE DEF v
<1>3. p[0] = Scanner /\ p[1] = Scan(v, p[0], 1) /\ p[2] = Scan(v, p[1], 2)
  BY <1>2 DEF Scans, v
<1> DEFINE a == p[0]
           b == p[1]
           d == p[2]
<1>4. a \in State /\ a = Scanner /\ ~a.held /\ a.in = "code" /\ a.live = <<>>
  BY <1>3, ScannerIs DEF Steady, Scanner
<1>5. b = Scan(v, a, 1) /\ d = Scan(v, b, 2)
  BY <1>3
<1> HIDE DEF a, b, d
<1>6. /\ b \in State /\ b.in = "code" /\ b.depth = a.depth /\ ~b.held
      /\ b.nested = a.nested /\ b.live = Append(a.live, Select)
  BY <1>1, <1>4, <1>5, ScanWrapper
<1>7. /\ d \in State /\ d.in = "code" /\ d.depth = b.depth /\ ~d.held
      /\ d.nested = b.nested /\ d.live = Append(b.live, Open)
  BY <1>1, <1>5, <1>6, ScanWrapper
<1>8. d.live = Before
  <2> DEFINE e == <<>>
             l == Append(e, Select)
             m == Append(l, Open)
  <2>1. e \in Seq(Byte) /\ Len(e) = 0 /\ Select \in Byte /\ Open \in Byte
    BY TheWrapper
  <2>2. d.live = m
    BY <1>4, <1>6, <1>7
  <2> HIDE DEF e
  <2>3. l \in Seq(Byte) /\ Len(l) = 1 /\ l[1] = Select
    BY <2>1, AppendIs
  <2> HIDE DEF l
  <2>4. m \in Seq(Byte) /\ Len(m) = 2 /\ m[1] = Select /\ m[2] = Open
    <3>1. Len(m) = Len(l) + 1 /\ m \in Seq(Byte)
      BY <2>1, <2>3, AppendIs
    <3>2. (\A i \in 1..Len(l) : m[i] = l[i]) /\ m[Len(l) + 1] = Open
      <4>1. l \in Seq(Byte) /\ Open \in Byte
        BY <2>1, <2>3
      <4> QED
        BY <4>1, AppendIs
    <3> HIDE DEF m
    <3> QED
      BY <2>3, <3>1, <3>2
  <2> HIDE DEF m
  <2>5. Before \in Seq(Byte) /\ Len(Before) = 2 /\ Before[1] = Select /\ Before[2] = Open
    BY <2>1 DEF Before
  <2>6. \A i \in 1..2 : m[i] = Before[i]
    <3>1. \A i \in 1..2 : i = 1 \/ i = 2
      OBVIOUS
    <3> QED
      BY <2>4, <2>5, <3>1
  <2>7. m = Before
    BY <2>4, <2>5, <2>6, SeqEqual
  <2> QED
    BY <2>2, <2>7
<1>9. Before \in Seq(Char) /\ Cat(Before, <<>>) = Before
  <2>1. Before \in Seq(Char)
    BY TheWrapper DEF Before
  <2> QED
    BY <2>1, CatEmpty
<1>10. d = [in |-> "code", depth |-> 0, held |-> FALSE, nested |-> FALSE, live |-> Before]
  BY <1>4, <1>6, <1>7, <1>8 DEF State, Scanner
<1>11. d = Behindhand(Before, Scanner)
  BY <1>9, <1>10 DEF Behindhand, Scanner
<1> QED
  BY <1>11 DEF d

\* the text inside, as it is read alone,
LEMMA WrappedSame ==
  ASSUME NEW c \in Seq(Byte), NEW i \in 1..Len(c)
  PROVE  Same(Wrapped(c), 2 + i, c, i)
<1> DEFINE v == Wrapped(c)
           q == Len(c)
           j == i + 1
           k == 2 + i
<1>1. /\ Len(v) = q + 4 /\ v[q + 3] = Close /\ q \in Nat
      /\ \A m \in 1..q : v[2 + m] = c[m]
  BY WrappedIs
<1> HIDE DEF v
<1>2. v[k] = c[i] /\ k < Len(v) /\ k + 1 = 2 + j /\ i \in 1..q
  BY <1>1
<1>3. Close \notin {Slash, Star, Dash}
  BY TheWrapper
<1>4. ASSUME NEW x, NEW y \in {Slash, Star, Dash}
      PROVE  Two(v, k, x, y) <=> Two(c, i, x, y)
  <2>1. CASE i < q
    <3>1. j \in 1..q
      BY <1>1, <1>2, <2>1
    <3>2. v[k + 1] = c[j]
      BY <1>1, <1>2, <3>1
    <3> QED
      BY <1>2, <2>1, <3>2 DEF Two
  <2>2. CASE i >= q
    <3>1. ~Two(c, i, x, y)
      BY <1>1, <2>2 DEF Two
    <3>2. k + 1 = q + 3
      BY <1>1, <1>2, <2>2
    <3>3. v[k + 1] = Close
      BY <1>1, <3>2
    <3> HIDE DEF k
    <3>4. ~Two(v, k, x, y)
      BY <1>3, <1>4, <3>3 DEF Two
    <3> QED
      BY <3>1, <3>4
  <2> QED
    BY <1>1, <1>2, <2>1, <2>2
<1> HIDE DEF k
<1>5. Same(v, k, c, i)
  BY <1>2, <1>4 DEF Same
<1> QED
  BY <1>5 DEF v, k

\* as a whole,
LEMMA ScanInside ==
  ASSUME NEW c \in Seq(Byte), NEW p, Scans(p, Wrapped(c)), NEW h, Scans(h, c)
  PROVE  \A i \in 0..Len(c) : p[2 + i] = Behindhand(Before, h[i])
<1> DEFINE q == Len(c)
           v == Wrapped(c)
           N == {i \in Nat : i <= q => p[2 + i] = Behindhand(Before, h[i])}
<1>0. q \in Nat /\ v \in Seq(Byte) /\ Len(v) = q + 4 /\ Before \in Seq(Char)
  BY WrappedIs, TheWrapper DEF Before
<1>1. 0 \in N
  <2>1. 2 + 0 = 2 /\ h[0] = Scanner
    BY DEF Scans
  <2>2. p[2 + 0] = Behindhand(Before, h[0])
    BY <2>1, ScanBefore
  <2> QED
    BY <2>2
<1>2. ASSUME NEW i \in Nat, i \in N  PROVE i + 1 \in N
  <2> DEFINE j == i + 1
             k == 2 + j
             s == h[i]
             b == Behindhand(Before, s)
  <2> SUFFICES ASSUME j <= q  PROVE p[k] = Behindhand(Before, h[j])
    OBVIOUS
  <2>1. /\ j \in 1..q /\ j - 1 = i /\ i <= q /\ i \in 0..q
        /\ k \in 1..Len(v) /\ k - 1 = 2 + i
    BY <1>0
  <2>2. p[2 + i] = b
    BY <1>2, <2>1
  <2>3. s \in State
    BY <2>1, AlwaysSure DEF Sure, Steady
  <2>4. Same(v, k, c, j)
    BY <2>1, WrappedSame
  <2> HIDE DEF j, k, v
  <2>5. h[j] = Scan(c, s, j)
    BY <2>1 DEF Scans
  <2>6. p[k] = Scan(v, b, k)
    <3> HIDE DEF b
    <3>1. p[k] = Scan(v, p[k - 1], k)
      BY <2>1 DEF Scans, v
    <3> QED
      BY <2>1, <2>2, <3>1
  <2> HIDE DEF s
  <2>7. b \in State
    <3>1. Cat(Before, s.live) \in Seq(Char)
      BY <1>0, <2>3, CatIs DEF State
    <3> QED
      BY <2>3, <3>1 DEF Behindhand, State
  <2>8. Scan(v, b, k) = Scan(c, b, j)
    <3> HIDE DEF b
    <3> QED
      BY <2>4, <2>7, ScanSame
  <2>9. Scan(c, b, j) = Behindhand(Before, Scan(c, s, j))
    BY <1>0, <2>1, <2>3, ScanBehindhand
  <2> QED
    BY <2>5, <2>6, <2>8, <2>9
<1>3. Nat \subseteq N
  <2> HIDE DEF N
  <2> QED
    BY <1>1, <1>2, SetInduction
<1> QED
  BY <1>0, <1>3

\* and the wrapper's last two characters:
LEMMA LexWrapped ==
  ASSUME NEW c \in Seq(Byte), NEW h, Scans(h, c)
  PROVE  LET v == Wrapped(c)
             a == Behindhand(Before, h[Len(c)])
         IN Lex(v) = Scan(v, Scan(v, a, Len(c) + 3), Len(c) + 4)
<1> DEFINE q == Len(c)
           v == Wrapped(c)
           a == Behindhand(Before, h[q])
           x == q + 2
           y == q + 3
           z == q + 4
<1>1. v \in Seq(Byte) /\ Len(v) = z /\ q \in Nat
  BY WrappedIs
<1>2. x = 2 + q /\ y \in 1..z /\ z \in 1..z /\ y - 1 = x /\ z - 1 = y /\ q \in 0..q
  BY <1>1
<1>3. PICK p : Scans(p, v) /\ Lex(v) = p[z]
  BY <1>1, LexIs
<1>4. p[x] = a
  <2>1. p[2 + q] = a
    BY <1>2, <1>3, ScanInside
  <2> QED
    BY <1>2, <2>1
<1> HIDE DEF x, y, z
<1>5. p[y] = Scan(v, p[y - 1], y) /\ p[z] = Scan(v, p[z - 1], z)
  BY <1>1, <1>2, <1>3 DEF Scans
<1>6. Lex(v) = Scan(v, Scan(v, a, y), z)
  BY <1>2, <1>3, <1>4, <1>5
<1> QED
  BY <1>6 DEF y, z

\* in code they are read,
LEMMA ScanAfter ==
  ASSUME NEW c \in Seq(Byte), NEW h, Scans(h, c),
         h[Len(c)].in = "code", ~h[Len(c)].held
  PROVE  Live(Wrapped(c)) = Before \o h[Len(c)].live \o <<Close, Sub>>
<1> DEFINE q == Len(c)
           v == Wrapped(c)
           s == h[q]
           y == q + 3
           z == q + 4
           a == Behindhand(Before, s)
           b == Scan(v, a, y)
           d == Scan(v, b, z)
           base == Cat(Before, s.live)
<1>1. v[y] = Close /\ v[z] = Sub /\ q \in Nat /\ q \in 0..q
  BY WrappedIs
<1>2. s \in State /\ s.in = "code" /\ ~s.held
  BY <1>1, AlwaysSure DEF Sure, Steady
<1>3. Lex(v) = d
  BY LexWrapped
<1> HIDE DEF v, q, s, y, z
<1>4. Before \in Seq(Char) /\ s.live \in Seq(Char)
  BY <1>2, TheWrapper DEF Before, State
<1>5. base \in Seq(Char)
  BY <1>4, CatIs
<1>6. a \in State /\ ~a.held /\ a.in = "code" /\ a.live = base
  BY <1>2, <1>5 DEF Behindhand, State
<1> HIDE DEF a, base
<1>7. b \in State /\ b.in = "code" /\ ~b.held /\ b.live = Append(base, Close)
  BY <1>1, <1>6, ScanWrapper
<1> HIDE DEF b
<1>8. d.live = Append(Append(base, Close), Sub)
  BY <1>1, <1>7, ScanWrapper
<1>9. Append(Append(base, Close), Sub) = base \o <<Close, Sub>>
  BY <1>5, TheWrapper, AppendTwo
<1> QED
  BY <1>3, <1>8, <1>9 DEF Live, base, Cat, v, q, s

\* in a line comment they are not.
LEMMA LineAfter ==
  ASSUME NEW c \in Seq(Byte), NEW h, Scans(h, c),
         h[Len(c)].in = "line", ~h[Len(c)].held
  PROVE  Live(Wrapped(c)) = Cat(Before, h[Len(c)].live)
<1> DEFINE q == Len(c)
           v == Wrapped(c)
           s == h[q]
           y == q + 3
           z == q + 4
           a == Behindhand(Before, s)
           base == Cat(Before, s.live)
<1>1. v[y] = Close /\ v[z] = Sub /\ q \in Nat /\ q \in 0..q
  BY WrappedIs
<1>2. s \in State /\ s.in = "line" /\ ~s.held
  BY <1>1, AlwaysSure DEF Sure, Steady
<1>3. Lex(v) = Scan(v, Scan(v, a, y), z)
  BY LexWrapped
<1> HIDE DEF v, q, s, y, z
<1>4. Before \in Seq(Char) /\ s.live \in Seq(Char)
  BY <1>2, TheWrapper DEF Before, State
<1>5. base \in Seq(Char)
  BY <1>4, CatIs
<1>6. a \in State /\ ~a.held /\ a.in = "line" /\ a.live = base
  BY <1>2, <1>5 DEF Behindhand, State
<1> HIDE DEF a, base
<1>7. v[y] \notin {NewLine, Return} /\ v[z] \notin {NewLine, Return}
  BY <1>1 DEF Close, Sub, NewLine, Return
<1>8. Scan(v, a, y) = a /\ Scan(v, a, z) = a
  BY <1>6, <1>7, ScanLine
<1> QED
  BY <1>3, <1>6, <1>8 DEF Live, base, v, q, s

\* Behind the core no literal ends, and no block comment.
LEMMA StaysOpen ==
  ASSUME NEW u \in Seq(Byte), NEW g, Scans(g, u), NEW c, Cut(c, u),
         ~g[Len(c)].held, NEW where \in {"literal", "block"}, g[Len(c)].in = where
  PROVE  g[Len(u)].in = where
<1> DEFINE q == Len(c)
           n == Len(u)
           N == {k \in Nat : g[k].in = where /\ ~g[k].held}
<1>1. q \in Nat /\ n \in Nat /\ n \in q..n /\ q \in N
  BY DEF Cut
<1>2. ASSUME NEW k \in q..(n - 1), k \in N  PROVE k + 1 \in N
  <2> DEFINE j == k + 1
             s == g[k]
             x == u[j]
  <2>1. k \in Nat /\ k < Len(u) /\ j \in Nat /\ j \in 1..n /\ j > q /\ k \in 0..Len(u)
    BY <1>1
  <2>2. g[j] = Scan(u, s, j)
    BY <2>1, ScansOn
  <2>3. s \in State /\ s.in = where /\ ~s.held
    BY <1>2, <2>1, AlwaysSure DEF Sure, Steady
  <2>4. x \in PgWhite \cup {Semicolon} /\ x \in Byte
    BY <2>1 DEF Cut
  <2> HIDE DEF j, s, x
  <2>5. x \notin {Slash, Star, Quote}
    BY <2>4 DEF PgWhite, Semicolon, Blank, Slash, Star, Quote
  <2>6. g[j].in = where /\ ~g[j].held
    <3>1. CASE where = "literal"
      BY <2>2, <2>3, <2>4, <2>5, <3>1, ScanLiteral DEF x
    <3>2. CASE where = "block"
      <4>1. ~Two(u, j, Slash, Star) /\ ~Two(u, j, Star, Slash)
        BY <2>5 DEF Two, x
      <4>2. g[j] = s
        BY <2>2, <2>3, <3>2, <4>1, ScanBlock
      <4> QED
        BY <2>3, <4>2
    <3> QED
      BY <3>1, <3>2
  <2> QED
    BY <2>1, <2>6 DEF j
<1> HIDE DEF N, n, q
<1>3. \A k \in q..n : k \in N
  BY <1>1, <1>2, RangeInduction
<1> QED
  BY <1>1, <1>3 DEF N, n

-----------------------------------------------------------------------------
\* Parentheses.

\* f[i] is how many parentheses are open behind i characters.
Depths(f, live) ==
    /\ f[0] = 0
    /\ \A i \in 1..Len(live) : f[i] = f[i - 1] + Opens(live[i])

\* Matched counts them.
LEMMA MatchedIs ==
  ASSUME NEW S, NEW live \in Seq(S), Matched(live)
  PROVE  \E f : /\ Depths(f, live)
                /\ \A i \in 1..Len(live) : /\ f[i] >= 0
                                           /\ live[i] = Terminator => f[i] = 0
                /\ f[Len(live)] = 0
<1> DEFINE n == Len(live)
           Is(d) == d = [i \in 0..n |-> IF i = 0 THEN 0 ELSE d[i - 1] + Opens(live[i])]
           Sound(f, m) == /\ f = [i \in 0..n |-> f[i]] /\ f[0] = 0
                          /\ \A i \in 1..n : i <= m => f[i] = f[i - 1] + Opens(live[i])
           N == {m \in Nat : \E f : Sound(f, m)}
           depth == Depth(live)
<1>1. /\ \A i \in 1..n : /\ depth[i] >= 0
                         /\ live[i] = Terminator => depth[i] = 0
      /\ depth[n] = 0
  <2>1. /\ \A i \in DOMAIN live :
              /\ depth[i] >= 0
              /\ live[i] = Terminator => depth[i] = 0
        /\ depth[Len(live)] = 0
    BY DEF Matched
  <2> HIDE DEF depth
  <2>2. DOMAIN live = 1..n
    OBVIOUS
  <2> QED
    BY <2>1, <2>2
<1>2. n \in Nat
  OBVIOUS
<1> HIDE DEF n
<1>3. 0 \in N
  <2> DEFINE f == [i \in 0..n |-> 0]
  <2>1. f = [i \in 0..n |-> f[i]] /\ f[0] = 0
    BY <1>2
  <2> HIDE DEF f
  <2>2. Sound(f, 0)
    BY <2>1
  <2> QED
    BY <2>2
<1>4. ASSUME NEW m \in Nat, m \in N  PROVE m + 1 \in N
  <2> PICK f : Sound(f, m)
    BY <1>4
  <2> DEFINE new == f[m] + Opens(live[m + 1])
             g == [i \in 0..n |-> IF i = m + 1 THEN new ELSE f[i]]
  <2>1. g = [i \in 0..n |-> g[i]] /\ \A i \in 0..n : g[i] = IF i = m + 1 THEN new ELSE f[i]
    OBVIOUS
  <2> HIDE DEF g
  <2>2. g[0] = 0
    BY <1>2, <2>1
  <2>3. ASSUME NEW i \in 1..n, i <= m + 1  PROVE g[i] = g[i - 1] + Opens(live[i])
    <3> DEFINE j == i - 1
    <3>1. j \in 0..n /\ i \in 0..n /\ j # m + 1 /\ (i = m + 1 => j = m)
      BY <1>2, <2>3
    <3> HIDE DEF j
    <3>2. g[j] = f[j]
      BY <2>1, <3>1
    <3>3. CASE i = m + 1
      BY <2>1, <3>1, <3>2, <3>3 DEF j
    <3>4. CASE i # m + 1
      <4>1. i <= m
        BY <1>2, <2>3, <3>4
      <4>2. f[i] = f[j] + Opens(live[i])
        BY <4>1 DEF j
      <4> QED
        BY <2>1, <3>1, <3>2, <3>4, <4>2 DEF j
    <3> QED
      BY <3>3, <3>4
  <2>4. Sound(g, m + 1)
    BY <2>1, <2>2, <2>3
  <2> HIDE DEF Sound
  <2> QED
    BY <2>4
<1>5. n \in N
  <2> HIDE DEF N
  <2> QED
    BY <1>2, <1>3, <1>4, SetInduction
<1>6. PICK f : Sound(f, n)
  BY <1>5
<1>7. \A i \in 0..n : f[i] = IF i = 0 THEN 0 ELSE f[i - 1] + Opens(live[i])
  <2> SUFFICES ASSUME NEW i \in 0..n, i # 0  PROVE f[i] = f[i - 1] + Opens(live[i])
    BY <1>6
  <2>1. i \in 1..n /\ i <= n
    BY <1>2
  <2> QED
    BY <1>6, <2>1
<1>8. Is(f)
  BY <1>6, <1>7
<1>9. Is(depth)
  <2>1. depth = CHOOSE d : Is(d)
    BY DEF Depth, n
  <2> HIDE DEF Is, depth
  <2> QED
    BY <1>8, <2>1
<1> HIDE DEF depth
<1>10. depth[0] = 0 /\ \A i \in 1..n : depth[i] = depth[i - 1] + Opens(live[i])
  <2>1. \A i \in 0..n : depth[i] = IF i = 0 THEN 0 ELSE depth[i - 1] + Opens(live[i])
    BY <1>9
  <2>2. 0 \in 0..n /\ \A i \in 1..n : i \in 0..n /\ i # 0
    BY <1>2
  <2> QED
    BY <2>1, <2>2
<1>11. Depths(depth, live)
  BY <1>10 DEF Depths, n
<1> QED
  BY <1>1, <1>11 DEF n

\* Behind the wrapper's own, one more is open than in the text alone.
LEMMA OneDeeper ==
  ASSUME NEW l \in Seq(Char), NEW m, Extends(m, l), NEW w, Extends(w, Cat(Before, l)),
         NEW e, Depths(e, w), NEW f, Depths(f, m)
  PROVE  \A i \in 0..Len(l) : f[i] \in Int /\ e[2 + i] = 1 + f[i]
<1> DEFINE n == Len(l)
           pre == Before
           b == Cat(pre, l)
<1>1. /\ n \in Nat /\ pre \in Seq(Char) /\ Len(pre) = 2 /\ pre[1] = Select /\ pre[2] = Open
  BY TheWrapper DEF Before
<1> HIDE DEF pre
<1>2. b \in Seq(Char) /\ Len(b) = 2 + n
  BY <1>1, CatIs
<1>3. b[1] = Select /\ b[2] = Open
  <2>1. ASSUME NEW i \in 1..Len(pre)  PROVE b[i] = pre[i]
    BY <1>1, CatLeft
  <2> HIDE DEF b
  <2>2. 1 \in 1..Len(pre) /\ 2 \in 1..Len(pre)
    BY <1>1
  <2> QED
    BY <1>1, <2>1, <2>2
<1>4. \A i \in 1..n : b[2 + i] = l[i]
  <2>1. ASSUME NEW i \in 1..Len(l)  PROVE b[Len(pre) + i] = l[i]
    <3>1. pre \in Seq(Char)
      BY <1>1
    <3> QED
      BY <3>1, CatRight
  <2> HIDE DEF b
  <2> QED
    BY <1>1, <2>1
<1>5. Extends(w, b)
  BY DEF pre
<1> HIDE DEF b
<1>6. /\ Len(w) \in Nat /\ 2 + n <= Len(w) /\ w[1] = Select /\ w[2] = Open
      /\ \A i \in 1..n : w[2 + i] = l[i]
  <2>1. \A i \in 1..Len(b) : w[i] = b[i]
    BY <1>5 DEF Extends
  <2>2. 1 \in 1..Len(b) /\ 2 \in 1..Len(b) /\ \A i \in 1..n : 2 + i \in 1..Len(b)
    BY <1>1, <1>2
  <2>3. Len(w) \in Nat /\ 2 + n <= Len(w)
    BY <1>2, <1>5 DEF Extends
  <2> QED
    BY <1>3, <1>4, <2>1, <2>2, <2>3
<1>7. Len(m) \in Nat /\ n <= Len(m) /\ \A i \in 1..n : m[i] = l[i]
  BY DEF Extends
<1> DEFINE N == {i \in Nat : f[i] \in Int /\ e[2 + i] = 1 + f[i]}
<1>8. 0 \in N
  <2>1. 1 \in 1..Len(w) /\ 2 \in 1..Len(w)
    BY <1>1, <1>6
  <2>2. e[0] = 0 /\ e[1] = e[1 - 1] + Opens(w[1]) /\ e[2] = e[2 - 1] + Opens(w[2])
    BY <2>1 DEF Depths
  <2>3. Opens(Select) = 0 /\ Opens(Open) = 1
    BY DEF Opens, Select, Open, Close
  <2>4. e[2] = 1 /\ f[0] = 0
    BY <1>6, <2>2, <2>3 DEF Depths
  <2> QED
    BY <2>4
<1>9. ASSUME NEW i \in 0..(n - 1), i \in N  PROVE i + 1 \in N
  <2> DEFINE j == i + 1
             k == 2 + j
             x == l[j]
  <2>1. /\ j \in 1..n /\ j - 1 = i /\ j \in 1..Len(m) /\ k \in 1..Len(w)
        /\ k - 1 = 2 + i /\ j \in Nat
    BY <1>1, <1>6, <1>7
  <2>2. Opens(x) \in Int
    BY DEF Opens
  <2>3. f[i] \in Int /\ e[2 + i] = 1 + f[i]
    BY <1>9
  <2>4. m[j] = x /\ w[k] = x
    BY <1>6, <1>7, <2>1
  <2> HIDE DEF j, k, x
  <2>5. f[j] = f[j - 1] + Opens(m[j]) /\ e[k] = e[k - 1] + Opens(w[k])
    BY <2>1 DEF Depths
  <2>6. f[j] \in Int /\ e[k] = 1 + f[j]
    BY <2>1, <2>2, <2>3, <2>4, <2>5
  <2> QED
    BY <2>1, <2>6 DEF j, k
<1> HIDE DEF N, n
<1>10. \A i \in 0..n : i \in N
  BY <1>1, <1>8, <1>9, RangeInduction
<1> QED
  BY <1>10 DEF N, n

\* So no statement ends in the text, and it does not close the wrapper's own,
\* if its parentheses match alone and in the wrapper.
LEMMA StaysInside ==
  ASSUME NEW l \in Seq(Char), NEW m, Extends(m, l), NEW w, Extends(w, Cat(Before, l)),
         Matched(m), Matched(w)
  PROVE  Unended(l) /\ Len(w) # 2 + Len(l)
<1>1. m \in Seq(Char) /\ w \in Seq(Char)
  BY DEF Extends
<1>2. PICK f : /\ Depths(f, m)
               /\ \A i \in 1..Len(m) : f[i] >= 0
  BY <1>1, MatchedIs
<1>3. PICK e : /\ Depths(e, w)
               /\ \A i \in 1..Len(w) : w[i] = Terminator => e[i] = 0
               /\ e[Len(w)] = 0
  BY <1>1, MatchedIs
<1> DEFINE n == Len(l)
<1>4. \A i \in 0..n : f[i] \in Int /\ e[2 + i] = 1 + f[i]
  BY <1>2, <1>3, OneDeeper
<1>5. n \in Nat /\ n <= Len(m) /\ Len(m) \in Nat
  BY <1>1 DEF Extends
<1> HIDE DEF n
<1>6. ASSUME NEW i \in 0..n  PROVE e[2 + i] # 0
  <2>1. f[i] >= 0
    <3>1. CASE i = 0
      BY <1>2, <3>1 DEF Depths
    <3>2. CASE i # 0
      <4>1. i \in 1..Len(m)
        BY <1>5, <3>2
      <4> QED
        BY <1>2, <4>1
    <3> QED
      BY <3>1, <3>2
  <2> QED
    BY <1>4, <2>1
<1>7. Unended(l)
  <2> SUFFICES ASSUME NEW i \in 1..n, l[i] = Terminator  PROVE FALSE
    BY DEF Unended, n
  <2> DEFINE pre == Before
             b == Cat(pre, l)
             k == 2 + i
  <2>1. pre \in Seq(Char) /\ Len(pre) = 2
    BY TheWrapper DEF Before
  <2>2. Extends(w, b)
    OBVIOUS
  <2> HIDE DEF pre
  <2>3. b[Len(pre) + i] = l[i]
    <3>1. i \in 1..Len(l)
      BY DEF n
    <3>2. pre \in Seq(Char)
      BY <2>1
    <3> QED
      BY <3>1, <3>2, CatRight
  <2>7. Len(b) = Len(pre) + n
    BY <2>1, CatIs DEF n
  <2> HIDE DEF b
  <2>4. k \in 1..Len(b) /\ b[k] = Terminator /\ i \in 0..n
    BY <1>5, <2>1, <2>3, <2>7
  <2>5. k \in 1..Len(w) /\ w[k] = Terminator
    BY <1>1, <2>2, <2>4 DEF Extends
  <2> HIDE DEF k
  <2>6. e[k] = 0
    BY <1>3, <2>5
  <2> QED
    BY <1>6, <2>4, <2>6 DEF k
<1>8. Len(w) # 2 + n
  <2>1. n \in 0..n
    BY <1>5
  <2>2. e[2 + n] # 0
    BY <1>6, <2>1
  <2> QED
    BY <1>3, <2>2
<1> QED
  BY <1>7, <1>8 DEF n

\* What is previewed is what will be executed.
LEMMA PreviewIs ==
  ASSUME NEW t \in Seq(Byte), ValidateQuery(t) = "ok", PlainEnds(t),
         Readable(t), Readable(WrapQuery(t))
  PROVE  Live(WrapQuery(t)) = <<Select, Open>> \o Statement(t) \o <<Close, Sub>>
<1> DEFINE c == Trim(TrimSemicolons(Trim(t)))
           q == Len(c)
<1>1. Trim(t) # <<>> /\ Trim(t)[1] # Semicolon
  BY AcceptedFirst
<1>2. PICK u \in Seq(Byte), a \in Nat :
          Heads(Trim(t), u) /\ Lex(u) = Lex(t) /\ Behind(u, t, a)
  BY <1>1, PlainEndsLeads, HeadIs
<1>3. Cut(c, u)
  BY <1>1, <1>2, CutIs
<1>4. WrapQuery(t) = Wrapped(c)
  BY DEF WrapQuery, Wrapped, Before
<1> HIDE DEF c
<1> DEFINE m == Len(u)
<1>5. c \in Seq(Byte) /\ q \in Nat /\ q <= m /\ q \in 0..m /\ q \in 0..q
  BY <1>3 DEF Cut
<1>6. PICK g : Scans(g, u) /\ Lex(u) = g[m]
  BY <1>2, LexIs
<1>7. PICK h : Scans(h, c)
  BY <1>5, LexIs
<1> DEFINE s == h[q]
           live == s.live
<1>8. s = g[q]
  BY <1>2, <1>3, <1>5, <1>6, <1>7, CutScan
<1>9. s \in State /\ ~s.held
  <2>1. Sure(c, q, s)
    BY <1>5, <1>7, AlwaysSure
  <2> HIDE DEF s
  <2> QED
    BY <1>5, <2>1 DEF Sure, Steady
<1>10. live \in Seq(Char) /\ s.in \in Places
  <2> HIDE DEF s
  <2> QED
    BY <1>9 DEF State
<1>11. Live(t) = g[m].live /\ Extends(Live(t), live) /\ Matched(Live(t))
  BY <1>2, <1>5, <1>6, <1>8, LiveGrows DEF Live, Readable
<1>12. Matched(Live(Wrapped(c)))
  BY <1>4 DEF Readable
<1>13. s.in \notin {"literal", "block"}
  <2> SUFFICES ASSUME s.in \in {"literal", "block"}  PROVE FALSE
    OBVIOUS
  <2>1. g[m].in = s.in
    BY <1>2, <1>3, <1>6, <1>8, <1>9, StaysOpen
  <2> QED
    BY <1>2, <1>6, <2>1 DEF Readable, Ends
<1>14. s.in # "line"
  <2> SUFFICES ASSUME s.in = "line"  PROVE FALSE
    OBVIOUS
  <2> DEFINE w == Cat(Before, live)
  <2>1. Live(Wrapped(c)) = w
    BY <1>5, <1>7, <1>9, LineAfter
  <2>2. Before \in Seq(Char) /\ Len(Before) = 2
    BY TheWrapper DEF Before
  <2>3. w \in Seq(Char) /\ Len(w) = 2 + Len(live) /\ Len(w) \in Nat
    <3> HIDE DEF live
    <3>1. w \in Seq(Char) /\ Len(w) = Len(Before) + Len(live)
      BY <1>10, <2>2, CatIs
    <3> QED
      BY <2>2, <3>1
  <2>4. Extends(w, w)
    BY <2>3 DEF Extends
  <2> HIDE DEF w, live
  <2> QED
    BY <1>10, <1>11, <1>12, <2>1, <2>3, <2>4, StaysInside DEF w
<1>15. s.in = "code"
  BY <1>10, <1>13, <1>14 DEF Places
<1> DEFINE w == Before \o live \o <<Close, Sub>>
<1>16. Live(Wrapped(c)) = w
  BY <1>5, <1>7, <1>9, <1>15, ScanAfter
<1>17. Extends(w, Cat(Before, live))
  <2> DEFINE b == Cat(Before, live)
             end == <<Close, Sub>>
  <2>1. Before \in Seq(Char) /\ end \in Seq(Char)
    BY TheWrapper DEF Before
  <2> HIDE DEF live
  <2>2. b \in Seq(Char)
    BY <1>10, <2>1, CatIs
  <2>3. w = Cat(b, end)
    BY DEF Cat
  <2> HIDE DEF b, end, w
  <2>4. w \in Seq(Char) /\ Len(w) = Len(b) + Len(end) /\ \A i \in 1..Len(b) : w[i] = b[i]
    BY <2>1, <2>2, <2>3, CatIs, CatLeft
  <2>5. Extends(w, b)
    BY <2>1, <2>2, <2>4 DEF Extends
  <2> QED
    BY <2>5 DEF b
<1> HIDE DEF w
<1>18. Unended(live)
  <2> HIDE DEF live
  <2> QED
    BY <1>10, <1>11, <1>12, <1>16, <1>17, StaysInside
<1>19. Ended(Live(t), live)
  BY <1>2, <1>3, <1>6, <1>8, <1>11, <1>15, ScanEnd
<1>20. Statement(t) = live
  <2> DEFINE all == Live(t)
  <2>1. Ended(all, live)
    BY <1>19
  <2>2. Statement(t) = SubSeq(all, 1, Max({0} \cup {i \in DOMAIN all : all[i] # Terminator}))
    BY DEF Statement
  <2> HIDE DEF live, all
  <2> QED
    BY <1>10, <1>18, <2>1, <2>2, EndedIs
<1> QED
  BY <1>4, <1>16, <1>20 DEF w, Before
=============================================================================
