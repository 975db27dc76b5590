------------------------- MODULE SubmissionProofs ---------------------------
(***************************************************************************)
(* A submission, for any text: what is stored came whole and is what was   *)
(* typed, and a cell shows the value that came back.                       *)
(***************************************************************************)
EXTENDS Submission, QueryProofs

\* The cell.

\* Nothing is replaced in an empty text.
LEMMA ReplaceEmpty ==
  ASSUME NEW old, NEW new
  PROVE  Replace(<<>>, old, new) = <<>>
<1>1. [k \in DOMAIN <<>> |-> IF <<>>[k] = old THEN new ELSE <<<<>>[k]>>] = <<>>
  OBVIOUS
<1> QED
  BY <1>1, FlattenEmpty DEF Replace

\* What Replace puts in the place of each character of S.
Images(S, old, new) == [x \in S |-> IF x = old THEN new ELSE <<x>>]

\* Replace character by character.
LEMMA ReplaceIs ==
  ASSUME NEW S, NEW old, NEW new \in Seq(S)
  PROVE  /\ Maps(Images(S, old, new), S, Seq(S))
         /\ \A t \in Seq(S) :
                Replace(t, old, new) = FlattenSeq(Image(t, Images(S, old, new)))
<1>1. \A x \in S : (IF x = old THEN new ELSE <<x>>) \in Seq(S)
  BY Single
<1>2. ASSUME NEW t \in Seq(S)
      PROVE  Replace(t, old, new) = FlattenSeq(Image(t, Images(S, old, new)))
  <2>1. \A k \in DOMAIN t : t[k] \in S
    OBVIOUS
  <2>2. Image(t, Images(S, old, new))
            = [k \in DOMAIN t |-> IF t[k] = old THEN new ELSE <<t[k]>>]
    BY <2>1 DEF Image, Images
  <2> QED
    BY <2>2 DEF Replace
<1> QED
  BY <1>1, <1>2 DEF Images, Maps

\* Replace makes texts of texts.
LEMMA ReplaceType ==
  ASSUME NEW S, NEW t \in Seq(S), NEW old, NEW new \in Seq(S)
  PROVE  Replace(t, old, new) \in Seq(S)
<1> DEFINE img == Images(S, old, new)
<1>1. Maps(img, S, Seq(S)) /\ Replace(t, old, new) = FlattenSeq(Image(t, img))
  BY ReplaceIs
<1> HIDE DEF img
<1>2. Image(t, img) \in Seq(Seq(S))
  BY <1>1, ImageType
<1> QED
  BY <1>1, <1>2, FlattenType

\* Replace treats the first character, then the rest.
LEMMA ReplaceCons ==
  ASSUME NEW S, NEW c \in S, NEW t \in Seq(S), NEW old, NEW new \in Seq(S)
  PROVE  Replace(Cons(c, t), old, new) =
             IF c = old THEN Cat(new, Replace(t, old, new))
             ELSE Cons(c, Replace(t, old, new))
<1> DEFINE img == Images(S, old, new)
           u == Cons(c, t)
<1>1. u \in Seq(S)
  BY ConsIs
<1>2. /\ Maps(img, S, Seq(S))
      /\ Replace(t, old, new) = FlattenSeq(Image(t, img))
      /\ Replace(u, old, new) = FlattenSeq(Image(u, img))
  BY <1>1, ReplaceIs
<1> DEFINE first == img[c]
<1>3. first = IF c = old THEN new ELSE <<c>>
  BY DEF Images
<1>4. Image(t, img) \in Seq(Seq(S)) /\ first \in Seq(S)
  BY <1>2, <1>3, ImageType, Single
<1> HIDE DEF img
<1>5. Image(u, img) = Cons(first, Image(t, img))
  <2>1. Maps(img, S, Seq(S)) /\ first = img[c]
    BY <1>2
  <2> HIDE DEF first
  <2> QED
    BY <2>1, ImageCons
<1> HIDE DEF first
<1>6. FlattenSeq(Image(u, img)) = Cat(first, FlattenSeq(Image(t, img)))
  BY <1>4, <1>5, FlattenCons
<1>7. Replace(u, old, new) = Cat(first, Replace(t, old, new))
  BY <1>2, <1>6
<1> QED
  BY <1>3, <1>7 DEF Cons, Cat

\* The characters that the cell and its reader treat on their own, named for
\* the provers.
Et == "&"
Less == "<"
More == ">"
Cite == "\""
AmpName == "amp;"
LtName == "lt;"
GtName == "gt;"
QuotName == "quot;"

Signs == {Et, Less, More, Cite}
Names == {AmpName, LtName, GtName, QuotName}

\* None of them is another.
LEMMA SignsDiffer ==
  /\ Et # Less /\ Et # More /\ Et # Cite /\ Less # More /\ Less # Cite /\ More # Cite
  /\ \A s \in Signs, n \in Names : s # n
  BY DEF Signs, Names, Et, Less, More, Cite, AmpName, LtName, GtName, QuotName

Amp == <<Et, AmpName>>
Lt == <<Et, LtName>>
Gt == <<Et, GtName>>
Quot == <<Et, QuotName>>

\* A text of two characters, put before a text.
LEMMA PairIs ==
  ASSUME NEW S, NEW a \in S, NEW b \in S, NEW t \in Seq(S)
  PROVE  <<a, b>> \in Seq(S) /\ Cat(<<a, b>>, t) = Cons(a, Cons(b, t))
<1> DEFINE one == <<b>>
           both == <<a, b>>
           p == Cons(a, one)
<1>1. one \in Seq(S) /\ Len(one) = 1 /\ one[1] = b
  BY Single
<1>2. both \in Seq(S) /\ Len(both) = 2 /\ both[1] = a /\ both[2] = b
  OBVIOUS
<1> HIDE DEF one, both
<1>3. p \in Seq(S) /\ Len(p) = Len(one) + 1 /\ p[1] = a
  BY <1>1, ConsIs
<1>4. p[2] = b
  <2>1. 1 \in 1..Len(one) /\ 1 + 1 = 2
    BY <1>1
  <2>2. \A i \in 1..Len(one) : p[i + 1] = one[i]
    BY <1>1, ConsRest
  <2> QED
    BY <1>1, <2>1, <2>2
<1> HIDE DEF p
<1>5. \A i \in 1..Len(both) : both[i] = p[i]
  <2>1. \A i \in 1..2 : i = 1 \/ i = 2
    OBVIOUS
  <2> QED
    BY <1>1, <1>2, <1>3, <1>4, <2>1
<1>6. both = p
  BY <1>1, <1>2, <1>3, <1>5, SeqEqual
<1> DEFINE first == <<a>>
<1>7. first \in Seq(S)
  BY Single
<1>8. p = Cat(first, one)
  BY DEF p, Cons, Cat, first
<1>9. Cat(first, Cat(one, t)) = Cons(a, Cons(b, t))
  BY DEF Cons, Cat, first, one
<1> HIDE DEF first
<1>10. Cat(Cat(first, one), t) = Cat(first, Cat(one, t))
  BY <1>1, <1>7, CatAssociative
<1> QED
  BY <1>2, <1>6, <1>8, <1>9, <1>10 DEF both

\* A character that is not looked for stays.
LEMMA ReplaceOther ==
  ASSUME NEW S, NEW c \in S, NEW t \in Seq(S), NEW old, NEW new \in Seq(S), c # old
  PROVE  Replace(Cons(c, t), old, new) = Cons(c, Replace(t, old, new))
  BY ReplaceCons

\* Two characters that are not looked for stay.
LEMMA ReplacePair ==
  ASSUME NEW S, NEW a \in S, NEW b \in S, NEW t \in Seq(S), NEW old, NEW new \in Seq(S),
         a # old, b # old
  PROVE  Replace(Cons(a, Cons(b, t)), old, new) = Cons(a, Cons(b, Replace(t, old, new)))
<1>1. Cons(b, t) \in Seq(S)
  BY ConsIs
<1> QED
  BY <1>1, ReplaceOther

\* A character that is looked for is replaced,
LEMMA ReplaceHit ==
  ASSUME NEW S, NEW old \in S, NEW t \in Seq(S), NEW new \in Seq(S)
  PROVE  Replace(Cons(old, t), old, new) = Cat(new, Replace(t, old, new))
  BY ReplaceCons

\* here by two characters.
LEMMA ReplaceIt ==
  ASSUME NEW S, NEW old \in S, NEW a \in S, NEW b \in S, NEW t \in Seq(S),
         NEW new, new = <<a, b>>
  PROVE  Replace(Cons(old, t), old, new) = Cons(a, Cons(b, Replace(t, old, new)))
<1>1. new \in Seq(S)
  BY PairIs
<1> DEFINE r == Replace(t, old, new)
<1>2. r \in Seq(S)
  BY <1>1, ReplaceType
<1>3. Replace(Cons(old, t), old, new) = Cat(new, r)
  BY <1>1, ReplaceHit
<1> HIDE DEF r
<1>4. Cat(<<a, b>>, r) = Cons(a, Cons(b, r))
  BY <1>2, PairIs
<1> QED
  BY <1>3, <1>4 DEF r

\* HtmlEscape with the names below.
LEMMA EscapeIs ==
  ASSUME NEW t
  PROVE  HtmlEscape(t) = Replace(Replace(Replace(Replace(t, Et, Amp), Less, Lt),
                                         More, Gt), Cite, Quot)
  BY DEF HtmlEscape, Amp, Lt, Gt, Quot, Et, Less, More, Cite,
         AmpName, LtName, GtName, QuotName

\* The name of the entity for c.
NameOf(c) == IF c = Et THEN AmpName ELSE IF c = Less THEN LtName
             ELSE IF c = More THEN GtName ELSE QuotName

\* Four passes of replace() come to one, character by character.
LEMMA EscapeCons ==
  ASSUME NEW S, Signs \cup Names \subseteq S, NEW c \in S, NEW t \in Seq(S)
  PROVE  /\ HtmlEscape(t) \in Seq(S)
         /\ HtmlEscape(Cons(c, t)) =
                IF c \in Signs THEN Cons(Et, Cons(NameOf(c), HtmlEscape(t)))
                ELSE Cons(c, HtmlEscape(t))
<1> DEFINE r1 == Replace(t, Et, Amp)
           r2 == Replace(r1, Less, Lt)
           r3 == Replace(r2, More, Gt)
           r4 == Replace(r3, Cite, Quot)
<1>1. /\ Et \in S /\ Less \in S /\ More \in S /\ Cite \in S
      /\ AmpName \in S /\ LtName \in S /\ GtName \in S /\ QuotName \in S
  BY DEF Signs, Names
<1>2. /\ Et # Less /\ Et # More /\ Et # Cite
      /\ Less # More /\ Less # Cite /\ More # Cite
  BY SignsDiffer
<1>3. /\ AmpName # Less /\ AmpName # More /\ AmpName # Cite
      /\ LtName # More /\ LtName # Cite /\ GtName # Cite
  BY SignsDiffer DEF Signs, Names
<1>4. Amp \in Seq(S) /\ Lt \in Seq(S) /\ Gt \in Seq(S) /\ Quot \in Seq(S)
  BY <1>1, PairIs DEF Amp, Lt, Gt, Quot
<1>5. r1 \in Seq(S)
  BY <1>4, ReplaceType
<1>6. HtmlEscape(t) = r4
  BY EscapeIs
<1> HIDE DEF r1
<1>7. r2 \in Seq(S)
  BY <1>4, <1>5, ReplaceType
<1> HIDE DEF r2
<1>8. r3 \in Seq(S)
  BY <1>4, <1>7, ReplaceType
<1> HIDE DEF r3
<1>9. r4 \in Seq(S)
  BY <1>4, <1>8, ReplaceType
<1> HIDE DEF r4
<1>10. CASE c = Et
  <2>1. Replace(Cons(Et, t), Et, Amp) = Cons(Et, Cons(AmpName, r1))
    BY <1>1, ReplaceIt DEF Amp, r1
  <2>2. Replace(Cons(Et, Cons(AmpName, r1)), Less, Lt) = Cons(Et, Cons(AmpName, r2))
    BY <1>1, <1>2, <1>3, <1>4, <1>5, ReplacePair DEF r2
  <2>3. Replace(Cons(Et, Cons(AmpName, r2)), More, Gt) = Cons(Et, Cons(AmpName, r3))
    BY <1>1, <1>2, <1>3, <1>4, <1>7, ReplacePair DEF r3
  <2>4. Replace(Cons(Et, Cons(AmpName, r3)), Cite, Quot) = Cons(Et, Cons(AmpName, r4))
    BY <1>1, <1>2, <1>3, <1>4, <1>8, ReplacePair DEF r4
  <2> QED
    BY <1>6, <1>9, <1>10, <2>1, <2>2, <2>3, <2>4, EscapeIs DEF NameOf, Signs
<1>11. CASE c = Less
  <2>1. Replace(Cons(Less, t), Et, Amp) = Cons(Less, r1)
    BY <1>1, <1>2, <1>4, ReplaceOther DEF r1
  <2>2. Replace(Cons(Less, r1), Less, Lt) = Cons(Et, Cons(LtName, r2))
    BY <1>1, <1>5, ReplaceIt DEF Lt, r2
  <2>3. Replace(Cons(Et, Cons(LtName, r2)), More, Gt) = Cons(Et, Cons(LtName, r3))
    BY <1>1, <1>2, <1>3, <1>4, <1>7, ReplacePair DEF r3
  <2>4. Replace(Cons(Et, Cons(LtName, r3)), Cite, Quot) = Cons(Et, Cons(LtName, r4))
    BY <1>1, <1>2, <1>3, <1>4, <1>8, ReplacePair DEF r4
  <2> QED
    BY <1>2, <1>6, <1>9, <1>11, <2>1, <2>2, <2>3, <2>4, EscapeIs DEF NameOf, Signs
<1>12. CASE c = More
  <2>1. Replace(Cons(More, t), Et, Amp) = Cons(More, r1)
    BY <1>1, <1>2, <1>4, ReplaceOther DEF r1
  <2>2. Replace(Cons(More, r1), Less, Lt) = Cons(More, r2)
    BY <1>1, <1>2, <1>4, <1>5, ReplaceOther DEF r2
  <2>3. Replace(Cons(More, r2), More, Gt) = Cons(Et, Cons(GtName, r3))
    BY <1>1, <1>7, ReplaceIt DEF Gt, r3
  <2>4. Replace(Cons(Et, Cons(GtName, r3)), Cite, Quot) = Cons(Et, Cons(GtName, r4))
    BY <1>1, <1>2, <1>3, <1>4, <1>8, ReplacePair DEF r4
  <2> QED
    BY <1>2, <1>6, <1>9, <1>12, <2>1, <2>2, <2>3, <2>4, EscapeIs DEF NameOf, Signs
<1>13. CASE c = Cite
  <2>1. Replace(Cons(Cite, t), Et, Amp) = Cons(Cite, r1)
    BY <1>1, <1>2, <1>4, ReplaceOther DEF r1
  <2>2. Replace(Cons(Cite, r1), Less, Lt) = Cons(Cite, r2)
    BY <1>1, <1>2, <1>4, <1>5, ReplaceOther DEF r2
  <2>3. Replace(Cons(Cite, r2), More, Gt) = Cons(Cite, r3)
    BY <1>1, <1>2, <1>4, <1>7, ReplaceOther DEF r3
  <2>4. Replace(Cons(Cite, r3), Cite, Quot) = Cons(Et, Cons(QuotName, r4))
    BY <1>1, <1>8, ReplaceIt DEF Quot, r4
  <2> QED
    BY <1>2, <1>6, <1>9, <1>13, <2>1, <2>2, <2>3, <2>4, EscapeIs DEF NameOf, Signs
<1>14. CASE c \notin Signs
  <2>0. c # Et /\ c # Less /\ c # More /\ c # Cite
    BY <1>14 DEF Signs
  <2>1. Replace(Cons(c, t), Et, Amp) = Cons(c, r1)
    BY <1>4, <2>0, ReplaceOther DEF r1
  <2>2. Replace(Cons(c, r1), Less, Lt) = Cons(c, r2)
    BY <1>4, <1>5, <2>0, ReplaceOther DEF r2
  <2>3. Replace(Cons(c, r2), More, Gt) = Cons(c, r3)
    BY <1>4, <1>7, <2>0, ReplaceOther DEF r3
  <2>4. Replace(Cons(c, r3), Cite, Quot) = Cons(c, r4)
    BY <1>4, <1>8, <2>0, ReplaceOther DEF r4
  <2> QED
    BY <1>6, <1>9, <1>14, <2>1, <2>2, <2>3, <2>4, EscapeIs
<1> QED
  BY <1>10, <1>11, <1>12, <1>13, <1>14 DEF Signs

-----------------------------------------------------------------------------
\* What the browser shows.

Shows(h) == [i \in 1..Len(h) |-> Shown(h, i)]
Afters(h) == [i \in 1..Len(h) |-> After(h, i)]

\* The browser reads on to the right.
LEMMA AftersForward ==
  ASSUME NEW S, NEW h \in Seq(S)
  PROVE  Forward(Len(h), Afters(h))
<1> SUFFICES ASSUME NEW i \in 1..Len(h)
             PROVE  After(h, i) \in Nat /\ After(h, i) > i
  BY DEF Forward, Afters
<1>1. Len(h) \in Nat
  OBVIOUS
<1>2. CASE Tag(h, i)
  <2> DEFINE ends == {j \in i..Len(h) : h[j] = ">"} \cup {Len(h)}
  <2>1. ends \in SUBSET Nat /\ ends # {} /\ \A j \in ends : j >= i
    BY <1>1
  <2> HIDE DEF ends
  <2> DEFINE m == Min(ends)
  <2>2. m \in ends
    BY <2>1, MinIs
  <2>3. After(h, i) = 1 + m
    BY <1>2 DEF After, ends
  <2> HIDE DEF m
  <2>4. m \in Nat /\ m >= i
    BY <2>1, <2>2
  <2> QED
    BY <2>3, <2>4
<1>3. CASE ~Tag(h, i)
  BY <1>3 DEF After
<1> QED
  BY <1>2, <1>3

\* Displayed is a walk over the HTML.
LEMMA DisplayedIs ==
  ASSUME NEW S, NEW h \in Seq(S)
  PROVE  \E f : Walks(f, Len(h), Shows(h), Afters(h)) /\ Displayed(h) = f[1]
<1> DEFINE Is(f) == f = [i \in Nat \ {0} |-> IF i > Len(h) THEN <<>>
                                             ELSE Cat(Shown(h, i), f[After(h, i)])]
           from == CHOOSE f : Is(f)
<1>1. Displayed(h) = from[1]
  BY DEF Displayed, Cat
<1>2. Len(h) \in Nat
  OBVIOUS
<1>3. PICK f : IsWalk(f, Len(h), Shows(h), Afters(h))
  BY <1>2, AftersForward, WalkExists
<1>4. \A i \in Nat \ {0} : ~(i > Len(h)) => /\ Shows(h)[i] = Shown(h, i)
                                            /\ Afters(h)[i] = After(h, i)
  BY <1>2 DEF Shows, Afters
<1>5. Is(f)
  BY <1>3, <1>4 DEF IsWalk
<1>6. Is(from)
  <2> HIDE DEF Is
  <2> QED
    BY <1>5
<1> HIDE DEF from
<1>7. \A i \in Nat \ {0} : from[i] = IF i > Len(h) THEN <<>>
                                     ELSE Cat(Shown(h, i), from[After(h, i)])
  BY <1>6
<1> HIDE DEF Is
<1>8. Walks(from, Len(h), Shows(h), Afters(h))
  BY <1>4, <1>7 DEF Walks
<1> QED
  BY <1>1, <1>8

NoTags(h) == \A i \in 1..Len(h) : h[i] # "<"

\* A character that starts neither a tag nor an entity is shown as it is.
LEMMA DisplayedCons ==
  ASSUME NEW S, NEW c \in S, NEW h \in Seq(S), NoTags(h), c \notin {Less, Et}
  PROVE  Displayed(Cons(c, h)) = Cons(c, Displayed(h))
<1> DEFINE u == Cons(c, h)
<1>1. u \in Seq(S) /\ Len(u) = Len(h) + 1 /\ u[1] = c
  BY ConsIs
<1>2. \A i \in 1..Len(h) : u[i + 1] = h[i]
  BY ConsRest
<1> HIDE DEF u
<1>3. Len(h) \in Nat
  OBVIOUS
<1>4. PICK f : Walks(f, Len(h), Shows(h), Afters(h)) /\ Displayed(h) = f[1]
  BY DisplayedIs
<1>5. PICK g : Walks(g, Len(u), Shows(u), Afters(u)) /\ Displayed(u) = g[1]
  BY <1>1, DisplayedIs
<1>6. Delayed(1, Len(h), Shows(h), Afters(h), Shows(u), Afters(u))
  <2> SUFFICES ASSUME NEW i \in 1..Len(h)
               PROVE  Shown(u, i + 1) = Shown(h, i) /\ After(u, i + 1) = After(h, i) + 1
    BY <1>1, <1>3 DEF Delayed, Shows, Afters
  <2>1. u[i + 1] = h[i] /\ h[i] # "<" 
    BY <1>2 DEF NoTags
  <2>2. i + 1 < Len(u) <=> i < Len(h)
    BY <1>1, <1>3
  <2>3. i < Len(h) => u[(i + 1) + 1] = h[i + 1]
    BY <1>2, <1>3
  <2>4. IsEntity(u, i + 1) <=> IsEntity(h, i)
    BY <2>1, <2>2, <2>3 DEF IsEntity
  <2>5. IsEntity(h, i) => u[(i + 1) + 1] = h[i + 1]
    BY <2>3 DEF IsEntity
  <2> QED
    BY <2>1, <2>4, <2>5 DEF Shown, After, Tag
<1>7. Forward(Len(h), Afters(h))
  BY AftersForward
<1>8. \A i \in Nat \ {0} : g[i + 1] = f[i]
  BY <1>1, <1>3, <1>4, <1>5, <1>6, <1>7, WalkShift
<1>9. g[2] = f[1]
  BY <1>8
<1>10. Shown(u, 1) = <<c>> /\ After(u, 1) = 2
  BY <1>1 DEF Shown, After, Tag, IsEntity, Less, Et
<1>11. g[1] = Cat(<<c>>, g[2])
  <2>1. 1 \in Nat \ {0} /\ ~(1 > Len(u)) /\ 1 \in 1..Len(u)
    BY <1>1, <1>3
  <2>2. g[1] = Cat(Shows(u)[1], g[Afters(u)[1]])
    BY <1>5, <2>1 DEF Walks
  <2>3. Shows(u)[1] = <<c>> /\ Afters(u)[1] = 2
    BY <1>10, <2>1 DEF Shows, Afters
  <2> QED
    BY <2>2, <2>3
<1> QED
  BY <1>4, <1>5, <1>9, <1>11 DEF u, Cons, Cat

\* An entity is shown as the character that it stands for.
LEMMA DisplayedEntity ==
  ASSUME NEW S, Signs \cup Names \subseteq S, NEW h \in Seq(S), NoTags(h),
         NEW c \in Signs
  PROVE  Displayed(Cons(Et, Cons(NameOf(c), h))) = Cons(c, Displayed(h))
<1> DEFINE name == NameOf(c)
           v == Cons(name, h)
           u == Cons(Et, v)
<1>0. Et \in S /\ name \in Names /\ name \in S
  BY DEF Signs, Names, NameOf
<1> HIDE DEF name
<1>1. v \in Seq(S) /\ Len(v) = Len(h) + 1 /\ v[1] = name
  BY <1>0, ConsIs
<1>2. \A i \in 1..Len(h) : v[i + 1] = h[i]
  BY <1>0, ConsRest
<1> HIDE DEF v
<1>3. Len(h) \in Nat /\ 1 \in 1..Len(v)
  BY <1>1
<1>4. u \in Seq(S) /\ Len(u) = Len(v) + 1 /\ u[1] = Et
  BY <1>0, <1>1, ConsIs
<1>5. \A i \in 1..Len(v) : u[i + 1] = v[i]
  BY <1>0, <1>1, ConsRest
<1> HIDE DEF u
<1>6. u[2] = name /\ Len(u) = Len(h) + 2
  BY <1>1, <1>3, <1>4, <1>5
<1>7. \A i \in 1..Len(h) : u[i + 2] = h[i]
  <2> SUFFICES ASSUME NEW i \in 1..Len(h)  PROVE u[i + 2] = h[i]
    OBVIOUS
  <2> DEFINE j == i + 1
  <2>1. j \in 1..Len(v) /\ j + 1 = i + 2
    BY <1>1, <1>3
  <2>2. v[j] = h[i]
    BY <1>2
  <2> HIDE DEF j
  <2>3. u[j + 1] = v[j]
    BY <1>5, <2>1
  <2> QED
    BY <2>1, <2>2, <2>3
<1>8. PICK f : Walks(f, Len(h), Shows(h), Afters(h)) /\ Displayed(h) = f[1]
  BY DisplayedIs
<1>9. PICK g : Walks(g, Len(u), Shows(u), Afters(u)) /\ Displayed(u) = g[1]
  BY <1>4, DisplayedIs
<1>10. Delayed(2, Len(h), Shows(h), Afters(h), Shows(u), Afters(u))
  <2> SUFFICES ASSUME NEW i \in 1..Len(h)
               PROVE  Shown(u, i + 2) = Shown(h, i) /\ After(u, i + 2) = After(h, i) + 2
    BY <1>3, <1>6 DEF Delayed, Shows, Afters
  <2>1. u[i + 2] = h[i] /\ h[i] # "<"
    BY <1>7 DEF NoTags
  <2>2. i + 2 < Len(u) <=> i < Len(h)
    BY <1>3, <1>6
  <2>3. i < Len(h) => u[(i + 2) + 1] = h[i + 1]
    <3>1. i < Len(h) => i + 1 \in 1..Len(h) /\ (i + 1) + 2 = (i + 2) + 1
      BY <1>3
    <3> QED
      BY <1>7, <3>1
  <2>4. IsEntity(u, i + 2) <=> IsEntity(h, i)
    BY <2>1, <2>2, <2>3 DEF IsEntity
  <2>5. IsEntity(h, i) => u[(i + 2) + 1] = h[i + 1]
    BY <2>3 DEF IsEntity
  <2> QED
    BY <2>1, <2>4, <2>5 DEF Shown, After, Tag
<1>11. \A i \in Nat \ {0} : g[i + 2] = f[i]
  BY <1>3, <1>6, <1>8, <1>9, <1>10, AftersForward, WalkShift
<1>12. g[3] = f[1]
  BY <1>11
<1>13. name \in DOMAIN Entity /\ Entity[name] = c
  BY DEF Entity, name, NameOf, Signs, Et, Less, More, Cite, AmpName, LtName, GtName,
         QuotName
<1>14. Shown(u, 1) = <<c>> /\ After(u, 1) = 3
  <2>1. IsEntity(u, 1) /\ ~Tag(u, 1)
    BY <1>3, <1>4, <1>6, <1>13 DEF IsEntity, Tag, Et
  <2> QED
    BY <1>6, <1>13, <2>1 DEF Shown, After
<1>15. g[1] = Cat(<<c>>, g[3])
  <2>1. 1 \in Nat \ {0} /\ ~(1 > Len(u)) /\ 1 \in 1..Len(u)
    BY <1>3, <1>6
  <2>2. g[1] = Cat(Shows(u)[1], g[Afters(u)[1]])
    BY <1>9, <2>1 DEF Walks
  <2>3. Shows(u)[1] = <<c>> /\ Afters(u)[1] = 3
    BY <1>14, <2>1 DEF Shows, Afters
  <2> QED
    BY <2>2, <2>3
<1> QED
  BY <1>8, <1>9, <1>12, <1>15 DEF u, v, name, Cons, Cat

\* Nothing is shown of nothing.
LEMMA DisplayedEmpty == Displayed(<<>>) = <<>>
<1>1. PICK f : Walks(f, Len(<<>>), Shows(<<>>), Afters(<<>>)) /\ Displayed(<<>>) = f[1]
  <2> DEFINE S == {}
  <2>1. <<>> \in Seq(S)
    OBVIOUS
  <2> HIDE DEF S
  <2> QED
    BY <2>1, DisplayedIs
<1>2. Len(<<>>) = 0 /\ 1 \in Nat \ {0} /\ 1 > 0
  OBVIOUS
<1> QED
  BY <1>1, <1>2 DEF Walks

\* A text without tags and entities is shown as it is.
LEMMA DisplayedPlain ==
  ASSUME NEW S, NEW t \in Seq(S), \A k \in 1..Len(t) : t[k] \notin {Less, Et}
  PROVE  Displayed(t) = t
<1> DEFINE Unmarked == {x \in S : x \notin {Less, Et}}
           P == {u \in Seq(Unmarked) : Displayed(u) = u}
<1>1. <<>> \in P
  BY DisplayedEmpty
<1>2. ASSUME NEW c \in Unmarked, NEW u \in Seq(Unmarked), u \in P  PROVE Cons(c, u) \in P
  <2>1. NoTags(u)
    BY DEF NoTags, Less
  <2>2. Cons(c, u) \in Seq(Unmarked)
    BY ConsIs
  <2>3. Displayed(Cons(c, u)) = Cons(c, Displayed(u))
    <3>1. c \notin {Less, Et}
      OBVIOUS
    <3> HIDE DEF Unmarked
    <3> QED
      BY <2>1, <3>1, DisplayedCons
  <2> QED
    BY <1>2, <2>2, <2>3
<1>3. Seq(Unmarked) \subseteq P
  <2> HIDE DEF P, Unmarked
  <2> QED
    BY <1>1, <1>2, TextInduction
<1>4. t \in Seq(Unmarked)
  OBVIOUS
<1> QED
  BY <1>3, <1>4

\* An escaped text is shown as it was.
LEMMA DisplayedEscape ==
  ASSUME NEW S, NEW t \in Seq(S)
  PROVE  Displayed(HtmlEscape(t)) = t
<1> DEFINE R == S \cup Signs \cup Names
           P == {u \in Seq(R) : /\ HtmlEscape(u) \in Seq(R) /\ NoTags(HtmlEscape(u))
                                /\ Displayed(HtmlEscape(u)) = u}
<1>0. Signs \cup Names \subseteq R
  OBVIOUS
<1>1. <<>> \in P
  <2>1. HtmlEscape(<<>>) = <<>>
    BY ReplaceEmpty, EscapeIs
  <2>2. <<>> \in Seq(R)
    OBVIOUS
  <2>3. NoTags(<<>>)
    BY DEF NoTags
  <2> QED
    BY <2>1, <2>2, <2>3, DisplayedEmpty
<1> HIDE DEF R
<1>2. ASSUME NEW c \in R, NEW u \in Seq(R), u \in P  PROVE Cons(c, u) \in P
  <2> DEFINE h == HtmlEscape(u)
             e == HtmlEscape(Cons(c, u))
  <2>1. /\ h \in Seq(R)
        /\ e = IF c \in Signs THEN Cons(Et, Cons(NameOf(c), h)) ELSE Cons(c, h)
    BY <1>0, EscapeCons
  <2>2. NoTags(h) /\ Displayed(h) = u
    BY <1>2
  <2>3. Cons(c, u) \in Seq(R)
    BY ConsIs
  <2> HIDE DEF h, e
  <2>4. ASSUME NEW x \in R, NEW r \in Seq(R), x # Less, NoTags(r)
        PROVE  Cons(x, r) \in Seq(R) /\ NoTags(Cons(x, r))
    <3> DEFINE y == Cons(x, r)
    <3>1. y \in Seq(R) /\ Len(y) = Len(r) + 1 /\ y[1] = x
      BY ConsIs
    <3>2. \A i \in 1..Len(r) : y[i + 1] = r[i]
      BY ConsRest
    <3> HIDE DEF y
    <3>3. ASSUME NEW i \in 1..Len(y)  PROVE y[i] # "<"
      <4>1. CASE i = 1
        BY <2>4, <3>1, <4>1 DEF Less
      <4>2. CASE i # 1
        <5> DEFINE j == i - 1
        <5>1. j \in 1..Len(r) /\ j + 1 = i
          BY <3>1, <4>2
        <5> HIDE DEF j
        <5> QED
          BY <2>4, <3>2, <5>1 DEF NoTags
      <4> QED
        BY <4>1, <4>2
    <3>4. NoTags(y)
      BY <3>3 DEF NoTags
    <3> QED
      BY <3>1, <3>4 DEF y
  <2>5. CASE c \in Signs
    <3>1. Et \in R /\ NameOf(c) \in R /\ Et # Less /\ NameOf(c) # Less
      BY <1>0, SignsDiffer DEF Signs, Names, NameOf
    <3>2. Cons(NameOf(c), h) \in Seq(R) /\ NoTags(Cons(NameOf(c), h))
      BY <2>1, <2>2, <2>4, <3>1
    <3>3. e \in Seq(R) /\ NoTags(e)
      BY <2>1, <2>4, <2>5, <3>1, <3>2
    <3>4. Displayed(e) = Cons(c, u)
      BY <1>0, <2>1, <2>2, <2>5, DisplayedEntity
    <3> QED
      BY <2>3, <3>3, <3>4 DEF e
  <2>6. CASE c \notin Signs
    <3>1. c # Less /\ c # Et
      BY <2>6 DEF Signs
    <3>2. e \in Seq(R) /\ NoTags(e)
      BY <2>1, <2>2, <2>4, <2>6, <3>1
    <3>3. Displayed(e) = Cons(c, u)
      BY <2>1, <2>2, <2>6, <3>1, DisplayedCons
    <3> QED
      BY <2>3, <3>2, <3>3 DEF e
  <2> QED
    BY <2>5, <2>6
<1>3. Seq(R) \subseteq P
  <2> HIDE DEF P
  <2> QED
    BY <1>1, <1>2, TextInduction
<1>4. t \in Seq(R)
  BY SeqMonotonic DEF R
<1> QED
  BY <1>3, <1>4

\* NULL is shown of the markup that stands for it.
LEMMA DisplayedNull == Displayed(Cell(Null)) = <<"NULL">>
<1> DEFINE h == Cell(Null)
           S == {"<", "span", ">", "NULL", "/span"}
<1>1. h = <<"<", "span", ">", "NULL", "<", "/span", ">">>
  BY DEF Cell, Null
<1>2. /\ h \in Seq(S) /\ Len(h) = 7
      /\ h[1] = "<" /\ h[2] = "span" /\ h[3] = ">" /\ h[4] = "NULL" /\ h[5] = "<"
      /\ h[6] = "/span" /\ h[7] = ">"
  BY <1>1
<1> HIDE DEF h, S
<1>3. PICK f : Walks(f, Len(h), Shows(h), Afters(h)) /\ Displayed(h) = f[1]
  BY <1>2, DisplayedIs
<1>4. \A i \in 1..7 : f[i] = Cat(Shown(h, i), f[After(h, i)])
  <2>1. \A i \in 1..7 : f[i] = Cat(Shows(h)[i], f[Afters(h)[i]])
    BY <1>2, <1>3, WalkStep
  <2> QED
    BY <1>2, <2>1 DEF Shows, Afters
<1>5. f[8] = <<>>
  BY <1>2, <1>3 DEF Walks
<1>6. Shown(h, 1) = <<>> /\ After(h, 1) = 4
  <2> DEFINE ends == {j \in 1..7 : h[j] = ">"} \cup {7}
  <2>1. ends \in SUBSET Nat /\ 3 \in ends /\ \A j \in ends : j >= 3
    <3>1. \A j \in 1..7 : j \in Nat /\ (j >= 3 \/ j = 1 \/ j = 2)
      OBVIOUS
    <3> QED
      BY <1>2, <3>1
  <2> HIDE DEF ends
  <2> DEFINE m == Min(ends)
  <2>2. m \in ends /\ \A j \in ends : m <= j
    BY <2>1, MinIs
  <2>3. After(h, 1) = 1 + m
    BY <1>2 DEF After, Tag, ends
  <2> HIDE DEF m
  <2>4. m = 3
    BY <2>1, <2>2
  <2> QED
    BY <1>2, <2>3, <2>4 DEF Shown, Tag
<1>7. Shown(h, 4) = <<"NULL">> /\ After(h, 4) = 5
  BY <1>2 DEF Shown, After, Tag, IsEntity
<1>8. Shown(h, 5) = <<>> /\ After(h, 5) = 8
  <2> DEFINE ends == {j \in 5..7 : h[j] = ">"} \cup {7}
  <2>1. ends \in SUBSET Nat /\ 7 \in ends /\ \A j \in ends : j >= 7
    <3>1. \A j \in 5..7 : j \in Nat /\ (j >= 7 \/ j = 5 \/ j = 6)
      OBVIOUS
    <3> QED
      BY <1>2, <3>1
  <2> HIDE DEF ends
  <2> DEFINE m == Min(ends)
  <2>2. m \in ends /\ \A j \in ends : m <= j
    BY <2>1, MinIs
  <2>3. After(h, 5) = 1 + m
    BY <1>2 DEF After, Tag, ends
  <2> HIDE DEF m
  <2>4. m = 7
    BY <2>1, <2>2
  <2> QED
    BY <1>2, <2>3, <2>4 DEF Shown, Tag
<1>9. Cat(<<>>, <<>>) = <<>> /\ Cat(<<"NULL">>, <<>>) = <<"NULL">>
      /\ Cat(<<>>, <<"NULL">>) = <<"NULL">>
  <2> DEFINE one == <<"NULL">>
             R == {"NULL"}
  <2>1. one \in Seq(R) /\ <<>> \in Seq(R)
    OBVIOUS
  <2> HIDE DEF one, R
  <2>2. Cat(<<>>, <<>>) = <<>> /\ Cat(one, <<>>) = one /\ Cat(<<>>, one) = one
    BY <2>1, CatEmpty
  <2> QED
    BY <2>2 DEF one
<1>10. f[5] = <<>> /\ f[4] = <<"NULL">> /\ f[1] = <<"NULL">>
  BY <1>4, <1>5, <1>6, <1>7, <1>8, <1>9
<1> QED
  BY <1>3, <1>10 DEF h

\* What the reader sees of a value is its text, or NULL.
LEMMA CellShows ==
  ASSUME NEW v, IsValue(v)
  PROVE  Displayed(Cell(ReadCell(v))) \in {v.text, <<"NULL">>}
<1> DEFINE json == ReadCell(v)
<1>1. v.text \in Seq(STRING)
  BY DEF IsValue
<1>2. CASE json = Null
  BY <1>2, DisplayedNull
<1>3. CASE json # Null
  <2>1. json.kind = Asked(v.type) /\ json.text = v.text
    BY <1>3 DEF ReadCell, Json
  <2>2. Asked(v.type) \in {"number", "bool", "string"}
    BY DEF Asked
  <2>3. CASE Asked(v.type) = "string"
    <3>1. Cell(json) = HtmlEscape(v.text)
      BY <2>1, <2>3 DEF Cell
    <3> QED
      BY <1>1, <3>1, DisplayedEscape
  <2>4. CASE Asked(v.type) # "string"
    <3>1. Cell(json) = v.text
      BY <2>1, <2>2, <2>4 DEF Cell
    <3>2. \A k \in 1..Len(v.text) : v.text[k] \notin {Less, Et}
      BY <1>1, <2>4 DEF IsValue, Less, Et
    <3> QED
      BY <1>1, <3>1, <3>2, DisplayedPlain
  <2> QED
    BY <2>3, <2>4
<1> QED
  BY <1>2, <1>3

-----------------------------------------------------------------------------
\* The form.

Letters == 65..90 \cup 97..122
Digits == 48..57
Safe == {Plus, Percent} \cup Digits \cup Letters

\* A hexadecimal digit, written and read.
LEMMA HexDigitIs ==
  ASSUME NEW n \in 0..15
  PROVE  /\ HexDigit(n) \in 48..57 \cup 65..70
         /\ HexVal(HexDigit(n)) = n
<1>1. CASE n < 10
  <2>1. HexDigit(n) = 48 + n /\ 48 + n \in 48..57
    BY <1>1 DEF HexDigit
  <2> QED
    BY <2>1 DEF HexVal
<1>2. CASE ~(n < 10)
  <2>1. HexDigit(n) = 55 + n /\ 55 + n \in 65..70
    BY <1>2 DEF HexDigit
  <2> QED
    BY <2>1 DEF HexVal
<1> QED
  BY <1>1, <1>2

\* What stands for one byte.
LEMMA EncodedIs ==
  ASSUME NEW c \in Byte
  PROVE  \/ c \in Letters /\ Encoded(c) = <<c>>
         \/ c = Space /\ Encoded(c) = <<Plus>>
         \/ \E h, l \in 48..57 \cup 65..70 :
               /\ Encoded(c) = <<Percent, h, l>>
               /\ HexVal(h) < 16 /\ HexVal(l) < 16
               /\ 16 * HexVal(h) + HexVal(l) = c
<1>1. CASE c \in Letters
  <2>1. c \in 65..90 \cup 97..122 /\ c # Space
    BY <1>1 DEF Letters, Space
  <2>2. Encoded(c) = <<c>>
    BY <2>1 DEF Encoded
  <2> QED
    BY <1>1, <2>2
<1>2. CASE c = Space
  <2>1. c \notin 65..90 \cup 97..122
    BY <1>2 DEF Space
  <2> QED
    BY <1>2, <2>1 DEF Encoded, Space
<1>3. CASE c \notin Letters /\ c # Space
  <2> DEFINE q == c \div 16
             r == c % 16
  <2>1. q \in 0..15 /\ r \in 0..15 /\ 16 * q + r = c
    BY DEF Byte
  <2>2. Encoded(c) = <<Percent, HexDigit(q), HexDigit(r)>>
    BY <1>3 DEF Encoded, Letters
  <2> HIDE DEF q, r
  <2>3. /\ HexDigit(q) \in 48..57 \cup 65..70 /\ HexVal(HexDigit(q)) = q
        /\ HexDigit(r) \in 48..57 \cup 65..70 /\ HexVal(HexDigit(r)) = r
    BY <2>1, HexDigitIs
  <2> QED
    BY <2>1, <2>2, <2>3
<1> QED
  BY <1>1, <1>2, <1>3

\* The encoding uses safe bytes only.
LEMMA EncodedType ==
  ASSUME NEW c \in Byte
  PROVE  Encoded(c) \in Seq(Safe)
<1>1. Plus \in Safe /\ Percent \in Safe /\ \A h \in 48..57 \cup 65..70 : h \in Safe
  BY DEF Safe, Digits, Letters
<1>2. CASE c \in Letters /\ Encoded(c) = <<c>>
  BY <1>2 DEF Safe
<1>3. CASE Encoded(c) = <<Plus>>
  BY <1>1, <1>3
<1>4. CASE \E h, l \in 48..57 \cup 65..70 : Encoded(c) = <<Percent, h, l>>
  BY <1>1, <1>4
<1> QED
  BY <1>2, <1>3, <1>4, EncodedIs

Encodings == [c \in Byte |-> Encoded(c)]

\* UrlEncode byte by byte.
LEMMA UrlEncodeIs ==
  /\ Maps(Encodings, Byte, Seq(Safe))
  /\ \A t \in Seq(Byte) : UrlEncode(t) = FlattenSeq(Image(t, Encodings))
<1>1. Maps(Encodings, Byte, Seq(Safe))
  BY EncodedType DEF Maps, Encodings
<1>2. ASSUME NEW t \in Seq(Byte)
      PROVE  UrlEncode(t) = FlattenSeq(Image(t, Encodings))
  <2>1. \A k \in DOMAIN t : t[k] \in Byte
    OBVIOUS
  <2>2. Image(t, Encodings) = [k \in DOMAIN t |-> Encoded(t[k])]
    BY <2>1 DEF Image, Encodings
  <2> QED
    BY <2>2 DEF UrlEncode
<1> QED
  BY <1>1, <1>2

\* No & and no = are left in an encoded text.
LEMMA UrlEncodeType ==
  ASSUME NEW t \in Seq(Byte)
  PROVE  UrlEncode(t) \in Seq(Safe)
<1>1. Maps(Encodings, Byte, Seq(Safe)) /\ UrlEncode(t) = FlattenSeq(Image(t, Encodings))
  BY UrlEncodeIs
<1>2. Image(t, Encodings) \in Seq(Seq(Safe))
  BY <1>1, ImageType
<1> QED
  BY <1>1, <1>2, FlattenType

\* UrlEncode encodes the first byte, then the rest.
LEMMA UrlEncodeCons ==
  ASSUME NEW c \in Byte, NEW t \in Seq(Byte)
  PROVE  UrlEncode(Cons(c, t)) = Cat(Encoded(c), UrlEncode(t))
<1> DEFINE u == Cons(c, t)
           first == Encoded(c)
<1>1. u \in Seq(Byte)
  BY ConsIs
<1>2. /\ Maps(Encodings, Byte, Seq(Safe))
      /\ UrlEncode(t) = FlattenSeq(Image(t, Encodings))
      /\ UrlEncode(u) = FlattenSeq(Image(u, Encodings))
  BY <1>1, UrlEncodeIs
<1>3. first = Encodings[c] /\ first \in Seq(Safe)
  BY EncodedType DEF Encodings
<1>4. Image(t, Encodings) \in Seq(Seq(Safe))
  BY <1>2, ImageType
<1> HIDE DEF first
<1>5. Image(u, Encodings) = Cons(first, Image(t, Encodings))
  BY <1>2, <1>3, ImageCons
<1>6. FlattenSeq(Image(u, Encodings)) = Cat(first, FlattenSeq(Image(t, Encodings)))
  BY <1>3, <1>4, <1>5, FlattenCons
<1> QED
  BY <1>2, <1>6 DEF first, u

\* Where the group at i ends.
GroupEnd(s, i) == IF s[i] = Percent THEN Min({i + 2, Len(s)}) ELSE i

\* A group is one byte, or a % and what it takes with it.
LEMMA GroupEndIs ==
  ASSUME NEW S, NEW s \in Seq(S), NEW i \in 1..Len(s)
  PROVE  /\ GroupEnd(s, i) \in i..Len(s)
         /\ s[i] # Percent => GroupEnd(s, i) = i
         /\ s[i] = Percent => GroupEnd(s, i) = IF i + 2 <= Len(s) THEN i + 2 ELSE Len(s)
<1>1. Len(s) \in Nat
  OBVIOUS
<1>2. CASE s[i] = Percent
  <2> DEFINE two == {i + 2, Len(s)}
             m == Min(two)
  <2>1. two \in SUBSET Nat /\ two # {}
    BY <1>1
  <2>2. m \in two /\ \A a \in two : m <= a
    BY <2>1, MinIs
  <2>3. GroupEnd(s, i) = m
    BY <1>2 DEF GroupEnd
  <2> HIDE DEF m
  <2> QED
    BY <1>1, <1>2, <2>2, <2>3
<1>3. CASE s[i] # Percent
  BY <1>1, <1>3 DEF GroupEnd
<1> QED
  BY <1>2, <1>3

\* The bytes of a group.
LEMMA GroupIs ==
  ASSUME NEW S, NEW s \in Seq(S), NEW i \in 1..Len(s)
  PROVE  /\ Group(s, i) \in Seq(S)
         /\ Len(Group(s, i)) = GroupEnd(s, i) + 1 - i
         /\ \A k \in 1..(GroupEnd(s, i) + 1 - i) : Group(s, i)[k] = s[i + k - 1]
<1> DEFINE e == GroupEnd(s, i)
<1>1. Group(s, i) = SubSeq(s, i, e)
  BY DEF Group, GroupEnd
<1>2. e \in i..Len(s) /\ Len(s) \in Nat
  BY GroupEndIs
<1> HIDE DEF e
<1>3. i \in 1..(Len(s) + 1) /\ e \in (i - 1)..Len(s)
  BY <1>2
<1>4. /\ SubSeq(s, i, e) \in Seq(S)
      /\ Len(SubSeq(s, i, e)) = e + 1 - i
      /\ \A k \in 1..(e + 1 - i) : SubSeq(s, i, e)[k] = s[i + k - 1]
  <2>1. /\ SubSeq(s, i, e) \in Seq(S)
        /\ Len(SubSeq(s, i, e)) = IF i <= e THEN e - i + 1 ELSE 0
        /\ \A k \in 1..(e - i + 1) : SubSeq(s, i, e)[k] = s[i + k - 1]
    BY <1>2, <1>3, SubSeqProperties
  <2>2. i <= e /\ e - i + 1 = e + 1 - i
    BY <1>2
  <2> QED
    BY <2>1, <2>2
<1> QED
  BY <1>1, <1>4 DEF e

Decodings(s) == [i \in 1..Len(s) |-> Decoded(Group(s, i))]
Nexts(s) == [i \in 1..Len(s) |-> i + Len(Group(s, i))]

\* The decoder reads on to the right.
LEMMA NextsForward ==
  ASSUME NEW S, NEW s \in Seq(S)
  PROVE  Forward(Len(s), Nexts(s))
<1> SUFFICES ASSUME NEW i \in 1..Len(s)
             PROVE  i + Len(Group(s, i)) \in Nat /\ i + Len(Group(s, i)) > i
  BY DEF Forward, Nexts
<1>1. GroupEnd(s, i) \in i..Len(s) /\ Len(Group(s, i)) = GroupEnd(s, i) + 1 - i
  BY GroupEndIs, GroupIs
<1> QED
  BY <1>1

\* PercentDecode is a walk over the bytes.
LEMMA DecodeIs ==
  ASSUME NEW S, NEW s \in Seq(S)
  PROVE  \E f : Walks(f, Len(s), Decodings(s), Nexts(s)) /\ PercentDecode(s) = f[1]
<1> DEFINE Is(f) == f = [i \in Nat \ {0} |->
                            IF i > Len(s) THEN <<>>
                            ELSE Cat(Decoded(Group(s, i)), f[i + Len(Group(s, i))])]
           from == CHOOSE f : Is(f)
<1>1. PercentDecode(s) = from[1]
  BY DEF PercentDecode, Cat
<1>2. Len(s) \in Nat
  OBVIOUS
<1>3. PICK f : IsWalk(f, Len(s), Decodings(s), Nexts(s))
  BY <1>2, NextsForward, WalkExists
<1>4. \A i \in Nat \ {0} : ~(i > Len(s)) => /\ Decodings(s)[i] = Decoded(Group(s, i))
                                            /\ Nexts(s)[i] = i + Len(Group(s, i))
  BY <1>2 DEF Decodings, Nexts
<1>5. Is(f)
  BY <1>3, <1>4 DEF IsWalk
<1>6. Is(from)
  <2> HIDE DEF Is
  <2> QED
    BY <1>5
<1> HIDE DEF from
<1>7. \A i \in Nat \ {0} : from[i] = IF i > Len(s) THEN <<>>
                               ELSE Cat(Decoded(Group(s, i)), from[i + Len(Group(s, i))])
  BY <1>6
<1> HIDE DEF Is
<1>8. Walks(from, Len(s), Decodings(s), Nexts(s))
  BY <1>4, <1>7 DEF Walks
<1> QED
  BY <1>1, <1>8

\* A group behind other bytes is the same group.
LEMMA GroupShift ==
  ASSUME NEW S, NEW g \in Seq(S), NEW s \in Seq(S), NEW i \in 1..Len(s)
  PROVE  Group(Cat(g, s), i + Len(g)) = Group(s, i)
<1> DEFINE u == Cat(g, s)
           d == Len(g)
           j == i + d
           here == Group(s, i)
           there == Group(u, j)
<1>1. u \in Seq(S) /\ Len(u) = Len(g) + Len(s)
  BY CatIs
<1>2. \A k \in 1..Len(s) : u[d + k] = s[k]
  BY CatRight
<1> HIDE DEF u
<1>3. d \in Nat /\ Len(s) \in Nat
  OBVIOUS
<1>4. j \in 1..Len(u) /\ u[j] = s[i]
  BY <1>1, <1>2, <1>3
<1> DEFINE e == GroupEnd(s, i)
           f == GroupEnd(u, j)
<1>5. /\ e \in i..Len(s)
      /\ s[i] # Percent => e = i
      /\ s[i] = Percent => e = IF i + 2 <= Len(s) THEN i + 2 ELSE Len(s)
  BY GroupEndIs
<1>6. /\ f \in j..Len(u)
      /\ u[j] # Percent => f = j
      /\ u[j] = Percent => f = IF j + 2 <= Len(u) THEN j + 2 ELSE Len(u)
  <2> HIDE DEF j
  <2> QED
    BY <1>1, <1>4, GroupEndIs
<1>7. /\ here \in Seq(S) /\ Len(here) = e + 1 - i
      /\ \A k \in 1..(e + 1 - i) : here[k] = s[i + k - 1]
  BY GroupIs
<1>8. /\ there \in Seq(S) /\ Len(there) = f + 1 - j
      /\ \A k \in 1..(f + 1 - j) : there[k] = u[j + k - 1]
  <2> HIDE DEF j
  <2> QED
    BY <1>1, <1>4, GroupIs
<1> HIDE DEF e, f, here, there, d
<1>9. f = e + d
  <2>1. Len(u) = Len(s) + d /\ j = i + d
    BY <1>1, <1>3 DEF d
  <2>2. j + 2 <= Len(u) <=> i + 2 <= Len(s)
    BY <1>3, <2>1
  <2>3. CASE s[i] = Percent
    <3>1. f = IF i + 2 <= Len(s) THEN j + 2 ELSE Len(u)
      BY <1>4, <1>6, <2>2, <2>3
    <3>2. e = IF i + 2 <= Len(s) THEN i + 2 ELSE Len(s)
      BY <1>5, <2>3
    <3> QED
      BY <1>3, <2>1, <3>1, <3>2
  <2>4. CASE s[i] # Percent
    BY <1>4, <1>5, <1>6, <2>1, <2>4
  <2> QED
    BY <2>3, <2>4
<1>10. ASSUME NEW k \in 1..Len(there)  PROVE there[k] = here[k]
  <2>1. k \in 1..(f + 1 - j) /\ k \in 1..(e + 1 - i)
    BY <1>3, <1>5, <1>8, <1>9
  <2> DEFINE m == i + k - 1
  <2>2. m \in 1..Len(s) /\ d + m = j + k - 1
    BY <1>3, <1>5, <2>1
  <2>3. there[k] = u[j + k - 1] /\ here[k] = s[m]
    BY <1>7, <1>8, <2>1
  <2> HIDE DEF m, j
  <2>4. u[d + m] = s[m]
    BY <1>2, <2>2
  <2> QED
    BY <2>2, <2>3, <2>4
<1>11. Len(there) = Len(here)
  BY <1>3, <1>5, <1>7, <1>8, <1>9
<1>12. there = here
  BY <1>7, <1>8, <1>10, <1>11, SeqEqual
<1> QED
  BY <1>12 DEF here, there, u, d

\* The first group is decoded, then the rest.
LEMMA DecodeCat ==
  ASSUME NEW S, NEW g \in Seq(S), NEW s \in Seq(S), Len(g) # 0,
         Group(Cat(g, s), 1) = g
  PROVE  PercentDecode(Cat(g, s)) = Cat(Decoded(g), PercentDecode(s))
<1> DEFINE u == Cat(g, s)
           d == Len(g)
<1>1. u \in Seq(S) /\ Len(u) = Len(s) + d
  BY CatIs
<1>2. \A i \in 1..Len(s) : Group(u, i + d) = Group(s, i)
  BY GroupShift
<1>3. Group(u, 1) = g
  OBVIOUS
<1> HIDE DEF u
<1>4. d \in Nat /\ d # 0 /\ Len(s) \in Nat
  OBVIOUS
<1>5. PICK f : Walks(f, Len(s), Decodings(s), Nexts(s)) /\ PercentDecode(s) = f[1]
  BY DecodeIs
<1>6. PICK h : Walks(h, Len(u), Decodings(u), Nexts(u)) /\ PercentDecode(u) = h[1]
  BY <1>1, DecodeIs
<1> HIDE DEF d
<1>7. Delayed(d, Len(s), Decodings(s), Nexts(s), Decodings(u), Nexts(u))
  <2> SUFFICES ASSUME NEW i \in 1..Len(s)
               PROVE  /\ Decodings(u)[i + d] = Decodings(s)[i]
                      /\ Nexts(u)[i + d] = Nexts(s)[i] + d
    BY DEF Delayed
  <2> DEFINE j == i + d
  <2>1. j \in 1..Len(u)
    BY <1>1, <1>4
  <2>2. Group(u, j) = Group(s, i)
    BY <1>2
  <2>3. Len(Group(s, i)) \in Nat
    BY GroupIs
  <2>4. Nexts(u)[j] = j + Len(Group(u, j)) /\ Nexts(s)[i] = i + Len(Group(s, i))
    <3> HIDE DEF j
    <3> QED
      BY <2>1 DEF Nexts
  <2>5. Decodings(u)[j] = Decodings(s)[i]
    <3> HIDE DEF j
    <3> QED
      BY <2>1, <2>2 DEF Decodings
  <2>6. Nexts(u)[j] = Nexts(s)[i] + d
    BY <1>4, <2>2, <2>3, <2>4
  <2> QED
    BY <2>5, <2>6
<1>8. \A i \in Nat \ {0} : h[i + d] = f[i]
  BY <1>1, <1>4, <1>5, <1>6, <1>7, NextsForward, WalkShift
<1>9. h[1 + d] = f[1]
  BY <1>8
<1>10. 1 \in 1..Len(u)
  BY <1>1, <1>4
<1>11. h[1] = Cat(Decodings(u)[1], h[Nexts(u)[1]])
  BY <1>1, <1>6, <1>10, WalkStep
<1>12. Decodings(u)[1] = Decoded(g) /\ Nexts(u)[1] = 1 + d
  BY <1>3, <1>10 DEF Decodings, Nexts, d
<1> QED
  BY <1>5, <1>6, <1>9, <1>11, <1>12 DEF u

\* Nothing is decoded from nothing.
LEMMA DecodeEmpty == PercentDecode(<<>>) = <<>>
<1>1. PICK f : Walks(f, Len(<<>>), Decodings(<<>>), Nexts(<<>>)) /\ PercentDecode(<<>>) = f[1]
  <2> DEFINE S == {}
  <2>1. <<>> \in Seq(S)
    OBVIOUS
  <2> HIDE DEF S
  <2> QED
    BY <2>1, DecodeIs
<1>2. Len(<<>>) = 0 /\ 1 \in Nat \ {0} /\ 1 > 0
  OBVIOUS
<1> QED
  BY <1>1, <1>2 DEF Walks

\* The group that stands for one byte is read as a whole, and as that byte.
LEMMA FirstGroup ==
  ASSUME NEW S, NEW g \in Seq(S), NEW s \in Seq(S), Len(g) # 0,
         g[1] = Percent => Len(g) = 3, g[1] # Percent => Len(g) = 1
  PROVE  Group(Cat(g, s), 1) = g
<1> DEFINE u == Cat(g, s)
           here == Group(u, 1)
<1>1. u \in Seq(S) /\ Len(u) = Len(g) + Len(s)
  BY CatIs
<1>2. \A k \in 1..Len(g) : u[k] = g[k]
  BY CatLeft
<1> HIDE DEF u
<1>3. Len(g) \in Nat /\ Len(s) \in Nat /\ 1 \in 1..Len(u)
  BY <1>1
<1> DEFINE e == GroupEnd(u, 1)
<1>4. /\ e \in 1..Len(u)
      /\ u[1] # Percent => e = 1
      /\ u[1] = Percent => e = IF 1 + 2 <= Len(u) THEN 1 + 2 ELSE Len(u)
  BY <1>1, <1>3, GroupEndIs
<1>5. /\ here \in Seq(S) /\ Len(here) = e + 1 - 1
      /\ \A k \in 1..(e + 1 - 1) : here[k] = u[1 + k - 1]
  BY <1>1, <1>3, GroupIs
<1> HIDE DEF e, here
<1>6. u[1] = g[1]
  BY <1>2, <1>3
<1>7. e = Len(g)
  <2>1. CASE g[1] = Percent
    <3>0. Len(g) = 3
      BY <2>1
    <3>1. Len(g) = 3 /\ 1 + 2 <= Len(u) /\ 1 + 2 = 3
      BY <1>1, <1>3, <3>0
    <3> QED
      BY <1>4, <1>6, <2>1, <3>1
  <2>2. CASE g[1] # Percent
    BY <1>4, <1>6, <2>2
  <2> QED
    BY <2>1, <2>2
<1>8. Len(here) = Len(g)
  BY <1>3, <1>5, <1>7
<1>9. ASSUME NEW k \in 1..Len(g)  PROVE here[k] = g[k]
  <2>1. k \in 1..(e + 1 - 1) /\ 1 + k - 1 = k
    BY <1>3, <1>7
  <2> QED
    BY <1>2, <1>5, <2>1
<1>10. here = g
  BY <1>5, <1>8, <1>9, SeqEqual
<1> QED
  BY <1>10 DEF here, u

\* One byte, encoded and decoded.
LEMMA DecodedEncoded ==
  ASSUME NEW c \in Byte
  PROVE  /\ Decoded(Encoded(c)) = <<c>> /\ Len(Encoded(c)) # 0
         /\ Encoded(c)[1] = Percent => Len(Encoded(c)) = 3
         /\ Encoded(c)[1] # Percent => Len(Encoded(c)) = 1
<1>1. CASE c \in Letters /\ Encoded(c) = <<c>>
  <2>1. c # Percent /\ c # Plus
    BY <1>1 DEF Letters, Percent, Plus
  <2> DEFINE g == <<c>>
  <2>2. Len(g) = 1 /\ g[1] = c /\ g # <<Plus>>
    BY <2>1
  <2>3. Decoded(g) = g
    <3> HIDE DEF g
    <3> QED
      BY <2>2 DEF Decoded
  <2> QED
    BY <1>1, <2>1, <2>2, <2>3
<1>2. CASE c = Space /\ Encoded(c) = <<Plus>>
  <2>1. Plus # Percent
    BY DEF Percent, Plus
  <2> DEFINE g == <<Plus>>
  <2>2. Len(g) = 1 /\ g[1] = Plus
    OBVIOUS
  <2>3. Decoded(g) = <<Space>>
    <3>1. g = <<Plus>>
      OBVIOUS
    <3> HIDE DEF g
    <3> QED
      BY <2>2, <3>1 DEF Decoded
  <2> QED
    BY <1>2, <2>1, <2>2, <2>3
<1>3. CASE \E h, l \in 48..57 \cup 65..70 :
               /\ Encoded(c) = <<Percent, h, l>>
               /\ HexVal(h) < 16 /\ HexVal(l) < 16
               /\ 16 * HexVal(h) + HexVal(l) = c
  <2> PICK h \in 48..57 \cup 65..70, l \in 48..57 \cup 65..70 :
               /\ Encoded(c) = <<Percent, h, l>>
               /\ HexVal(h) < 16 /\ HexVal(l) < 16
               /\ 16 * HexVal(h) + HexVal(l) = c
    BY <1>3
  <2> DEFINE g == <<Percent, h, l>>
  <2>1. Len(g) = 3 /\ g[1] = Percent /\ g[2] = h /\ g[3] = l
    OBVIOUS
  <2>2. g # <<Plus>>
    OBVIOUS
  <2>3. Decoded(g) = <<c>>
    <3> HIDE DEF g
    <3> QED
      BY <2>1, <2>2 DEF Decoded
  <2> QED
    BY <2>1, <2>3
<1> QED
  BY <1>1, <1>2, <1>3, EncodedIs

\* What the browser encodes, the server decodes.
LEMMA DecodeEncode ==
  ASSUME NEW t \in Seq(Byte)
  PROVE  PercentDecode(UrlEncode(t)) = t
<1> DEFINE P == {u \in Seq(Byte) : PercentDecode(UrlEncode(u)) = u}
<1>1. <<>> \in P
  <2>1. UrlEncode(<<>>) = <<>>
    <3>1. [k \in DOMAIN <<>> |-> Encoded(<<>>[k])] = <<>>
      OBVIOUS
    <3> QED
      BY <3>1, FlattenEmpty DEF UrlEncode
  <2> QED
    BY <2>1, DecodeEmpty
<1>2. ASSUME NEW c \in Byte, NEW u \in Seq(Byte), u \in P  PROVE Cons(c, u) \in P
  <2> DEFINE g == Encoded(c)
             s == UrlEncode(u)
  <2>1. UrlEncode(Cons(c, u)) = Cat(g, s)
    BY UrlEncodeCons
  <2>2. g \in Seq(Safe) /\ s \in Seq(Safe)
    BY EncodedType, UrlEncodeType
  <2>3. /\ Decoded(g) = <<c>> /\ Len(g) # 0
        /\ g[1] = Percent => Len(g) = 3
        /\ g[1] # Percent => Len(g) = 1
    BY DecodedEncoded
  <2>4. PercentDecode(s) = u
    BY <1>2
  <2> HIDE DEF g, s
  <2>5. Group(Cat(g, s), 1) = g
    BY <2>2, <2>3, FirstGroup
  <2>6. PercentDecode(Cat(g, s)) = Cat(Decoded(g), PercentDecode(s))
    BY <2>2, <2>3, <2>5, DecodeCat
  <2>7. Cons(c, u) \in Seq(Byte)
    BY ConsIs
  <2>8. Cons(c, u) = Cat(<<c>>, u)
    BY DEF Cons, Cat
  <2> QED
    BY <2>1, <2>3, <2>4, <2>6, <2>7, <2>8
<1>3. Seq(Byte) \subseteq P
  <2> HIDE DEF P
  <2> QED
    BY <1>1, <1>2, TextInduction
<1> QED
  BY <1>3

\* A byte that the encoding leaves alone is read as it is.
LEMMA DecodeOne ==
  ASSUME NEW x \in Byte, x # Percent, x # Plus
  PROVE  PercentDecode(<<x>>) = <<x>>
<1> DEFINE g == <<x>>
           e == <<>>
<1>1. g \in Seq(Byte) /\ Len(g) = 1 /\ g[1] = x /\ e \in Seq(Byte)
  OBVIOUS
<1>2. g # <<Plus>>
  OBVIOUS
<1>3. Decoded(g) = g
  <2> HIDE DEF g
  <2> QED
    BY <1>1, <1>2 DEF Decoded
<1>4. PercentDecode(e) = e
  BY DecodeEmpty
<1> HIDE DEF g, e
<1>5. Cat(g, e) = g
  BY <1>1, CatEmpty DEF e
<1>6. g \in Seq(Byte) /\ e \in Seq(Byte) /\ Len(g) # 0
  BY <1>1
<1>7. (g[1] = Percent => Len(g) = 3) /\ (g[1] # Percent => Len(g) = 1)
  BY <1>1
<1>8. Group(Cat(g, e), 1) = g
  BY <1>6, <1>7, FirstGroup
<1>9. PercentDecode(Cat(g, e)) = Cat(Decoded(g), PercentDecode(e))
  BY <1>6, <1>8, DecodeCat
<1> QED
  BY <1>3, <1>4, <1>5, <1>9 DEF g

\* The body of the form with the text t, byte by byte; u is the text encoded.
IsForm(b, u) ==
    /\ b \in Seq(Byte)
    /\ Len(b) = Len(u) + 7
    /\ b[1] = 113 /\ b[2] = Equals
    /\ \A i \in 1..Len(u) : b[i + 2] = u[i]
    /\ b[Len(u) + 3] = Ampersand
    /\ b[Len(u) + 4] = 100 /\ b[Len(u) + 5] = Equals
    /\ b[Len(u) + 6] = 120 /\ b[Len(u) + 7] = 121

\* FormBody as the browser writes it.
LEMMA FormBodyIs ==
  ASSUME NEW t \in Seq(Byte)
  PROVE  IsForm(FormBody(t), UrlEncode(t))
<1> DEFINE u == UrlEncode(t)
           n == Len(u)
           q == QueryField
           e == <<Equals>>
           a == <<Ampersand>>
           d == TargetField
           z == <<Equals, 120, 121>>
           c1 == Cat(q, e)
           c2 == Cat(c1, u)
           c3 == Cat(c2, a)
           c4 == Cat(c3, d)
           c5 == Cat(c4, z)
<1>1. /\ Equals \in Byte /\ Ampersand \in Byte /\ Safe \subseteq Byte
      /\ 113 \in Byte /\ 100 \in Byte /\ 120 \in Byte /\ 121 \in Byte
  BY DEF Equals, Ampersand, Safe, Plus, Percent, Digits, Letters, Byte
<1>2. q \in Seq(Byte) /\ Len(q) = 1 /\ q[1] = 113
  BY <1>1 DEF QueryField
<1>3. e \in Seq(Byte) /\ Len(e) = 1 /\ e[1] = Equals
  BY <1>1
<1>4. a \in Seq(Byte) /\ Len(a) = 1 /\ a[1] = Ampersand
  BY <1>1
<1>5. d \in Seq(Byte) /\ Len(d) = 1 /\ d[1] = 100
  BY <1>1 DEF TargetField
<1>6. z \in Seq(Byte) /\ Len(z) = 3 /\ z[1] = Equals /\ z[2] = 120 /\ z[3] = 121
  BY <1>1
<1>7. u \in Seq(Byte) /\ n \in Nat
  BY <1>1, UrlEncodeType, SeqMonotonic
<1>8. FormBody(t) = c5
  BY DEF FormBody, Cat
<1> HIDE DEF u, q, e, a, d, z
<1>t. /\ q \in Seq(Byte) /\ e \in Seq(Byte) /\ a \in Seq(Byte) /\ d \in Seq(Byte)
      /\ z \in Seq(Byte) /\ u \in Seq(Byte)
  BY <1>2, <1>3, <1>4, <1>5, <1>6, <1>7
<1>9. /\ c1 \in Seq(Byte) /\ Len(c1) = 2
      /\ c1[1] = 113 /\ c1[2] = Equals
  <2>1. c1 \in Seq(Byte) /\ Len(c1) = Len(q) + Len(e)
    BY <1>t, CatIs
  <2>2. 1 \in 1..Len(q) /\ 1 \in 1..Len(e) /\ Len(q) + 1 = 2
    BY <1>2, <1>3
  <2>3. \A i \in 1..Len(q) : c1[i] = q[i]
    BY <1>t, CatLeft
  <2>4. \A i \in 1..Len(e) : c1[Len(q) + i] = e[i]
    BY <1>t, CatRight
  <2> HIDE DEF c1
  <2> QED
    BY <1>2, <1>3, <2>1, <2>2, <2>3, <2>4
<1>sc1. c1 \in Seq(Byte)
  BY <1>9
<1> HIDE DEF c1
<1>10. /\ c2 \in Seq(Byte) /\ Len(c2) = n + 2
       /\ c2[1] = 113 /\ c2[2] = Equals
       /\ \A i \in 1..n : c2[i + 2] = u[i]
  <2>1. c2 \in Seq(Byte) /\ Len(c2) = Len(c1) + n
    BY <1>t, <1>sc1, CatIs
  <2>2. \A i \in 1..Len(c1) : c2[i] = c1[i]
    BY <1>t, <1>sc1, CatLeft
  <2>3. \A i \in 1..n : c2[Len(c1) + i] = u[i]
    BY <1>t, <1>sc1, CatRight
  <2> HIDE DEF n, c2
  <2> QED
    BY <1>7, <1>9, <2>1, <2>2, <2>3
<1>sc2. c2 \in Seq(Byte)
  BY <1>10
<1> HIDE DEF c2
<1>11. /\ c3 \in Seq(Byte) /\ Len(c3) = n + 3
       /\ \A i \in 1..(n + 2) : c3[i] = c2[i]
       /\ c3[n + 3] = Ampersand
  <2>1. c3 \in Seq(Byte) /\ Len(c3) = Len(c2) + Len(a)
    BY <1>t, <1>sc2, CatIs
  <2>2. \A i \in 1..Len(c2) : c3[i] = c2[i]
    BY <1>t, <1>sc2, CatLeft
  <2>3. \A i \in 1..Len(a) : c3[Len(c2) + i] = a[i]
    BY <1>t, <1>sc2, CatRight
  <2> HIDE DEF n, c3
  <2>4. c3[Len(c2) + 1] = a[1] /\ Len(c2) + 1 = n + 3
    BY <1>4, <1>7, <1>10, <2>3
  <2> QED
    BY <1>4, <1>7, <1>10, <2>1, <2>2, <2>4
<1>sc3. c3 \in Seq(Byte)
  BY <1>11
<1> HIDE DEF c3
<1>12. /\ c4 \in Seq(Byte) /\ Len(c4) = n + 4
       /\ \A i \in 1..(n + 3) : c4[i] = c3[i]
       /\ c4[n + 4] = 100
  <2>1. c4 \in Seq(Byte) /\ Len(c4) = Len(c3) + Len(d)
    BY <1>t, <1>sc3, CatIs
  <2>2. \A i \in 1..Len(c3) : c4[i] = c3[i]
    BY <1>t, <1>sc3, CatLeft
  <2>3. \A i \in 1..Len(d) : c4[Len(c3) + i] = d[i]
    BY <1>t, <1>sc3, CatRight
  <2> HIDE DEF n, c4
  <2>4. c4[Len(c3) + 1] = d[1] /\ Len(c3) + 1 = n + 4
    BY <1>5, <1>7, <1>11, <2>3
  <2> QED
    BY <1>5, <1>7, <1>11, <2>1, <2>2, <2>4
<1>sc4. c4 \in Seq(Byte)
  BY <1>12
<1> HIDE DEF c4
<1>13. /\ c5 \in Seq(Byte) /\ Len(c5) = n + 7
       /\ \A i \in 1..(n + 4) : c5[i] = c4[i]
       /\ c5[n + 5] = Equals /\ c5[n + 6] = 120 /\ c5[n + 7] = 121
  <2>1. c5 \in Seq(Byte) /\ Len(c5) = Len(c4) + Len(z)
    BY <1>t, <1>sc4, CatIs
  <2>2. \A i \in 1..Len(c4) : c5[i] = c4[i]
    BY <1>t, <1>sc4, CatLeft
  <2>3. \A i \in 1..Len(z) : c5[Len(c4) + i] = z[i]
    BY <1>t, <1>sc4, CatRight
  <2> HIDE DEF n, c5
  <2>4. /\ c5[Len(c4) + 1] = z[1] /\ Len(c4) + 1 = n + 5
        /\ c5[Len(c4) + 2] = z[2] /\ Len(c4) + 2 = n + 6
        /\ c5[Len(c4) + 3] = z[3] /\ Len(c4) + 3 = n + 7
    BY <1>6, <1>7, <1>12, <2>3
  <2> QED
    BY <1>6, <1>7, <1>12, <2>1, <2>2, <2>4
<1> HIDE DEF c5
<1>14. \A i \in 1..(n + 2) : c5[i] = c2[i]
  <2> HIDE DEF n
  <2> QED
    BY <1>7, <1>11, <1>12, <1>13
<1>15. c5[n + 3] = Ampersand /\ c5[n + 4] = 100
  <2> HIDE DEF n
  <2> QED
    BY <1>7, <1>11, <1>12, <1>13
<1>16. c5[1] = 113 /\ c5[2] = Equals /\ \A i \in 1..n : c5[i + 2] = u[i]
  <2> HIDE DEF n
  <2> QED
    BY <1>7, <1>10, <1>14
<1>17. IsForm(c5, u)
  BY <1>13, <1>15, <1>16 DEF IsForm
<1> QED
  BY <1>8, <1>17 DEF u

\* The sign of the pair from byte a to byte z is its first =.
LEMMA SignIs ==
  ASSUME NEW s, NEW p, NEW a \in Nat, NEW z \in Nat, p[1] = a, p[2] = z,
         NEW m \in a..z, s[m] = Equals, \A i \in a..(m - 1) : s[i] # Equals
  PROVE  Sign(s, p) = m
<1> DEFINE A == {i \in p[1]..p[2] : s[i] = Equals} \cup {p[2] + 1}
           k == Min(A)
<1>1. A \in SUBSET Nat /\ m \in A /\ \A i \in A : i >= m
  OBVIOUS
<1>2. Sign(s, p) = k
  BY DEF Sign
<1> HIDE DEF A
<1>3. k \in A /\ \A i \in A : k <= i
  BY <1>1, MinIs
<1> HIDE DEF k
<1>4. k \in Nat /\ k = m
  BY <1>1, <1>3
<1> QED
  BY <1>2, <1>4

\* A part of one byte.
LEMMA OneByte ==
  ASSUME NEW b \in Seq(Byte), NEW k \in 1..Len(b)
  PROVE  SubSeq(b, k, k) = <<b[k]>>
<1> DEFINE s == SubSeq(b, k, k)
           one == <<b[k]>>
<1>1. k \in Int /\ \A i \in k..k : b[i] \in Byte
  OBVIOUS
<1>2. /\ s \in Seq(Byte) /\ Len(s) = IF k <= k THEN k - k + 1 ELSE 0
      /\ \A i \in 1..(k - k + 1) : s[i] = b[k + i - 1]
  BY <1>1, SubSeqProperties
<1> HIDE DEF s
<1>3. Len(s) = 1 /\ s[1] = b[k]
  <2>1. k - k + 1 = 1 /\ 1 \in 1..1 /\ k + 1 - 1 = k
    OBVIOUS
  <2> QED
    BY <1>2, <2>1
<1>4. one \in Seq(Byte) /\ Len(one) = 1 /\ one[1] = b[k]
  OBVIOUS
<1> HIDE DEF one
<1>5. \A i \in 1..Len(s) : s[i] = one[i]
  BY <1>3, <1>4
<1>6. s = one
  BY <1>2, <1>3, <1>4, <1>5, SeqEqual
<1> QED
  BY <1>6 DEF s, one

\* Of a form that is whole, the field query is the text.
LEMMA FieldOfForm ==
  ASSUME NEW b, NEW u \in Seq(Safe), IsForm(b, u)
  PROVE  Field(b, QueryField) = PercentDecode(u)
<1> DEFINE n == Len(u)
           first == <<1, n + 2>>
<1>1. n \in Nat
  OBVIOUS
<1>2. /\ b \in Seq(Byte) /\ Len(b) = n + 7
      /\ b[1] = 113 /\ b[2] = 61
      /\ b[n + 3] = 38 /\ b[n + 4] = 100 /\ b[n + 5] = 61 /\ b[n + 6] = 120
      /\ b[n + 7] = 121
  BY DEF IsForm, Equals, Ampersand
<1>3. \A i \in 1..n : b[i + 2] = u[i] /\ u[i] \in Safe
  BY DEF IsForm
<1> HIDE DEF n
<1>4. \A x \in Safe : x # 38 /\ x # 61
  BY DEF Safe, Plus, Percent, Digits, Letters
<1>5. \A i \in 3..(n + 2) : b[i] # 38 /\ b[i] # 61
  <2> SUFFICES ASSUME NEW i \in 3..(n + 2)  PROVE b[i] # 38 /\ b[i] # 61
    OBVIOUS
  <2> DEFINE j == i - 2
  <2>1. j \in 1..n /\ j + 2 = i
    BY <1>1
  <2> HIDE DEF j
  <2>2. b[i] = u[j] /\ u[j] \in Safe
    BY <1>3, <2>1
  <2> QED
    BY <1>4, <2>2
<1>6. \A i \in 1..(n + 7) : b[i] = 38 <=> i = n + 3
  <2> SUFFICES ASSUME NEW i \in 1..(n + 7)  PROVE b[i] = 38 <=> i = n + 3
    OBVIOUS
  <2>1. \/ i = 1 \/ i = 2 \/ i \in 3..(n + 2) \/ i = n + 3 \/ i = n + 4 \/ i = n + 5
        \/ i = n + 6 \/ i = n + 7
    BY <1>1
  <2> QED
    BY <1>1, <1>2, <1>5, <2>1
<1>7. DOMAIN b = 1..(n + 7)
  BY <1>1, <1>2
<1>8. first \in Pairs(b) /\ first[1] = 1 /\ first[2] = n + 2
  <2> DEFINE m == n + 2
  <2>1. m \in 1..(n + 7) /\ 1 \in 1..(n + 7) /\ 1 <= m
    BY <1>1
  <2>2. b[m + 1] = 38
    BY <1>1, <1>2
  <2>3. \A i \in 1..m : b[i] # 38
    BY <1>1, <1>6
  <2>4. first = <<1, m>>
    OBVIOUS
  <2> HIDE DEF m, first
  <2>5. first \in (DOMAIN b) \X (DOMAIN b) /\ first[1] = 1 /\ first[2] = m
    BY <1>7, <2>1, <2>4
  <2> QED
    BY <2>1, <2>2, <2>3, <2>5 DEF Pairs, Ampersand, m
<1>9. \A p \in Pairs(b) : p = first \/ (p[1] = n + 4 /\ p[2] = n + 7)
  <2> SUFFICES ASSUME NEW p \in Pairs(b)
               PROVE  p = first \/ (p[1] = n + 4 /\ p[2] = n + 7)
    OBVIOUS
  <2> DEFINE x == p[1]
             y == p[2]
  <2>1. /\ p = <<x, y>> /\ x \in 1..(n + 7) /\ y \in 1..(n + 7) /\ x <= y
        /\ x = 1 \/ b[x - 1] = 38
        /\ y = n + 7 \/ b[y + 1] = 38
        /\ \A i \in x..y : b[i] # 38
    BY <1>2, <1>7 DEF Pairs, Ampersand
  <2> HIDE DEF x, y
  <2>2. x = 1 \/ x - 1 = n + 3
    BY <1>1, <1>6, <2>1
  <2>3. y = n + 7 \/ y + 1 = n + 3
    BY <1>1, <1>6, <2>1
  <2>4. ~(x <= n + 3 /\ n + 3 <= y)
    BY <1>1, <1>2, <2>1
  <2>5. (x = 1 /\ y = n + 2) \/ (x = n + 4 /\ y = n + 7)
    BY <1>1, <2>1, <2>2, <2>3, <2>4
  <2> QED
    BY <2>1, <2>5 DEF x, y
<1>10. Key(b, first) = QueryField
  <2>1. Sign(b, first) = 2
    <3>1. 2 \in 1..(n + 2) /\ b[2] = Equals /\ \A i \in 1..(2 - 1) : b[i] # Equals
      BY <1>1, <1>2 DEF Equals
    <3>2. 1 \in Nat /\ n + 2 \in Nat
      BY <1>1
    <3> DEFINE m == n + 2
    <3> HIDE DEF first, m
    <3> QED
      BY <1>8, <3>1, <3>2, SignIs DEF m
  <2>2. SubSeq(b, 1, 1) = <<113>>
    BY <1>1, <1>2, OneByte
  <2>3. PercentDecode(<<113>>) = <<113>>
    BY DecodeOne DEF Byte, Percent, Plus
  <2>4. Key(b, first) = PercentDecode(SubSeq(b, 1, 1))
    <3>1. first[1] = 1 /\ 2 - 1 = 1
      BY <1>8
    <3> HIDE DEF first
    <3> QED
      BY <2>1, <3>1 DEF Key
  <2> QED
    BY <2>2, <2>3, <2>4 DEF QueryField
<1>11. ASSUME NEW p \in Pairs(b), p # first  PROVE Key(b, p) # QueryField
  <2> DEFINE a == n + 4
             z == n + 7
             m == n + 5
  <2>1. p[1] = a /\ p[2] = z
    BY <1>9, <1>11
  <2>2. /\ a \in Nat /\ z \in Nat /\ m \in a..z /\ b[m] = Equals
        /\ m - 1 = a /\ \A i \in a..(m - 1) : b[i] # Equals
        /\ a \in 1..Len(b)
    <3>1. a \in Nat /\ z \in Nat /\ m \in a..z /\ m - 1 = a /\ a \in 1..Len(b)
      BY <1>1, <1>2
    <3>2. b[m] = Equals /\ b[a] # Equals
      BY <1>2 DEF Equals
    <3> QED
      BY <3>1, <3>2
  <2>3. b[a] = 100
    BY <1>2
  <2> HIDE DEF a, z, m
  <2>4. Sign(b, p) = m
    BY <2>1, <2>2, SignIs
  <2>5. SubSeq(b, a, a) = <<100>>
    BY <1>2, <2>2, <2>3, OneByte
  <2>6. PercentDecode(<<100>>) = <<100>>
    BY DecodeOne DEF Byte, Percent, Plus
  <2>7. Key(b, p) = <<100>>
    BY <2>1, <2>2, <2>4, <2>5, <2>6 DEF Key
  <2> QED
    BY <2>7 DEF QueryField
<1>12. Value(b, first) = PercentDecode(u)
  <2> DEFINE s == SubSeq(b, 3, n + 2)
  <2>1. Sign(b, first) = 2
    <3>1. 2 \in 1..(n + 2) /\ b[2] = Equals /\ \A i \in 1..(2 - 1) : b[i] # Equals
      BY <1>1, <1>2 DEF Equals
    <3>2. 1 \in Nat /\ n + 2 \in Nat
      BY <1>1
    <3> DEFINE m == n + 2
    <3> HIDE DEF first, m
    <3> QED
      BY <1>8, <3>1, <3>2, SignIs DEF m
  <2>2. u \in Seq(Byte)
    BY SeqMonotonic DEF Safe, Byte, Plus, Percent, Digits, Letters
  <2>3. s \in Seq(Byte) /\ Len(s) = n /\ \A i \in 1..n : s[i] = b[i + 2]
    <3> DEFINE m == n + 2
    <3>1. 3 \in Int /\ m \in Int /\ m - 3 + 1 = n
      BY <1>1
    <3>2. \A i \in 3..m : b[i] \in Byte
      BY <1>1, <1>2
    <3>3. \A i \in 1..n : 3 + i - 1 = i + 2
      BY <1>1
    <3> HIDE DEF m
    <3>4. /\ SubSeq(b, 3, m) \in Seq(Byte)
          /\ Len(SubSeq(b, 3, m)) = IF 3 <= m THEN m - 3 + 1 ELSE 0
          /\ \A i \in 1..(m - 3 + 1) : SubSeq(b, 3, m)[i] = b[3 + i - 1]
      BY <3>1, <3>2, SubSeqProperties
    <3>5. s = SubSeq(b, 3, m)
      BY DEF m
    <3> HIDE DEF s
    <3>6. Len(s) = n
      BY <1>1, <3>1, <3>4, <3>5
    <3>7. \A i \in 1..n : s[i] = b[i + 2]
      BY <3>1, <3>3, <3>4, <3>5
    <3> QED
      BY <3>4, <3>5, <3>6, <3>7
  <2>4. Value(b, first) = PercentDecode(s)
    <3>1. first[2] = n + 2 /\ 2 + 1 = 3
      BY <1>8
    <3> HIDE DEF first
    <3> QED
      BY <2>1, <3>1 DEF Value
  <2> HIDE DEF s
  <2>5. s = u
    <3>1. \A i \in 1..Len(s) : s[i] = u[i]
      BY <1>3, <2>3
    <3> QED
      BY <1>1, <2>2, <2>3, <3>1, SeqEqual DEF n
  <2> QED
    BY <2>4, <2>5
<1> DEFINE found == {p \in Pairs(b) : Key(b, p) = QueryField}
           last == CHOOSE p \in found : \A q \in found : q[1] <= p[1]
<1>13. found = {first}
  <2> HIDE DEF first
  <2> QED
    BY <1>8, <1>10, <1>11
<1>14. last = first
  <2>1. first[1] <= first[1]
    BY <1>8
  <2> HIDE DEF first, found
  <2> QED
    BY <1>13, <2>1
<1>15. Field(b, QueryField) = Value(b, last)
  <2>1. found # {}
    BY <1>13
  <2> QED
    BY <2>1 DEF Field
<1> HIDE DEF first, last, found
<1> QED
  BY <1>12, <1>14, <1>15

\* A body that is empty has no fields.
LEMMA FieldOfNothing ==
  ASSUME NEW key
  PROVE  Field(<<>>, key) = <<>>
<1>1. Pairs(<<>>) = {}
  BY DEF Pairs
<1> QED
  BY <1>1 DEF Field

\* What the form delivers is what was typed.
LEMMA FormDelivers ==
  ASSUME NEW t \in Seq(Byte)
  PROVE  Field(FormBody(t), QueryField) = t /\ Len(FormBody(t)) > 0
<1>1. UrlEncode(t) \in Seq(Safe) /\ IsForm(FormBody(t), UrlEncode(t))
  BY UrlEncodeType, FormBodyIs
<1>2. Field(FormBody(t), QueryField) = PercentDecode(UrlEncode(t))
  BY <1>1, FieldOfForm
<1>3. Len(FormBody(t)) > 0
  BY <1>1 DEF IsForm
<1> QED
  BY <1>2, <1>3, DecodeEncode

-----------------------------------------------------------------------------
\* The request.

\* Without a fault there is at most one Content-Length, and it is a number.
LEMMA OneLength ==
  ASSUME NEW hs, NEW n \in Nat, DOMAIN hs = 1..n, Faults(hs) = {},
         NEW j \in DOMAIN hs, NEW k \in DOMAIN hs,
         hs[j].name = "content-length", hs[k].name = "content-length"
  PROVE  j = k /\ hs[k].value # NaN
<1>1. \A m \in DOMAIN hs : HeaderFault(hs, m) = "none"
  BY DEF Faults
<1>2. ASSUME NEW m \in DOMAIN hs, hs[m].name = "content-length"
      PROVE  hs[m].value # NaN /\ \A i \in 1..(m - 1) : hs[i].name # hs[m].name
  <2> SUFFICES ASSUME \/ hs[m].value = NaN
                      \/ \E i \in 1..(m - 1) : hs[i].name = hs[m].name
               PROVE  HeaderFault(hs, m) # "none"
    BY <1>1
  <2>1. HeaderFault(hs, m) = "MalformedRequestLine"
    BY <1>2 DEF HeaderFault
  <2> QED
    BY <2>1
<1>3. ~(j \in 1..(k - 1)) /\ ~(k \in 1..(j - 1))
  BY <1>2
<1> QED
  BY <1>2, <1>3

\* Trim, the length of Body and so on.
LEMMA HeaderIsOne ==
  ASSUME NEW hs, NEW n \in Nat, DOMAIN hs = 1..n, NEW name, Has(hs, name)
  PROVE  \E k \in 1..n : hs[k].name = name /\ Header(hs, name) = hs[k].value
<1> DEFINE A == {k \in DOMAIN hs : hs[k].name = name}
           m == Max(A)
<1>1. A \in SUBSET (0..n) /\ A # {}
  BY DEF Has
<1>2. Header(hs, name) = hs[m].value
  BY DEF Header
<1> HIDE DEF A
<1>3. m \in A
  BY <1>1, MaxIs
<1> HIDE DEF m
<1> QED
  BY <1>2, <1>3 DEF A

\* A form that is not refused, with a query that is not empty, came whole.
LEMMA WholeOrNothing ==
  ASSUME NEW t \in Seq(Byte), NEW s, Arrives(s, t),
         Parse(s).error = "none", Parse(s).body # <<>>
  PROVE  /\ Parse(s).body = FormBody(t) /\ s.body = FormBody(t) /\ s.blank
         /\ Parse(s).headers = s.headers
<1> DEFINE hs == s.headers
           n == Len(hs)
           form == FormBody(t)
           r == Parse(s)
<1>1. n \in Nat /\ DOMAIN hs = 1..n
  BY DEF Arrives
<1>2. /\ Len(s.body) \in 0..Len(form) /\ s.body = SubSeq(form, 1, Len(s.body))
      /\ s.blank \/ s.body = <<>>
  BY DEF Arrives
<1>3. \A k \in 1..n : hs[k].name = "content-length" =>
          \/ hs[k].value \in {NaN, Len(form)}
          \/ ~s.blank /\ hs[k].value > 0
          \/ \E j \in 1..n : hs[j].name = "content-length" /\ j # k
  BY <1>1 DEF Arrives
<1>4. form \in Seq(Byte) /\ Len(form) \in Nat /\ Len(form) > 0
  BY FormBodyIs, FormDelivers DEF IsForm
<1>5. Faults(hs) = {} /\ r = Body(s)
  <2> DEFINE first == Min(Faults(hs))
  <2>1. CASE Faults(hs) = {}
    <3>1. ~(s.line = "none" /\ s.end = "stall") /\ LineFault(s.line) = "none"
          /\ ~(~s.blank /\ s.end = "stall")
      BY <2>1 DEF Parse, Failed
    <3> QED
      BY <2>1, <3>1 DEF Parse
  <2>2. CASE Faults(hs) # {}
    <3>1. Faults(hs) \in SUBSET Nat
      BY <1>1 DEF Faults
    <3>2. first \in Faults(hs)
      BY <2>2, <3>1, MinIs
    <3>3. HeaderFault(hs, first) # "none"
      BY <3>2 DEF Faults
    <3>4. r.error \in {"ReadTimeout", LineFault(s.line), HeaderFault(hs, first)}
      BY <2>2 DEF Parse, Failed
    <3>5. r.error = LineFault(s.line) => LineFault(s.line) # "none" 
      BY <2>2, <3>3 DEF Parse, Failed
    <3> QED
      BY <2>2, <3>3, <3>4, <3>5
  <2> QED
    BY <2>1, <2>2
<1> DEFINE length == IF Has(hs, "content-length") THEN Header(hs, "content-length") ELSE 0
<1>6. /\ ~(length > MaxBody) /\ ~(length > Len(s.body))
      /\ r.headers = hs /\ r.body = SubSeq(s.body, 1, length)
  <2>1. r.error = "none"
    OBVIOUS
  <2>2. r = IF length > MaxBody THEN Failed("TooLarge")
            ELSE IF length > Len(s.body) THEN Failed("ContentLengthMismatch")
            ELSE [error |-> "none", headers |-> hs, body |-> SubSeq(s.body, 1, length)]
    BY <1>5 DEF Body
  <2> HIDE DEF r, length, hs
  <2> QED
    BY <2>1, <2>2 DEF Failed
<1>7. Has(hs, "content-length")
  <2> SUFFICES ASSUME ~Has(hs, "content-length")  PROVE FALSE
    OBVIOUS
  <2>1. length = 0
    OBVIOUS
  <2> HIDE DEF length
  <2>2. SubSeq(s.body, 1, 0) = <<>>
    BY SubSeqEmpty
  <2> QED
    BY <1>6, <2>1, <2>2
<1>8. PICK k \in 1..n : hs[k].name = "content-length" /\ length = hs[k].value
  BY <1>1, <1>7, HeaderIsOne
<1> HIDE DEF length
<1>9. length # NaN /\ \A j \in 1..n : hs[j].name = "content-length" => j = k
  BY <1>1, <1>5, <1>8, OneLength
<1>10. length = Len(form) \/ (~s.blank /\ length > 0)
  BY <1>3, <1>8, <1>9
<1>11. length = Len(form) /\ s.blank
  <2>1. s.body = <<>> => Len(s.body) = 0
    OBVIOUS
  <2>2. length > 0
    BY <1>4, <1>10
  <2> QED
    BY <1>2, <1>4, <1>6, <1>10, <2>1, <2>2
<1>12. Len(s.body) = Len(form)
  BY <1>2, <1>4, <1>6, <1>11
<1>13. SubSeq(form, 1, Len(form)) = form
  BY <1>4
<1> QED
  BY <1>2, <1>6, <1>11, <1>12, <1>13

-----------------------------------------------------------------------------
\* The submission.

Stages == {"typing", "sent", "handling", "stored", "previewed", "answered"}

\* What arrived is a part of the form, what the handler works on is what parse()
\* made of it and was not refused; until then there is no row, and a row holds a
\* text that was accepted; until it is there, nothing is previewed but it.
SubmissionInv ==
    /\ stage \in Stages
    /\ typed \in Seq(Pieces)
    /\ stage # "typing" => Arrives(stream, Text)
    /\ stage = "handling" => /\ request = Parse(stream)
                             /\ request.error = "none" /\ ~Refused(request)
    /\ stage \in {"typing", "sent", "handling"} => row = <<>> /\ preview = <<>>
    /\ stage = "stored" => row # <<>>
    /\ preview # <<>> => row # <<>> /\ preview = WrapQuery(row)
    /\ stage = "previewed" => /\ IsValue(value) /\ row # <<>>
                              /\ preview = WrapQuery(row) /\ Readable(preview)
    /\ row # <<>> => ValidateQuery(row) = "ok"
    /\ StoredWhole

\* What is typed is a text of bytes.
LEMMA TextType ==
  ASSUME typed \in Seq(Pieces)
  PROVE  Text \in Seq(Byte)
<1>1. typed \in Seq(Seq(Byte))
  BY PiecesAssumption, SeqMonotonic DEF Byte
<1> QED
  BY <1>1, FlattenType DEF Text

\* Who is let in showed the secret, and the tunnel's address.
LEMMA NotRefused ==
  ASSUME NEW r, ~Refused(r)
  PROVE  /\ Has(r.headers, "secret") /\ Header(r.headers, "secret") = "right"
         /\ Has(r.headers, "email")
  BY DEF Refused, W!Authenticate, W!Admitted

\* The invariant holds at first,
LEMMA InvInit == SubmissionInit => SubmissionInv
  BY DEF SubmissionInit, SubmissionInv, Stages, StoredWhole

\* What the handler stores came whole,
LEMMA HandlerStores ==
  ASSUME SubmissionInv, SubmitHandler, row' # row
  PROVE  StoredWhole' /\ ValidateQuery(row') = "ok"
<1> DEFINE query == Field(request.body, QueryField)
<1>1. stage = "handling" /\ ValidateQuery(query) = "ok" /\ row' = query
      /\ UNCHANGED <<typed, stream, request>>
  BY DEF SubmitHandler
<1>2. Text \in Seq(Byte) /\ Text' = Text
  BY <1>1, TextType DEF SubmissionInv, Text
<1>3. Arrives(stream, Text) /\ request = Parse(stream)
      /\ request.error = "none" /\ ~Refused(request)
  BY <1>1 DEF SubmissionInv
<1>4. request.body # <<>>
  <2> SUFFICES ASSUME request.body = <<>>  PROVE FALSE
    OBVIOUS
  <2>1. query = <<>>
    BY FieldOfNothing
  <2> HIDE DEF query
  <2> QED
    BY <1>1, <2>1, NothingIsEmpty
<1> DEFINE t == Text
<1> HIDE DEF t
<1>5. /\ request.body = FormBody(t) /\ stream.body = FormBody(t) /\ stream.blank
      /\ request.headers = stream.headers
  BY <1>2, <1>3, <1>4, WholeOrNothing DEF t
<1>6. query = t
  BY <1>2, <1>5, FormDelivers DEF t
<1>7. Header(stream.headers, "secret") = "right" /\ Has(stream.headers, "email")
  BY <1>3, <1>5, NotRefused
<1>8. Header(stream.headers, "email") = "given"
  <2> DEFINE hs == stream.headers
             n == Len(hs)
  <2>1. n \in Nat /\ DOMAIN hs = 1..n
    BY <1>3 DEF Arrives
  <2>2. \A k \in 1..n : hs[k].name = "email" => hs[k].value = "given"
    BY <1>3, <1>5, <2>1 DEF Arrives
  <2> HIDE DEF hs, n
  <2>3. \E k \in 1..n : hs[k].name = "email" /\ Header(hs, "email") = hs[k].value
    BY <1>7, <2>1, HeaderIsOne DEF hs
  <2> QED
    BY <2>2, <2>3 DEF hs
<1> HIDE DEF query
<1> QED
  BY <1>1, <1>2, <1>5, <1>6, <1>7, <1>8 DEF StoredWhole, t

\* and every step keeps it.
LEMMA InvStep == SubmissionInv /\ [SubmissionNext]_subvars => SubmissionInv'
<1> SUFFICES ASSUME SubmissionInv, [SubmissionNext]_subvars  PROVE SubmissionInv'
  OBVIOUS
<1>1. CASE Type
  <2>1. typed' \in Seq(Pieces) /\ row = <<>> /\ preview = <<>>
    BY <1>1 DEF Type, SubmissionInv
  <2> QED
    BY <1>1, <2>1 DEF Type, SubmissionInv, StoredWhole, Stages
<1>2. CASE Send
  <2>1. Text' = Text
    BY <1>2 DEF Send, Text
  <2> QED
    BY <1>2, <2>1 DEF Send, SubmissionInv, StoredWhole, Stages
<1>3. CASE Receive
  <2>1. Text' = Text /\ UNCHANGED <<typed, stream, row, preview>> /\ row = <<>>
        /\ preview = <<>> /\ stage # "typing"
        /\ Arrives(stream, Text)
    BY <1>3 DEF Receive, Text, SubmissionInv
  <2>2. request' = Parse(stream) /\ stage' \in {"handling", "answered"}
    BY <1>3 DEF Receive
  <2>3. stage' = "handling" => request'.error = "none" /\ ~Refused(request')
    BY <1>3 DEF Receive
  <2>4. Refused(request)' = Refused(request')
    BY DEF Refused
  <2> QED
    BY <2>1, <2>2, <2>3, <2>4 DEF SubmissionInv, StoredWhole, Stages
<1>4. CASE SubmitHandler
  <2>1. /\ Text' = Text /\ UNCHANGED <<typed, stream, preview>> /\ stage = "handling"
        /\ stage' \in {"stored", "answered"}
    BY <1>4 DEF SubmitHandler, Text
  <2>2. StoredWhole' /\ (row' # <<>> => ValidateQuery(row') = "ok")
    <3>1. row = <<>>
      BY <2>1 DEF SubmissionInv
    <3> QED
      BY <1>4, <3>1, HandlerStores DEF StoredWhole
  <2>3. stage' = "stored" => row' # <<>>
    <3> DEFINE query == Field(request.body, QueryField)
    <3>1. stage' = "stored" => row' = query /\ ValidateQuery(query) = "ok"
      BY <1>4 DEF SubmitHandler
    <3> HIDE DEF query
    <3> QED
      BY <3>1, NothingIsEmpty
  <2>4. preview = <<>> /\ typed \in Seq(Pieces) /\ Arrives(stream, Text)
    BY <2>1 DEF SubmissionInv
  <2> QED
    BY <2>1, <2>2, <2>3, <2>4 DEF SubmissionInv, Stages
<1>5. CASE RunPreview
  <2>1. Text' = Text /\ UNCHANGED <<typed, stream, row>> /\ stage = "stored"
        /\ stage' \in {"previewed", "answered"}
    BY <1>5 DEF RunPreview, Text
  <2>2. /\ stage' = "previewed" => IsValue(value') /\ Readable(preview')
        /\ preview' = WrapQuery(row)
    BY <1>5 DEF RunPreview
  <2>3. StoredWhole'
    BY <2>1 DEF SubmissionInv, StoredWhole
  <2>4. row # <<>>
    BY <2>1 DEF SubmissionInv
  <2>5. preview' = WrapQuery(row') /\ Readable(preview)' = Readable(preview')
    BY <2>1, <2>2 DEF Readable, Ends, Live
  <2> QED
    BY <2>1, <2>2, <2>3, <2>4, <2>5 DEF SubmissionInv, Stages
<1>6. CASE UNCHANGED subvars
  <2>1. Text' = Text
    BY <1>6 DEF subvars, Text
  <2> QED
    BY <1>6, <2>1 DEF subvars, SubmissionInv, StoredWhole
<1> QED
  BY <1>1, <1>2, <1>3, <1>4, <1>5, <1>6 DEF SubmissionNext

\* The inductive invariant of Submission.
LEMMA SubmissionInvariant == SubmissionSpec => []SubmissionInv
  BY InvInit, InvStep, PTL DEF SubmissionSpec

\* A row of the table requests holds the text as it was typed, byte for byte,
\* whatever is typed and however the stream is cut, torn or reordered
\* (src/http/request.rs, submit_handler).
THEOREM StoredWholeHolds == SubmissionSpec => []StoredWhole
<1>1. SubmissionInv => StoredWhole
  BY DEF SubmissionInv
<1> QED
  BY <1>1, SubmissionInvariant, PTL

\* What PostgreSQL reads in a row is one statement, and its first word is SELECT
\* or WITH, of any sequence of bytes whose lines and blanks it sees as the
\* validator does and in which no comment stands in a comment: whatever comments,
\* literals and semicolons it is made of, ended or not.
\* src/preview/validator.rs does not look for literals.
THEOREM AcceptedIsOneSelectHolds == SubmissionSpec => []AcceptedIsOneSelect
<1>1. SubmissionInv => AcceptedIsOneSelect
  <2> SUFFICES ASSUME SubmissionInv, row # <<>>, Plain(row), ~Lex(row).nested
               PROVE  IsOneSelect(row)
    BY DEF AcceptedIsOneSelect
  <2>1. row = Text /\ ValidateQuery(row) = "ok" /\ typed \in Seq(Pieces)
    BY DEF SubmissionInv, StoredWhole
  <2>2. row \in Seq(Byte)
    BY <2>1, TextType
  <2>3. ~Stacked(row)
    BY <2>1 DEF ValidateQuery
  <2>4. OneStatement(row)
    BY <2>2, <2>3, OneStatementHolds
  <2>5. Goal(Lex(row))
    BY <2>1, <2>2, FirstIsSelect
  <2> QED
    BY <2>4, <2>5 DEF IsOneSelect, Goal, Live
<1> QED
  BY <1>1, SubmissionInvariant, PTL

\* The reader of a preview sees what will be executed: of any sequence of bytes
\* that PostgreSQL takes as a preview, and that it would not refuse for its
\* parentheses when it is executed, the preview is the statement of the row, no
\* more and no less, between the parentheses of src/preview/wrapper.rs, and
\* neither they nor the LIMIT behind them are in a comment or a literal.
THEOREM PreviewTellsExecutionHolds == SubmissionSpec => []PreviewTellsExecution
<1>1. SubmissionInv => PreviewTellsExecution
  <2> SUFFICES ASSUME SubmissionInv, stage = "previewed", Readable(row), PlainEnds(row)
               PROVE  Live(preview) = <<Select, Open>> \o Statement(row) \o <<Close, Sub>>
    BY DEF PreviewTellsExecution
  <2>1. /\ row # <<>> /\ preview = WrapQuery(row) /\ Readable(preview)
        /\ row = Text /\ ValidateQuery(row) = "ok" /\ typed \in Seq(Pieces)
    BY DEF SubmissionInv, StoredWhole
  <2>2. row \in Seq(Byte) /\ Readable(WrapQuery(row))
    BY <2>1, TextType
  <2> QED
    BY <2>1, <2>2, PreviewIs
<1> QED
  BY <1>1, SubmissionInvariant, PTL

\* The cell in the reader's browser shows the text of the value that the target
\* returned, or NULL, whatever characters it is made of (run_preview,
\* html_escape).
THEOREM CellTruthfulHolds == SubmissionSpec => []CellTruthful
<1>1. SubmissionInv => CellTruthful
  BY CellShows DEF SubmissionInv, CellTruthful
<1> QED
  BY <1>1, SubmissionInvariant, PTL
=============================================================================
