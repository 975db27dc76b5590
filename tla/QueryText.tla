------------------------------ MODULE QueryText ------------------------------
(***************************************************************************)
(* What src/preview makes of the text of a query: whether it is accepted,  *)
(* and the text that is previewed.  A text is a sequence of character      *)
(* codes, all below 256; two of them stand for whole words, Select for     *)
(* SELECT or WITH, Sub for what wrap_query puts behind its parenthesis,    *)
(* and any other letter for a word of its own.                             *)
(*                                                                         *)
(* Below it, as a reference, what PostgreSQL reads in a text: comments     *)
(* nest, a literal hides them, both may still be open at the end, and a    *)
(* text whose parentheses do not match is refused.                         *)
(***************************************************************************)
EXTENDS Integers, Sequences, SequencesExt

CONSTANT MaxQueryLen   \* 32 KiB

Select == 83
Sub == 76
Word == 84
Blank == 32
NewLine == 10
Return == 13
Semicolon == 59
Slash == 47
Star == 42
Dash == 45
Quote == 39
Open == 40
Close == 41

\* char::is_whitespace
White == 9..13 \cup {Blank, 133, 160}

\* The bytes of a character.
Utf8(c) == IF c < 128 THEN <<c>> ELSE <<192 + (c \div 64), 128 + (c % 64)>>

\* query.len(): the bytes of the text in UTF-8.
Bytes(t) == FoldLeft(LAMBDA n, c : n + Len(Utf8(c)), 0, t)

Trim(t) ==
    LET solid == {i \in DOMAIN t : t[i] \notin White}
    IN IF solid = {} THEN <<>> ELSE SubSeq(t, Min(solid), Max(solid))

TrimSemicolons(t) ==
    SubSeq(t, 1, Max({0} \cup {i \in DOMAIN t : t[i] # Semicolon}))

\* The characters a, b stand at i.
Two(t, i, a, b) == i < Len(t) /\ t[i] = a /\ t[i + 1] = b

\* Where a block comment whose text starts at i is closed.
Closings(t, i) == {j \in i..Len(t) : Two(t, j, Star, Slash)}

\* Where it ends.  It does not nest; one that is never closed takes all.
AfterBlock(t, i) == IF Closings(t, i) = {} THEN Len(t) + 1 ELSE Min(Closings(t, i)) + 2

\* It leaves a blank, and if it is never closed the last byte of the text too,
\* which is no word.
KeptOfBlock(t, i) ==
    IF Closings(t, i) # {} \/ i > Len(t) THEN <<Blank>>
    ELSE <<Blank, IF Last(t) = Select THEN Word ELSE Last(Utf8(Last(t)))>>

\* A line comment leaves its newline.
AfterLine(t, i) == Min({j \in i..Len(t) : t[j] = NewLine} \cup {Max({i, Len(t) + 1})})

\* What is put out for what stands at i, where each byte becomes a character of
\* its own, and where the scan goes on.
Kept(t, i) ==
    IF Two(t, i, Slash, Star) THEN KeptOfBlock(t, i + 2)
    ELSE IF Two(t, i, Dash, Dash) THEN <<Blank>>
    ELSE Utf8(t[i])

Past(t, i) ==
    IF Two(t, i, Slash, Star) THEN AfterBlock(t, i + 2)
    ELSE IF Two(t, i, Dash, Dash) THEN AfterLine(t, i + 2)
    ELSE i + 1

StripComments(t) ==
    LET from[i \in Nat \ {0}] ==
            IF i > Len(t) THEN <<>> ELSE Kept(t, i) \o from[Past(t, i)]
    IN from[1]

\* Mistake: one statement too many.
Stacked_OneMore(t) ==
    \E i, j, k, l, m \in DOMAIN t :
        /\ i < j /\ j < k /\ k < l /\ l < m
        /\ t[j] = Semicolon /\ t[l] = Semicolon
        /\ {t[i], t[k], t[m]} \cap (White \cup {Semicolon}) = {}

\* More than one of the parts between semicolons is not blank.  Comments and
\* literals are not looked for.
Stacked(t) ==
    \E i, j, k \in DOMAIN t :
        /\ i < j /\ j < k
        /\ t[j] = Semicolon
        /\ {t[i], t[k]} \cap (White \cup {Semicolon}) = {}

\* "ok", or the first check that refuses t.
ValidateQuery(t) ==
    LET trimmed == Trim(StripComments(Trim(t)))
    IN IF trimmed = <<>> THEN "empty"
       ELSE IF Bytes(t) > MaxQueryLen THEN "too long"
       ELSE IF Stacked(t) THEN "stacked"
       ELSE IF trimmed[1] # Select THEN "not a SELECT"
       ELSE "ok"

\* Mistake: what is previewed is the text without its comments, or what
\* strip_comments takes for such.
WrapQuery_Stripped(t) ==
    <<Select, Open>> \o Trim(TrimSemicolons(Trim(StripComments(Trim(t))))) \o <<Close, Sub>>

\* SELECT * FROM (t) sub LIMIT 5
WrapQuery(t) == <<Select, Open>> \o Trim(TrimSemicolons(Trim(t))) \o <<Close, Sub>>

-----------------------------------------------------------------------------
\* The reference: how PostgreSQL's scanner reads a text.

PgWhite == 9..13 \cup {Blank}

\* A semicolon outside comments and literals, and a character of a literal.
Terminator == 256
Literal(c) == 512 + c

Scanner == [in |-> "code", depth |-> 0, held |-> FALSE, nested |-> FALSE, live |-> <<>>]

\* One character further: in code, in a block comment depth comments deep, in
\* a line comment or in a literal.  held: the next character was taken too.
Scan(t, s, i) ==
    LET to(where) == [s EXCEPT !.in = where]
        taken == [s EXCEPT !.held = TRUE]
        read(c) == [s EXCEPT !.live = Append(@, c)]
    IN IF s.held THEN [s EXCEPT !.held = FALSE]
       ELSE IF s.in \in {"code", "block"} /\ Two(t, i, Slash, Star)
       THEN [taken EXCEPT !.in = "block", !.depth = @ + 1,
                          !.nested = @ \/ s.depth > 0]
       ELSE CASE s.in = "block" ->
                     IF Two(t, i, Star, Slash)
                     THEN [taken EXCEPT !.in = IF s.depth = 1 THEN "code" ELSE @,
                                        !.depth = @ - 1]
                     ELSE s
              [] s.in = "line" ->
                     IF t[i] \in {NewLine, Return} THEN to("code") ELSE s
              [] s.in = "literal" ->
                     [read(Literal(t[i])) EXCEPT
                          !.in = IF t[i] = Quote THEN "code" ELSE @]
              [] s.in = "code" ->
                     IF Two(t, i, Dash, Dash) THEN to("line")
                     ELSE IF t[i] \in PgWhite THEN s
                     ELSE IF t[i] = Quote THEN [read(Quote) EXCEPT !.in = "literal"]
                     ELSE read(IF t[i] = Semicolon THEN Terminator ELSE t[i])

Lex(t) ==
    LET after[i \in 0..Len(t)] ==
            IF i = 0 THEN Scanner ELSE Scan(t, after[i - 1], i)
    IN after[Len(t)]

\* What is left of t without comments and blanks.
Live(t) == Lex(t).live

\* Nothing is still open at the end of t.
Ends(t) == Lex(t).in \in {"code", "line"}

\* The statements of t that are not empty number at most one.
OneStatement(t) ==
    \A i, j, k \in DOMAIN Live(t) :
        i < j /\ j < k /\ Live(t)[j] = Terminator =>
            Terminator \in {Live(t)[i], Live(t)[k]}

\* One statement, and it starts with SELECT or WITH.
IsOneSelect(t) == OneStatement(t) /\ Live(t) # <<>> /\ Live(t)[1] = Select

\* Live(t) without the terminators at its end.
Statement(t) ==
    SubSeq(Live(t), 1, Max({0} \cup {i \in DOMAIN Live(t) : Live(t)[i] # Terminator}))

\* How many parentheses c opens.
Opens(c) == CASE c = Open -> 1 [] c = Close -> -1 [] OTHER -> 0

\* How many parentheses are open behind the first i characters, for each i.
Depth(live) ==
    LET depth[i \in 0..Len(live)] == IF i = 0 THEN 0 ELSE depth[i - 1] + Opens(live[i])
    IN depth

\* Parentheses match, and no statement ends inside them.
Matched(live) ==
    LET depth == Depth(live)
    IN /\ \A i \in DOMAIN live :
              /\ depth[i] >= 0
              /\ live[i] = Terminator => depth[i] = 0
       /\ depth[Len(live)] = 0

\* PostgreSQL does not refuse t for what is open at its end or for its
\* parentheses.
Readable(t) == Ends(t) /\ Matched(Live(t))

\* The validator and PostgreSQL see the same lines and blanks in t: a newline
\* stands behind each carriage return (which ends a line comment for PostgreSQL
\* only), and what only char::is_whitespace takes for a blank is the second byte
\* of a letter.
Plain(t) ==
    \A i \in DOMAIN t :
        /\ t[i] \in White \ PgWhite => i > 1 /\ t[i - 1] >= 128
        /\ t[i] = Return => i < Len(t) /\ t[i + 1] = NewLine

\* At both ends of t too: what Trim and TrimSemicolons take away, PostgreSQL
\* does not read.
PlainEnds(t) ==
    LET solid == {i \in DOMAIN t : t[i] \notin PgWhite \cup {Semicolon}}
    IN solid # {} => {t[Min(solid)], t[Max(solid)]} \cap White = {}
=============================================================================
