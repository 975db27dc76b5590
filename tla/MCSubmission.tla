---------------------------- MODULE MCSubmission ----------------------------
(***************************************************************************)
(* An instance of Submission for TLC: what is typed, and how it arrives.   *)
(* A text of one or two pieces arrives in every way, a longer one in one.  *)
(***************************************************************************)
EXTENDS SubmissionClaims

\* Words, line ends, terminators, comments, literals and parentheses; the
\* two bytes of a letter beyond ASCII, of which the second alone is what only
\* char::is_whitespace takes for a blank; and, with a blank, what the encoding of
\* forms has a use for.
MCPieces ==
    {<<Select>>, <<Word>>, <<NewLine>>, <<Return>>, <<Semicolon>>, <<Quote>>,
     <<Slash, Star>>, <<Star, Slash>>, <<Dash, Dash>>, <<Open>>, <<Close>>,
     <<195>>, <<160>>, <<Percent, Plus, Blank, Ampersand, Equals>>}

\* Lines, and comments that take one.
LinePieces == {<<Select>>, <<Word>>, <<NewLine>>, <<Return>>, <<Dash, Dash>>}

\* Parentheses, and comments that hide one.
ParenPieces == {<<Select>>, <<Word>>, <<Open>>, <<Close>>, <<Dash, Dash>>, <<Blank>>}

Secret == [name |-> "secret", value |-> "right"]
Email == [name |-> "email", value |-> "given"]
ContentLength(n) == [name |-> "content-length", value |-> n]
Other(name) == [name |-> name, value |-> "other"]

Request(hs, t) == [line |-> "good", headers |-> hs, blank |-> TRUE,
                   body |-> FormBody(t), end |-> "stall"]

Whole(t) == Request(<<ContentLength(Len(FormBody(t))), Secret, Email>>, t)

\* A header that loses its end: its name, or a part of its value.
Torn(h) ==
    {Other("none")} \cup
    CASE h.name = "secret" -> {[h EXCEPT !.value = "wrong"]}
      [] h.name = "email"  -> {[h EXCEPT !.value = "partial"]}
      [] OTHER -> {[h EXCEPT !.value = IF @ < 10 THEN NaN ELSE @ \div 10]}

\* The stream ends, or falls silent, in the request line, among the headers,
\* or in the body.
Cuts(s) ==
    LET ended == [s EXCEPT !.end = "eof", !.blank = FALSE, !.body = <<>>]
        first(k) == SubSeq(s.headers, 1, k)
    IN {[ended EXCEPT !.line = l, !.headers = <<>>] :
            l \in {"none", "malformed", "oldversion"}}
       \cup {[ended EXCEPT !.headers = first(k)] : k \in 0..Len(s.headers)}
       \cup {[ended EXCEPT !.headers = first(k), !.end = "stall"] :
                 k \in 0..Len(s.headers)}
       \cup UNION {{[ended EXCEPT !.headers = Append(first(k - 1), h)] :
                        h \in Torn(s.headers[k])} : k \in DOMAIN s.headers}
       \cup {[s EXCEPT !.body = SubSeq(@, 1, k), !.end = e] :
                 k \in 0..(Len(s.body) - 1), e \in {"eof", "stall"}}

\* Requests with headers that parse() refuses, overrules or skips.
Odd(t) ==
    LET hs == Whole(t).headers
    IN {Request(InsertAt(hs, 1, h), t) :
            h \in {ContentLength(3), ContentLength(NaN), Other("none"), Other("huge"),
                   Other("garbled"), [name |-> "transfer-encoding", value |-> "chunked"],
                   [name |-> "secret", value |-> "wrong"]}}
       \cup {Request(<<Other("host")>> \o hs \o <<Other("host")>>, t),
             Request(hs \o <<[name |-> "secret", value |-> "wrong"]>>, t)}
       \cup {[Whole(t) EXCEPT !.line = l] : l \in {"long", "garbled", "none"}}

MCStreams(t) ==
    IF Len(t) > 2 THEN {Whole(t)}
    ELSE LET lines == {ContentLength(Len(FormBody(t))), Secret, Email}
             orders == {Request(hs, t) : hs \in SetToSeqs(lines)}
         IN orders \cup Odd(t) \cup UNION {Cuts(s) : s \in orders}

Texts == BoundedSeq({"&", "<", ">", "\"", "x", "amp;", "lt;"}, 3)

\* A text of one piece gets every value.
MCResults(t) ==
    IF Len(t) > 1 THEN {NoValue}
    ELSE {[type |-> ty, text |-> s] : ty \in {"text", "varchar", "json"}, s \in Texts}
         \cup {[type |-> ty, text |-> <<"7">>] : ty \in {"int2", "int4", "int8", "numeric"}}
         \cup {[type |-> ty, text |-> s] :
                   ty \in {"float4", "float8"}, s \in {<<"7">>, <<"NaN">>}}
         \cup {[type |-> "bool", text |-> <<"true">>], NoValue}
=============================================================================
