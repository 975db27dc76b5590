----------------------------- MODULE Submission -----------------------------
(***************************************************************************)
(* One submission, as data: the text a client sends becomes a form body,   *)
(* a stream of bytes that may be cut off, a request, a form, a row of the  *)
(* table requests, a wrapped query at the target, and a cell of the page   *)
(* that the reader approves by.  Gate has the same handler with the text   *)
(* left out and with everything that runs beside it.                       *)
(***************************************************************************)
EXTENDS HttpRequest, QueryText, Cells

CONSTANTS
    Pieces,      \* what may be typed or sent, each a sequence of bytes
    MaxPieces,   \* how many of them
    Streams(_),  \* the streams by which a text may arrive
    Results(_)   \* the values the target may return for a text

ASSUME PiecesAssumption == Pieces \subseteq Seq(0..255)

VARIABLES
    stage,    \* how far the submission has come
    typed,    \* the pieces typed
    stream,   \* what the client sent
    request,  \* what parse() made of it
    row,      \* query_text of the row inserted, <<>> before
    preview,  \* the text run at the target, <<>> before
    value     \* the value that the target returned

subvars == <<stage, typed, stream, request, row, preview, value>>

W == INSTANCE Web WITH Assets <- {}, Unsafe <- {}

NoValue == [type |-> "unset", text |-> <<>>]

Text == FlattenSeq(typed)

\* The client's encoding of a form field (external: a browser, or any other).
HexDigit(n) == IF n < 10 THEN 48 + n ELSE 55 + n
Encoded(c) ==
    CASE c \in 65..90 \cup 97..122 -> <<c>>
      [] c = Space                 -> <<Plus>>
      [] OTHER -> <<Percent, HexDigit(c \div 16), HexDigit(c % 16)>>
UrlEncode(s) == FlattenSeq([k \in DOMAIN s |-> Encoded(s[k])])

\* The names of the fields query and target_db.
QueryField == <<113>>
TargetField == <<100>>

FormBody(t) == QueryField \o <<Equals>> \o UrlEncode(t)
               \o <<Ampersand>> \o TargetField \o <<Equals, 120, 121>>

\* What may arrive of the form with the text t (external: the browser, the
\* network): its body comes last, in order, and may stop anywhere.  Of a request
\* that goes on behind its headers all of these came whole.  The length that is
\* announced is the body's, but in a line that was cut, or that is no number,
\* or of which there are two.
Arrives(s, t) ==
    LET body == FormBody(t)
        lengths == {k \in DOMAIN s.headers : s.headers[k].name = "content-length"}
    IN /\ s.headers \in Seq(Range(s.headers))
       /\ Len(s.body) \in 0..Len(body) /\ s.body = SubSeq(body, 1, Len(s.body))
       /\ s.blank \/ s.body = <<>>
       /\ \A k \in lengths :
              \/ s.headers[k].value \in {NaN, Len(body)}
              \/ ~s.blank /\ s.headers[k].value > 0
              \/ lengths # {k}
       /\ s.blank => \A k \in DOMAIN s.headers :
                         s.headers[k].name = "email" => s.headers[k].value = "given"

SubmissionInit ==
    /\ stage = "typing" /\ typed = <<>>
    /\ stream = <<>> /\ request = Failed("unread")
    /\ row = <<>> /\ preview = <<>> /\ value = NoValue

Type ==
    /\ stage = "typing"
    /\ Len(typed) < MaxPieces
    /\ \E p \in Pieces : typed' = Append(typed, p)
    /\ UNCHANGED <<stage, stream, request, row, preview, value>>

Send ==
    /\ stage = "typing"
    /\ \E s \in Streams(Text) : Arrives(s, Text) /\ stream' = s
    /\ stage' = "sent"
    /\ UNCHANGED <<typed, request, row, preview, value>>

\* The status authenticate() refuses r with.
Refused(r) ==
    W!Authenticate([secret |-> IF Has(r.headers, "secret")
                               THEN Header(r.headers, "secret") ELSE "absent",
                    email |-> IF Has(r.headers, "email") THEN "given" ELSE "absent"],
                   TRUE) # W!Admitted

\* parse() and authenticate(): an error, a refusal, or the handler.
Receive ==
    /\ stage = "sent"
    /\ request' = Parse(stream)
    /\ stage' = IF request'.error # "none" \/ Refused(request') THEN "answered"
                ELSE "handling"
    /\ UNCHANGED <<typed, stream, row, preview, value>>

\* submit_handler: the text is stored if it is valid, the target is named, and
\* the insert succeeds.
SubmitHandler ==
    LET query == Field(request.body, QueryField)
        valid == /\ ValidateQuery(query) = "ok"
                 /\ Field(request.body, TargetField) # <<>>
    IN /\ stage = "handling"
       /\ \/ valid /\ row' = query /\ stage' = "stored"
          \/ row' = row /\ stage' = "answered"
       /\ UNCHANGED <<typed, stream, request, preview, value>>

\* run_preview_pipeline: the wrapped text is run and a value comes back, or
\* there is no target, or it fails, as it does of a text that cannot be read.
RunPreview ==
    /\ stage = "stored"
    /\ preview' = WrapQuery(row)
    /\ \/ /\ stage' = "previewed" /\ Readable(preview')
          /\ \E v \in Results(Text) : IsValue(v) /\ value' = v
       \/ stage' = "answered" /\ UNCHANGED value
    /\ UNCHANGED <<typed, stream, request, row>>

SubmissionNext == Type \/ Send \/ Receive \/ SubmitHandler \/ RunPreview

SubmissionSpec == SubmissionInit /\ [][SubmissionNext]_subvars

-----------------------------------------------------------------------------
\* A row holds the text as it was typed, byte for byte as a character each,
\* and came in a request that was complete and showed the tunnel's secret; of
\* a request cut off anywhere, in a header, between two or in the body, nothing
\* is stored, although the end of input ends the headers like an empty line
\* does (src/http/request.rs:98).
StoredWhole ==
    row # <<>> => /\ row = Text
                  /\ stream.blank /\ stream.body = FormBody(Text)
                  /\ Header(stream.headers, "secret") = "right"
                  /\ Header(stream.headers, "email") = "given"

\* What is stored is, for PostgreSQL too, one statement and starts with SELECT or
\* WITH: of a text in which both see the same lines and blanks, and in which no
\* comment is nested, of which the validator says that it does not handle them
\* (src/preview/validator.rs:65).
AcceptedIsOneSelect ==
    row # <<>> /\ Plain(row) /\ ~Lex(row).nested => IsOneSelect(row)

\* What was previewed is the statement that will be executed, all of it and
\* nothing else, and stands between the wrapper's own parentheses.  PostgreSQL
\* took the preview; the text is one that it does not refuse for its parentheses
\* when it is executed (src/preview/wrapper.rs:17, src/execute/engine.rs:75).
PreviewTellsExecution ==
    stage = "previewed" /\ Readable(row) /\ PlainEnds(row) =>
        Live(preview) = <<Select, Open>> \o Statement(row) \o <<Close, Sub>>

\* The cell the reader looks at shows the target's value, or NULL.
CellTruthful ==
    stage = "previewed" =>
        Displayed(Cell(ReadCell(value))) \in {value.text, <<"NULL">>}
=============================================================================
