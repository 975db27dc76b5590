---------------------------- MODULE HttpRequest ----------------------------
(***************************************************************************)
(* src/http/request.rs: what parse() makes of the bytes that arrive before *)
(* the client falls silent or closes, and what parse_form() makes of a     *)
(* body.                                                                   *)
(*                                                                         *)
(* A body is a sequence of bytes.  The lines before it are records: a      *)
(* header has a name and a value, that of Content-Length a number or NaN.  *)
(* A stream is                                                             *)
(*    line    the request line: "good", or what is wrong with it, or "none" *)
(*    headers the header lines                                             *)
(*    blank   whether the empty line after them arrived                    *)
(*    body    the bytes after it                                           *)
(*    end     what follows: "eof", or "stall" when nothing comes for 30 s  *)
(* End of input ends a line too, so at "eof" the last line may be a torn   *)
(* one; before a "stall" a torn line is never read and is left out.        *)
(***************************************************************************)
EXTENDS Integers, Sequences, SequencesExt

CONSTANT MaxBody   \* 1 MiB

NaN == -1

\* What is wrong with header k of hs, seen after the headers before it.
\* "huge" stands for the header that brings them beyond 64 KiB, "garbled" for
\* a line that is no UTF-8, which is taken for a timeout.
HeaderFault(hs, k) ==
    LET h == hs[k]
        again == \E j \in 1..(k - 1) : hs[j].name = h.name
    IN CASE h.name = "huge"                              -> "TooLarge"
         [] h.name = "garbled"                           -> "ReadTimeout"
         [] h.name = "content-length" /\ (again \/ h.value = NaN) -> "MalformedRequestLine"
         [] h.name = "host" /\ again                     -> "MalformedRequestLine"
         [] h.name = "transfer-encoding" /\ h.value = "chunked" -> "ChunkedNotSupported"
         [] OTHER                                        -> "none"

LineFault(line) ==
    CASE line = "good"       -> "none"
      [] line = "long"       -> "TooLarge"
      [] line = "oldversion" -> "UnsupportedVersion"
      [] line = "garbled"    -> "ReadTimeout"
      [] OTHER               -> "MalformedRequestLine"

Faults(hs) == {k \in DOMAIN hs : HeaderFault(hs, k) # "none"}

Has(hs, name) == \E k \in DOMAIN hs : hs[k].name = name

\* The value kept for a name is the last one.  A line without a colon has the
\* name "none" and is skipped.
Header(hs, name) == hs[Max({k \in DOMAIN hs : hs[k].name = name})].value

Failed(e) == [error |-> e, headers |-> <<>>, body |-> <<>>]

\* Mistake: read() in place of read_exact(), a short body is taken as it is.
Body_Short(s) == [error |-> "none", headers |-> s.headers, body |-> s.body]

\* As many bytes as Content-Length says, none without it.
Body(s) ==
    LET length == IF Has(s.headers, "content-length")
                  THEN Header(s.headers, "content-length") ELSE 0
    IN IF length > MaxBody THEN Failed("TooLarge")
       ELSE IF length > Len(s.body) THEN Failed("ContentLengthMismatch")
       ELSE [error |-> "none", headers |-> s.headers,
             body |-> SubSeq(s.body, 1, length)]

\* End of input ends the headers like an empty line does; silence does not.
Parse(s) ==
    LET first == Min(Faults(s.headers))
    IN IF s.line = "none" /\ s.end = "stall" THEN Failed("ReadTimeout")
       ELSE IF LineFault(s.line) # "none" THEN Failed(LineFault(s.line))
       ELSE IF Faults(s.headers) # {} THEN Failed(HeaderFault(s.headers, first))
       ELSE IF ~s.blank /\ s.end = "stall" THEN Failed("ReadTimeout")
       ELSE Body(s)

-----------------------------------------------------------------------------
\* Forms.

Plus == 43
Percent == 37
Ampersand == 38
Equals == 61
Space == 32

HexVal(b) == CASE b \in 48..57  -> b - 48
               [] b \in 65..70  -> b - 55
               [] b \in 97..102 -> b - 87
               [] OTHER         -> 16     \* None

\* The bytes from s[i] on that become one character or are kept together.
Group(s, i) == SubSeq(s, i, IF s[i] = Percent THEN Min({i + 2, Len(s)}) ELSE i)

Decoded(g) ==
    CASE Len(g) = 3 /\ HexVal(g[2]) < 16 /\ HexVal(g[3]) < 16 ->
             <<16 * HexVal(g[2]) + HexVal(g[3])>>
      [] g = <<Plus>> -> <<Space>>
      [] OTHER        -> g

\* Each byte, or %XX, becomes one character with that code.  A % that no two
\* hexadecimal digits follow is kept, and so are the two bytes after it.
PercentDecode(s) ==
    LET from[i \in Nat \ {0}] ==
            IF i > Len(s) THEN <<>>
            ELSE Decoded(Group(s, i)) \o from[i + Len(Group(s, i))]
    IN from[1]

\* The non-empty runs of bytes between the &s of s.
Pairs(s) ==
    LET starts == {i \in DOMAIN s : i = 1 \/ s[i - 1] = Ampersand}
        ends == {i \in DOMAIN s : i = Len(s) \/ s[i + 1] = Ampersand}
    IN {p \in starts \X ends :
           p[1] <= p[2] /\ \A i \in p[1]..p[2] : s[i] # Ampersand}

\* split_once('='): without one the whole pair is the key.
Sign(s, p) == Min({i \in p[1]..p[2] : s[i] = Equals} \cup {p[2] + 1})
Key(s, p) == PercentDecode(SubSeq(s, p[1], Sign(s, p) - 1))
Value(s, p) == PercentDecode(SubSeq(s, Sign(s, p) + 1, p[2]))

\* form.get(key), "" without one.  Of two values the later one is kept.
Field(s, key) ==
    LET found == {p \in Pairs(s) : Key(s, p) = key}
        last == CHOOSE p \in found : \A q \in found : q[1] <= p[1]
    IN IF found = {} THEN <<>> ELSE Value(s, last)
=============================================================================
