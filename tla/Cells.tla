-------------------------------- MODULE Cells --------------------------------
(***************************************************************************)
(* A value of the target on its way into the reader's page:                *)
(* run_preview reads it with the driver (src/targets/postgres_target.rs),  *)
(* preview_result writes it into a table cell (src/templates.rs), and the  *)
(* reader's browser shows the cell.                                        *)
(*                                                                         *)
(* A value has the target's type and its text, a sequence of characters;   *)
(* "NaN" also stands for the infinities.  In HTML what may follow an & is  *)
(* one character: "amp;", "lt;", "gt;" or "quot;".                         *)
(***************************************************************************)
EXTENDS Naturals, Sequences, SequencesExt

Null == [kind |-> "null", text |-> <<>>]

Json(kind, text) == [kind |-> kind, text |-> text]

\* What the driver's conversions accept: i64 takes int8 and nothing else, f64
\* takes float8, String takes the text types (external: postgres-types).
Accepts(asked, type) ==
    CASE asked = "number" -> type \in {"int8", "float8"}
      [] asked = "bool"   -> type = "bool"
      [] asked = "string" -> type \in {"text", "varchar", "bpchar", "name"}

\* The conversion asked for a column of the type.
Asked(type) ==
    CASE type \in {"int2", "int4", "int8", "float4", "float8"} -> "number"
      [] type = "bool"                                         -> "bool"
      [] OTHER                                                 -> "string"

\* What the target can return: a number or a truth value is written without
\* the characters that HTML treats on their own (external: PostgreSQL).
IsValue(value) ==
    /\ value.text \in Seq(STRING)
    /\ Asked(value.type) # "string" =>
           \A k \in DOMAIN value.text : value.text[k] \notin {"<", "&"}

\* try_get(..).unwrap_or(Null): NULL, a type the conversion does not take, and
\* a float that JSON has no number for.
ReadCell(value) ==
    IF value.type = "unset" \/ ~Accepts(Asked(value.type), value.type)
       \/ value.text = <<"NaN">>
    THEN Null ELSE Json(Asked(value.type), value.text)

Replace(s, old, new) ==
    FlattenSeq([k \in DOMAIN s |-> IF s[k] = old THEN new ELSE <<s[k]>>])

\* Mistake: the & of the other replacements is escaped again.
HtmlEscape_AmpLast(s) ==
    Replace(Replace(Replace(Replace(s, "<", <<"&", "lt;">>), ">", <<"&", "gt;">>),
                    "\"", <<"&", "quot;">>), "&", <<"&", "amp;">>)

HtmlEscape(s) ==
    Replace(Replace(Replace(Replace(s, "&", <<"&", "amp;">>), "<", <<"&", "lt;">>),
                    ">", <<"&", "gt;">>), "\"", <<"&", "quot;">>)

\* The content of the cell; NULL is written with markup of its own.
Cell(json) ==
    CASE json.kind = "null"   -> <<"<", "span", ">", "NULL", "<", "/span", ">">>
      [] json.kind = "string" -> HtmlEscape(json.text)
      [] OTHER                -> json.text

-----------------------------------------------------------------------------
\* The reference: what a browser shows of HTML.

Entity == [name \in {"amp;", "lt;", "gt;", "quot;"} |->
               CASE name = "amp;" -> "&" [] name = "lt;" -> "<" [] name = "gt;" -> ">"
                 [] name = "quot;" -> "\""]

\* A tag shows nothing, an entity its character.
Tag(html, i) == html[i] = "<"
IsEntity(html, i) == i < Len(html) /\ html[i] = "&" /\ html[i + 1] \in DOMAIN Entity

Shown(html, i) ==
    IF Tag(html, i) THEN <<>>
    ELSE IF IsEntity(html, i) THEN <<Entity[html[i + 1]]>>
    ELSE <<html[i]>>

After(html, i) ==
    IF Tag(html, i)
    THEN 1 + Min({j \in i..Len(html) : html[j] = ">"} \cup {Len(html)})
    ELSE IF IsEntity(html, i) THEN i + 2
    ELSE i + 1

Displayed(html) ==
    LET from[i \in Nat \ {0}] ==
            IF i > Len(html) THEN <<>> ELSE Shown(html, i) \o from[After(html, i)]
    IN from[1]
=============================================================================
