-------------------------- MODULE SubmissionClaims --------------------------
(***************************************************************************)
(* What the comments of src/preview say of the texts that are accepted and *)
(* previewed, and the code does not keep.                                  *)
(***************************************************************************)
EXTENDS Submission

\* "Rejects anything that isn't a single SELECT (or CTE/WITH opening)"
\* (src/preview/validator.rs:2).  The validator ends a line comment at a newline
\* only, PostgreSQL at a carriage return too: it reads a statement where the
\* validator still skips the comment, whatever word it starts with.
OnlySelects == row # <<>> /\ ~Lex(row).nested => IsOneSelect(row)

\* "even if the user writes LIMIT 999999, the outer LIMIT 5 caps the result"
\* (src/preview/wrapper.rs:2), "preview always wraps the submitted query"
\* (SKILL.md:229).  A text that closes the wrapper's parenthesis and ends in a
\* line comment leaves no LIMIT that PostgreSQL reads, and is previewed.
AlwaysLimited == stage = "previewed" => Last(Live(preview)) = Sub
=============================================================================
