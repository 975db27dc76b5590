-------------------------------- MODULE Web --------------------------------
(***************************************************************************)
(* What handle_connection decides about a request without touching any     *)
(* state (src/main.rs:541): is its path public, whom does it come from,    *)
(* which file or handler answers it, with which status, and what the page  *)
(* it gets lets its reader do next.                                        *)
(*                                                                         *)
(* A path is the sequence that split('/') makes of it, an empty piece       *)
(* written Gap: "/health" is <<Gap, "health">>, "/" is <<Gap, Gap>>.  A     *)
(* request has its method (already in capitals), its path, the value of    *)
(* the tunnel header compared with the configured one, and whether its     *)
(* e-mail header is there.                                                 *)
(***************************************************************************)
EXTENDS Naturals, Sequences, FiniteSets

CONSTANTS
    Assets,   \* the files below static/, each a path relative to it
    Unsafe    \* path pieces that contain ".." or a backslash

\* The piece between two slashes, before the first or after the last.
Gap == "-"

Root == <<Gap, Gap>>
Health == <<Gap, "health">>
SubmitPath == <<Gap, "submit">>
ApprovalsPath == <<Gap, "approvals">>
HistoryPath == <<Gap, "history">>
DetailPath(id) == <<Gap, "requests", id>>
Post(name) == [method |-> "POST", path |-> <<Gap, name>>]
Get(path) == [method |-> "GET", path |-> path]

\* path.strip_prefix("/static/") succeeds.
IsStatic(p) == Len(p) > 2 /\ p[1] = Gap /\ p[2] = "static"

IsPublicPath(p) == p = Health \/ IsStatic(p)

Admitted == 0

\* The status authenticate() refuses r with, or Admitted.  Without a secret
\* nobody is let in.
Authenticate(r, secretSet) ==
    IF ~secretSet THEN 500
    ELSE IF r.secret = "right" /\ r.email = "given" THEN Admitted
    ELSE 401

-----------------------------------------------------------------------------
\* The router.

EndsWithSlash(p) == Len(p) > 1 /\ p[Len(p)] = Gap

\* Empty segments do not count, so "//submit" is "/submit" here.
Segments(p) == {k \in DOMAIN p : p[k] # Gap}

\* Which segment of p its piece k is.
Place(p, k) == Cardinality({j \in 1..k : p[j] # Gap})

\* The pattern's one parameter takes any segment.
MatchPath(pattern, p) ==
    /\ EndsWithSlash(pattern) = EndsWithSlash(p)
    /\ Cardinality(Segments(pattern)) = Cardinality(Segments(p))
    /\ \A j \in Segments(pattern) : \E k \in Segments(p) :
           Place(pattern, j) = Place(p, k) /\ pattern[j] \in {":id", p[k]}

Reads == <<[method |-> "GET", path |-> Root, handler |-> "root"],
           [method |-> "GET", path |-> Health, handler |-> "health"],
           [method |-> "GET", path |-> SubmitPath, handler |-> "form"],
           [method |-> "GET", path |-> ApprovalsPath, handler |-> "approvals"],
           [method |-> "GET", path |-> HistoryPath, handler |-> "history"],
           [method |-> "GET", path |-> DetailPath(":id"), handler |-> "detail"]>>

Workflow == <<"submit", "request-approval", "approve", "reject", "execute">>

Writes == [k \in DOMAIN Workflow |->
              [method |-> "POST", path |-> <<Gap, Workflow[k]>>,
               handler |-> Workflow[k]]]

\* Mistake: the handlers that write are there without a database.
Routes_Always(hasDb) == Reads \o Writes

\* main() registers what writes only if the pool was built.
Routes(hasDb) == IF hasDb THEN Reads \o Writes ELSE Reads

Matches(entry, r) == entry.method = r.method /\ MatchPath(entry.path, r.path)

\* The handler of the first route that matches.  HEAD is no method of the
\* router's.
Route(r, hasDb) ==
    LET found == {k \in DOMAIN Routes(hasDb) : Matches(Routes(hasDb)[k], r)}
        first == CHOOSE k \in found : \A j \in found : k <= j
    IN IF found = {} THEN "none" ELSE Routes(hasDb)[first].handler

-----------------------------------------------------------------------------
\* Files.

\* serve(file_path): a path that leaves static/ is refused, only files of it
\* are found.
Serve(file) ==
    LET leaves == \E k \in DOMAIN file : file[k] \in Unsafe
        absolute == Len(file) > 1 /\ file[1] = Gap
    IN IF leaves \/ absolute THEN 400
       ELSE IF file \in Assets THEN 200
       ELSE 404

ServeStatic(r) == IF r.method \in {"GET", "HEAD"}
                  THEN Serve(SubSeq(r.path, 3, Len(r.path)))
                  ELSE 400

-----------------------------------------------------------------------------
\* Answers.

\* What parse() can fail with, and the status each failure is answered with.
ParseErrors == {"ReadTimeout", "MalformedRequestLine", "UnsupportedVersion",
                "ChunkedNotSupported", "ContentLengthMismatch", "TooLarge"}

ErrorStatus(e) == IF e = "ChunkedNotSupported" THEN 501 ELSE 400

\* The status lines a response can begin with.  status_text has no words for
\* 401, whose line says "Unknown".
Statuses == {200, 400, 401, 404, 500, 501}

\* Handlers that take DB_POOL, and panic if it is empty.
NeedsDb(handler) == handler \notin {"none", "root", "health", "form"}

-----------------------------------------------------------------------------
\* Pages: the requests that the links, buttons and forms of a handler's page
\* send.  A fragment for HTMX replaces the content and keeps the layout.

Asset(name) == Get(<<Gap, "static", name>>)

Layout == {Get(Root), Get(SubmitPath), Get(ApprovalsPath), Get(HistoryPath),
           Asset("tailwind.css"), Asset("htmx.min.js"), Asset("alpine.min.js")}

\* Where somebody starts.
Landing == {Get(SubmitPath), Get(ApprovalsPath)}

FormPage == {Post("submit")}

\* The preview and its two buttons.
PreviewPage == {Post("request-approval"), Get(SubmitPath)}

RequestedPage == {Get(ApprovalsPath)}

\* Cards with an Approve and a Reject button, or a link when there is none.
ApprovalCards == {Post("approve"), Post("reject"), Get(SubmitPath)}

\* Mistake: a row of the history leads to a path of its own.
HistoryRows_Plural(id) == {Get(<<Gap, "requests", id, Gap>>)}

HistoryRows(id) == {Get(DetailPath(id))}

DetailPage == {Get(HistoryPath)}

Content(handler, id) ==
    CASE handler = "root"             -> Landing
      [] handler = "form"             -> FormPage
      [] handler = "submit"           -> PreviewPage
      [] handler = "request-approval" -> RequestedPage
      [] handler = "history"          -> HistoryRows(id)
      [] handler = "detail"           -> DetailPage
      [] handler \in {"approvals", "approve", "reject"} -> ApprovalCards
      [] OTHER                        -> {}

\* What the reader of a handler's page may send next.
Offers(handler, id) == IF handler \in {"none", "health"}
                       THEN {}
                       ELSE Layout \cup Content(handler, id)
=============================================================================
