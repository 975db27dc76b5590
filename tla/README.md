# sqlgate in TLA+

Models, model checks and machine-checked proofs of sqlgate, the SQL preview and
approval gateway of this repository.  Line references are to the repository
(`src/main.rs:239`, `db/schema.sql:8`); `PROJECT.json` maps every definition
that stands for code to its lines.

## 1. The system

sqlgate is one process: a main thread that accepts connections, and one thread
per connection that parses a request, authenticates it, runs one handler and
closes.  Handlers share nothing in memory but a pool of database connections.
All state that matters is in sqlgate's own Postgres database, read and written
one autocommitted statement at a time, and in the target databases, where
previews read and executions write.

| component | code | state | operations |
|---|---|---|---|
| persistence | `db/schema.sql`, `src/db/` | tables requests, previews, approvals, executions, audit_log | one statement per function, no transaction spans two |
| workflow handlers | `src/main.rs:46-387` | locals of a handler | submit, request-approval, approve, reject, execute, list (and read-only: forms, history, detail) |
| preview pipeline | `src/preview/engine.rs` | locals | validate, wrap, run read-only on the target, store, set status, log |
| execute pipeline | `src/execute/` | locals, the target's transaction | fetch, check status, verify hash, BEGIN / text / COMMIT, record, set status, log |
| request lifecycle | `SKILL.md:104-115` | a request's status | the documented state machine |
| server | `src/main.rs:432-530` | RUNNING, list of join handles | accept, spawn, prune, sleep, drain, join, signal |
| connection handling | `src/main.rs:538-615`, `src/auth/` | the stream | parse, authenticate, route, answer, 500 on panic |
| connection pool | `src/db/mod.rs` | five connections | get (30 s), release |
| http | `src/http/`, `src/static_files.rs` | none | parse, route, write |
| query text | `src/preview/validator.rs`, `wrapper.rs`, `src/http/request.rs:percent_decode` | none | validate, wrap, decode |
| targets | `src/targets/` | none | resolve URL, preview, convert values |
| templates | `src/templates.rs` | none | HTML |

How they interact.  A handler is a straight line of calls into `src/db/`; each
takes a pooled connection, runs one statement and returns it.  A handler reads
a row, decides, and writes later: **nothing holds the row in between**.  Most
outcomes of writes are dropped (`let _ = ...`), so a handler goes on as if they
had succeeded.  Expiry has no thread of its own: it is a sweep at the start of
list, approve and execute.

What is hard here:

* *interleaving*: checks on one row by one thread, writes by another in between;
* *partial failure*: one of several statements fails, or is applied while its
  reply is lost, and the handler goes on;
* *crash*: the process dies between a decision's row and the status, or between
  the target's COMMIT and the bookkeeping;
* *time*: an approval runs out between the sweep and the transaction of the same
  call, and a deadline may not be representable;
* *shutdown*: finished threads are pruned and the others joined while signals,
  accept errors and panics occur;
* *scarce connections*: a pool of five, waits of 30 s, handlers that may stall;
* *text*: a query passes a form encoding, a hand-written parser, a validator that
  reads SQL less exactly than the target does, a wrapper, and is shown in HTML.

`PROJECT.json` lists these hazards line by line with the properties that cover
them.

What would make each component correct: the workflow never lets a request reach
the target without preview and another person's approval, runs what was
submitted and no other text, and records what happened; the lifecycle is
followed when requests do not overlap; the server answers every connection it
accepted and stops when told; the threads lose no pooled connection and do
nothing for who is not admitted; what is stored, previewed and shown is what was
typed, will run and came back.

## 2. Modules

| module | what it models |
|---|---|
| `Persistence` | the five tables; one operator per SQL statement that changes one.  A statement ends `"ok"`, `"lost"` (not applied, error) or `"unknown"` (applied, error) |
| `Gate` | handlers and both pipelines over `Persistence`: threads, program counter, locals, clock, commits at the target; kills, forged texts |
| `Lifecycle` | the abstract specification: the documented state machine with the number of runs |
| `GateProperties` | the properties of `Gate` that hold, grouped by the setting they need; the refinement mapping to `Lifecycle` |
| `GateInvariants` | the inductive invariant `GateInv` |
| `GateClaims` | what the repository's documents and comments say and the code does not keep |
| `MCGate` | constants, bounds and symmetry for TLC |
| `GateProofs`, `GateRecords`, `GateSerial`, `GateTimeline` | proofs about `Gate`, in layers (section 6) |
| `Server` | accept loop, threads, pruning, signals, shutdown, with fairness: the abstract specification of a connection's thread |
| `Web` | pure: public paths, authentication, the router, static files, statuses, what each page offers |
| `Service` | a connection's thread in detail, composed of `Server` and `Web`: request, admission, a handler's calls, the pool, the response; implements `Server` |
| `MCService` | the requests of an instance of `Service` |
| `ServiceProofs` | proofs about `Server` and `Service`, the refinement between them among these |
| `HttpRequest` | pure: `parse()` over a stream, the decoding of forms |
| `QueryText` | pure: `validate_query` and `wrap_query`, and as a reference PostgreSQL's scanner and the matching of parentheses |
| `Cells` | pure: a value of the target, read by the driver, put into a table cell, shown by a browser |
| `Submission` | one submission as data, composed of the last three: typing, sending, parsing, storing, previewing |
| `SubmissionClaims` | what the comments of `src/preview/` say of the texts that are accepted and previewed, and the code does not keep |
| `TextProofs` | what the proofs about texts rest on: induction over numbers and texts, walks over a text, what the operators of the community modules return |
| `QueryProofs` | proofs about `QueryText`: what the validator accepts and what the wrapper keeps, read by PostgreSQL's scanner |
| `SubmissionProofs` | proofs about `HttpRequest`, `Cells` and `Submission` |
| `MCSubmission` | what is typed, how it arrives and what the target returns in an instance of `Submission` |

`Gate`, `Service` and `Submission` are three views of one process.  `Submission`
is the handler of `Gate`'s `SubmitCall` ... `PreviewRun` with nothing running
beside it and with the text that `Gate` takes to be a member of `Queries`.  A
thread of `Service` makes the calls that `Gate` runs, without their contents:
what the pool refuses is `Gate`'s `"lost"`.  In `Server` a handler is a
step that takes some time; in `Gate` a thread runs one handler and how it got
its connection is left out.  `Gate` and `Server` share the thread as the unit of concurrency
and meet at two points: `Gate`'s `Crash` is what `Server`'s `"aborted"` (or a
kill) does to handlers in flight, and `GracefulExit` of `Server` says that an
orderly shutdown, unlike a crash, lets every handler reach its `Reply`.

### How the model corresponds to the code

* A *thread* of `Gate` serves one request.  `pc[t]` names the next database
  statement (`"app_insert"` is `insert_approval` in `approve_handler`), and
  `job[t]` holds the locals that survive to it.  Steps between two statements
  touch only locals, so they are merged with the statement before them; reading
  the clock (`app_ttl`) is a step of its own because time may pass around it.
* `GetRequest` is a fetch together with the checks on the fetched row: both
  happen on a private copy, so no other thread can tell them apart.  What is
  used later is copied into `job[t]`, the live row is not looked at again.
* Every write takes one of `Outcomes` and the handler reacts as the code does:
  `SubmitInsert` and `PreviewInsert` look at it, all others drop it.
* `ExecuteRun` is BEGIN, text and COMMIT on a connection of its own: it commits
  or not, and reports success or failure; "committed but reported failed" is the
  lost reply to COMMIT.  `commits` is what the target database knows.
* `Tick` moves the database's clock; sqlgate's is ahead of it by `Lead` (behind,
  if negative).  `approve_handler` computes a deadline by sqlgate's clock, the
  sweep compares it with the database's.  Instant 0 is 1970.
* `Crash` ends all handlers in flight (`"killed"`) and keeps the tables.
* `Tamper` rewrites a stored text from outside sqlgate: that is what re-hashing
  before execution is for.
* A digest is `<<"sha256", text>>`: SHA-256 is taken to be injective.
* In `Server` a connection and its thread share a name.  A connection in `Slow`
  may never make progress; `Faults` allows failing `accept()` and `spawn`.

* In `Service` a handler is the list of its calls (`Plans`): `"drop"` is a
  statement whose failure is dropped, `"stop"` one whose result may end the
  handler, `"target"` a call to a target.  Each statement takes a connection and
  gives it back (`TakeConnection`, `RunStatement`) or waits in vain
  (`GetTimesOut`).  Which statement it is does not matter to the pool.
* The two environment variables that decide about a start, and whether the pool
  could be built, are the record `start`.
* A path is the sequence of its segments, so that what `strip_prefix`, `==` and
  the router's splitting each make of a spelling can differ, as in the code.
* A stream is what arrived before the client closed (`"eof"`) or fell silent
  (`"stall"`): a request line, header lines, a body in bytes.  The code treats
  the end of input like the empty line after the headers, so a request may be cut
  off and still be served.
* A text is a sequence of bytes, any that a client may encode (`%0D`, `%A0`): the
  form decoder makes a character of each.  Two bytes stand for the words the
  validator and the wrapper know.  `Lex` is the reference: comments nest, literals
  hide comments, either may be open at the end, a line comment ends at a newline
  or a carriage return.  `Readable` is what the target does not refuse for what is
  open at its end or for its parentheses (`Matched`); other reasons to refuse are
  left to chance in `RunPreview`.
* `Plain`, `PlainEnds` and `Lex(row).nested` are hypotheses of two properties and
  not assumptions about what is typed: outside them the two readings of a text
  differ, and the texts are in the model, in the runs and under the theorems.
* A value is its type and its text; `Displayed` is the reference for a cell.

Definitions with a suffix (`MayDecide_Own`, commented "Mistake:") are wrong
versions of the definition that follows.  Each is a plausible slip that breaks
one property, kept to show that the property notices.

## 3. Runs

All runs of `MCGate` take requests in thread order (`InOrder`): threads that
have not taken a request are indistinguishable, so only the renaming of threads
is lost.  Users are interchangeable (`Symmetry`).  Two users are enough for a
requester and somebody else; a third would only repeat the second's role.  Four
or five threads make a life of a request (submit, request, approve, execute)
plus one handler that gets in the way.

| run | setting | shows |
|---|---|---|
| `gate_faults` | 4 calls, 2 at a time, every statement may be lost or applied without reply, kills, one forged text | `NothingUnpreviewed`, `FourEyes`, `RecordsTruthful`, `TextIntegrity`, `PreviewedOnce`, and `GateInv`, the inductive invariant of the proofs |
| `gate_reliable` | 5 calls, 2 at a time, reliable statements, kills | `ApprovalOnRecord`; `TimelineComplete`: what an answered call did is in the timeline |
| `gate_serial` | 5 calls, one at a time, failing statements, at most one kill, a clock | `ImplementsLifecycle`: Gate refines `Lifecycle`; `TimelineInOrder` |
| `gate_serial_reliable` | 6 calls on 2 requests, one at a time, reliable; the clock reaches the last representable instant | `AtMostOnce`, `FreshWhenSwept` (so also: a deadline that overflows to 1970 approves nothing), `TimelineTellsStatus` |
| `server` | 3 connections with their own sets of requests (pages, files, unknown and odd paths, missing secrets, parse errors, an execution that may stall for ever), a pool of one, signals, accept errors, failed spawns; three ways of starting | `GracefulExit`, `DoorCloses`, `PromptServed`, `ShutdownEnds` of the threads in detail; `ImplementsServer`; `NoLeak`, `OnlyAdmitted`, `ServesWithoutDatabase`, `OffersReach` |
| `submission` | every text of up to five pieces out of fourteen (words, terminators, comments, literals, parentheses, newlines, carriage returns, the two bytes of a letter beyond ASCII of which the second is a blank for `trim()` only, signs of the form encoding and a blank); short ones cut off at every byte of the body and every line of the headers, in all orders of headers, with odd headers; 409 texts as values of a cell | `StoredWhole`, `AcceptedIsOneSelect`, `PreviewTellsExecution`, `CellTruthful` |

Bounds: `Threads`, `Ids`, `Users`, `Queries`, `Forged` and `Conns` are finite
sets; `MaxTime` stops the clock, `MaxActive` limits handlers in flight,
`MaxInstant` is the last `SystemTime`; `OneKill` bounds kills in `gate_serial`.
A TTL of 0 or 1 ticks with two or three instants lets an approval be fresh,
about to expire and stale; `gate_serial` uses 0 to save an instant.

In `gate_serial_reliable` sqlgate's clock is one tick ahead (`Lead = 1`): an
approval lives two ticks by the database's clock, and four instants are needed.

In `server` a pool of one is the smallest that can be exhausted and the hardest
to share: a thread that keeps its connection, or waits for one while holding
one, stops the others at once.  Two other threads are enough to be stopped; the
third connection is the one that stalls.  `PoolSize` is 5 in the code
(`src/db/mod.rs:63`); `NoLeak` is proved for every size.

In `submission` five pieces hold a comment, its end, a terminator and two words,
which is what a disagreement of validator, wrapper and scanner takes.
`MaxQueryLen` and `MaxBody` are set so that some of these texts are too long.
Texts of more than two bytes arrive in one way: how a stream is cut does not
depend on what was typed.

Two handlers at a time are what the races of this code need: one that checked
and one that changes the row underneath.  Three at a time repeat them, and the
properties of `gate_faults` are proved for any number anyway.

## 4. Where documents and code disagree

Each `claim_*` run checks one sentence of the repository and TLC returns the
shortest behaviour that breaks it.

| run | the sentence | what the code does |
|---|---|---|
| `claim_only_approved` | "Only approved requests can be executed." `src/execute/engine.rs:31` | two executions that both read `approved` both commit |
| `claim_rejected_terminal` | "rejected (terminal)" `SKILL.md:108` | the UPDATE of an approval checked before a rejection lands after it |
| `claim_expired_never_executes` | "expired approvals can never execute" `README.md:178` | expiry is looked at by the sweep only; the approval may run out before the COMMIT |
| `claim_approval_row` | "one row per approval action" `db/schema.sql:29` | a failed INSERT is dropped and the request is approved, without a row and without a deadline |
| `claim_only_selects` | "Rejects anything that isn't a single SELECT" `src/preview/validator.rs:2` | a line comment ends at a newline only (`validator.rs:89`), for PostgreSQL also at a carriage return: what stands between the two is read as a statement, whatever its first word |
| `claim_always_limited` | "even if the user writes `LIMIT 999999`, the outer LIMIT 5 caps the result" `src/preview/wrapper.rs:2` | `SELECT * FROM users) sub --` closes the wrapper's parenthesis and makes a comment of the LIMIT |

The unconditional UPDATE behind `claim_rejected_terminal` has two more faces: a
second approver's late UPDATE takes an *expired* request back to approved
(`SKILL.md:235`, "never silently re-approved"), and a request for approval
overtakes the `previewed` event in the timeline (`SKILL.md:450`).  The dropped
outcome behind `claim_approval_row` also lets `request_approval_handler`
announce "is now pending approval" (`src/templates.rs:408`) over a request that
is still previewed.

Two more disagreements are seen by reading and have no run.  An expired request
"must resubmit" (`SKILL.md:110`), but the expired row keeps its place in the
UNIQUE index on `query_hash` (`db/schema.sql:8`), and the same text is refused for
good.  And "every state transition ... writes an immutable row here"
(`src/db/audit.rs:2`), but the sweep that sets `expired` (`src/db/approvals.rs:46`)
writes none.

`AtMostOnce`, `ImplementsLifecycle`, `TimelineInOrder`, `TimelineTellsStatus`
and `FreshWhenSwept` are checked one request at a time: overlapping handlers
break them, by the races above.  That they hold serially shows the checks
themselves are right and only their distance from the UPDATE is not.

## 5. Fairness

`Server` and `Service` have liveness properties.  `FairSpec` assumes that the scheduler
runs the main thread (weak fairness of `Main`; none of its steps but `join`
waits, and `Join` is enabled only when a thread has ended) and the thread of a
connection outside `Slow` (weak fairness of `Thread(c)`): its client sends and
reads, every read is cut off after 30 s (`src/http/request.rs`), and its
handler's statements end.  Nothing is assumed of connections in `Slow`: the code
sets no limit on writing a response nor on the executed text.  Nothing is
assumed of signals, clients or faults.  `PromptServed` then says that a
stalled connection keeps no other waiting, and `ShutdownEnds` that only a
connection that stalls for ever keeps the process from ending.

`FairServiceSpec` assumes the same of the detailed threads: weak fairness of
`MainThread` and of `HandleConnection(c)` for connections outside `Slow`.  A
thread of `Slow` may stall while it holds the pool's only connection; the others
then go on because `pool.get()` gives up after 30 s, which is a step that becomes
enabled, and stays so, when no connection is free.

`Submission` is one handler's straight line: nothing in it waits.
`Gate` has no liveness property: its handlers are straight lines, and whether a
statement ends is the database's business.

## 6. Proofs

All proved by TLAPS for every value of the constants that meets the named
assumptions: `NoneAssumption`, `IdsAssumption`, `HashAssumption` (in
`Persistence`), `TimeAssumption`, `FaultAssumption` (in `Gate`),
`ServerAssumption`, `ServiceAssumption`, `LayoutIsThere` (in `Service`) and
`PiecesAssumption` (in `Submission`).  They say no more than: `None` is no value of any other
set and no instant, ids do not run out, a digest is not NULL, times are natural numbers, sqlgate's
clock is not behind its database's by more than an approval's lifetime, the pool
has a connection, a statement may at least succeed, the three files that every
page's layout names are on the server, and what is typed is a sequence of bytes.  In particular the users,
the requests, the failures and the kills are unbounded, and so is the number of
threads in flight, but for the theorems that say `MaxActive = 1`: those are about
finitely many threads served one at a time.

The properties of `Gate` are not inductive: they follow from what each handler
may still rely on after its check.  `GateInvariants` says it, in layers.

1. `GateProofs`: `TypeInv` (types, rows complete, locals set where they are
   used) is inductive, and every step satisfies `Grows`: rows stay, keep their
   requester, hash and kind, never go back before their preview, previews and
   commits stay.  `TypeCorrect` is the theorem.
2. Previews (`GateProofs` still): a request stays `submitted` in the hands of the one
   thread that inserted it (`PipelineOK`), and every other handler that passed
   its check works on a request that is past `submitted` and by `Grows` remains
   so (`PreviewsOK`).  Hence `NothingUnpreviewedHolds` and
   `PreviewedOnceHolds`, although any UPDATE may land on any status.
3. Four eyes: the requester never changes, so the check of
   approve and reject outlives the row it was made on (`DecidersOK`).  Hence
   `FourEyesHolds`.
4. `GateRecords`: between the COMMIT and the bookkeeping a thread that has no
   failure has a commit of its own, and between the hash check and the COMMIT the
   local text matches the row's hash, whatever happens to the stored text
   (`ExecutorsOK`).  Hence `RecordsTruthfulHolds` and `TextIntegrityHolds`, and
   with the other layers `GateInvHolds`.
5. `GateRecords` again, assuming `Outcomes = {"ok"}`: a status of `approved`, and
   every executor past its check, has somebody else's approval on record.  Hence
   `ApprovalOnRecordHolds`.

6. `GateSerial`, assuming `MaxActive = 1`: whoever takes a step is alone
   (`Alone`), so the status a handler found is still there at its UPDATE (`Held`),
   and a commit is counted once (`CommitsOK`).  Hence `ImplementsLifecycleHolds`:
   every step of `Gate` is a step of `Lifecycle` or none, with failing statements,
   kills and forged texts.  If moreover statements do not fail and nothing is
   killed, a request that ran is executed or about to be (`Settled`):
   `AtMostOnceHolds`.  And, with failures and kills again, what a handler finds
   approved after its sweep was inside the lifetime of every approval it has
   (`DeadlinesOK`, `SweptOK`): `FreshWhenSweptHolds`, which covers the deadlines
   that overflow and a clock that is ahead or behind.
7. `GateTimeline`: over reliable statements a thread that left a decision or a
   commit is on its way to log it, was killed, or did (`Accounted`, `Reported`),
   whatever interleaves: `TimelineCompleteHolds`.  One request at a time, no entry
   is of a later stage than its request's status allows (`Bound`) nor than the next
   entry of a handler in flight (`Ceiling`), because a status only moves along
   `Lifecycle` and the logs follow it: `TimelineInOrderHolds`, whatever fails or is
   killed.  And with both the database and the process reliable, a request's last
   event tells its status, or a handler that just set it is about to log one that
   does (`TellsInv`): `TimelineTellsStatusHolds`.

`ServiceProofs`, about `Server`: a thread that still runs has its handle in one of three places
(`Tracked`), the main thread's position tells which are empty (`Places`), and a
response is written exactly in a thread's last step (`Responses`).  Hence
`GracefulExitHolds`; `DoorClosesHolds` follows from the loop's check.

About `Service`: every step of a detailed thread is a step of `Server`'s thread
or leaves its variables alone (`InnerType` keeps the types of the detail that
this needs), so `ServiceImplementsServer`, and with it `GracefulExit` and
`DoorCloses` hold of the detailed threads (`ServiceExitsGracefully`,
`ServiceDoorCloses`) without another invariant.  `NoLeakHolds` rests on
`PoolInv`: a thread that holds a connection is handling, and the next of its
calls is a statement; each of a handler's steps either leaves the call list
alone or gives the connection back.

What a thread may still do follows from what it read: a thread with calls left,
or that reached a database, has a request that `Verdict` let in
(`AdmissionInv`), hence `OnlyAdmittedHolds`; and the answer it is about to give is
the one fixed when the request was read (`AnswerInv`), which with the routes that
a server has without a database gives `ServesWithoutDatabaseHolds`.
`OffersReachHolds` is about the pages one by one: each link, button, form and
asset they write is matched against the routes, pattern by pattern and segment
by segment, for every id.

`SubmissionProofs` is about texts of every length.  Induction over data can be
had from the library after all, in the form of a set: a set of numbers (of
texts) that holds 0 (the empty text) and is closed under +1 (under putting one
character before) holds them all (`SetInduction`, `TextInduction`, from the
library's well-foundedness of `<`).  All loops over a text have one shape: at
each position something is put out and the loop goes on further right
(`Walks`); `WalkShift` says that such a loop finds in the rest of a text what it
would find in the rest alone.  From these:

* `StoredWholeHolds`: a decoded group of bytes is the byte it was made from
  (`DecodedEncoded`), so the decoder undoes the client's encoding; no `&` and no
  `=` are left in it (`UrlEncodeType`), so the form's first field is the text
  (`FormDelivers`); a body that is not empty has the length its header says,
  hence is all of it (`WholeOrNothing`); and a text that is refused when empty
  cannot come of a request without a body (`NothingIsEmpty`).  `SubmissionInv` is
  the inductive invariant.
* `CellTruthfulHolds`: the four replacements escape character by character,
  whatever the text holds already, and each escaped character is
  shown as itself.
* `AcceptedIsOneSelectHolds`, in two halves.  *One statement*: whatever the
  scanner has read after i characters is accounted for by characters of the text
  that are neither blank nor a semicolon, and by semicolons between them
  (`Accounted`, kept by every step of the scanner: `KnownNext`); so two
  statements read are a semicolon between two such characters, which is what the
  validator refuses as `Stacked`.  *That starts with SELECT or WITH*: the walk of
  `strip_comments` and the scanner go in step over blanks and comments (`Ready`,
  `WalkGoesOn`) until the first word, so the word the validator finds is the one
  PostgreSQL reads first.  A comment that never ends is no way around it: what
  `strip_comments` leaves of one is its last byte, which is no word
  (`KeptOfBlock`).  Both need `Plain`: the newline behind a carriage return ends a
  line comment for both, and a byte that only `char::is_whitespace` takes for a
  blank, being the second of a letter, does not stand before the first word
  (`PlainLeads`).  Without it neither half holds: a lone U+00A0
  behind a semicolon is a second statement, and `claim_only_selects` has a text
  that starts with another word.
* `PreviewTellsExecutionHolds`: what the wrapper puts between its parentheses is
  a beginning of the text behind which PostgreSQL reads only semicolons (`Cut`),
  and the scanner reads it there as it reads it alone (`CutScan`); what has been
  read before, here the wrapper's own words, does not change how it reads on
  (`ScanBehindhand`).  Then by what is open behind the core.  A literal or a block
  comment stays open to the end of the row (`StaysOpen`), so the row would not be
  `Readable`.  In a line comment the wrapper's `)` and LIMIT are not read; in code
  they are.  The depth of parentheses decides: at each character of the core it is
  one more in the preview than in the row (`OneDeeper`); in the row it is never
  negative, so in the preview it is at least one: no statement ends inside, and
  the preview does not match unless its own `)` is read (`StaysInside`).  Hence no
  line comment is open, and what is read of the core is the `Statement` of the
  text, up to terminators (`EndedIs`).

  For both, `SubmissionInv` keeps that a row was accepted by `ValidateQuery` and
  that a preview is `WrapQuery` of its row.

The text's own assumptions are the environment's: `Arrives` says what a network
may leave of a form (a prefix; nothing out of order, nothing added), `IsValue`
what PostgreSQL never writes in a number.  Both are conjuncts of the actions
that take a stream or a value, so TLC's instances are held to them too.

Only model-checked: the liveness properties `PromptServed` and `ShutdownEnds`
(fairness and ENABLED are beyond the prover).  Every other property of a passing
run is a theorem.  The runs that expect a violation show what is *not* so, on one
instance each; there is nothing to prove of them.

## 7. Not modelled

* MySQL: the code has no engine for it, so such a request never leaves
  `submitted`; `Gate` has both kinds;
* what the listing queries return (order, LIMIT, the status filter) and the
  contents of the pages beyond their links, buttons, forms and preview cells;
* wording: error messages, header lines, reason phrases, MIME types, JSON details;
* counts and durations (`rows as i32`): nothing reads them back;
* identifiers in double quotes, dollar-quoted literals and escape strings in
  `QueryText`, and what the words behind SELECT or WITH are: `WITH x AS (DELETE ...)`
  is one statement that starts with WITH;
* nested comments in `AcceptedIsOneSelect`: the validator says of itself that it
  does not handle them (`src/preview/validator.rs:65`);
* `parse_json`, the redirect and HTMX helpers of `Response`, `oob_swap` and
  `submit_success`: nothing calls them.

What the hypotheses of `PreviewTellsExecution` leave out, and what becomes of it:

* *previews that are not `Readable`* are never previewed, `RunPreview` ends with an
  error.  Such are most texts that end in a line comment, also when a newline
  followed that the wrapper trims, and `SELECT 1; ;`, of which one semicolon stays
  inside the parentheses;
* *rows that are not `Readable`* although their preview is: `SELECT 1) a, (SELECT 2`
  breaks out of the wrapper, and is no statement when it is executed: the
  execution fails.  `SELECT * FROM users) sub --` is of this kind, and its preview
  has no LIMIT: `claim_always_limited`;
* *ends that are not `PlainEnds`*: `trim()` takes U+00A0 and U+0085 away, which
  PostgreSQL reads as parts of a name, and the form decoder makes them of the
  last byte of some letters.  The preview then shows another name than will be
  executed.

## 8. Plan

Done: the workflow with its abstract specification; the accept loop, the threads
in detail and the refinement between them; the way of a text; proofs of every
safety property of the three views.  What is left:

1. the detail page's two reads, and what the listing queries return, in `Gate`;
2. the text of a query as the approvals list and the detail page show it, which
   is not escaped there (`src/templates.rs:390`, `561`).

## 9. Running it

    tlc -workers 2 -config gate_faults.cfg MCGate.tla
    tlc -workers 2 -config server.cfg MCService.tla
    tlc -workers 2 -config submission.cfg MCSubmission.tla
    tlapm GateRecords.tla
    tlapm QueryProofs.tla
    tlapm SubmissionProofs.tla

`submission` has about two million states, `gate_serial_reliable` and `gate_serial`
follow; each takes one to three minutes.
