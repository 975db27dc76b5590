------------------------------ MODULE Service ------------------------------
(***************************************************************************)
(* Server in detail: what a connection's thread does between accept() and  *)
(* the end of the stream.  It parses one request, dispatches it as Web     *)
(* says, and runs the handler's calls one after the other.  A call to      *)
(* SQLGate's own database takes a connection from the pool for that one    *)
(* statement; a call to a target opens a connection of its own.            *)
(*                                                                         *)
(* Every step is a step of Server or leaves Server's variables alone.      *)
(* What the statements say to each other is Gate's business.               *)
(***************************************************************************)
EXTENDS Server, Web, FiniteSets

CONSTANTS
    Sends,     \* the requests that the client of each connection may send
    PoolSize,  \* max_size of the pool
    Starts     \* the ways the process may have been started

ASSUME ServiceAssumption ==
    /\ PoolSize \in Nat \ {0}
    /\ Starts \subseteq [db : BOOLEAN, secret : BOOLEAN]

\* static/ has the three files the layout asks for.
ASSUME LayoutIsThere ==
    \A file \in {"tailwind.css", "htmx.min.js", "alpine.min.js"} :
        <<file>> \in Assets /\ file \notin Unsafe

VARIABLES
    start,    \* was the pool built, and is the tunnel secret configured
    request,  \* the request each thread parsed, or what parse() failed with
    answer,   \* the status of the response, 0 while there is none
    left,     \* the calls a handler has still to make
    holding,  \* the threads that have a pooled connection
    touched   \* history: the threads, not yet ended, that called a database

inner == <<start, request, answer, left, holding, touched>>
svars == <<vars, inner>>

NoRequest == [error |-> "unread", method |-> "none", path |-> <<>>,
              secret |-> "absent", email |-> "absent"]

\* How a handler treats a failing statement: it drops the error and goes on,
\* or it stops and answers.
Statement == {"drop", "stop"}

Calls == Statement \cup {"target"}

ServiceTypeOK ==
    /\ TypeOK
    /\ start \in Starts
    /\ \A c \in Conns : request[c] \in Sends[c] \cup {NoRequest}
    /\ answer \in [Conns -> Statuses \cup {0}]
    /\ left \in [Conns -> Seq(Calls)]
    /\ holding \in SUBSET Conns
    /\ touched \in SUBSET Conns

ServiceInit ==
    /\ Init
    /\ start \in Starts
    /\ request = [c \in Conns |-> NoRequest]
    /\ answer = [c \in Conns |-> 0]
    /\ left = [c \in Conns |-> <<>>]
    /\ holding = {} /\ touched = {}

\* The calls of a handler, in order, if no early return cuts them short.  An
\* execution records a mismatching hash, or a run that failed, or one that
\* did not and whose status is set too.
Plans(handler) ==
    CASE handler = "submit"    -> {<<"stop", "drop", "target", "stop", "drop", "drop">>}
      [] handler = "approvals" -> {<<"drop", "stop">>}
      [] handler = "request-approval" -> {<<"stop", "drop", "drop">>}
      [] handler = "approve"   -> {<<"drop", "stop", "drop", "drop", "drop", "stop">>}
      [] handler = "reject"    -> {<<"stop", "drop", "drop", "drop", "stop">>}
      [] handler = "execute"   -> {<<"drop", "stop", "drop">>,
                                   <<"drop", "stop", "target", "drop", "drop">>,
                                   <<"drop", "stop", "target", "drop", "drop", "drop">>}
      [] handler = "history"   -> {<<"stop">>}
      [] handler = "detail"    -> {<<"stop", "stop">>}
      [] OTHER                 -> {<<>>}

\* A handler that looks at a form or at an id may answer before any call.
TakesInput(handler) == handler \notin {"approvals", "history"}

\* Mistake: only the handlers that write look at who asks.
Verdict_Late(r) ==
    LET refused == Authenticate(r, start.secret)
    IN IF IsStatic(r.path) THEN ServeStatic(r)
       ELSE IF Route(r, start.db) = "none" THEN 404
       ELSE IF r.method = "POST" /\ refused # Admitted THEN refused
       ELSE IF ~start.db /\ NeedsDb(Route(r, start.db)) THEN 500
       ELSE Admitted

\* The status handle_connection answers r with before a handler has made a
\* call: refused, a file, no route, or a handler that panics without a pool.
\* Admitted if a handler is to answer.
Verdict(r) ==
    LET refused == Authenticate(r, start.secret)
    IN IF ~IsPublicPath(r.path) /\ refused # Admitted THEN refused
       ELSE IF IsStatic(r.path) THEN ServeStatic(r)
       ELSE IF Route(r, start.db) = "none" THEN 404
       ELSE IF ~start.db /\ NeedsDb(Route(r, start.db)) THEN 500
       ELSE Admitted

-----------------------------------------------------------------------------
\* The thread of connection c.

\* parse() fails and its error is answered.
ParseError(c) ==
    /\ Step(c, "reading", "writing")
    /\ \E r \in Sends[c] :
         /\ r.error # "none"
         /\ request' = [request EXCEPT ![c] = r]
         /\ answer' = [answer EXCEPT ![c] = ErrorStatus(r.error)]
    /\ UNCHANGED <<written, start, left, holding, touched>>

\* parse() returns a request, which is dispatched: the response may be known
\* before a handler runs, or when it panics, and if not it will be a page.
Receive(c) ==
    /\ Step(c, "reading", "handling")
    /\ \E r \in Sends[c] : \E verdict \in {Verdict(r)} :
         LET handler == Route(r, start.db)
         IN /\ r.error = "none"
            /\ request' = [request EXCEPT ![c] = r]
            /\ answer' = [answer EXCEPT ![c] = verdict]
            /\ \/ verdict = Admitted
                  /\ \E plan \in Plans(handler) : left' = [left EXCEPT ![c] = plan]
               \/ (verdict # Admitted \/ TakesInput(handler)) /\ UNCHANGED left
    /\ UNCHANGED <<written, start, holding, touched>>

\* c's handler is about to make a call of one of the kinds.
AboutTo(c, kinds) == /\ Alive
                     /\ conn[c] = "handling"
                     /\ left[c] # <<>>
                     /\ Head(left[c]) \in kinds

\* The handler goes on to its next call, or stops and answers.
GoOn(c) == left' = [left EXCEPT ![c] = Tail(@)]
Stop(c) == left' = [left EXCEPT ![c] = <<>>]

\* pool.get() returns an idle connection.
TakeConnection(c) ==
    /\ AboutTo(c, Statement)
    /\ c \notin holding
    /\ Cardinality(holding) < PoolSize
    /\ holding' = holding \cup {c}
    /\ UNCHANGED <<vars, start, request, answer, left, touched>>

\* Mistake: get() waits without limit.
GetTimesOut_Never(c) == FALSE /\ UNCHANGED svars

\* Mistake: get()'s error is unwrapped, outside catch_unwind.
GetTimesOut_Panics(c) ==
    /\ AboutTo(c, Statement)
    /\ c \notin holding
    /\ Step(c, "handling", "closed")
    /\ UNCHANGED <<written, inner>>

\* pool.get() gives up after 30 s: all connections were taken, or the
\* database could not be reached.
GetTimesOut(c) ==
    /\ AboutTo(c, Statement)
    /\ c \notin holding
    /\ Cardinality(holding) = PoolSize \/ Faults
    /\ IF Head(left[c]) = "drop" THEN GoOn(c) ELSE Stop(c)
    /\ UNCHANGED <<vars, start, request, answer, holding, touched>>

\* Mistake: the connection is kept for the handler's next statement.
RunStatement_Keeping(c) ==
    /\ AboutTo(c, Statement)
    /\ c \in holding
    /\ \/ GoOn(c) /\ holding' = IF Tail(left[c]) = <<>> THEN holding \ {c} ELSE holding
       \/ Head(left[c]) = "stop" /\ Stop(c) /\ holding' = holding \ {c}
    /\ touched' = touched \cup {c}
    /\ UNCHANGED <<vars, start, request, answer>>

\* The statement ends, well or not, and the connection goes back.  What it
\* returned, or its failure, may end a handler that looks at it.
RunStatement(c) ==
    /\ AboutTo(c, Statement)
    /\ c \in holding
    /\ GoOn(c) \/ (Head(left[c]) = "stop" /\ Stop(c))
    /\ holding' = holding \ {c}
    /\ touched' = touched \cup {c}
    /\ UNCHANGED <<vars, start, request, answer>>

\* A preview or an execution: no URL, no engine, or an error may end it.
CallTarget(c) ==
    /\ AboutTo(c, {"target"})
    /\ GoOn(c) \/ Stop(c)
    /\ touched' = touched \cup {c}
    /\ UNCHANGED <<vars, start, request, answer, holding>>

\* The one response is written: what was decided before the handler, a 500 for
\* its panic, or its page, which is a 200 whatever it says.
Answer(c) ==
    /\ Respond(c)
    /\ left[c] = <<>>
    /\ answer' = [answer EXCEPT ![c] = IF @ = Admitted THEN 200 ELSE @]
    /\ UNCHANGED <<start, request, left, holding, touched>>

\* The thread ends, and what it knew with it.
Shut(c) ==
    /\ Close(c)
    /\ request' = [request EXCEPT ![c] = NoRequest]
    /\ answer' = [answer EXCEPT ![c] = 0]
    /\ touched' = touched \ {c}
    /\ UNCHANGED <<start, left, holding>>

HandleConnection(c) ==
    \/ ParseError(c) \/ Receive(c) \/ TakeConnection(c) \/ GetTimesOut(c)
    \/ RunStatement(c) \/ CallTarget(c) \/ Answer(c) \/ Shut(c)

-----------------------------------------------------------------------------
MainThread == Main /\ UNCHANGED inner

\* Clients, signals, and the end.
Outside == \/ Signal \/ Ended
           \/ \E c \in Conns : Connect(c)

ServiceNext == \/ MainThread
               \/ Outside /\ UNCHANGED inner
               \/ \E c \in Conns : HandleConnection(c)

ServiceSpec == ServiceInit /\ [][ServiceNext]_svars

\* As in Server: a slow thread may stall in any step, with a pooled connection
\* in its hands too.
FairServiceSpec ==
    /\ ServiceSpec
    /\ WF_svars(MainThread)
    /\ \A c \in Conns \ Slow : WF_svars(HandleConnection(c))

-----------------------------------------------------------------------------
\* The handler that answers c's request.
Handler(c) == Route(request[c], start.db)

\* c's request was answered, and nobody failed to parse it.
Answered(c) == answer[c] # 0 /\ request[c].error = "none"

Asked(c, what) == request[c].method = what.method /\ request[c].path = what.path

\* A pooled connection is held for the one statement that is next, never while
\* a target is waited for, and never by a thread that answers: a preview or an
\* execution that takes for ever costs the others no connection, and neither
\* does any error path (src/db/requests.rs:36, src/db/mod.rs:63).
NoLeak ==
    /\ Cardinality(holding) <= PoolSize
    /\ \A c \in holding : /\ conn[c] = "handling"
                          /\ left[c] # <<>> /\ Head(left[c]) \in Statement

\* Whoever gets a statement or a target call run on his behalf has shown the
\* configured secret and an e-mail, and the database was configured; whatever
\* else is asked, in whatever spelling of the path, ends before any call
\* (src/main.rs:545-557).
OnlyAdmitted ==
    \A c \in touched : /\ start.db /\ start.secret
                       /\ request[c].secret = "right" /\ request[c].email = "given"

\* Started without a database the process still serves what needs none: the
\* health check, files and the form; what would write is not there, and only
\* pages that read the database fail (src/db/mod.rs:56-57).  The health check
\* answers in any case, with the pool exhausted too.
ServesWithoutDatabase ==
    \A c \in Conns : Answered(c) =>
        /\ Asked(c, Get(Health)) => answer[c] = 200
        /\ ~start.db => /\ request[c].method = "POST" => answer[c] \in {400, 401, 404, 500}
                        /\ answer[c] = 500 =>
                               \/ ~start.secret
                               \/ request[c].method = "GET" /\ NeedsDb(Handler(c))

\* What a page lets its reader send is answered by a handler or a file, on a
\* server that has a database (src/templates.rs, src/main.rs:457-468).
OffersReach ==
    \A c \in Conns : Answered(c) /\ answer[c] = 200 /\ start.db =>
        \A offer \in Offers(Handler(c), "r1") :
            IF IsStatic(offer.path) THEN ServeStatic(offer) = 200
                                    ELSE Route(offer, TRUE) # "none"

\* Service implements Server.
ImplementsServer == Spec
=============================================================================
