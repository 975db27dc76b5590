------------------------------- MODULE Server -------------------------------
(***************************************************************************)
(* The process around the handlers: main()'s accept loop over a            *)
(* non-blocking listener, one thread per connection (handle_connection),   *)
(* the list of join handles, and the shutdown that a signal or an error of *)
(* accept() starts (src/main.rs).                                          *)
(*                                                                         *)
(* A connection and the thread that serves it have the same name.  What a  *)
(* handler does is Gate's business; here it answers, or panics, or hangs.  *)
(***************************************************************************)
EXTENDS Naturals

CONSTANTS
    Conns,   \* the connections clients open
    Slow,    \* those whose client, or target database, may stall for ever
    Faults   \* whether accept() and thread creation may fail

ASSUME ServerAssumption == Slow \subseteq Conns /\ Faults \in BOOLEAN

VARIABLES
    running,   \* RUNNING, cleared by handle_signal
    main,      \* where the main thread is
    spawned,   \* the connections whose handle it has not yet stored
    threads,   \* the stored join handles
    remaining, \* the handles taken out to be joined
    conn,      \* what happened to each connection so far
    written,   \* how many responses its thread wrote
    late       \* history: connections accepted since the signal

vars == <<running, main, spawned, threads, remaining, conn, written, late>>

Phases == {"new", "queued", "reading", "handling", "writing", "closed"}

Accepted == {c \in Conns : conn[c] \notin {"new", "queued"}}

TypeOK ==
    /\ running \in BOOLEAN
    /\ main \in {"check", "accept", "register", "sleep", "drain", "join",
                 "exit", "aborted"}
    /\ spawned \in SUBSET Conns
    /\ threads \in SUBSET Conns
    /\ remaining \in SUBSET Conns
    /\ conn \in [Conns -> Phases]
    /\ written \in [Conns -> Nat]
    /\ late \in Nat

Init ==
    /\ running = TRUE
    /\ main = "check"
    /\ spawned = {} /\ threads = {} /\ remaining = {}
    /\ conn = [c \in Conns |-> "new"]
    /\ written = [c \in Conns |-> 0]
    /\ late = 0

\* The process lives: its threads run and the kernel queues connections.
Alive == main \notin {"exit", "aborted"}

-----------------------------------------------------------------------------
\* The main thread.

\* while RUNNING.load(SeqCst)
Check ==
    /\ main = "check"
    /\ main' = IF running THEN "accept" ELSE "drain"
    /\ UNCHANGED <<running, spawned, threads, remaining, conn, written, late>>

\* Mistake: connections are accepted as long as there are any.
Accept_Eager ==
    /\ main = "accept"
    /\ \E c \in Conns :
         /\ conn[c] = "queued"
         /\ conn' = [conn EXCEPT ![c] = "reading"]
         /\ threads' = threads \cup {c}
         /\ main' = "accept"
    /\ late' = IF running THEN late ELSE late + 1
    /\ UNCHANGED <<running, spawned, remaining, written>>

\* accept() returns a connection and a thread is spawned for it.
Accept ==
    /\ main = "accept"
    /\ \E c \in Conns :
         /\ conn[c] = "queued"
         /\ conn' = [conn EXCEPT ![c] = "reading"]
         /\ spawned' = {c}
    /\ main' = "register"
    /\ late' = IF running THEN late ELSE late + 1
    /\ UNCHANGED <<running, threads, remaining, written>>

\* std::thread::spawn panics when the system refuses a thread, and the panic
\* of the main thread ends the process.
SpawnPanics ==
    /\ Faults
    /\ main = "accept"
    /\ \E c \in Conns : conn[c] = "queued"
    /\ main' = "aborted"
    /\ UNCHANGED <<running, spawned, threads, remaining, conn, written, late>>

\* WouldBlock: nothing is queued.
NothingQueued ==
    /\ main = "accept"
    /\ \A c \in Conns : conn[c] # "queued"
    /\ main' = "sleep"
    /\ UNCHANGED <<running, spawned, threads, remaining, conn, written, late>>

\* Any other error of accept() leaves the loop.
AcceptError ==
    /\ Faults
    /\ main = "accept"
    /\ main' = "drain"
    /\ UNCHANGED <<running, spawned, threads, remaining, conn, written, late>>

\* Mistake: the loop goes back to accept() without looking at RUNNING.
Wake_Retry ==
    /\ main = "sleep"
    /\ main' = "accept"
    /\ UNCHANGED <<running, spawned, threads, remaining, conn, written, late>>

\* 100 ms; a signal does not cut the sleep short.
Wake ==
    /\ main = "sleep"
    /\ main' = "check"
    /\ UNCHANGED <<running, spawned, threads, remaining, conn, written, late>>

\* Mistake: the running ones are pruned.
Register_Inverted ==
    /\ main = "register"
    /\ threads' = {c \in threads : conn[c] = "closed"} \cup spawned
    /\ spawned' = {}
    /\ main' = "check"
    /\ UNCHANGED <<running, remaining, conn, written, late>>

\* guard.retain(|h| !h.is_finished()); guard.push(handle)
Register ==
    /\ main = "register"
    /\ threads' = {c \in threads : conn[c] # "closed"} \cup spawned
    /\ spawned' = {}
    /\ main' = "check"
    /\ UNCHANGED <<running, remaining, conn, written, late>>

\* Mistake: the list is taken for one handle.
Drain_Nested ==
    /\ main = "drain"
    /\ remaining' = {threads}
    /\ threads' = {}
    /\ main' = "join"
    /\ UNCHANGED <<running, spawned, conn, written, late>>

Drain ==
    /\ main = "drain"
    /\ remaining' = threads
    /\ threads' = {}
    /\ main' = "join"
    /\ UNCHANGED <<running, spawned, conn, written, late>>

\* join() returns when its thread has ended.  The order of the handles does
\* not matter: main() goes on only when it has joined them all.
Join ==
    /\ main = "join"
    /\ \E c \in remaining : /\ conn[c] = "closed"
                            /\ remaining' = remaining \ {c}
    /\ UNCHANGED <<running, main, spawned, threads, conn, written, late>>

Exit ==
    /\ main = "join"
    /\ remaining = {}
    /\ main' = "exit"
    /\ UNCHANGED <<running, spawned, threads, remaining, conn, written, late>>

Main == \/ Check \/ Accept \/ SpawnPanics \/ NothingQueued \/ AcceptError
        \/ Wake \/ Register \/ Drain \/ Join \/ Exit

-----------------------------------------------------------------------------
\* Connection threads, clients and signals.

Step(c, from, to) ==
    /\ Alive
    /\ conn[c] = from
    /\ conn' = [conn EXCEPT ![c] = to]
    /\ UNCHANGED <<running, main, spawned, threads, remaining, late>>

\* The kernel completes connections whatever main() is doing.
Connect(c) == Step(c, "new", "queued") /\ UNCHANGED written

\* request::parse succeeds, or fails and its error is the answer.
Parse(c) ==
    /\ \/ Step(c, "reading", "handling")
       \/ Step(c, "reading", "writing")
    /\ UNCHANGED written

\* The handler answers, authentication refuses, or catch_unwind makes a 500
\* of a panic: in every case there is one response to write.
Respond(c) == Step(c, "handling", "writing") /\ UNCHANGED written

\* The response is written, or the write fails, and the stream is shut down.
Close(c) ==
    /\ Step(c, "writing", "closed")
    /\ written' = [written EXCEPT ![c] = @ + 1]

Thread(c) == Parse(c) \/ Respond(c) \/ Close(c)

\* SIGTERM or SIGINT.
Signal ==
    /\ Alive
    /\ running
    /\ running' = FALSE
    /\ UNCHANGED <<main, spawned, threads, remaining, conn, written, late>>

\* The process is gone.
Ended == ~Alive /\ UNCHANGED vars

Next == \/ Main \/ Signal \/ Ended
        \/ \E c \in Conns : Connect(c) \/ Thread(c)

Spec == Init /\ [][Next]_vars

\* The scheduler runs the main thread, and a thread that waits for nothing
\* that stalls: every read of a prompt client returns within its 30 seconds,
\* its handler's statements end, and it reads its response.
FairSpec ==
    /\ Spec
    /\ WF_vars(Main)
    /\ \A c \in Conns \ Slow : WF_vars(Thread(c))

-----------------------------------------------------------------------------
\* A shutdown loses no work: when main() returns, the thread of every accepted
\* connection has ended after exactly one response, whether it was joined,
\* pruned, or its handler panicked (src/main.rs:490-530, 607-610).
GracefulExit ==
    main = "exit" => \A c \in Accepted : conn[c] = "closed" /\ written[c] = 1

\* A signal closes the door: whatever is queued, at most the one connection
\* whose accept() was under way is still taken (src/main.rs:490).
DoorCloses == late <= 1

\* No connection waits for another: a prompt one is served, however many
\* threads are stalled, unless the server stops accepting first.
PromptServed ==
    \A c \in Conns \ Slow :
        conn[c] = "queued" ~> \/ conn[c] = "closed"
                              \/ main \in {"drain", "join", "exit", "aborted"}

\* After a signal the process ends, unless a connection stalls for ever: a
\* thread may be slow, but none waits for the main thread or for another.
ShutdownEnds ==
    <>(~running) => <>(~Alive) \/ <>[](\E c \in Slow \cap Accepted : conn[c] # "closed")
=============================================================================
