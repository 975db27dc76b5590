---------------------------- MODULE ServiceProofs ----------------------------
(***************************************************************************)
(* Server's shutdown, for any connections and any faults; and Service, for *)
(* any requests, pool size and way to start: it implements Server, its     *)
(* pool leaks no connection, nobody works for a request that is not let    *)
(* in, and what the pages offer reaches its handler.                       *)
(***************************************************************************)
EXTENDS Service, TLAPS, FiniteSetTheorems, SequenceTheorems, WellFoundedInduction

\* A thread that still runs is one main() can find.
Tracked == \A c \in Accepted : conn[c] # "closed" =>
               c \in spawned \cup threads \cup remaining

\* Which of the three places holds handles tells where the main thread is.
Places ==
    /\ spawned # {} => main \in {"register", "aborted"}
    /\ main \in {"join", "exit"} => threads = {}
    /\ remaining # {} => main = "join"

\* A thread writes its response in its last step, and only then.
Responses == \A c \in Conns : written[c] = IF conn[c] = "closed" THEN 1 ELSE 0

\* After an accept() that followed the signal the loop is left at its check.
LastOne == late <= 1 /\ (late > 0 => ~running /\ main \notin {"accept", "sleep"})

ServerInv == TypeOK /\ Tracked /\ Places /\ Responses /\ LastOne

\* The invariant of the server holds at first;
LEMMA ServerInvInit == Init => ServerInv
  BY DEF Init, ServerInv, TypeOK, Tracked, Places, Responses, LastOne, Phases,
         Accepted

\* every step of the main thread keeps it,
LEMMA MainStep == ServerInv /\ Main => ServerInv'
<1> SUFFICES ASSUME ServerInv, Main PROVE ServerInv'
  OBVIOUS
<1> USE DEF ServerInv, TypeOK, Phases, Places, Responses, LastOne
<1>1. CASE Check
  BY <1>1 DEF Check, Tracked, Accepted
<1>2. CASE Accept
  <2> PICK c \in Conns : /\ conn[c] = "queued"
                         /\ conn' = [conn EXCEPT ![c] = "reading"]
                         /\ spawned' = {c}
    BY <1>2 DEF Accept
  <2>1. /\ main = "accept" /\ main' = "register"
        /\ UNCHANGED <<running, threads, remaining, written>>
        /\ late' = IF running THEN late ELSE late + 1
    BY <1>2 DEF Accept
  <2>2. Tracked'
    BY <2>1 DEF Tracked, Accepted
  <2> QED
    BY <2>1, <2>2
<1>3. CASE SpawnPanics \/ NothingQueued \/ AcceptError \/ Wake
  BY <1>3 DEF SpawnPanics, NothingQueued, AcceptError, Wake, Tracked, Accepted
<1>4. CASE Register
  BY <1>4 DEF Register, Tracked, Accepted
<1>5. CASE Drain
  BY <1>5 DEF Drain, Tracked, Accepted
<1>6. CASE Join
  BY <1>6 DEF Join, Tracked, Accepted
<1>7. CASE Exit
  BY <1>7 DEF Exit, Tracked, Accepted
<1> QED
  BY <1>1, <1>2, <1>3, <1>4, <1>5, <1>6, <1>7 DEF Main

\* every step of a client or of a connection keeps it,
LEMMA ThreadStep ==
  ASSUME ServerInv, NEW c \in Conns, Connect(c) \/ Thread(c)
  PROVE  ServerInv'
<1> USE DEF ServerInv, TypeOK, Phases, Places, Responses, LastOne
<1>1. ASSUME NEW from \in Phases, NEW to \in Phases, Step(c, from, to),
             from = "new" => to = "queued", from # "closed",
             from = "queued" => FALSE,
             to = "closed" => written' = [written EXCEPT ![c] = @ + 1],
             to # "closed" => UNCHANGED written
      PROVE  ServerInv'
  <2>1. Tracked'
    BY <1>1 DEF Step, Tracked, Accepted
  <2>2. Responses'
    BY <1>1 DEF Step
  <2> QED
    BY <1>1, <2>1, <2>2 DEF Step
<1>2. CASE Connect(c)
  BY <1>1, <1>2 DEF Connect
<1>3. CASE Parse(c) \/ Respond(c)
  BY <1>1, <1>3 DEF Parse, Respond
<1>4. CASE Close(c)
  BY <1>1, <1>4 DEF Close
<1> QED
  BY <1>2, <1>3, <1>4 DEF Thread

\* and so does every step.
LEMMA ServerInvStep == ServerInv /\ [Next]_vars => ServerInv'
<1> SUFFICES ASSUME ServerInv, [Next]_vars PROVE ServerInv'
  OBVIOUS
<1>1. CASE Signal
  BY <1>1 DEF Signal, ServerInv, TypeOK, Tracked, Accepted, Places, Responses, LastOne
<1>2. CASE UNCHANGED vars
  BY <1>2 DEF vars, ServerInv, TypeOK, Tracked, Accepted, Places, Responses, LastOne
<1> QED
  BY <1>1, <1>2, MainStep, ThreadStep DEF Next, Ended

\* The type invariant.
THEOREM ServerTypeCorrect == Spec => []TypeOK
<1>1. ServerInv => TypeOK
  BY DEF ServerInv
<1> QED
  BY <1>1, ServerInvInit, ServerInvStep, PTL DEF Spec

\* When main() returns, every accepted connection has been answered exactly
\* once and its thread has ended, whatever was pruned, joined or failed
\* (src/main.rs:490-530).
THEOREM GracefulExitHolds == Spec => []GracefulExit
<1>1. ServerInv => GracefulExit
  BY DEF ServerInv, Tracked, Places, Responses, GracefulExit, Accepted
<1> QED
  BY <1>1, ServerInvInit, ServerInvStep, PTL DEF Spec

\* After a signal at most one more connection is accepted (src/main.rs:490).
THEOREM DoorClosesHolds == Spec => []DoorCloses
<1>1. ServerInv => DoorCloses
  BY DEF ServerInv, LastOne, DoorCloses
<1> QED
  BY <1>1, ServerInvInit, ServerInvStep, PTL DEF Spec

-----------------------------------------------------------------------------
\* Service.

\* Every step of Service is one of Server, or changes nothing Server knows.
LEMMA StepRefines == [ServiceNext]_svars => [Next]_vars
<1> SUFFICES ASSUME [ServiceNext]_svars PROVE [Next]_vars
  OBVIOUS
<1>1. CASE UNCHANGED svars
  BY <1>1 DEF svars
<1>2. CASE MainThread
  BY <1>2 DEF MainThread, Next
<1>3. CASE Outside /\ UNCHANGED inner
  BY <1>3 DEF Outside, Next
<1>4. ASSUME NEW c \in Conns, HandleConnection(c) PROVE [Next]_vars
  <2>1. CASE ParseError(c) \/ Receive(c)
    BY <2>1 DEF ParseError, Receive, Parse, Thread, Next
  <2>2. CASE Answer(c) \/ Shut(c)
    BY <2>2 DEF Answer, Shut, Thread, Next
  <2>3. CASE TakeConnection(c) \/ GetTimesOut(c) \/ RunStatement(c) \/ CallTarget(c)
    BY <2>3 DEF TakeConnection, GetTimesOut, RunStatement, CallTarget
  <2> QED
    BY <1>4, <2>1, <2>2, <2>3 DEF HandleConnection
<1> QED
  BY <1>1, <1>2, <1>3, <1>4 DEF ServiceNext

\* What a thread does between accept() and the end of its stream is, seen from
\* the accept loop, to parse, to respond once and to close.
THEOREM ServiceImplementsServer == ServiceSpec => ImplementsServer
<1>1. ServiceInit => Init
  BY DEF ServiceInit
<1> QED
  BY <1>1, StepRefines, PTL DEF ServiceSpec, Spec, ImplementsServer

\* An orderly shutdown answers every accepted connection once, whatever its
\* handler called and whether it got a pooled connection
\* (src/main.rs:490-530, 607-610).
THEOREM ServiceExitsGracefully == ServiceSpec => []GracefulExit
  BY ServiceImplementsServer, GracefulExitHolds, PTL DEF ImplementsServer

\* At most one connection is accepted after a signal (src/main.rs:490).
THEOREM ServiceDoorCloses == ServiceSpec => []DoorCloses
  BY ServiceImplementsServer, DoorClosesHolds, PTL DEF ImplementsServer

-----------------------------------------------------------------------------
\* The types.

\* A plan is a sequence of calls.
LEMMA PlansAreCalls ==
  ASSUME NEW handler, NEW plan \in Plans(handler)
  PROVE  plan \in Seq(Calls)
<1> USE DEF Calls, Statement
<1>1. /\ <<>> \in Seq(Calls)
      /\ <<"stop">> \in Seq(Calls)
      /\ <<"drop", "stop">> \in Seq(Calls)
      /\ <<"stop", "stop">> \in Seq(Calls)
  OBVIOUS
<1>2. /\ <<"stop", "drop", "drop">> \in Seq(Calls)
      /\ <<"drop", "stop", "drop">> \in Seq(Calls)
  OBVIOUS
<1>3. /\ <<"stop", "drop", "drop", "drop", "stop">> \in Seq(Calls)
      /\ <<"drop", "stop", "target", "drop", "drop">> \in Seq(Calls)
  OBVIOUS
<1>4. /\ <<"stop", "drop", "target", "stop", "drop", "drop">> \in Seq(Calls)
      /\ <<"drop", "stop", "drop", "drop", "drop", "stop">> \in Seq(Calls)
      /\ <<"drop", "stop", "target", "drop", "drop", "drop">> \in Seq(Calls)
  OBVIOUS
<1> HIDE DEF Calls, Statement
<1> QED
  BY <1>1, <1>2, <1>3, <1>4, Zenon DEF Plans

\* A verdict is a status, or admission.
LEMMA VerdictType == \A r : Verdict(r) \in Statuses \cup {Admitted}
<1> TAKE r
<1>1. Authenticate(r, start.secret) \in {500, 401, Admitted}
  BY DEF Authenticate
<1>2. ServeStatic(r) \in {200, 400, 404}
  BY DEF ServeStatic, Serve
<1> QED
  BY <1>1, <1>2 DEF Verdict, Statuses, Admitted

\* The part of the type invariant that is not Server's.
InnerType ==
    /\ start \in Starts
    /\ request \in [Conns -> (UNION {Sends[c] : c \in Conns}) \cup {NoRequest}]
    /\ \A c \in Conns : request[c] \in Sends[c] \cup {NoRequest}
    /\ answer \in [Conns -> Statuses \cup {0}]
    /\ left \in [Conns -> Seq(Calls)]
    /\ holding \in SUBSET Conns
    /\ touched \in SUBSET Conns

\* A thread has calls to make only while its handler runs, and a pooled
\* connection only for the statement it makes next.
PoolInv ==
    /\ IsFiniteSet(holding)
    /\ Cardinality(holding) <= PoolSize
    /\ \A c \in Conns : left[c] # <<>> => conn[c] = "handling"
    /\ \A c \in holding : left[c] # <<>> /\ Head(left[c]) \in Statement

ServiceInv == InnerType /\ PoolInv

\* The types of the service hold at first;
LEMMA ServiceInvInit == ServiceInit => ServiceInv
<1> SUFFICES ASSUME ServiceInit PROVE ServiceInv
  OBVIOUS
<1>1. <<>> \in Seq(Calls)
  OBVIOUS
<1>2. InnerType
  BY <1>1 DEF ServiceInit, InnerType
<1>3. IsFiniteSet(holding) /\ Cardinality(holding) <= PoolSize
  BY FS_EmptySet, ServiceAssumption DEF ServiceInit
<1>4. PoolInv
  BY <1>3 DEF ServiceInit, PoolInv
<1> QED
  BY <1>2, <1>4 DEF ServiceInv

\* reading a request keeps them,
LEMMA RequestKept ==
  ASSUME ServiceInv, ServerInv, NEW c \in Conns, ParseError(c) \/ Receive(c)
  PROVE  ServiceInv'
<1> USE DEF ServiceInv, ServerInv, TypeOK
<1>1. PICK r \in Sends[c] : request' = [request EXCEPT ![c] = r]
  BY DEF ParseError, Receive
<1>2. /\ conn[c] = "reading" /\ conn' = [conn EXCEPT ![c] = conn'[c]]
      /\ UNCHANGED <<start, holding, touched>>
  BY DEF ParseError, Receive, Step
<1>3. answer' \in [Conns -> Statuses \cup {0}]
  <2>1. \A e : ErrorStatus(e) \in Statuses
    BY DEF ErrorStatus, Statuses
  <2>2. answer \in [Conns -> Statuses \cup {0}]
    BY DEF InnerType
  <2>3. \E s \in Statuses \cup {0} : answer' = [answer EXCEPT ![c] = s]
    BY <2>1, VerdictType DEF ParseError, Receive, Admitted
  <2> QED
    BY <2>2, <2>3
<1>4. \/ UNCHANGED left
      \/ /\ conn'[c] = "handling"
         /\ \E plan \in Seq(Calls) : left' = [left EXCEPT ![c] = plan]
  BY PlansAreCalls DEF ParseError, Receive, Step
<1>5. left[c] = <<>> /\ c \notin holding
  BY <1>2 DEF PoolInv
<1>6. left' \in [Conns -> Seq(Calls)] /\ \A d \in Conns \ {c} : left'[d] = left[d]
  BY <1>4 DEF InnerType
<1>7. InnerType'
  <2>1. request' \in [Conns -> (UNION {Sends[d] : d \in Conns}) \cup {NoRequest}]
    BY <1>1 DEF InnerType
  <2>2. \A d \in Conns : request'[d] \in Sends[d] \cup {NoRequest}
    BY <1>1 DEF InnerType
  <2> QED
    BY <1>2, <1>3, <1>6, <2>1, <2>2 DEF InnerType
<1>8. PoolInv'
  <2>1. \A d \in Conns : left'[d] # <<>> => conn'[d] = "handling"
    BY <1>2, <1>4, <1>5, <1>6 DEF PoolInv
  <2>2. \A d \in holding' : left'[d] # <<>> /\ Head(left'[d]) \in Statement
    BY <1>2, <1>5, <1>6 DEF InnerType, PoolInv
  <2> QED
    BY <1>2, <2>1, <2>2 DEF PoolInv
<1> QED
  BY <1>7, <1>8

\* so do a connection of the pool, a statement and a target,
LEMMA StatementKept ==
  ASSUME ServiceInv, NEW c \in Conns,
         TakeConnection(c) \/ GetTimesOut(c) \/ RunStatement(c) \/ CallTarget(c)
  PROVE  ServiceInv'
<1> USE DEF ServiceInv, Statement, Calls
<1>1. /\ conn[c] = "handling" /\ left[c] # <<>>
      /\ UNCHANGED <<conn, start, request, answer>>
  BY DEF TakeConnection, GetTimesOut, RunStatement, CallTarget, AboutTo, vars
<1>2. Tail(left[c]) \in Seq(Calls)
  BY <1>1 DEF InnerType
<1>3. \/ UNCHANGED left
      \/ \E rest \in Seq(Calls) : left' = [left EXCEPT ![c] = rest]
  <2>1. GoOn(c) \/ Stop(c) => \E rest \in Seq(Calls) : left' = [left EXCEPT ![c] = rest]
    <3>1. <<>> \in Seq(Calls)
      OBVIOUS
    <3> QED
      BY <1>2, <3>1 DEF GoOn, Stop
  <2> QED
    BY <2>1 DEF TakeConnection, GetTimesOut, RunStatement, CallTarget
<1>4. holding' \in {holding, holding \cup {c}, holding \ {c}}
  BY DEF TakeConnection, GetTimesOut, RunStatement, CallTarget
<1>5. touched' \in SUBSET Conns
  BY DEF TakeConnection, GetTimesOut, RunStatement, CallTarget, InnerType
<1>6. InnerType'
  BY <1>1, <1>3, <1>4, <1>5 DEF InnerType
<1>7. IsFiniteSet(holding') /\ Cardinality(holding') <= PoolSize
  <2>1. CASE TakeConnection(c)
    <3>1. IsFiniteSet(holding) /\ Cardinality(holding) \in Nat
      BY FS_CardinalityType DEF PoolInv
    <3>2. IsFiniteSet(holding \cup {c}) /\ Cardinality(holding \cup {c}) = Cardinality(holding) + 1
      BY <2>1, <3>1, FS_AddElement DEF TakeConnection
    <3>3. holding' = holding \cup {c} /\ Cardinality(holding) < PoolSize
      BY <2>1 DEF TakeConnection
    <3> QED
      BY <3>1, <3>2, <3>3, ServiceAssumption
  <2>2. CASE RunStatement(c)
    <3>1. IsFiniteSet(holding) /\ Cardinality(holding) \in Nat
      BY FS_CardinalityType DEF PoolInv
    <3>2. IsFiniteSet(holding \ {c}) /\ Cardinality(holding \ {c}) = Cardinality(holding) - 1
      BY <2>2, <3>1, FS_RemoveElement DEF RunStatement
    <3>3. holding' = holding \ {c} /\ Cardinality(holding) <= PoolSize
      BY <2>2 DEF RunStatement, PoolInv
    <3> QED
      BY <3>1, <3>2, <3>3, ServiceAssumption
  <2>3. CASE GetTimesOut(c) \/ CallTarget(c)
    BY <2>3 DEF GetTimesOut, CallTarget, PoolInv
  <2> QED
    BY <2>1, <2>2, <2>3
<1>8. c \in holding' => TakeConnection(c)
  BY DEF TakeConnection, GetTimesOut, RunStatement, CallTarget, AboutTo, PoolInv
<1>9. TakeConnection(c) => UNCHANGED left /\ Head(left[c]) \in Statement
  BY DEF TakeConnection, AboutTo
<1>10. PoolInv'
  BY <1>1, <1>3, <1>4, <1>7, <1>8, <1>9 DEF InnerType, PoolInv
<1> QED
  BY <1>6, <1>10

\* the answer and the shutdown of a connection
LEMMA AnswerKept ==
  ASSUME ServiceInv, ServerInv, NEW c \in Conns, Answer(c) \/ Shut(c)
  PROVE  ServiceInv'
<1> USE DEF ServiceInv, ServerInv, TypeOK
<1>1. /\ conn[c] \in {"handling", "writing"} /\ left[c] = <<>>
      /\ conn' = [conn EXCEPT ![c] = conn'[c]]
      /\ UNCHANGED <<start, left, holding>>
  BY DEF Answer, Shut, Respond, Close, Step, PoolInv
<1>2. answer' \in [Conns -> Statuses \cup {0}]
  <2>1. 200 \in Statuses
    BY DEF Statuses
  <2>2. answer \in [Conns -> Statuses \cup {0}]
    BY DEF InnerType
  <2> QED
    BY <2>1, <2>2 DEF Answer, Shut, Admitted
<1>3. /\ request' \in [Conns -> (UNION {Sends[d] : d \in Conns}) \cup {NoRequest}]
      /\ \A d \in Conns : request'[d] \in Sends[d] \cup {NoRequest}
  BY DEF Answer, Shut, InnerType
<1>4. InnerType'
  BY <1>1, <1>2, <1>3 DEF Answer, Shut, InnerType
<1>5. PoolInv'
  BY <1>1 DEF InnerType, PoolInv
<1> QED
  BY <1>4, <1>5

\* and what happens beside the connections;
LEMMA MainKept ==
  ASSUME ServiceInv, ServerInv,
         MainThread \/ (Outside /\ UNCHANGED inner)
  PROVE  ServiceInv'
<1> USE DEF ServiceInv, ServerInv, TypeOK
<1>1. UNCHANGED inner
  BY DEF MainThread
<1>2. \A c \in Conns : conn[c] = "handling" => conn'[c] = "handling"
  BY DEF MainThread, Main, Check, Accept, SpawnPanics, NothingQueued, AcceptError,
         Wake, Register, Drain, Join, Exit, Outside, Signal, Ended, Connect, Step, vars
<1> QED
  BY <1>1, <1>2 DEF inner, InnerType, PoolInv

\* so every step does.
LEMMA ServiceInvStep == ServiceInv /\ ServerInv /\ [ServiceNext]_svars => ServiceInv'
<1> SUFFICES ASSUME ServiceInv, ServerInv, [ServiceNext]_svars PROVE ServiceInv'
  OBVIOUS
<1>1. CASE UNCHANGED svars
  BY <1>1 DEF svars, vars, inner, ServiceInv, InnerType, PoolInv
<1>2. ASSUME NEW c \in Conns, HandleConnection(c) PROVE ServiceInv'
  BY <1>2, RequestKept, StatementKept, AnswerKept DEF HandleConnection
<1> QED
  BY <1>1, <1>2, MainKept DEF ServiceNext

\* The types of the service, and the invariant of the server inside it.
LEMMA ServiceInvariant == ServiceSpec => [](ServiceInv /\ ServerInv)
<1>1. ServiceInit => Init
  BY DEF ServiceInit
<1> QED
  BY <1>1, ServiceInvInit, ServiceInvStep, ServerInvInit, ServerInvStep, StepRefines,
     PTL DEF ServiceSpec

\* The type invariant, Server's included.
THEOREM ServiceTypeCorrect == ServiceSpec => []ServiceTypeOK
<1>1. ServiceInv /\ ServerInv => ServiceTypeOK
  BY DEF ServiceInv, InnerType, ServerInv, ServiceTypeOK
<1> QED
  BY <1>1, ServiceInvariant, PTL

\* No thread keeps a pooled connection beyond the one statement it took it
\* for, for any number of threads (src/db/requests.rs:36, src/db/mod.rs:63).
THEOREM NoLeakHolds == ServiceSpec => []NoLeak
<1>1. ServiceInv => NoLeak
  BY DEF ServiceInv, InnerType, PoolInv, NoLeak
<1> QED
  BY <1>1, ServiceInvariant, PTL

-----------------------------------------------------------------------------
\* Routing.

\* A function over 1..n is a sequence.
LEMMA FunctionIsSeq ==
  ASSUME NEW S, NEW n \in Nat, NEW t, t = [k \in 1..n |-> t[k]],
         \A k \in 1..n : t[k] \in S
  PROVE  t \in Seq(S) /\ Len(t) = n
  OBVIOUS

\* The routes that need a database, all of them POST.
LEMMA TheWrites ==
  /\ Writes = [k \in 1..5 |-> Writes[k]]
  /\ \A k \in 1..5 : /\ Writes[k].method = "POST" /\ Writes[k].handler = Workflow[k]
                     /\ Writes[k].path = <<Gap, Workflow[k]>>
<1>1. DOMAIN Workflow = 1..5
  BY DEF Workflow
<1>2. Writes = [k \in 1..5 |-> [method |-> "POST", path |-> <<Gap, Workflow[k]>>,
                                handler |-> Workflow[k]]]
  BY <1>1 DEF Writes
<1> QED
  BY <1>2

\* The routes, one by one.
LEMMA TheRoutes ==
  /\ DOMAIN Routes(FALSE) = 1..6 /\ DOMAIN Routes(TRUE) = 1..11
  /\ \A k \in 1..6 : Routes(TRUE)[k] = Reads[k] /\ Routes(FALSE)[k] = Reads[k]
  /\ \A k \in 1..5 : Routes(TRUE)[6 + k] = Writes[k]
<1> DEFINE Entries == {Reads[k] : k \in 1..6} \cup {Writes[k] : k \in 1..5}
<1>1. Reads = [k \in 1..6 |-> Reads[k]]
  BY DEF Reads
<1>2. Reads \in Seq(Entries) /\ Len(Reads) = 6
  BY <1>1, FunctionIsSeq
<1>3. Writes \in Seq(Entries) /\ Len(Writes) = 5
  BY TheWrites, FunctionIsSeq
<1> HIDE DEF Entries
<1> DEFINE both == Reads \o Writes
<1>4. both \in Seq(Entries) /\ Len(both) = Len(Reads) + Len(Writes)
  BY <1>2, <1>3, ConcatProperties
<1>5. \A k \in 1..(Len(Reads) + Len(Writes)) :
         both[k] = IF k <= Len(Reads) THEN Reads[k] ELSE Writes[k - Len(Reads)]
  BY <1>2, <1>3, ConcatProperties
<1>6. Routes(TRUE) = both /\ Routes(FALSE) = Reads
  BY DEF Routes
<1> HIDE DEF both
<1>7. DOMAIN both = 1..11 /\ DOMAIN Reads = 1..6
  BY <1>2, <1>3, <1>4
<1>8. \A k \in 1..11 : both[k] = IF k <= 6 THEN Reads[k] ELSE Writes[k - 6]
  BY <1>2, <1>3, <1>5
<1>9. /\ \A k \in 1..6 : both[k] = Reads[k]
      /\ \A k \in 1..5 : both[6 + k] = Writes[k]
  BY <1>8
<1> QED
  BY <1>6, <1>7, <1>9, Zenon

\* The other routes, all of them GET.
LEMMA TheReads ==
  /\ \A k \in 1..6 : Reads[k].method = "GET"
  /\ Reads[1].path = Root /\ Reads[2].path = Health /\ Reads[2].handler = "health"
  /\ Reads[3].path = SubmitPath /\ Reads[4].path = ApprovalsPath
  /\ Reads[5].path = HistoryPath /\ Reads[6].path = DetailPath(":id")
  BY DEF Reads

\* Only the health check answers at its path.
LEMMA HealthOnly ==
  ASSUME NEW hasDb \in BOOLEAN, NEW k \in DOMAIN Routes(hasDb),
         MatchPath(Routes(hasDb)[k].path, Health)
  PROVE  Routes(hasDb)[k].handler = "health"
<1>1. Segments(Health) = {2} /\ Health[2] = "health" /\ ~EndsWithSlash(Health)
  BY DEF Segments, Health, EndsWithSlash, Gap
<1>2. ASSUME NEW i \in 1..6, Routes(hasDb)[k] = Reads[i] PROVE Reads[i].handler = "health"
  <2>1. /\ EndsWithSlash(Root) /\ SubmitPath[2] = "submit" /\ 2 \in Segments(SubmitPath)
        /\ ApprovalsPath[2] = "approvals" /\ 2 \in Segments(ApprovalsPath)
        /\ HistoryPath[2] = "history" /\ 2 \in Segments(HistoryPath)
        /\ DetailPath(":id")[2] = "requests" /\ 2 \in Segments(DetailPath(":id"))
    BY DEF EndsWithSlash, Segments, Gap, Root, SubmitPath, ApprovalsPath, HistoryPath, DetailPath
  <2>2. MatchPath(Reads[i].path, Health)
    BY <1>2
  <2> HIDE DEF MatchPath
  <2>3. ~MatchPath(Root, Health) /\ ~MatchPath(SubmitPath, Health) /\ ~MatchPath(ApprovalsPath, Health)
        /\ ~MatchPath(HistoryPath, Health) /\ ~MatchPath(DetailPath(":id"), Health)
    BY <1>1, <2>1 DEF MatchPath
  <2> QED BY <2>2, <2>3, TheReads
<1>3. ASSUME NEW i \in 1..5, Routes(hasDb)[k] = Writes[i] PROVE FALSE
  <2>1. Workflow[i] \notin {Gap, ":id", "health"}
    BY DEF Workflow, Gap
  <2>2. Writes[i].path = <<Gap, Workflow[i]>>
    BY TheWrites
  <2>3. 2 \in Segments(Writes[i].path) /\ Writes[i].path[2] \notin {":id", "health"}
    BY <2>1, <2>2 DEF Segments
  <2> QED BY <1>1, <1>3, <2>3 DEF MatchPath
<1>4. CASE k \in 1..6
  <2>1. Routes(hasDb)[k] = Reads[k]
    BY <1>4, TheRoutes
  <2> QED BY <2>1, <1>2, <1>4
<1>5. CASE k \notin 1..6
  <2>1. hasDb /\ k - 6 \in 1..5 /\ k = 6 + (k - 6)
    <3>1. hasDb = TRUE \/ hasDb = FALSE
      OBVIOUS
    <3>2. DOMAIN Routes(hasDb) = 1..6 \/ (hasDb /\ DOMAIN Routes(hasDb) = 1..11)
      BY <3>1, TheRoutes
    <3> QED
      BY <1>5, <3>2
  <2>2. Routes(hasDb)[k] = Writes[k-6]
    BY <2>1, TheRoutes
  <2> QED BY <2>1, <2>2, <1>3
<1> QED
  BY <1>4, <1>5

\* A set of numbers that is not empty has a least one.
LEMMA LeastNatural ==
  ASSUME NEW S \in SUBSET Nat, S # {}
  PROVE  \E k \in S : \A j \in S : k <= j
<1>1. PICK k \in S : \A j \in S : ~(<<j, k>> \in OpToRel(<, Nat))
  BY NatLessThanWellFounded, WFMin
<1>2. \A j \in S : ~(j < k)
  BY <1>1 DEF OpToRel
<1>3. \A j \in S : k <= j
  BY <1>2
<1> QED
  BY <1>3

\* What Route answers is the handler of a route that matches, if there is one.
LEMMA RouteFinds ==
  ASSUME NEW r, NEW hasDb \in BOOLEAN
  PROVE  \/ /\ \A k \in DOMAIN Routes(hasDb) : ~Matches(Routes(hasDb)[k], r)
            /\ Route(r, hasDb) = "none"
         \/ \E k \in DOMAIN Routes(hasDb) : /\ Matches(Routes(hasDb)[k], r)
                                            /\ Route(r, hasDb) = Routes(hasDb)[k].handler
<1> DEFINE found == {k \in DOMAIN Routes(hasDb) : Matches(Routes(hasDb)[k], r)}
           first == CHOOSE k \in found : \A j \in found : k <= j
<1>1. Route(r, hasDb) = IF found = {} THEN "none" ELSE Routes(hasDb)[first].handler
  BY DEF Route
<1>2. CASE found = {}
  BY <1>1, <1>2
<1>3. CASE found # {}
  <2>1. DOMAIN Routes(hasDb) \in SUBSET Nat
    <3>1. hasDb = TRUE \/ hasDb = FALSE
      OBVIOUS
    <3>2. 1..6 \subseteq Nat /\ 1..11 \subseteq Nat
      OBVIOUS
    <3>3. DOMAIN Routes(hasDb) \in {1..6, 1..11}
      BY <3>1, TheRoutes
    <3> QED
      BY <3>2, <3>3
  <2>2. \E k \in found : \A j \in found : k <= j
    BY <1>3, <2>1, LeastNatural
  <2>3. first \in found
    BY <2>2
  <2> QED
    BY <1>1, <1>3, <2>3
<1> QED
  BY <1>2, <1>3

\* A path matches itself.
LEMMA Reflexive == \A p : MatchPath(p, p)
  BY DEF MatchPath

\* The detail page of every request matches its route.
LEMMA DetailMatches == ASSUME NEW id, id # Gap PROVE MatchPath(DetailPath(":id"), DetailPath(id))
<1> DEFINE p == DetailPath(":id")
           q == DetailPath(id)
<1>1. /\ DOMAIN p = 1..3 /\ DOMAIN q = 1..3 /\ Len(p) = 3 /\ Len(q) = 3
      /\ p[1] = Gap /\ q[1] = Gap /\ p[2] = "requests" /\ q[2] = "requests" 
      /\ p[3] = ":id" /\ q[3] = id
  BY DEF DetailPath
<1> HIDE DEF p, q
<1>2. \A k \in 1..3 : p[k] # Gap <=> q[k] # Gap
  BY <1>1 DEF Gap
<1>3. Segments(p) = Segments(q) /\ Segments(p) \subseteq 1..3
  BY <1>1, <1>2 DEF Segments
<1>4. \A k \in 1..3 : Place(p, k) = Place(q, k)
  <2> TAKE k \in 1..3
  <2>1. {j \in 1..k : p[j] # Gap} = {j \in 1..k : q[j] # Gap}
    BY <1>2
  <2> QED
    BY <2>1 DEF Place
<1>5. EndsWithSlash(p) = EndsWithSlash(q)
  BY <1>1 DEF EndsWithSlash, Gap
<1>6. \A j \in Segments(p) : Place(p, j) = Place(q, j) /\ p[j] \in {":id", q[j]}
  BY <1>1, <1>3, <1>4 DEF Segments
<1>7. MatchPath(p, q)
  BY <1>3, <1>5, <1>6 DEF MatchPath
<1> QED
  BY <1>7 DEF p, q

\* No route leads to the handler "none".
LEMMA NobodyIsNone ==
  ASSUME NEW hasDb \in BOOLEAN, NEW k \in DOMAIN Routes(hasDb)
  PROVE  Routes(hasDb)[k].handler # "none"
<1>1. \A i \in 1..6 : Reads[i].handler # "none"
  BY DEF Reads
<1>2. \A i \in 1..5 : Writes[i].handler # "none"
  <2>1. \A i \in 1..5 : Workflow[i] # "none"
    BY DEF Workflow
  <2> QED
    BY <2>1, TheWrites
<1>3. CASE k \in 1..6
  <2>1. Routes(hasDb)[k] = Reads[k]
    BY <1>3, TheRoutes
  <2> QED
    BY <1>1, <1>3, <2>1
<1>4. CASE k \notin 1..6
  <2>1. hasDb = TRUE \/ hasDb = FALSE
    OBVIOUS
  <2>2. DOMAIN Routes(hasDb) = 1..6 \/ (hasDb /\ DOMAIN Routes(hasDb) = 1..11)
    BY <2>1, TheRoutes
  <2>3. hasDb /\ k - 6 \in 1..5 /\ k = 6 + (k - 6)
    BY <1>4, <2>2
  <2>4. Routes(hasDb)[k] = Writes[k - 6]
    BY <2>3, TheRoutes
  <2> QED
    BY <1>2, <2>3, <2>4
<1> QED
  BY <1>3, <1>4

\* The pages are there with and without a database.
LEMMA ReadsAlways ==
  ASSUME NEW hasDb \in BOOLEAN, NEW k \in 1..6
  PROVE  k \in DOMAIN Routes(hasDb) /\ Routes(hasDb)[k] = Reads[k]
<1>1. hasDb = TRUE \/ hasDb = FALSE
  OBVIOUS
<1>2. k \in 1..11
  OBVIOUS
<1> QED
  BY <1>1, <1>2, TheRoutes

\* A request that some route matches has a handler.
LEMMA SomeRoute ==
  ASSUME NEW r, NEW hasDb \in BOOLEAN, NEW k \in DOMAIN Routes(hasDb),
         Matches(Routes(hasDb)[k], r)
  PROVE  Route(r, hasDb) # "none"
  BY RouteFinds, NobodyIsNone

-----------------------------------------------------------------------------
\* Admission.

\* What a request that is admitted showed, and where it goes.
LEMMA WhoIsAdmitted ==
  ASSUME NEW r, Verdict(r) = Admitted
  PROVE  /\ ~IsStatic(r.path) /\ Route(r, start.db) # "none"
         /\ NeedsDb(Route(r, start.db)) => start.db
         /\ IsPublicPath(r.path) \/ (/\ start.secret
                                     /\ r.secret = "right" /\ r.email = "given")
<1>1. ServeStatic(r) # Admitted
  BY DEF ServeStatic, Serve, Admitted
<1>2. Authenticate(r, start.secret) = Admitted =>
         start.secret /\ r.secret = "right" /\ r.email = "given"
  BY DEF Authenticate, Admitted
<1> QED
  BY <1>1, <1>2 DEF Verdict, Admitted

\* Who has a handler make calls has been admitted, to a server with a database.
LEMMA WhoMakesCalls ==
  ASSUME start \in Starts, NEW r, Verdict(r) = Admitted,
         NEW plan \in Plans(Route(r, start.db)), plan # <<>>
  PROVE  start.db /\ start.secret /\ r.secret = "right" /\ r.email = "given"
<1>1. start.db \in BOOLEAN
  BY ServiceAssumption
<1>2. Route(r, start.db) \notin {"none", "root", "health", "form"}
  BY DEF Plans
<1>3. start.db
  BY <1>2, WhoIsAdmitted DEF NeedsDb
<1>4. r.path # Health
  BY <1>1, <1>2, RouteFinds, HealthOnly DEF Matches
<1> QED
  BY <1>3, <1>4, WhoIsAdmitted DEF IsPublicPath

\* The database was asked on behalf of an admitted request only, and is asked
\* for it only while it is answered.
AdmissionInv ==
    \A c \in Conns :
        /\ c \in touched => conn[c] \in {"handling", "writing"}
        /\ c \in touched \/ left[c] # <<>> =>
              /\ start.db /\ start.secret
              /\ request[c].secret = "right" /\ request[c].email = "given"

\* The invariant holds at first,
LEMMA AdmissionInvInit == ServiceInit => AdmissionInv
  BY DEF ServiceInit, AdmissionInv

\* and every step keeps it.
LEMMA AdmissionInvStep ==
  ServiceInv /\ ServerInv /\ AdmissionInv /\ [ServiceNext]_svars => AdmissionInv'
<1> SUFFICES ASSUME ServiceInv, ServerInv, AdmissionInv, [ServiceNext]_svars
             PROVE  AdmissionInv'
  OBVIOUS
<1> USE DEF ServiceInv, InnerType, ServerInv, TypeOK
<1>1. ASSUME NEW c \in Conns, ParseError(c) PROVE AdmissionInv'
  BY <1>1 DEF ParseError, Step, AdmissionInv, PoolInv
<1>2. ASSUME NEW c \in Conns, Receive(c) PROVE AdmissionInv'
  <2>1. PICK r \in Sends[c] :
           /\ request' = [request EXCEPT ![c] = r]
           /\ \/ UNCHANGED left
              \/ /\ Verdict(r) = Admitted
                 /\ \E plan \in Plans(Route(r, start.db)) : left' = [left EXCEPT ![c] = plan]
    BY <1>2 DEF Receive
  <2>2. /\ conn[c] = "reading" /\ conn' = [conn EXCEPT ![c] = "handling"]
        /\ UNCHANGED <<start, touched>>
    BY <1>2 DEF Receive, Step
  <2>3. left[c] = <<>> /\ c \notin touched
    BY <2>2 DEF PoolInv, AdmissionInv
  <2>4. left'[c] # <<>> => /\ start.db /\ start.secret
                          /\ r.secret = "right" /\ r.email = "given"
    BY <2>1, <2>3, WhoMakesCalls
  <2>5. \A d \in Conns \ {c} : left'[d] = left[d]
    BY <2>1
  <2> QED
    BY <2>1, <2>2, <2>3, <2>4, <2>5 DEF AdmissionInv
<1>3. ASSUME NEW c \in Conns,
             TakeConnection(c) \/ GetTimesOut(c) \/ RunStatement(c) \/ CallTarget(c)
      PROVE  AdmissionInv'
  <2>1. /\ conn[c] = "handling" /\ left[c] # <<>> /\ touched' \in {touched, touched \cup {c}}
        /\ UNCHANGED <<conn, start, request>>
    BY <1>3 DEF TakeConnection, GetTimesOut, RunStatement, CallTarget, AboutTo, vars
  <2>2. \A d \in Conns \ {c} : left'[d] = left[d]
    BY <1>3 DEF TakeConnection, GetTimesOut, RunStatement, CallTarget, GoOn, Stop
  <2> QED
    BY <2>1, <2>2 DEF AdmissionInv
<1>4. ASSUME NEW c \in Conns, Answer(c) PROVE AdmissionInv'
  BY <1>4 DEF Answer, Respond, Step, AdmissionInv
<1>5. ASSUME NEW c \in Conns, Shut(c) PROVE AdmissionInv'
  BY <1>5 DEF Shut, Close, Step, AdmissionInv, PoolInv
<1>6. CASE MainThread \/ (Outside /\ UNCHANGED inner)
  <2>1. \A c \in Conns : conn[c] \in {"handling", "writing"} => conn'[c] = conn[c]
    BY <1>6 DEF MainThread, Main, Check, Accept, SpawnPanics, NothingQueued, AcceptError,
         Wake, Register, Drain, Join, Exit, Outside, Signal, Ended, Connect, Step, vars
  <2> QED
    BY <1>6, <2>1 DEF MainThread, inner, AdmissionInv
<1>7. CASE UNCHANGED svars
  BY <1>7 DEF svars, vars, inner, AdmissionInv
<1> QED
  BY <1>1, <1>2, <1>3, <1>4, <1>5, <1>6, <1>7 DEF ServiceNext, HandleConnection

\* No statement and no target call is made for anybody who has not shown the
\* configured secret and an e-mail, whatever the spelling of the path he asks
\* for (src/main.rs:545-557, src/http/router.rs:88-113).
THEOREM OnlyAdmittedHolds == ServiceSpec => []OnlyAdmitted
<1>1. ServiceInv /\ AdmissionInv => OnlyAdmitted
  BY DEF ServiceInv, InnerType, AdmissionInv, OnlyAdmitted
<1> QED
  BY <1>1, ServiceInvariant, AdmissionInvInit, AdmissionInvStep, PTL DEF ServiceSpec

-----------------------------------------------------------------------------
\* Answers.

\* The verdict does not change with time.
LEMMA VerdictStays == UNCHANGED start => \A r : Verdict(r)' = Verdict(r)
  BY DEF Verdict

\* The status is the verdict, or that of the page of a handler.
AnswerInv ==
    \A c \in Conns : \A r : request[c] = r /\ r.error = "none" =>
        \/ answer[c] = Verdict(r)
        \/ answer[c] = 200 /\ Verdict(r) = Admitted

\* The invariant holds at first,
LEMMA AnswerInvInit == ServiceInit => AnswerInv
  BY DEF ServiceInit, NoRequest, AnswerInv

\* and every step keeps it.
LEMMA AnswerInvStep ==
  ServiceInv /\ AnswerInv /\ [ServiceNext]_svars => AnswerInv'
<1> SUFFICES ASSUME ServiceInv, AnswerInv, [ServiceNext]_svars
             PROVE  AnswerInv'
  OBVIOUS
<1> USE DEF ServiceInv, InnerType
<1>1. UNCHANGED start
  BY DEF ServiceNext, HandleConnection, MainThread, inner, svars, ParseError, Receive,
         TakeConnection, GetTimesOut, RunStatement, CallTarget, Answer, Shut
<1>2. \A r : Verdict(r)' = Verdict(r)
  BY <1>1, VerdictStays
<1>3. CASE UNCHANGED <<request, answer>>
  BY <1>2, <1>3 DEF AnswerInv
<1>4. ASSUME NEW c \in Conns, ParseError(c) PROVE AnswerInv'
  BY <1>2, <1>4 DEF ParseError, AnswerInv
<1>5. ASSUME NEW c \in Conns, Receive(c) PROVE AnswerInv'
  BY <1>2, <1>5 DEF Receive, AnswerInv
<1>6. ASSUME NEW c \in Conns, Answer(c) PROVE AnswerInv'
  BY <1>2, <1>6 DEF Answer, AnswerInv
<1>7. ASSUME NEW c \in Conns, Shut(c) PROVE AnswerInv'
  BY <1>2, <1>7 DEF Shut, NoRequest, AnswerInv
<1>8. \A c \in Conns : TakeConnection(c) \/ GetTimesOut(c) \/ RunStatement(c) \/ CallTarget(c)
                     => UNCHANGED <<request, answer>>
  BY DEF TakeConnection, GetTimesOut, RunStatement, CallTarget
<1>9. (MainThread \/ (Outside /\ UNCHANGED inner) \/ UNCHANGED svars)
      => UNCHANGED <<request, answer>>
  BY DEF MainThread, inner, svars
<1> QED
  BY <1>3, <1>4, <1>5, <1>6, <1>7, <1>8, <1>9 DEF ServiceNext, HandleConnection

\* The health check is answered, whoever asks and however the process started.
LEMMA HealthIsServed ==
  ASSUME start \in Starts, NEW r, r.method = "GET", r.path = Health
  PROVE  Verdict(r) = Admitted
<1>1. start.db \in BOOLEAN
  BY ServiceAssumption
<1>2. IsPublicPath(r.path) /\ ~IsStatic(r.path)
  BY DEF IsPublicPath, IsStatic, Health
<1>3. Route(r, start.db) # "none"
  <2>1. 2 \in DOMAIN Routes(start.db) /\ Routes(start.db)[2] = Reads[2]
    BY <1>1, ReadsAlways
  <2>2. Reads[2].method = "GET" /\ MatchPath(Reads[2].path, r.path)
    BY TheReads, Reflexive
  <2>3. Matches(Routes(start.db)[2], r)
    BY <2>1, <2>2 DEF Matches
  <2> QED
    BY <1>1, <2>1, <2>3, SomeRoute
<1>4. Route(r, start.db) = "health"
  BY <1>1, <1>3, RouteFinds, HealthOnly DEF Matches
<1> QED
  BY <1>2, <1>3, <1>4 DEF Verdict, NeedsDb

\* Without a database every route is a GET.
LEMMA NoWriterWithoutDatabase ==
  ASSUME NEW r, Route(r, FALSE) # "none"
  PROVE  r.method = "GET"
<1>1. PICK k \in DOMAIN Routes(FALSE) : Matches(Routes(FALSE)[k], r)
  BY RouteFinds
<1>2. k \in 1..6 /\ Routes(FALSE)[k] = Reads[k]
  BY <1>1, TheRoutes
<1> QED
  BY <1>1, <1>2, TheReads DEF Matches

\* What a request is told by a server without a database.
LEMMA WithoutDatabase ==
  ASSUME start \in Starts, ~start.db, NEW r
  PROVE  /\ r.method = "POST" => Verdict(r) \in {400, 401, 404, 500}
         /\ Verdict(r) = 500 =>
               \/ ~start.secret
               \/ r.method = "GET" /\ NeedsDb(Route(r, start.db))
<1>1. start.db = FALSE
  BY ServiceAssumption
<1>2. /\ ServeStatic(r) \in {200, 400, 404}
      /\ (r.method = "POST" => ServeStatic(r) = 400)
  BY DEF ServeStatic, Serve
<1>3. /\ Authenticate(r, start.secret) \in {500, 401, Admitted}
      /\ (Authenticate(r, start.secret) = 500 => ~start.secret)
  BY DEF Authenticate, Admitted
<1>4. Route(r, start.db) # "none" => r.method = "GET"
  BY <1>1, NoWriterWithoutDatabase
<1>5. r.method = "POST" => r.method # "GET"
  OBVIOUS
<1>6. CASE ~IsPublicPath(r.path) /\ Authenticate(r, start.secret) # Admitted
  BY <1>3, <1>6 DEF Verdict
<1>7. CASE /\ IsStatic(r.path)
           /\ IsPublicPath(r.path) \/ Authenticate(r, start.secret) = Admitted
  <2>1. Verdict(r) = ServeStatic(r)
    BY <1>7 DEF Verdict
  <2> QED
    BY <1>2, <2>1
<1>8. CASE /\ ~IsStatic(r.path)
           /\ IsPublicPath(r.path) \/ Authenticate(r, start.secret) = Admitted
  <2>1. Route(r, start.db) = "none" => Verdict(r) = 404
    BY <1>8 DEF Verdict
  <2>2. Route(r, start.db) # "none" =>
           Verdict(r) = IF NeedsDb(Route(r, start.db)) THEN 500 ELSE Admitted
    BY <1>1, <1>8 DEF Verdict
  <2> QED
    BY <1>4, <1>5, <2>1, <2>2 DEF Admitted
<1> QED
  BY <1>6, <1>7, <1>8

\* Without a database the process serves what needs none, and the health check
\* is served always (src/db/mod.rs:56-57, src/main.rs:457-468).
THEOREM ServesWithoutDatabaseHolds == ServiceSpec => []ServesWithoutDatabase
<1>1. ServiceInv /\ AnswerInv => ServesWithoutDatabase
  <2> SUFFICES ASSUME ServiceInv, AnswerInv, NEW c \in Conns, Answered(c)
               PROVE  /\ Asked(c, Get(Health)) => answer[c] = 200
                      /\ ~start.db =>
                            /\ request[c].method = "POST" => answer[c] \in {400, 401, 404, 500}
                            /\ answer[c] = 500 =>
                                  \/ ~start.secret
                                  \/ request[c].method = "GET" /\ NeedsDb(Handler(c))
    BY DEF ServesWithoutDatabase
  <2> DEFINE r == request[c]
  <2>1. start \in Starts
    BY DEF ServiceInv, InnerType
  <2>2. /\ answer[c] # Admitted
        /\ (answer[c] = Verdict(r) \/ (answer[c] = 200 /\ Verdict(r) = Admitted))
    BY DEF Answered, AnswerInv, Admitted
  <2>3. Handler(c) = Route(r, start.db)
    BY DEF Handler
  <2>4. Asked(c, Get(Health)) => r.method = "GET" /\ r.path = Health
    BY DEF Asked, Get
  <2> HIDE DEF r
  <2>5. Asked(c, Get(Health)) => answer[c] = 200
    BY <2>1, <2>2, <2>4, HealthIsServed
  <2>6. ~start.db =>
          /\ r.method = "POST" => answer[c] \in {400, 401, 404, 500}
          /\ answer[c] = 500 =>
                \/ ~start.secret
                \/ r.method = "GET" /\ NeedsDb(Handler(c))
    BY <2>1, <2>2, <2>3, WithoutDatabase DEF Admitted
  <2> QED
    BY <2>5, <2>6 DEF r
<1> QED
  BY <1>1, ServiceInvariant, AnswerInvInit, AnswerInvStep, PTL DEF ServiceSpec

-----------------------------------------------------------------------------
\* Pages.

\* The assets that the pages name are served.
LEMMA FilesAreServed ==
  \A name \in {"tailwind.css", "htmx.min.js", "alpine.min.js"} :
      IsStatic(Asset(name).path) /\ ServeStatic(Asset(name)) = 200
<1> TAKE name \in {"tailwind.css", "htmx.min.js", "alpine.min.js"}
<1> DEFINE p == <<Gap, "static", name>>
<1>1. Asset(name).path = p /\ Asset(name).method = "GET"
  BY DEF Asset, Get
<1>2. IsStatic(p)
  BY DEF IsStatic
<1>3. SubSeq(p, 3, Len(p)) = <<name>>
  <2> DEFINE one == <<name>>
             tail == SubSeq(p, 3, 3)
  <2>1. p \in Seq({Gap, "static", name}) /\ Len(p) = 3 /\ p[3] = name
    OBVIOUS
  <2>2. one \in Seq({Gap, "static", name}) /\ Len(one) = 1 /\ one[1] = name
    OBVIOUS
  <2> HIDE DEF p, one
  <2>3. tail \in Seq({Gap, "static", name}) /\ Len(tail) = 1 /\ tail[1] = name
    BY <2>1, SubSeqProperties
  <2> HIDE DEF tail
  <2>4. tail = one
    BY <2>2, <2>3, SeqEqual
  <2> QED
    BY <2>1, <2>4 DEF one, tail
<1>4. DOMAIN <<name>> = {1} /\ <<name>>[1] = name /\ Len(<<name>>) = 1
  OBVIOUS
<1>5. Serve(<<name>>) = 200
  BY <1>4, LayoutIsThere DEF Serve
<1> HIDE DEF p
<1> QED
  BY <1>1, <1>2, <1>3, <1>5 DEF ServeStatic

\* What the routes match: the pages, the forms' targets, a request's own page.
LEMMA PagesAreServed ==
  ASSUME NEW p \in {Root, SubmitPath, ApprovalsPath, HistoryPath, DetailPath("r1")}
  PROVE  ~IsStatic(p) /\ Route(Get(p), TRUE) # "none"
<1>1. ~IsStatic(p)
  BY DEF IsStatic, Root, SubmitPath, ApprovalsPath, HistoryPath, DetailPath
<1>2. \E k \in 1..6 : MatchPath(Reads[k].path, p)
  BY TheReads, Reflexive, DetailMatches DEF Gap
<1>3. PICK k \in 1..6 : MatchPath(Reads[k].path, p)
  BY <1>2
<1>4. k \in DOMAIN Routes(TRUE) /\ Matches(Routes(TRUE)[k], Get(p))
  <2>1. Get(p).method = "GET" /\ Get(p).path = p
    BY DEF Get
  <2>2. k \in DOMAIN Routes(TRUE) /\ Routes(TRUE)[k] = Reads[k]
    BY ReadsAlways
  <2> QED
    BY <1>3, <2>1, <2>2, TheReads DEF Matches
<1> QED
  BY <1>1, <1>4, SomeRoute

\* The forms that the pages hold lead to a route.
LEMMA FormsAreServed ==
  ASSUME NEW name \in {"submit", "request-approval", "approve", "reject"}
  PROVE  ~IsStatic(Post(name).path) /\ Route(Post(name), TRUE) # "none"
<1>1. ~IsStatic(Post(name).path)
  BY DEF IsStatic, Post
<1>2. PICK k \in 1..5 : Workflow[k] = name
  BY DEF Workflow
<1>3. Writes[k].method = "POST" /\ MatchPath(Writes[k].path, Post(name).path)
  BY <1>2, TheWrites, Reflexive DEF Post
<1>4. 6 + k \in DOMAIN Routes(TRUE) /\ Matches(Routes(TRUE)[6 + k], Post(name))
  <2>1. Post(name).method = "POST"
    BY DEF Post
  <2>2. 6 + k \in DOMAIN Routes(TRUE) /\ Routes(TRUE)[6 + k] = Writes[k]
    <3>1. 6 + k \in 1..11
      OBVIOUS
    <3> QED
      BY <3>1, TheRoutes, Zenon
  <2> QED
    BY <1>3, <2>1, <2>2 DEF Matches
<1> QED
  BY <1>1, <1>4, SomeRoute

\* Whatever a page offers leads to a file or to a route.
LEMMA EveryOfferReaches ==
  ASSUME NEW handler, NEW offer \in Offers(handler, "r1")
  PROVE  IF IsStatic(offer.path) THEN ServeStatic(offer) = 200
                                 ELSE Route(offer, TRUE) # "none"
<1>1. \/ offer \in {Asset("tailwind.css"), Asset("htmx.min.js"), Asset("alpine.min.js")}
      \/ \E p \in {Root, SubmitPath, ApprovalsPath, HistoryPath, DetailPath("r1")} :
            offer = Get(p)
      \/ \E name \in {"submit", "request-approval", "approve", "reject"} : offer = Post(name)
  BY Zenon DEF Offers, Layout, Content, Landing, FormPage, PreviewPage, RequestedPage,
         ApprovalCards, HistoryRows, DetailPage
<1>2. \A p : Get(p).path = p
  BY DEF Get
<1>3. CASE offer \in {Asset("tailwind.css"), Asset("htmx.min.js"), Asset("alpine.min.js")}
  BY <1>3, FilesAreServed
<1>4. ASSUME NEW p \in {Root, SubmitPath, ApprovalsPath, HistoryPath, DetailPath("r1")},
             offer = Get(p)
      PROVE  ~IsStatic(offer.path) /\ Route(offer, TRUE) # "none"
  BY <1>2, <1>4, PagesAreServed
<1>5. ASSUME NEW name \in {"submit", "request-approval", "approve", "reject"},
             offer = Post(name)
      PROVE  ~IsStatic(offer.path) /\ Route(offer, TRUE) # "none"
  BY <1>5, FormsAreServed
<1> QED
  BY <1>1, <1>3, <1>4, <1>5

\* No link, button or form of any page leads nowhere (src/templates.rs:35-86,
\* src/main.rs:457-468).
THEOREM OffersReachHolds == ServiceSpec => []OffersReach
<1>1. OffersReach
  BY EveryOfferReaches DEF OffersReach
<1> QED
  BY <1>1, PTL
=============================================================================
