----------------------------- MODULE GateRecords -----------------------------
(***************************************************************************)
(* Layer 4 of the inductive invariant of Gate: what an execution ran is    *)
(* what was hashed, and what is recorded of it happened.  Over a database  *)
(* whose statements succeed, the approvals table accounts for every        *)
(* request that is, or was, approved: the part of Gate that the dropped    *)
(* outcomes of src/main.rs:262 put at risk.                                *)
(***************************************************************************)
EXTENDS GateProofs

RunsInv == ExecutorsOK /\ RecordsTruthful /\ TextIntegrity

\* Where an execution knows how its transaction ended.
Recording == {"exe_record", "exe_status", "exe_audit"}

\* The successes thread t may write, and the text it may commit, in one step.
RecordStep(t) ==
    /\ \A i \in Ids : requests'[i].status = "executed" =>
           \/ requests[i].status = "executed"
           \/ pc[t] = "exe_status" /\ job[t].req = i
    /\ \A e \in executions' :
           \/ e \in executions \/ e.error
           \/ /\ pc[t] = "exe_record" /\ ~job[t].failed
              /\ e.thread = t /\ e.req = job[t].req
    /\ \/ audit_log' = audit_log
       \/ \E e \in Events :
            /\ e = "executed" => pc[t] = "exe_audit" /\ ~job[t].failed
            /\ audit_log' = [audit_log EXCEPT ![job[t].req] =
                   Append(@, [event |-> e, actor |-> job[t].user])]
    /\ \A c \in commits' :
           \/ c \in commits
           \/ pc[t] = "exe_run" /\ c.req = job[t].req /\ c.query = job[t].query

\* What thread t knows after a step that leaves it in an execution.
ExecutingStep(t) ==
    /\ pc'[t] = "exe_run" =>
           /\ pc[t] = "exe_get" /\ Exists(job[t].req) /\ Verified(t)
           /\ job'[t].req = job[t].req /\ job'[t].query = Row(t).query_text
    /\ pc'[t] \in Recording /\ ~job'[t].failed =>
           \E c \in commits' : c.thread = t /\ c.req = job'[t].req
    /\ pc'[t] = "exe_status" => ~job'[t].failed

\* A thread that records only what it did keeps the invariant.
LEMMA RunsStep ==
  ASSUME TypeInv, TypeInv', Grows, PreviewInv, RunsInv, NEW t \in Threads,
         RecordStep(t), ExecutingStep(t), StaysPut(t)
  PROVE  RunsInv'
<1>1. ASSUME NEW u \in Threads
      PROVE  /\ pc[u] \in Checked => job[u].req \in Ids /\ Exists(job[u].req)
             /\ pc[u] = "exe_get" => job[u].req \in Ids
  BY LocalFacts DEF LocalsOK, NoRequest, NoUser, Checked, Deciding, Executing
<1>2. ASSUME NEW u \in Threads, pc'[u] = "exe_run"
      PROVE  requests'[job'[u].req].query_hash = Sha256(job'[u].query)
  <2>1. CASE u = t
    BY <1>1, <1>2, <2>1 DEF ExecutingStep, Verified, Row, Grows
  <2>2. CASE u # t
    BY <1>1, <1>2, <2>2 DEF StaysPut, RunsInv, ExecutorsOK, Row, Grows,
                            Checked, Executing
  <2> QED
    BY <2>1, <2>2
<1>3. ASSUME NEW u \in Threads
      PROVE  /\ pc'[u] \in Recording /\ ~job'[u].failed =>
                    \E c \in commits' : c.thread = u /\ c.req = job'[u].req
             /\ pc'[u] = "exe_status" => ~job'[u].failed
  <2>1. CASE u = t
    BY <2>1 DEF ExecutingStep
  <2>2. CASE u # t
    BY <2>2 DEF StaysPut, RunsInv, ExecutorsOK, Grows, Recording
  <2> QED
    BY <2>1, <2>2
<1>4. ExecutorsOK'
  BY <1>2, <1>3 DEF ExecutorsOK, Row, Recording
<1>5. ASSUME NEW e \in executions', ~e.error
      PROVE  \E c \in commits' : c.thread = e.thread /\ c.req = e.req
  <2>1. CASE e \in executions
    BY <1>5, <2>1 DEF RunsInv, RecordsTruthful, Grows
  <2>2. CASE /\ pc[t] = "exe_record" /\ ~job[t].failed
             /\ e.thread = t /\ e.req = job[t].req
    BY <2>2 DEF RunsInv, ExecutorsOK, Grows
  <2> QED
    BY <1>5, <2>1, <2>2 DEF RecordStep
<1>6. ASSUME NEW i \in Ids, requests'[i].status = "executed"
      PROVE  \E c \in commits' : c.req = i
  <2>1. CASE requests[i].status = "executed"
    BY <2>1 DEF RunsInv, RecordsTruthful, Committed, Status, Grows
  <2>2. CASE pc[t] = "exe_status" /\ job[t].req = i
    BY <2>2 DEF RunsInv, ExecutorsOK, Grows
  <2> QED
    BY <1>6, <2>1, <2>2 DEF RecordStep
<1>7. ASSUME NEW i \in Ids, NEW k \in DOMAIN audit_log'[i],
             audit_log'[i][k].event = "executed"
      PROVE  \E c \in commits' : c.req = i
  <2>1. ASSUME NEW m \in DOMAIN audit_log[i], audit_log[i][m].event = "executed"
        PROVE  \E c \in commits' : c.req = i
    BY <2>1 DEF RunsInv, RecordsTruthful, Logged, Committed, Grows
  <2>2. CASE audit_log'[i] = audit_log[i]
    BY <1>7, <2>1, <2>2
  <2>3. ASSUME NEW e \in Events, job[t].req = i,
               e = "executed" => pc[t] = "exe_audit" /\ ~job[t].failed,
               audit_log'[i] = Append(audit_log[i],
                                      [event |-> e, actor |-> job[t].user])
        PROVE  \E c \in commits' : c.req = i
    <3>1. audit_log[i] \in Seq(AuditRow)
      BY DEF TypeInv, TypeOK, TablesTypeOK
    <3>2. \/ k \in DOMAIN audit_log[i] /\ audit_log'[i][k] = audit_log[i][k]
          \/ audit_log'[i][k] = [event |-> e, actor |-> job[t].user]
      BY <1>7, <2>3, <3>1
    <3>3. e = "executed" => \E c \in commits' : c.req = i
      BY <2>3 DEF RunsInv, ExecutorsOK, Grows
    <3> QED
      BY <1>7, <2>1, <3>2, <3>3
  <2>4. \/ audit_log'[i] = audit_log[i]
        \/ /\ job[t].req = i
           /\ \E e \in Events :
                /\ e = "executed" => pc[t] = "exe_audit" /\ ~job[t].failed
                /\ audit_log'[i] = Append(audit_log[i],
                                          [event |-> e, actor |-> job[t].user])
    BY DEF RecordStep, TypeInv, TypeOK, TablesTypeOK
  <2> QED
    BY <2>2, <2>3, <2>4
<1>8. RecordsTruthful'
  BY <1>5, <1>6, <1>7 DEF RecordsTruthful, Status, Logged, Committed
<1>9. ASSUME NEW c \in commits'
      PROVE  requests'[c.req].query_hash = Sha256(c.query)
  <2>1. CASE c \in commits
    <3>1. c.req \in Ids /\ Exists(c.req)
      BY <2>1 DEF PreviewInv, PreviewsOK, Previewed, Status, Exists, TypeInv,
                  TypeOK, Commit
    <3> QED
      BY <2>1, <3>1 DEF RunsInv, TextIntegrity, Grows
  <2>2. CASE pc[t] = "exe_run" /\ c.req = job[t].req /\ c.query = job[t].query
    BY <1>1, <2>2 DEF RunsInv, ExecutorsOK, Row, Grows, Checked, Executing
  <2> QED
    BY <2>1, <2>2 DEF RecordStep
<1> QED
  BY <1>4, <1>8, <1>9 DEF RunsInv, TextIntegrity

-----------------------------------------------------------------------------
\* Handlers that execute nothing.

\* A step that writes no success and stays out of executions.
LEMMA NoExecution ==
  ASSUME TypeInv, NEW t \in Threads, NEW l, NEW j, Continue(t, l, j),
         l \notin Recording \cup {"exe_run"}, UNCHANGED executions,
         \A i \in Ids : requests'[i].status = "executed" =>
                            requests[i].status = "executed",
         \/ UNCHANGED audit_log
         \/ \E e \in Events \ {"executed"} : Audit(t, e)
  PROVE  RecordStep(t) /\ ExecutingStep(t)
<1>1. pc'[t] = l /\ commits' = commits
  BY ContinueFacts DEF Continue
<1>2. \/ audit_log' = audit_log
      \/ \E e \in Events :
            /\ e = "executed" => pc[t] = "exe_audit" /\ ~job[t].failed
            /\ audit_log' = [audit_log EXCEPT ![job[t].req] =
                   Append(@, [event |-> e, actor |-> job[t].user])]
  BY DEF Audit, AppendAuditEvent
<1> QED
  BY <1>1, <1>2 DEF RecordStep, ExecutingStep, Recording

\* A status other than "executed" makes no request executed,
LEMMA NoExecutionUpdate ==
  ASSUME TypeInv, NEW o, NEW i, NEW s, s # "executed", UpdateStatus(o, i, s)
  PROVE  \A k \in Ids : requests'[k].status = "executed" =>
                            requests[k].status = "executed"
  BY DEF UpdateStatus, TypeInv, TypeOK, TablesTypeOK, RequestRow

\* nor does the sweep.
LEMMA NoExecutionSweep ==
  ASSUME TypeInv, NEW o, NEW n, ExpireStaleApprovals(o, n)
  PROVE  \A k \in Ids : requests'[k].status = "executed" =>
                            requests[k].status = "executed"
  BY DEF ExpireStaleApprovals, TypeInv, TypeOK, TablesTypeOK, RequestRow

\* A request that arrives records nothing.
LEMMA CallRuns ==
  ASSUME TypeInv, NEW t \in Threads, NEW l, NEW j, Call(t, l, j),
         l \notin Recording \cup {"exe_run"}
  PROVE  RecordStep(t) /\ ExecutingStep(t)
  BY NoExecution DEF Call, tables

\* A submission records no execution.
LEMMA SubmitRuns ==
  ASSUME TypeInv, NEW t \in Threads, Submit(t)
  PROVE  RecordStep(t) /\ ExecutingStep(t)
<1> USE NoExecution DEF Recording
<1>1. CASE SubmitCall(t)
  BY <1>1, CallRuns DEF SubmitCall
<1>2. CASE SubmitInsert(t)
  <2>1. UNCHANGED <<executions, audit_log>>
    BY <1>2 DEF SubmitInsert, InsertRequest, tables
  <2>2. ASSUME NEW o, NEW k \in Ids, NEW q, NEW d, NEW u,
               InsertRequest(o, k, q, d, u)
        PROVE  \A i \in Ids : requests'[i].status = "executed" =>
                                   requests[i].status = "executed"
    BY <2>2 DEF InsertRequest, TypeInv, TypeOK, TablesTypeOK
  <2>3. \A i \in Ids : requests'[i].status = "executed" =>
                            requests[i].status = "executed"
    BY <1>2, <2>2 DEF SubmitInsert, tables
  <2>4. \E l \in {"done", "sub_audit"} : \E j : Continue(t, l, j)
    BY <1>2 DEF SubmitInsert, Reply
  <2> QED
    BY <2>1, <2>3, <2>4
<1>3. CASE SubmitAudit(t)
  BY <1>3 DEF SubmitAudit, Then, Audit, AppendAuditEvent, Events
<1>4. CASE PreviewRun(t)
  BY <1>4 DEF PreviewRun, Then, Reply, tables
<1>5. CASE PreviewInsert(t)
  BY <1>5 DEF PreviewInsert, InsertPreview, Then, Reply
<1>6. CASE PreviewStatus(t)
  BY <1>6, NoExecutionUpdate DEF PreviewStatus, SetStatus, UpdateStatus, Then
<1>7. CASE PreviewAudit(t)
  BY <1>7 DEF PreviewAudit, Reply, Audit, AppendAuditEvent, Events
<1> QED
  BY <1>1, <1>2, <1>3, <1>4, <1>5, <1>6, <1>7 DEF Submit

\* The list, a request for approval and a refusal record none.
LEMMA ListRequestRuns ==
  ASSUME TypeInv, NEW t \in Threads, List(t) \/ RequestApproval(t) \/ Refuse(t)
  PROVE  RecordStep(t) /\ ExecutingStep(t)
<1> USE NoExecution DEF Recording
<1>1. CASE ListCall(t)
  BY <1>1, CallRuns DEF ListCall
<1>2. CASE ListSweep(t)
  BY <1>2, NoExecutionSweep DEF ListSweep, Sweep, ExpireStaleApprovals, Reply
<1>3. CASE RequestCall(t)
  BY <1>3, CallRuns DEF RequestCall, CallOn
<1>4. CASE RequestGet(t)
  BY <1>4 DEF RequestGet, GetRequest, Reply, tables
<1>5. CASE RequestStatus(t)
  BY <1>5, NoExecutionUpdate DEF RequestStatus, SetStatus, UpdateStatus, Then
<1>6. CASE RequestAudit(t)
  BY <1>6 DEF RequestAudit, Reply, Audit, AppendAuditEvent, Events
<1>7. CASE Refuse(t)
  BY <1>7 DEF Refuse, Reply, tables
<1> QED
  BY <1>1, <1>2, <1>3, <1>4, <1>5, <1>6, <1>7 DEF List, RequestApproval

\* A decision records none.
LEMMA DecideRuns ==
  ASSUME TypeInv, NEW t \in Threads, Approve(t) \/ Reject(t)
  PROVE  RecordStep(t) /\ ExecutingStep(t)
<1> USE NoExecution DEF Recording
<1>1. CASE ApproveCall(t) \/ RejectCall(t)
  <2>1. \E l \in {"app_sweep", "rej_get"} : \E j : Call(t, l, j)
    BY <1>1 DEF ApproveCall, RejectCall, CallOn
  <2> QED
    BY <2>1, CallRuns
<1>2. CASE ApproveSweep(t)
  BY <1>2, NoExecutionSweep DEF ApproveSweep, Sweep, ExpireStaleApprovals, Then
<1>3. CASE ApproveGet(t) \/ RejectGet(t)
  BY <1>3 DEF ApproveGet, RejectGet, GetRequest, Reply, tables
<1>4. CASE ApproveDeadline(t)
  BY <1>4 DEF ApproveDeadline, tables
<1>5. CASE ApproveInsert(t) \/ RejectInsert(t)
  BY <1>5 DEF ApproveInsert, RejectInsert, InsertApproval, Then
<1>6. CASE ApproveStatus(t) \/ RejectStatus(t)
  <2>1. \E s \in {"approved", "rejected"}, l \in {"app_audit", "rej_audit"} :
           SetStatus(t, s, l)
    BY <1>6 DEF ApproveStatus, RejectStatus
  <2> QED
    BY <2>1, NoExecutionUpdate DEF SetStatus, UpdateStatus, Then
<1>7. CASE ApproveAudit(t) \/ RejectAudit(t)
  BY <1>7 DEF ApproveAudit, RejectAudit, Reply, Audit, AppendAuditEvent, Events
<1> QED
  BY <1>1, <1>2, <1>3, <1>4, <1>5, <1>6, <1>7 DEF Approve, Reject

-----------------------------------------------------------------------------
\* Executions.

\* The run commits the text that was hashed, and knows whether it did.
LEMMA ExecuteRunRuns ==
  ASSUME TypeInv, NEW t \in Threads, ExecuteRun(t)
  PROVE  RecordStep(t) /\ ExecutingStep(t)
<1>1. pc[t] = "exe_run" /\ UNCHANGED <<requests, executions, audit_log>>
  BY DEF ExecuteRun, tables
<1>2. CASE Reply(t)
  <2>1. pc'[t] = "done" /\ commits' = commits
    BY <1>2, ContinueFacts DEF Reply, Continue
  <2> QED
    BY <1>1, <2>1 DEF RecordStep, ExecutingStep, Recording
<1>3. ASSUME NEW o \in Outcomes \cup {"lost"},
             commits' = IF o = "lost" THEN commits ELSE commits \cup
                    {[thread |-> t, req |-> job[t].req, query |-> job[t].query]},
             pc' = [pc EXCEPT ![t] = "exe_record"],
             job' = [job EXCEPT ![t].failed = (o # "ok")]
      PROVE  RecordStep(t) /\ ExecutingStep(t)
  <2>1. job[t] \in Job
    BY LocalFacts
  <2>2. pc'[t] = "exe_record" /\ job'[t].req = job[t].req
    BY <1>3, <2>1 DEF TypeInv, TypeOK, Job
  <2>3. job'[t].failed <=> o # "ok"
    BY <1>3, <2>1 DEF TypeInv, TypeOK, Job
  <2>4. ASSUME o = "ok"
        PROVE  \E c \in commits' : c.thread = t /\ c.req = job[t].req
    <3>1. [thread |-> t, req |-> job[t].req, query |-> job[t].query] \in commits'
      BY <1>3, <2>4
    <3> QED
      BY <3>1
  <2>5. ExecutingStep(t)
    BY <2>2, <2>3, <2>4 DEF ExecutingStep, Recording
  <2>6. RecordStep(t)
    BY <1>1, <1>3 DEF RecordStep
  <2> QED
    BY <2>5, <2>6
<1> QED
  BY <1>2, <1>3 DEF ExecuteRun

\* An execution records as successful what was committed.
LEMMA ExecuteRuns ==
  ASSUME TypeInv, RunsInv, NEW t \in Threads, Execute(t)
  PROVE  RecordStep(t) /\ ExecutingStep(t)
<1>1. CASE ExecuteCall(t)
  BY <1>1, CallRuns DEF ExecuteCall, CallOn, Recording
<1>2. CASE ExecuteSweep(t)
  BY <1>2, NoExecution, NoExecutionSweep DEF ExecuteSweep, ExpireStaleApprovals,
                                             Recording
<1>3. CASE ExecuteGet(t)
  <2>1. RecordStep(t)
    BY <1>3 DEF ExecuteGet, GetRequest, Reply, Continue, tables, RecordStep
  <2>2. CASE Reply(t)
    BY <2>1, <2>2, ContinueFacts DEF Reply, ExecutingStep, Recording
  <2> DEFINE l == IF Verified(t) THEN "exe_run" ELSE "exe_mismatch"
             j == [job[t] EXCEPT !.query = Row(t).query_text,
                                 !.kind = Row(t).target_kind]
  <2>3. CASE Exists(job[t].req) /\ Continue(t, l, j)
    <3>1. l \in {"exe_run", "exe_mismatch"} /\ (l = "exe_run" => Verified(t))
      OBVIOUS
    <3>2. j.req = job[t].req /\ j.query = Row(t).query_text
      BY LocalFacts DEF Job
    <3> HIDE DEF l, j
    <3>3. pc'[t] = l /\ job'[t] = j
      BY <2>3, ContinueFacts
    <3>4. ExecutingStep(t)
      BY <1>3, <2>3, <3>1, <3>2, <3>3 DEF ExecuteGet, ExecutingStep, Recording
    <3> QED
      BY <2>1, <3>4
  <2> QED
    BY <1>3, <2>2, <2>3 DEF ExecuteGet, GetRequest
<1>4. CASE ExecuteMismatch(t)
  <2>1. pc'[t] = "done" /\ commits' = commits
    BY <1>4, ContinueFacts DEF ExecuteMismatch, Reply, Continue
  <2> QED
    BY <1>4, <2>1 DEF ExecuteMismatch, InsertExecution, RecordStep,
                      ExecutingStep, Recording
<1>5. CASE ExecuteRun(t)
  BY <1>5, ExecuteRunRuns
<1>6. CASE ExecuteRecord(t)
  <2>1. /\ pc'[t] = IF job[t].failed THEN "exe_audit" ELSE "exe_status"
        /\ job'[t] = job[t] /\ commits' = commits
    BY <1>6, ContinueFacts DEF ExecuteRecord, Then, Continue
  <2>2. RecordStep(t)
    BY <1>6, <2>1 DEF ExecuteRecord, InsertExecution, RecordStep
  <2>3. ExecutingStep(t)
    BY <1>6, <2>1 DEF ExecuteRecord, ExecutingStep, RunsInv, ExecutorsOK, Recording
  <2> QED
    BY <2>2, <2>3
<1>7. CASE ExecuteStatus(t)
  <2>1. /\ pc[t] = "exe_status" /\ pc'[t] = "exe_audit"
        /\ job'[t] = job[t] /\ commits' = commits
    BY <1>7, ContinueFacts DEF ExecuteStatus, SetStatus, Then, Continue
  <2>2. RecordStep(t)
    BY <1>7, <2>1 DEF ExecuteStatus, SetStatus, UpdateStatus, RecordStep,
                      TypeInv, TypeOK, TablesTypeOK
  <2>3. ExecutingStep(t)
    BY <2>1 DEF ExecutingStep, RunsInv, ExecutorsOK, Recording
  <2> QED
    BY <2>2, <2>3
<1>8. CASE ExecuteAudit(t)
  <2>1. pc[t] = "exe_audit" /\ pc'[t] = "done" /\ commits' = commits
    BY <1>8, ContinueFacts DEF ExecuteAudit, Reply, Continue
  <2>2. RecordStep(t)
    BY <1>8, <2>1 DEF ExecuteAudit, Audit, AppendAuditEvent, RecordStep, Events
  <2> QED
    BY <2>1, <2>2 DEF ExecutingStep, Recording
<1> QED
  BY <1>1, <1>2, <1>3, <1>4, <1>5, <1>6, <1>7, <1>8 DEF Execute

-----------------------------------------------------------------------------
\* Every step keeps the invariant,
LEMMA RunsInvStep ==
  ASSUME TypeInv, TypeInv', Grows, PreviewInv, RunsInv, [Next]_vars
  PROVE  RunsInv'
<1>1. ASSUME NEW t \in Threads, Handle(t) PROVE RunsInv'
  <2>1. RecordStep(t) /\ ExecutingStep(t)
    BY <1>1, SubmitRuns, ListRequestRuns, DecideRuns, ExecuteRuns DEF Handle
  <2> QED
    BY <1>1, <2>1, HandleDecisions, RunsStep
<1>2. ASSUME UNCHANGED <<executions, audit_log, commits>>,
             \A i \in Ids : requests'[i].status = requests[i].status,
             \A t \in Threads : \/ pc'[t] = pc[t] /\ job'[t] = job[t]
                                \/ pc'[t] \in {"new", "done", "killed"}
      PROVE  RunsInv'
  <2>1. ExecutorsOK'
    <3>1. ASSUME NEW t \in Threads, pc'[t] = "exe_run"
          PROVE  requests'[job'[t].req].query_hash = Sha256(job'[t].query)
      <4>1. pc'[t] = pc[t] /\ job'[t] = job[t]
        BY <1>2, <3>1
      <4>2. job[t].req \in Ids /\ Exists(job[t].req)
        BY <3>1, <4>1, LocalFacts DEF LocalsOK, NoRequest, NoUser, Checked, Executing
      <4> QED
        BY <3>1, <4>1, <4>2 DEF RunsInv, ExecutorsOK, Row, Grows
    <3>2. ASSUME NEW t \in Threads, pc'[t] \in Recording
          PROVE  pc'[t] = pc[t] /\ job'[t] = job[t]
      BY <1>2, <3>2 DEF Recording
    <3> QED
      BY <1>2, <3>1, <3>2 DEF RunsInv, ExecutorsOK, Row, Recording
  <2>2. RecordsTruthful'
    BY <1>2 DEF RunsInv, RecordsTruthful, Status, Logged, Committed
  <2>3. \A c \in commits : c.req \in Ids /\ Exists(c.req)
    BY DEF PreviewInv, PreviewsOK, Previewed, Status, Exists, TypeInv, TypeOK, Commit
  <2>4. TextIntegrity'
    BY <1>2, <2>3 DEF RunsInv, TextIntegrity, Grows
  <2> QED
    BY <2>1, <2>2, <2>4 DEF RunsInv
<1>3. CASE Tick \/ UNCHANGED vars
  BY <1>2, <1>3 DEF Tick, vars, tables
<1>4. CASE Tamper
  <2>1. \A i \in Ids : requests'[i].status = requests[i].status
    BY <1>4 DEF Tamper, TypeInv, TypeOK, TablesTypeOK, RequestRow
  <2> QED
    BY <1>2, <1>4, <2>1 DEF Tamper
<1>5. CASE Crash
  BY <1>2, <1>5 DEF Crash, Active, tables, TypeInv, TypeOK
<1> QED
  BY <1>1, <1>3, <1>4, <1>5 DEF Next, Finished

\* which holds at first.
LEMMA RunsInvInit == Init => RunsInv
  BY DEF Init, TablesInit, RunsInv, ExecutorsOK, RecordsTruthful, TextIntegrity,
         NoRow, Status, Logged

\* A success is recorded, in executions, in the status or in the timeline,
\* only if the text was committed, whatever interleaves, fails or is killed
\* (src/execute/engine.rs:70-103).
THEOREM RecordsTruthfulHolds == Spec => []RecordsTruthful
<1> DEFINE Inv == TypeInv /\ PreviewInv /\ RunsInv
<1>1. Init => Inv
  BY TypeInvInit, PreviewInvInit, RunsInvInit
<1>2. Inv /\ [Next]_vars => Inv'
  BY TypeInvStep, PreviewInvStep, RunsInvStep
<1>3. Inv => RecordsTruthful
  BY DEF RunsInv
<1> QED
  BY <1>1, <1>2, <1>3, PTL DEF Spec

\* Only the text that was hashed at submission is ever committed at a target,
\* even when stored texts are rewritten between any two steps
\* (src/execute/engine.rs:40-55, src/execute/hash.rs:8).
THEOREM TextIntegrityHolds == Spec => []TextIntegrity
<1> DEFINE Inv == TypeInv /\ PreviewInv /\ RunsInv
<1>1. Init => Inv
  BY TypeInvInit, PreviewInvInit, RunsInvInit
<1>2. Inv /\ [Next]_vars => Inv'
  BY TypeInvStep, PreviewInvStep, RunsInvStep
<1>3. Inv => TextIntegrity
  BY DEF RunsInv
<1> QED
  BY <1>1, <1>2, <1>3, PTL DEF Spec

\* The whole inductive invariant.
THEOREM GateInvHolds == Spec => []GateInv
<1>1. Init => GateInv
  BY TypeInvInit, PreviewInvInit, EyesInvInit, RunsInvInit
     DEF GateInv, PreviewInv, EyesInv, RunsInv
<1>2. GateInv /\ [Next]_vars => GateInv'
  BY TypeInvStep, PreviewInvStep, EyesInvStep, RunsInvStep
     DEF GateInv, PreviewInv, EyesInv, RunsInv
<1> QED
  BY <1>1, <1>2, PTL DEF Spec

-----------------------------------------------------------------------------
\* Approvals on record.

OnRecord(i) == \E a \in approvals : a.req = i /\ a.decision = "approved"

\* The statuses a request has from its approval on.
Approved == {"approved", "executed", "expired"}

\* Where a handler works for a request that somebody approved.
Granted == {"app_status", "app_audit"} \cup Executing

GrantsOK ==
    /\ \A i \in Ids : Status(i) \in Approved \/ Committed(i) => OnRecord(i)
    /\ \A t \in Threads : pc[t] \in Granted => OnRecord(job[t].req)

\* What one step of thread t may add to the requests that are approved.
GrantStep(t) ==
    /\ approvals \subseteq approvals'
    /\ \A i \in Ids : requests'[i].status \in Approved =>
           \/ requests[i].status \in Approved
           \/ pc[t] \in Granted /\ job[t].req = i
    /\ \A c \in commits' : \/ c \in commits
                           \/ pc[t] \in Granted /\ c.req = job[t].req
    /\ pc'[t] \in Granted =>
           /\ job'[t].req = job[t].req
           /\ \/ pc[t] \in Granted
              \/ pc[t] = "exe_get" /\ Row(t).status = "approved"
              \/ \E a \in approvals' : a.req = job[t].req /\ a.decision = "approved"

\* A thread that works on approved requests only, and approves no other way,
\* keeps the invariant.
LEMMA GrantsStep ==
  ASSUME TypeInv, GrantsOK, NEW t \in Threads, GrantStep(t), StaysPut(t)
  PROVE  GrantsOK'
<1> DEFINE Before(i) == \E a \in approvals : a.req = i /\ a.decision = "approved"
           After(i) == \E a \in approvals' : a.req = i /\ a.decision = "approved"
<1>1. \A i : Before(i) => After(i)
  BY DEF GrantStep
<1>2. ASSUME NEW i \in Ids, requests'[i].status \in Approved PROVE After(i)
  BY <1>1, <1>2 DEF GrantStep, GrantsOK, OnRecord, Status
<1>3. ASSUME NEW c \in commits', c.req \in Ids PROVE After(c.req)
  BY <1>1, <1>3 DEF GrantStep, GrantsOK, OnRecord, Committed
<1>4. ASSUME NEW u \in Threads, pc'[u] \in Granted PROVE After(job'[u].req)
  <2>1. CASE u # t
    BY <1>1, <1>4, <2>1 DEF StaysPut, GrantsOK, OnRecord
  <2>2. CASE u = t /\ pc[t] \in Granted
    BY <1>1, <1>4, <2>2 DEF GrantStep, GrantsOK, OnRecord
  <2>3. CASE u = t /\ pc[t] = "exe_get" /\ Row(t).status = "approved"
    <3>1. job[t].req \in Ids
      BY <2>3, LocalFacts DEF LocalsOK, NoRequest, NoUser
    <3>2. Before(job[t].req)
      BY <2>3, <3>1 DEF GrantsOK, OnRecord, Row, Status, Approved
    <3> QED
      BY <1>1, <1>4, <2>3, <3>2 DEF GrantStep
  <2>4. CASE u = t /\ After(job[t].req)
    BY <1>4, <2>4 DEF GrantStep
  <2> QED
    BY <1>4, <2>1, <2>2, <2>3, <2>4 DEF GrantStep
<1> QED
  BY <1>2, <1>3, <1>4 DEF GrantsOK, OnRecord, Status, Committed

-----------------------------------------------------------------------------
\* Steps that approve nothing.

SameApproved == \A i \in Ids : requests'[i].status \in Approved =>
                                   requests[i].status \in Approved

\* A step that approves nothing and enters no execution.
LEMMA NoGrant ==
  ASSUME TypeInv, NEW t \in Threads, NEW l, NEW j, Continue(t, l, j),
         l \notin Granted, approvals \subseteq approvals', SameApproved
  PROVE  GrantStep(t)
<1>1. pc'[t] = l /\ commits' = commits
  BY ContinueFacts DEF Continue
<1> QED
  BY <1>1 DEF GrantStep, SameApproved

\* The sweep approves nothing.
LEMMA SweepGrants ==
  ASSUME TypeInv, NEW o, NEW n, ExpireStaleApprovals(o, n)
  PROVE  SameApproved
  BY DEF ExpireStaleApprovals, Stale, SameApproved, Approved, TypeInv, TypeOK,
         TablesTypeOK, RequestRow

\* A status that is no approval approves nothing.
LEMMA UpdateGrants ==
  ASSUME TypeInv, NEW t \in Threads, NEW s, s \notin Approved, NEW l,
         l \notin Granted, SetStatus(t, s, l)
  PROVE  GrantStep(t)
<1>1. SameApproved
  BY DEF SetStatus, UpdateStatus, SameApproved, TypeInv, TypeOK, TablesTypeOK, RequestRow
<1> QED
  BY <1>1, NoGrant DEF SetStatus, UpdateStatus, Then

\* A step that changes no status and no decision approves nothing.
LEMMA QuietGrants ==
  ASSUME TypeInv, NEW t \in Threads, NEW l, NEW j, Continue(t, l, j),
         l \notin Granted, UNCHANGED <<requests, approvals>>
  PROVE  GrantStep(t)
  BY NoGrant DEF SameApproved

\* A submission approves nothing.
LEMMA SubmitGrants ==
  ASSUME TypeInv, NEW t \in Threads, Submit(t)
  PROVE  GrantStep(t)
<1> USE QuietGrants DEF Granted, Executing
<1>1. CASE SubmitCall(t)
  <2>1. \E j : Call(t, "sub_insert", j)
    BY <1>1 DEF SubmitCall
  <2> QED
    BY <2>1 DEF Call, tables
<1>2. CASE SubmitInsert(t)
  <2>1. ASSUME NEW o, NEW k \in Ids, NEW q, NEW d, NEW u,
               InsertRequest(o, k, q, d, u)
        PROVE  SameApproved /\ UNCHANGED approvals
    BY <2>1 DEF InsertRequest, SameApproved, Approved, TypeInv, TypeOK, TablesTypeOK
  <2>2. SameApproved /\ UNCHANGED approvals
    BY <1>2, <2>1 DEF SubmitInsert, tables, SameApproved
  <2>3. \E l \in {"done", "sub_audit"} : \E j : Continue(t, l, j)
    BY <1>2 DEF SubmitInsert, Reply
  <2> QED
    BY <2>2, <2>3, NoGrant
<1>3. CASE SubmitAudit(t)
  BY <1>3 DEF SubmitAudit, Audit, AppendAuditEvent, Then
<1>4. CASE PreviewRun(t)
  BY <1>4 DEF PreviewRun, Then, Reply, tables
<1>5. CASE PreviewInsert(t)
  BY <1>5 DEF PreviewInsert, InsertPreview, Then, Reply
<1>6. CASE PreviewStatus(t)
  BY <1>6, UpdateGrants DEF PreviewStatus, Approved
<1>7. CASE PreviewAudit(t)
  BY <1>7 DEF PreviewAudit, Audit, AppendAuditEvent, Reply
<1> QED
  BY <1>1, <1>2, <1>3, <1>4, <1>5, <1>6, <1>7 DEF Submit

\* The list, a request for approval, a rejection and a refusal approve nothing.
LEMMA OtherGrants ==
  ASSUME TypeInv, NEW t \in Threads,
         List(t) \/ RequestApproval(t) \/ Reject(t) \/ Refuse(t)
  PROVE  GrantStep(t)
<1> USE QuietGrants DEF Granted, Executing
<1>1. CASE ListCall(t) \/ RequestCall(t) \/ RejectCall(t)
  <2>1. \E l \in {"list_sweep", "req_get", "rej_get"} : \E j : Call(t, l, j)
    BY <1>1 DEF ListCall, RequestCall, RejectCall, CallOn
  <2> QED
    BY <2>1 DEF Call, tables
<1>2. CASE ListSweep(t)
  BY <1>2, SweepGrants, NoGrant DEF ListSweep, Sweep, ExpireStaleApprovals, Reply
<1>3. CASE RequestGet(t) \/ RejectGet(t)
  BY <1>3 DEF RequestGet, RejectGet, GetRequest, Reply, tables
<1>4. CASE RequestStatus(t) \/ RejectStatus(t)
  <2>1. \E s \in {"pending_approval", "rejected"}, l \in {"req_audit", "rej_audit"} :
           SetStatus(t, s, l)
    BY <1>4 DEF RequestStatus, RejectStatus
  <2> QED
    BY <2>1, UpdateGrants DEF Approved
<1>5. CASE RejectInsert(t)
  <2>1. UNCHANGED requests /\ approvals \subseteq approvals'
    BY <1>5 DEF RejectInsert, InsertApproval
  <2> QED
    BY <1>5, <2>1, NoGrant DEF RejectInsert, Then, SameApproved
<1>6. CASE RequestAudit(t) \/ RejectAudit(t)
  BY <1>6 DEF RequestAudit, RejectAudit, Audit, AppendAuditEvent, Reply
<1>7. CASE Refuse(t)
  BY <1>7 DEF Refuse, Reply, tables
<1> QED
  BY <1>1, <1>2, <1>3, <1>4, <1>5, <1>6, <1>7 DEF List, RequestApproval, Reject

-----------------------------------------------------------------------------
\* Approving and executing.

\* approve_handler sets the status after it wrote the decision.
LEMMA ApproveGrants ==
  ASSUME TypeInv, Outcomes = {"ok"}, NEW t \in Threads, Approve(t)
  PROVE  GrantStep(t)
<1> USE QuietGrants DEF Granted, Executing
<1>1. CASE ApproveCall(t)
  <2>1. \E j : Call(t, "app_sweep", j)
    BY <1>1 DEF ApproveCall, CallOn
  <2> QED
    BY <2>1 DEF Call, tables
<1>2. CASE ApproveSweep(t)
  BY <1>2, SweepGrants, NoGrant DEF ApproveSweep, Sweep, ExpireStaleApprovals, Then
<1>3. CASE ApproveGet(t)
  BY <1>3 DEF ApproveGet, GetRequest, Reply, tables
<1>4. CASE ApproveDeadline(t)
  <2>1. \E j : Continue(t, "app_insert", j)
    BY <1>4 DEF ApproveDeadline
  <2> QED
    BY <1>4, <2>1 DEF ApproveDeadline, tables
<1>5. CASE ApproveInsert(t)
  <2>1. /\ pc'[t] = "app_status" /\ job'[t] = job[t] /\ commits' = commits
        /\ InsertApproval("ok", t, job[t].req, job[t].user, "approved", job[t].expires, now)
    BY <1>5, ContinueFacts DEF ApproveInsert, Then, Continue
  <2> DEFINE row == [thread |-> t, req |-> job[t].req, approver_email |-> job[t].user,
                     decision |-> "approved", expires_at |-> job[t].expires,
                     created_at |-> now]
  <2>2. row \in approvals' /\ row.req = job[t].req /\ row.decision = "approved"
    BY <2>1 DEF InsertApproval
  <2>3. approvals \subseteq approvals' /\ requests' = requests
    BY <2>1 DEF InsertApproval
  <2> HIDE DEF row
  <2> QED
    BY <2>1, <2>2, <2>3 DEF GrantStep
<1>6. CASE ApproveStatus(t)
  <2>1. /\ pc[t] = "app_status" /\ approvals' = approvals
        /\ job'[t] = job[t] /\ commits' = commits
    BY <1>6, ContinueFacts DEF ApproveStatus, SetStatus, UpdateStatus, Then, Continue
  <2>2. \A i \in Ids : requests'[i].status \in Approved =>
           requests[i].status \in Approved \/ job[t].req = i
    BY <1>6 DEF ApproveStatus, SetStatus, UpdateStatus, TypeInv, TypeOK, TablesTypeOK
  <2> QED
    BY <2>1, <2>2 DEF GrantStep
<1>7. CASE ApproveAudit(t)
  BY <1>7 DEF ApproveAudit, Audit, AppendAuditEvent, Reply
<1> QED
  BY <1>1, <1>2, <1>3, <1>4, <1>5, <1>6, <1>7 DEF Approve

\* execute_handler goes on with a request that is approved.
LEMMA ExecuteGrants ==
  ASSUME TypeInv, RunsInv, NEW t \in Threads, Execute(t)
  PROVE  GrantStep(t)
<1>1. CASE ExecuteCall(t)
  <2>1. \E j : Call(t, "exe_sweep", j)
    BY <1>1 DEF ExecuteCall, CallOn
  <2> QED
    BY <2>1, QuietGrants DEF Call, tables, Granted, Executing
<1>2. CASE ExecuteSweep(t)
  <2>1. \E o, j : ExpireStaleApprovals(o, now) /\ Continue(t, "exe_get", j)
    BY <1>2 DEF ExecuteSweep
  <2> QED
    BY <2>1, SweepGrants, NoGrant DEF ExpireStaleApprovals, Granted, Executing
<1>3. CASE ExecuteGet(t)
  <2>1. UNCHANGED <<requests, approvals, commits>> /\ pc[t] = "exe_get"
    BY <1>3 DEF ExecuteGet, GetRequest, Reply, Continue, tables
  <2>2. CASE Reply(t)
    BY <2>1, <2>2, QuietGrants DEF Reply, Granted, Executing
  <2> DEFINE l == IF Verified(t) THEN "exe_run" ELSE "exe_mismatch"
             j == [job[t] EXCEPT !.query = Row(t).query_text,
                                 !.kind = Row(t).target_kind]
  <2>3. CASE Row(t).status = "approved" /\ Continue(t, l, j)
    <3>1. j.req = job[t].req
      BY LocalFacts DEF Job
    <3> HIDE DEF l, j
    <3>2. job'[t] = j
      BY <2>3, ContinueFacts
    <3> QED
      BY <2>1, <2>3, <3>1, <3>2 DEF GrantStep
  <2> QED
    BY <1>3, <2>2, <2>3 DEF ExecuteGet, GetRequest
<1>4. CASE ExecuteMismatch(t)
  BY <1>4, QuietGrants DEF ExecuteMismatch, InsertExecution, Reply, Granted, Executing
<1>5. CASE ExecuteRun(t)
  <2>1. pc[t] = "exe_run" /\ UNCHANGED <<requests, approvals>>
    BY <1>5 DEF ExecuteRun, tables
  <2>2. job'[t].req = job[t].req \/ pc'[t] = "done"
    BY <1>5, LocalFacts DEF ExecuteRun, Reply, Continue, TypeInv, TypeOK, Job
  <2>3. \A c \in commits' : c \in commits \/ c.req = job[t].req
    BY <1>5, ExecuteRunRuns DEF RecordStep
  <2> QED
    BY <2>1, <2>2, <2>3 DEF GrantStep, Granted, Executing
<1>6. CASE ExecuteRecord(t)
  <2>1. /\ pc[t] = "exe_record" /\ job'[t] = job[t]
        /\ UNCHANGED <<requests, approvals, commits>>
    BY <1>6, ContinueFacts DEF ExecuteRecord, InsertExecution, Then, Continue
  <2> QED
    BY <2>1 DEF GrantStep, Granted, Executing
<1>7. CASE ExecuteStatus(t)
  <2>1. /\ pc[t] = "exe_status" /\ approvals' = approvals
        /\ job'[t] = job[t] /\ commits' = commits
    BY <1>7, ContinueFacts DEF ExecuteStatus, SetStatus, UpdateStatus, Then, Continue
  <2>2. \A i \in Ids : requests'[i].status \in Approved =>
           requests[i].status \in Approved \/ job[t].req = i
    BY <1>7 DEF ExecuteStatus, SetStatus, UpdateStatus, TypeInv, TypeOK, TablesTypeOK
  <2> QED
    BY <2>1, <2>2 DEF GrantStep, Granted, Executing
<1>8. CASE ExecuteAudit(t)
  BY <1>8, QuietGrants DEF ExecuteAudit, Audit, AppendAuditEvent, Reply, Granted, Executing
<1> QED
  BY <1>1, <1>2, <1>3, <1>4, <1>5, <1>6, <1>7, <1>8 DEF Execute

-----------------------------------------------------------------------------
\* Every step keeps the invariant.
LEMMA GrantsOKStep ==
  ASSUME TypeInv, RunsInv, GrantsOK, Outcomes = {"ok"}, [Next]_vars
  PROVE  GrantsOK'
<1>1. ASSUME NEW t \in Threads, Handle(t) PROVE GrantsOK'
  <2>1. GrantStep(t)
    BY <1>1, SubmitGrants, OtherGrants, ApproveGrants, ExecuteGrants DEF Handle
  <2> QED
    BY <1>1, <2>1, HandleDecisions, GrantsStep
<1>2. ASSUME UNCHANGED <<approvals, commits>>,
             \A i \in Ids : requests'[i].status = requests[i].status,
             \A t \in Threads : \/ pc'[t] = pc[t] /\ job'[t] = job[t]
                                \/ pc'[t] \in {"new", "done", "killed"}
      PROVE  GrantsOK'
  <2>1. \A t \in Threads : pc'[t] \in Granted => pc'[t] = pc[t] /\ job'[t] = job[t]
    BY <1>2 DEF Granted, Executing
  <2> QED
    BY <1>2, <2>1 DEF GrantsOK, OnRecord, Status, Committed
<1>3. CASE Tick \/ UNCHANGED vars
  BY <1>2, <1>3 DEF Tick, vars, tables
<1>4. CASE Tamper
  <2>1. \A i \in Ids : requests'[i].status = requests[i].status
    BY <1>4 DEF Tamper, TypeInv, TypeOK, TablesTypeOK, RequestRow
  <2> QED
    BY <1>2, <1>4, <2>1 DEF Tamper
<1>5. CASE Crash
  BY <1>2, <1>5 DEF Crash, Active, tables, TypeInv, TypeOK
<1> QED
  BY <1>1, <1>3, <1>4, <1>5 DEF Next, Finished

\* If no statement of the database fails, a request that is or was approved,
\* or ran, has an approval by somebody else on record, whatever interleaves or
\* is killed (src/main.rs:262-271, src/execute/engine.rs:32).
THEOREM ApprovalOnRecordHolds ==
  ASSUME Outcomes = {"ok"}
  PROVE  Spec => []ApprovalOnRecord
<1> DEFINE Inv == GateInv /\ GrantsOK
<1>1. Init => GrantsOK
  BY DEF Init, TablesInit, GrantsOK, Status, Committed, NoRow, Approved,
         Granted, Executing
<1>2. Inv /\ [Next]_vars => GrantsOK'
  BY GrantsOKStep DEF GateInv, RunsInv
<1>3. Inv => ApprovalOnRecord
  <2> SUFFICES ASSUME Inv, NEW i \in Ids, OnRecord(i)
               PROVE  \E a \in approvals : /\ a.req = i
                                           /\ a.decision = "approved"
                                           /\ a.approver_email
                                                 # requests[i].requester_email
    BY DEF ApprovalOnRecord, GrantsOK, Approved
  <2> QED
    BY DEF OnRecord, GateInv, FourEyes
<1>4. Spec => []GateInv
  BY GateInvHolds
<1> QED
  BY <1>1, <1>2, <1>3, <1>4, PTL DEF Spec
=============================================================================
