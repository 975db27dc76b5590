---------------------------- MODULE GateTimeline ----------------------------
(***************************************************************************)
(* The timeline of a request (audit_log): complete whatever interleaves or *)
(* is killed, in order one request at a time whatever fails, and telling   *)
(* the status where both the database and the process are reliable.        *)
(***************************************************************************)
EXTENDS GateSerial

-----------------------------------------------------------------------------
\* What one step writes into the timelines.

LogLabels == {"sub_audit", "pre_audit", "req_audit", "app_audit", "rej_audit",
              "exe_audit"}

\* The event that thread t is about to log.
EventOf(t) == CASE pc[t] = "sub_audit" -> "submitted"
                [] pc[t] = "pre_audit" -> "previewed"
                [] pc[t] = "req_audit" -> "requested_approval"
                [] pc[t] = "app_audit" -> "approved"
                [] pc[t] = "rej_audit" -> "rejected"
                [] pc[t] = "exe_audit" -> IF job[t].failed THEN "execution_failed"
                                                           ELSE "executed"

\* The label of a thread tells what it logs, or sets.
LEMMA AuditTells ==
  ASSUME NEW t \in Threads, Handle(t)
  PROVE  /\ pc[t] = "sub_audit" => SubmitAudit(t)
         /\ pc[t] = "pre_audit" => PreviewAudit(t)
         /\ pc[t] = "req_audit" => RequestAudit(t)
         /\ pc[t] = "app_audit" => ApproveAudit(t)
         /\ pc[t] = "rej_audit" => RejectAudit(t)
         /\ pc[t] = "exe_audit" => ExecuteAudit(t)
         /\ pc[t] = "app_status" => ApproveStatus(t)
         /\ pc[t] = "rej_status" => RejectStatus(t)
<1>1. CASE Submit(t)
  BY <1>1 DEF Submit, SubmitCall, Call, SubmitInsert, PreviewRun,
              PreviewInsert, PreviewStatus, SubmitAudit, PreviewAudit
<1>2. CASE List(t) \/ RequestApproval(t) \/ Refuse(t)
  BY <1>2 DEF List, ListCall, Call, ListSweep, RequestApproval, RequestCall,
              CallOn, RequestGet, RequestStatus, RequestAudit, Refuse
<1>3. CASE Approve(t)
  BY <1>3 DEF Approve, ApproveCall, CallOn, Call, ApproveSweep, ApproveGet,
              ApproveDeadline, ApproveInsert, ApproveStatus, ApproveAudit
<1>4. CASE Reject(t)
  BY <1>4 DEF Reject, RejectCall, CallOn, Call, RejectGet, RejectInsert,
              RejectStatus, RejectAudit
<1>5. CASE Execute(t)
  BY <1>5, LabelTells DEF Execute, ExecuteCall, CallOn, Call, ExecuteSweep,
              ExecuteGet, ExecuteMismatch, ExecuteRun, ExecuteRecord,
              ExecuteStatus, ExecuteAudit
<1> QED
  BY <1>1, <1>2, <1>3, <1>4, <1>5 DEF Handle

\* At these labels a thread logs its event,
LEMMA LogStep ==
  ASSUME NEW t \in Threads, Handle(t), pc[t] \in LogLabels
  PROVE  /\ EventOf(t) \in Events
         /\ Audit(t, EventOf(t))
         /\ IF pc[t] = "sub_audit" THEN Then(t, "pre_run") ELSE Reply(t)
<1> USE AuditTells DEF EventOf, Events
<1>1. CASE pc[t] = "sub_audit"
  BY <1>1 DEF SubmitAudit
<1>2. CASE pc[t] = "pre_audit"
  BY <1>2 DEF PreviewAudit
<1>3. CASE pc[t] = "req_audit"
  BY <1>3 DEF RequestAudit
<1>4. CASE pc[t] = "app_audit"
  BY <1>4 DEF ApproveAudit
<1>5. CASE pc[t] = "rej_audit"
  BY <1>5 DEF RejectAudit
<1>6. CASE pc[t] = "exe_audit"
  BY <1>6 DEF ExecuteAudit
<1> QED
  BY <1>1, <1>2, <1>3, <1>4, <1>5, <1>6 DEF LogLabels

\* and nowhere else.
LEMMA NoLogStep ==
  ASSUME NEW t \in Threads, Handle(t), pc[t] \notin LogLabels
  PROVE  UNCHANGED audit_log
<1> USE DEF LogLabels
<1>1. CASE Submit(t)
  BY <1>1 DEF Submit, SubmitCall, Call, SubmitInsert, SubmitAudit, PreviewRun,
              PreviewInsert, PreviewStatus, PreviewAudit, SetStatus,
              UpdateStatus, InsertRequest, InsertPreview, tables
<1>2. CASE List(t) \/ RequestApproval(t) \/ Refuse(t)
  BY <1>2 DEF List, ListCall, Call, ListSweep, RequestApproval, RequestCall,
              CallOn, RequestGet, GetRequest, RequestStatus, RequestAudit,
              Refuse, SetStatus, UpdateStatus, Sweep, ExpireStaleApprovals, tables
<1>3. CASE Approve(t)
  BY <1>3 DEF Approve, ApproveCall, CallOn, Call, ApproveSweep, ApproveGet,
              GetRequest, ApproveDeadline, ApproveInsert, InsertApproval,
              ApproveStatus, ApproveAudit, SetStatus, UpdateStatus, Sweep,
              ExpireStaleApprovals, tables
<1>4. CASE Reject(t)
  BY <1>4 DEF Reject, RejectCall, CallOn, Call, RejectGet, GetRequest,
              RejectInsert, InsertApproval, RejectStatus, RejectAudit,
              SetStatus, UpdateStatus, tables
<1>5. CASE Execute(t)
  BY <1>5 DEF Execute, ExecuteCall, CallOn, Call, ExecuteSweep, ExecuteGet,
              GetRequest, ExecuteMismatch, ExecuteRun, ExecuteRecord,
              InsertExecution, ExecuteStatus, ExecuteAudit, SetStatus,
              UpdateStatus, ExpireStaleApprovals, tables
<1> QED
  BY <1>1, <1>2, <1>3, <1>4, <1>5 DEF Handle

Entry(t) == [event |-> EventOf(t), actor |-> job[t].user]

\* A timeline stays, or is the request's of t and gets the event of t's label.
LEMMA LogFacts ==
  ASSUME TypeInv, NEW t \in Threads, Handle(t), NEW i \in Ids
  PROVE  \/ audit_log'[i] = audit_log[i]
         \/ /\ pc[t] \in LogLabels /\ job[t].req = i
            /\ audit_log'[i] = Append(audit_log[i], Entry(t))
<1>1. audit_log \in [Ids -> Seq(AuditRow)]
  BY DEF TypeInv, TypeOK, TablesTypeOK
<1>2. CASE pc[t] \notin LogLabels
  BY <1>2, NoLogStep
<1>3. CASE pc[t] \in LogLabels
  <2>1. \E o : audit_log' = IF o = "lost" THEN audit_log ELSE
                  [audit_log EXCEPT ![job[t].req] = Append(@, Entry(t))]
    BY <1>3, LogStep DEF Audit, AppendAuditEvent, Entry
  <2> QED
    BY <1>1, <1>3, <2>1
<1> QED
  BY <1>2, <1>3

\* A sequence with something put behind it, and what stands where in it.
LEMMA AppendKeeps ==
  ASSUME NEW S, NEW s \in Seq(S), NEW x
  PROVE  /\ Len(Append(s, x)) = Len(s) + 1 /\ Append(s, x)[Len(s) + 1] = x
         /\ DOMAIN s = 1 .. Len(s)
         /\ DOMAIN Append(s, x) = 1 .. Len(s) + 1 /\ Len(s) \in Nat
         /\ \A k \in DOMAIN s : /\ k \in DOMAIN Append(s, x)
                                /\ Append(s, x)[k] = s[k]
         /\ \A k \in DOMAIN Append(s, x) : k \in DOMAIN s \/ k = Len(s) + 1
  OBVIOUS

\* Entries stay where they are.
LEMMA LogsGrow ==
  ASSUME TypeInv, NEW t \in Threads, Handle(t), NEW i \in Ids,
         NEW k \in DOMAIN audit_log[i]
  PROVE  k \in DOMAIN audit_log'[i] /\ audit_log'[i][k] = audit_log[i][k]
<1>1. audit_log[i] \in Seq(AuditRow)
  BY DEF TypeInv, TypeOK, TablesTypeOK
<1> QED
  BY <1>1, LogFacts, AppendKeeps

-----------------------------------------------------------------------------
\* Completeness, over a database whose statements do not fail.

\* The thread of decision a is on its way to log it, was killed, or did.
Accounted(a) ==
    \/ pc[a.thread] = "killed"
    \/ /\ pc[a.thread] \in (IF a.decision = "approved"
                            THEN {"app_status", "app_audit"}
                            ELSE {"rej_status", "rej_audit"})
       /\ job[a.thread].req = a.req /\ job[a.thread].user = a.approver_email
    \/ /\ pc[a.thread] = "done"
       /\ \E k \in DOMAIN audit_log[a.req] :
              audit_log[a.req][k] = [event |-> a.decision, actor |-> a.approver_email]

Reported(c) ==
    \/ pc[c.thread] = "killed"
    \/ pc[c.thread] \in Recording /\ job[c.thread].req = c.req
    \/ /\ pc[c.thread] = "done"
       /\ Logged(c.req, "executed") \/ Logged(c.req, "execution_failed")

CompleteInv == /\ \A a \in approvals : Accounted(a)
               /\ \A c \in commits : Reported(c)

\* What stands in a timeline stays in it,
LEMMA LogsKept ==
  ASSUME TypeInv, NEW t \in Threads, Handle(t), NEW i \in Ids, NEW P,
         \E k \in DOMAIN audit_log[i] : audit_log[i][k] = P
  PROVE  \E k \in DOMAIN audit_log'[i] : audit_log'[i][k] = P
  BY LogsGrow

\* and so an event that was logged is logged.
LEMMA LoggedKept ==
  ASSUME TypeInv, NEW t \in Threads, Handle(t), NEW i \in Ids, NEW e, Logged(i, e)
  PROVE  Logged(i, e)'
<1>1. PICK k \in DOMAIN audit_log[i] : audit_log[i][k].event = e
  BY DEF Logged
<1> QED
  BY <1>1, LogsGrow DEF Logged

\* If no statement fails, the event of the label is in the timeline.
LEMMA EventLogged ==
  ASSUME TypeInv, Outcomes = {"ok"}, NEW t \in Threads, Handle(t),
         pc[t] \in LogLabels, job[t].req \in Ids
  PROVE  \E k \in DOMAIN audit_log'[job[t].req] :
             audit_log'[job[t].req][k] = Entry(t)
<1> DEFINE i == job[t].req
<1>1. audit_log' = [audit_log EXCEPT ![i] = Append(@, Entry(t))]
  BY LogStep DEF Audit, AppendAuditEvent, Entry
<1>2. audit_log[i] \in Seq(AuditRow) /\ audit_log'[i] = Append(audit_log[i], Entry(t))
  BY <1>1 DEF TypeInv, TypeOK, TablesTypeOK
<1> HIDE DEF i
<1>3. Len(audit_log[i]) + 1 \in DOMAIN audit_log'[i]
  BY <1>2, AppendKeeps
<1>4. audit_log'[i][Len(audit_log[i]) + 1] = Entry(t)
  BY <1>2, AppendKeeps
<1> QED
  BY <1>3, <1>4 DEF i

\* The thread of a decision logs it,
LEMMA AccountedStep ==
  ASSUME TypeInv, Outcomes = {"ok"}, NEW t \in Threads, Handle(t),
         NEW a \in approvals, Accounted(a)
  PROVE  Accounted(a)'
<1>1. /\ StaysPut(t) /\ a.req \in Ids /\ a.thread \in Threads
      /\ a.decision \in {"approved", "rejected"}
  BY HandleDecisions DEF TypeInv, TypeOK, TablesTypeOK, ApprovalRow, Decisions
<1>2. CASE a.thread # t
  <2>1. pc'[a.thread] = pc[a.thread] /\ job'[a.thread] = job[a.thread]
    BY <1>1, <1>2 DEF StaysPut
  <2>2. (\E k \in DOMAIN audit_log[a.req] :
            audit_log[a.req][k] = [event |-> a.decision, actor |-> a.approver_email])
        => \E k \in DOMAIN audit_log'[a.req] :
            audit_log'[a.req][k] = [event |-> a.decision, actor |-> a.approver_email]
    BY <1>1, LogsKept
  <2> QED
    BY <2>1, <2>2 DEF Accounted
<1>3. CASE a.thread = t /\ pc[t] \in {"app_status", "rej_status"}
  <2>1. Then(t, IF pc[t] = "app_status" THEN "app_audit" ELSE "rej_audit")
    BY <1>3, AuditTells DEF ApproveStatus, RejectStatus, SetStatus
  <2>2. /\ pc'[t] = IF pc[t] = "app_status" THEN "app_audit" ELSE "rej_audit"
        /\ job'[t] = job[t]
    BY <2>1, ContinueFacts DEF Then
  <2> QED
    BY <1>1, <1>3, <2>2 DEF Accounted
<1>4. CASE a.thread = t /\ pc[t] \in {"app_audit", "rej_audit"}
  <2>1. Entry(t) = [event |-> a.decision, actor |-> a.approver_email]
    BY <1>1, <1>4 DEF Accounted, Entry, EventOf
  <2>2. pc'[t] = "done" /\ job[t].req = a.req
    BY <1>4, LogStep, ContinueFacts DEF Accounted, Reply, LogLabels
  <2>3. \E k \in DOMAIN audit_log'[a.req] : audit_log'[a.req][k] = Entry(t)
    BY <1>1, <1>4, <2>2, EventLogged DEF LogLabels
  <2> QED
    BY <1>4, <2>1, <2>2, <2>3 DEF Accounted
<1> QED
  BY <1>1, <1>2, <1>3, <1>4, LabelTells DEF Accounted, Idle

\* and that of a commit reports it.
LEMMA ReportedStep ==
  ASSUME TypeInv, Outcomes = {"ok"}, NEW t \in Threads, Handle(t),
         NEW c \in commits, Reported(c)
  PROVE  Reported(c)'
<1>1. StaysPut(t) /\ c.req \in Ids /\ c.thread \in Threads
  BY HandleDecisions DEF TypeInv, TypeOK, Commit
<1>2. CASE c.thread # t
  <2>1. pc'[c.thread] = pc[c.thread] /\ job'[c.thread] = job[c.thread]
    BY <1>1, <1>2 DEF StaysPut
  <2>2. /\ Logged(c.req, "executed") => Logged(c.req, "executed")'
        /\ Logged(c.req, "execution_failed") => Logged(c.req, "execution_failed")'
    BY <1>1, LoggedKept
  <2> QED
    BY <2>1, <2>2 DEF Reported
<1>3. CASE c.thread = t /\ pc[t] \in {"exe_record", "exe_status"}
  <2>1. \E l \in {"exe_status", "exe_audit"} : Then(t, l)
    BY <1>3, LabelTells DEF ExecuteRecord, ExecuteStatus, SetStatus
  <2>2. pc'[t] \in {"exe_status", "exe_audit"} /\ job'[t] = job[t]
    BY <2>1, ContinueFacts DEF Then
  <2> QED
    BY <1>3, <2>2 DEF Reported, Recording
<1>4. CASE c.thread = t /\ pc[t] = "exe_audit"
  <2>1. Entry(t).event \in {"executed", "execution_failed"}
    BY <1>4 DEF Entry, EventOf
  <2>2. pc'[t] = "done" /\ job[t].req = c.req
    BY <1>4, LogStep, ContinueFacts DEF Reported, Reply, LogLabels
  <2>3. \E k \in DOMAIN audit_log'[c.req] : audit_log'[c.req][k] = Entry(t)
    BY <1>1, <1>4, <2>2, EventLogged DEF LogLabels
  <2> QED
    BY <1>4, <2>1, <2>2, <2>3 DEF Reported, Logged
<1> QED
  BY <1>1, <1>2, <1>3, <1>4, LabelTells DEF Reported, Idle, Recording

\* A step of a handler keeps the invariant,
LEMMA CompleteHandle ==
  ASSUME TypeInv, RunsInv, CompleteInv, Outcomes = {"ok"}, NEW t \in Threads,
         Handle(t)
  PROVE  CompleteInv'
<1>1. ASSUME NEW a \in approvals' PROVE Accounted(a)'
  <2>1. CASE a \in approvals
    BY <2>1, AccountedStep DEF CompleteInv
  <2>2. CASE ApproveInsert(t) /\ a \notin approvals
    <3>1. pc'[t] = "app_status" /\ job'[t] = job[t]
      BY <2>2, ContinueFacts DEF ApproveInsert, Then
    <3>2. /\ a.thread = t /\ a.req = job[t].req
          /\ a.approver_email = job[t].user /\ a.decision = "approved"
      BY <1>1, <2>2 DEF ApproveInsert, InsertApproval
    <3> QED
      BY <3>1, <3>2 DEF Accounted
  <2>3. CASE RejectInsert(t) /\ a \notin approvals
    <3>1. pc'[t] = "rej_status" /\ job'[t] = job[t]
      BY <2>3, ContinueFacts DEF RejectInsert, Then
    <3>2. /\ a.thread = t /\ a.req = job[t].req
          /\ a.approver_email = job[t].user /\ a.decision = "rejected"
      BY <1>1, <2>3 DEF RejectInsert, InsertApproval
    <3> QED
      BY <3>1, <3>2 DEF Accounted
  <2> QED
    BY <1>1, <2>1, <2>2, <2>3, Reaches
<1>2. ASSUME NEW c \in commits' PROVE Reported(c)'
  <2>1. CASE c \in commits
    BY <2>1, ReportedStep DEF CompleteInv
  <2>2. CASE c \notin commits
    <3>1. c.thread = t /\ c.req = job[t].req
      BY <1>2, <2>2, CommitsInRun
    <3>2. pc'[t] = "exe_record" /\ job'[t].req = job[t].req
      BY <1>2, <2>2, RunBooks
    <3> QED
      BY <3>1, <3>2 DEF Reported, Recording
  <2> QED
    BY <2>1, <2>2
<1> QED
  BY <1>1, <1>2 DEF CompleteInv

\* and so does every step.
LEMMA CompleteInvStep ==
  ASSUME GateInv, CompleteInv, Outcomes = {"ok"}, [Next]_vars
  PROVE  CompleteInv'
<1>1. TypeInv /\ RunsInv
  BY DEF GateInv, RunsInv
<1>2. ASSUME UNCHANGED <<approvals, audit_log, commits>>,
             \A t \in Threads : \/ pc'[t] = pc[t] /\ job'[t] = job[t]
                                \/ pc'[t] = "killed"
                                \/ pc'[t] = pc[t] /\ pc[t] \in Idle
      PROVE  CompleteInv'
  <2>1. /\ \A a \in approvals : a.thread \in Threads
        /\ \A c \in commits : c.thread \in Threads
    BY <1>1 DEF TypeInv, TypeOK, TablesTypeOK, ApprovalRow, Commit
  <2>2. ASSUME NEW a \in approvals PROVE Accounted(a)'
    BY <1>2, <2>1, <2>2 DEF CompleteInv, Accounted, Idle
  <2>3. ASSUME NEW c \in commits PROVE Reported(c)'
    BY <1>2, <2>1, <2>3 DEF CompleteInv, Reported, Logged, Idle, Recording
  <2> QED
    BY <1>2, <2>2, <2>3 DEF CompleteInv
<1>3. CASE Tick \/ Tamper \/ UNCHANGED vars
  BY <1>2, <1>3 DEF Tick, Tamper, vars, tables
<1>4. CASE Crash
  BY <1>1, <1>2, <1>4 DEF Crash, Active, tables, TypeInv, TypeOK, Idle
<1> QED
  BY <1>1, <1>3, <1>4, CompleteHandle DEF Next, Finished

\* If no statement of the database fails, a handler that replied has left its
\* decision, or its commit, in the request's timeline, whatever interleaves or
\* is killed (src/main.rs:273, 340, src/execute/engine.rs:95-117).
THEOREM TimelineCompleteHolds ==
  ASSUME Outcomes = {"ok"}
  PROVE  Spec => []TimelineComplete
<1>1. Init => CompleteInv
  BY DEF Init, TablesInit, CompleteInv
<1>2. GateInv /\ CompleteInv /\ [Next]_vars => CompleteInv'
  BY CompleteInvStep
<1>3. CompleteInv => TimelineComplete
  BY DEF CompleteInv, Accounted, Reported, TimelineComplete, Recording
<1>4. Spec => []GateInv
  BY GateInvHolds
<1> QED
  BY <1>1, <1>2, <1>3, <1>4, PTL DEF Spec

-----------------------------------------------------------------------------
\* Which statement leads to a label.

\* By which step a submission comes to each label.
LEMMA SubmitArrives ==
  ASSUME TypeInv, NEW t \in Threads, Submit(t)
  PROVE  /\ pc'[t] \in Pipeline \cup {"sub_insert", "done"}
         /\ pc'[t] = "sub_audit" => SubmitInsert(t)
         /\ pc'[t] = "pre_run" => SubmitAudit(t)
         /\ pc'[t] = "pre_insert" => PreviewRun(t)
         /\ pc'[t] = "pre_status" => PreviewInsert(t)
         /\ pc'[t] = "pre_audit" => PreviewStatus(t)
<1>0. \A l, j : Continue(t, l, j) => pc'[t] = l
  BY ContinueFacts
<1> QED
  BY <1>0 DEF Submit, SubmitCall, Call, SubmitInsert, SubmitAudit, PreviewRun,
              PreviewInsert, PreviewStatus, PreviewAudit, SetStatus, Then, Reply,
              Pipeline, Fresh

\* By which step a request for approval does.
LEMMA RequestArrives ==
  ASSUME TypeInv, NEW t \in Threads, List(t) \/ RequestApproval(t) \/ Refuse(t)
  PROVE  /\ pc'[t] \in {"list_sweep", "req_get", "req_status", "req_audit", "done"}
         /\ pc'[t] = "req_status" => RequestGet(t)
         /\ pc'[t] = "req_audit" => RequestStatus(t)
<1>0. \A l, j : Continue(t, l, j) => pc'[t] = l
  BY ContinueFacts
<1> QED
  BY <1>0 DEF List, ListCall, Call, ListSweep, RequestApproval, RequestCall,
              CallOn, RequestGet, GetRequest, RequestStatus, RequestAudit,
              Refuse, SetStatus, Then, Reply

\* By which step a decision does.
LEMMA DecideArrives ==
  ASSUME TypeInv, NEW t \in Threads, Approve(t) \/ Reject(t)
  PROVE  /\ pc'[t] \in Deciding \cup {"app_sweep", "app_get", "rej_get", "done"}
         /\ pc'[t] = "app_audit" => ApproveStatus(t)
         /\ pc'[t] = "rej_audit" => RejectStatus(t)
<1>0. \A l, j : Continue(t, l, j) => pc'[t] = l
  BY ContinueFacts
<1>1. CASE Approve(t)
  BY <1>0, <1>1 DEF Approve, ApproveCall, CallOn, Call, ApproveSweep, ApproveGet,
              GetRequest, ApproveDeadline, ApproveInsert, ApproveStatus,
              ApproveAudit, SetStatus, Then, Reply, Deciding
<1>2. CASE Reject(t)
  BY <1>0, <1>2 DEF Reject, RejectCall, CallOn, Call, RejectGet, GetRequest,
              RejectInsert, RejectStatus, RejectAudit, SetStatus, Then, Reply,
              Deciding
<1> QED
  BY <1>1, <1>2

\* By which step an execution does.
LEMMA ExecuteArrives ==
  ASSUME TypeInv, NEW t \in Threads, Execute(t)
  PROVE  /\ pc'[t] \in Executing \cup {"exe_sweep", "exe_get", "done"}
         /\ pc'[t] = "exe_audit" => ExecuteRecord(t) \/ ExecuteStatus(t)
<1>0. \A l, j : Continue(t, l, j) => pc'[t] = l
  BY ContinueFacts
<1>1. ExecuteRun(t) => pc'[t] \in {"done", "exe_record"}
  BY <1>0 DEF ExecuteRun, Reply, TypeInv, TypeOK
<1> QED
  BY <1>0, <1>1 DEF Execute, ExecuteCall, CallOn, Call, ExecuteSweep, ExecuteGet,
              GetRequest, ExecuteMismatch, ExecuteRecord, ExecuteStatus,
              ExecuteAudit, SetStatus, Then, Reply, Executing

-----------------------------------------------------------------------------
\* Order, one request at a time, whatever fails or is killed.

\* No event of the timeline is of a stage later than m.
Top(log, m) == \A k \in DOMAIN log : Stage(log[k].event) <= m

Ordered(log) == \A k, m \in DOMAIN log :
                    k < m => Stage(log[k].event) <= Stage(log[m].event)

\* How far the timeline of a request with status s may be: one stage ahead
\* where the UPDATE failed and the event was logged.
Bound(s) == CASE s = "absent" -> 0
              [] s = "submitted" -> 2
              [] s = "previewed" -> 3
              [] s \in {"pending_approval", "rejected"} -> 4
              [] OTHER -> 5

\* ... and that of a request a handler at label l works on.
Ceiling(l) == CASE l \in Pipeline -> 1
                [] l \in {"req_status", "req_audit"} -> 3
                [] l \in Deciding -> 4
                [] OTHER -> 5

LateOK(l, s) ==
    /\ l \in Deciding => s \in {"pending_approval", "approved", "rejected"}
    /\ l = "exe_audit" => s \in {"approved", "executed"}

OrderInv ==
    /\ TimelineInOrder
    /\ \A i \in Ids : Top(audit_log[i], Bound(Status(i)))
    /\ \A t \in Threads : pc[t] \in Pipeline \cup Checked =>
           /\ Top(audit_log[job[t].req], Ceiling(pc[t]))
           /\ LateOK(pc[t], Row(t).status)

\* Ceiling, handler by handler.
LEMMA CeilingIs ==
  /\ \A l \in Pipeline : Ceiling(l) = 1
  /\ \A l \in {"req_status", "req_audit"} : Ceiling(l) = 3
  /\ \A l \in Deciding : Ceiling(l) = 4
  /\ \A l \in Executing : Ceiling(l) = 5
  BY DEF Ceiling, Pipeline, Fresh, Deciding, Executing

\* There are five stages.
LEMMA StageType == \A e \in Events : Stage(e) \in 1 .. 5
  BY DEF Events, Stage, Decisions

\* A timeline that reaches no further than m reaches no further than n.
LEMMA TopGrows ==
  ASSUME NEW log \in Seq(AuditRow), NEW m \in Nat, NEW n \in Nat, m <= n,
         Top(log, m)
  PROVE  Top(log, n)
<1>1. \A k \in DOMAIN log : log[k].event \in Events
  <2>1. \A k \in DOMAIN log : log[k] \in AuditRow
    OBVIOUS
  <2>2. \A x \in AuditRow : x.event \in Events
    BY DEF AuditRow
  <2> QED
    BY <2>1, <2>2
<1>2. \A k \in DOMAIN log : Stage(log[k].event) \in 1 .. 5
  BY <1>1, StageType
<1> QED
  BY <1>2 DEF Top

\* No timeline reaches further than stage 5.
LEMMA TopAlways == ASSUME NEW log \in Seq(AuditRow) PROVE Top(log, 5)
<1>1. \A k \in DOMAIN log : log[k] \in AuditRow
  OBVIOUS
<1>2. \A x \in AuditRow : Stage(x.event) <= 5
  BY StageType DEF AuditRow
<1> QED
  BY <1>1, <1>2 DEF Top

\* An event of a stage up to m is appended.
LEMMA TopAppend ==
  ASSUME NEW log \in Seq(AuditRow), NEW x \in AuditRow, NEW m \in Nat, Top(log, m),
         Stage(x.event) <= m
  PROVE  Top(Append(log, x), m)
<1> DEFINE new == Append(log, x)
<1>1. ASSUME NEW k \in DOMAIN new PROVE Stage(new[k].event) <= m
  <2>1. \/ k \in DOMAIN log /\ new[k] = log[k]
        \/ new[k] = x
    BY AppendKeeps
  <2> HIDE DEF new
  <2> QED
    BY <2>1 DEF Top
<1> HIDE DEF new
<1>2. Top(new, m)
  BY <1>1 DEF Top
<1> QED
  BY <1>2 DEF new

\* An event that is not of an earlier stage is appended in order.
LEMMA OrderAppend ==
  ASSUME NEW log \in Seq(AuditRow), NEW x \in AuditRow, Ordered(log),
         Top(log, Stage(x.event))
  PROVE  Ordered(Append(log, x))
<1> DEFINE new == Append(log, x)
<1>1. x.event \in Events
  BY DEF AuditRow
<1>2. Stage(x.event) <= Stage(x.event)
  BY <1>1, StageType
<1>3. ASSUME NEW k \in DOMAIN new, NEW m \in DOMAIN new, k < m
      PROVE  Stage(new[k].event) <= Stage(new[m].event)
  <2>1. /\ DOMAIN log = 1 .. Len(log) /\ Len(log) \in Nat
        /\ DOMAIN new = 1 .. Len(log) + 1
        /\ \A n \in DOMAIN log : new[n] = log[n]
        /\ new[Len(log) + 1] = x
    BY AppendKeeps
  <2> HIDE DEF new
  <2>2. k \in DOMAIN log
    BY <1>3, <2>1
  <2>3. m \in DOMAIN log \/ m = Len(log) + 1
    BY <1>3, <2>1
  <2> QED
    BY <1>3, <2>1, <2>2, <2>3 DEF Ordered, Top
<1> HIDE DEF new
<1>4. Ordered(new)
  BY <1>3 DEF Ordered
<1> QED
  BY <1>4 DEF new

\* In Lifecycle the bound of a request grows.
LEMMA BoundGrows ==
  ASSUME Life, NEW i \in Ids
  PROVE  Bound(requests[i].status) <= Bound(requests'[i].status)
<1> DEFINE f == [k \in Ids |-> Status(k)]
<1>1. f[i] = requests[i].status /\ f'[i] = requests'[i].status
  BY DEF Status
<1>2. \A s : Bound(s) \in Nat /\ Bound(s) <= Bound(s)
  BY DEF Bound
<1>3. DOMAIN f = Ids
  OBVIOUS
<1>4. ASSUME NEW k \in Ids, NEW from, NEW to, f[k] = from,
             f' = [f EXCEPT ![k] = to], Bound(from) <= Bound(to)
      PROVE  Bound(f[i]) <= Bound(f'[i])
  <2> HIDE DEF f
  <2> QED
    BY <1>2, <1>3, <1>4
<1>5. \/ f' = f
      \/ \E k \in Ids : L!Move(k, "absent", "submitted")
      \/ \E k \in Ids : L!Move(k, "submitted", "previewed")
      \/ \E k \in Ids : L!Move(k, "previewed", "pending_approval")
      \/ \E k \in Ids : L!Move(k, "pending_approval", "approved")
      \/ \E k \in Ids : L!Move(k, "pending_approval", "rejected")
      \/ \E k \in Ids : L!Move(k, "approved", "executed")
      \/ \E S \in SUBSET {k \in Ids : f[k] = "approved"} :
             f' = [k \in Ids |-> IF k \in S THEN "expired" ELSE f[k]]
  BY DEF Life, L!vars, L!Next, L!Submit, L!Preview, L!RequestApproval, L!Approve,
         L!Reject, L!Run, L!Record, L!Sweep
<1>6. \A k \in Ids : \A from, to : L!Move(k, from, to) =>
         f[k] = from /\ f' = [f EXCEPT ![k] = to]
  BY DEF L!Move
<1>7. /\ Bound("absent") <= Bound("submitted")
      /\ Bound("submitted") <= Bound("previewed")
      /\ Bound("previewed") <= Bound("pending_approval")
      /\ Bound("pending_approval") <= Bound("approved")
      /\ Bound("pending_approval") <= Bound("rejected")
      /\ Bound("approved") <= Bound("executed")
      /\ Bound("approved") <= Bound("expired")
  BY DEF Bound
<1>8. Bound(f[i]) <= Bound(f'[i])
  <2> HIDE DEF f
  <2>1. ASSUME NEW k \in Ids, NEW from, NEW to, L!Move(k, from, to),
               Bound(from) <= Bound(to)
        PROVE  Bound(f[i]) <= Bound(f'[i])
    BY <1>4, <1>6, <2>1
  <2>2. CASE f' = f
    BY <1>2, <2>2
  <2>3. CASE \E S \in SUBSET {k \in Ids : f[k] = "approved"} :
               f' = [k \in Ids |-> IF k \in S THEN "expired" ELSE f[k]]
    BY <1>2, <1>7, <2>3
  <2> QED
    BY <1>5, <1>7, <2>1, <2>2, <2>3
<1> QED
  BY <1>1, <1>8

\* The label thread t goes to finds the timeline and the status it needs.
LEMMA LabelOrder ==
  ASSUME TypeInv, TypeInv', PreviewInv, EyesInv, RunsInv, SerialInv, OrderInv,
         NEW t \in Threads, Handle(t), pc'[t] \in Pipeline \cup Checked
  PROVE  /\ Top(audit_log'[job'[t].req], Ceiling(pc'[t]))
         /\ LateOK(pc'[t], requests'[job'[t].req].status)
<1>1. Kept(t) /\ Life
  BY HandleLife DEF SerialInv
<1>2. /\ \A l, j : Continue(t, l, j) => pc'[t] = l /\ job'[t] = j
      /\ pc[t] \notin NoRequest => job[t].req \in Ids
  BY ContinueFacts, LocalFacts DEF LocalsOK
<1>3. CASE pc[t] \in LogLabels
  <2>1. pc[t] = "sub_audit" /\ Then(t, "pre_run")
    BY <1>2, <1>3, LogStep DEF Reply, Pipeline, Fresh, Checked, Deciding, Executing
  <2>2. pc'[t] = "pre_run" /\ job'[t] = job[t] /\ job[t].req \in Ids
    BY <1>2, <2>1 DEF Then, NoRequest, NoUser
  <2>3. Top(audit_log[job[t].req], 1)
    BY <2>1, CeilingIs DEF OrderInv, Pipeline, Fresh
  <2>4. audit_log[job[t].req] \in Seq(AuditRow)
    BY <2>2 DEF TypeInv, TypeOK, TablesTypeOK
  <2>5. Entry(t) \in AuditRow /\ Entry(t).event = "submitted"
    BY <2>1, LocalFacts DEF Entry, EventOf, AuditRow, Events, LocalsOK, NoUser
  <2>6. Stage(Entry(t).event) <= 1
    BY <2>5 DEF Stage, Decisions
  <2>7. \/ audit_log'[job[t].req] = audit_log[job[t].req]
        \/ audit_log'[job[t].req] = Append(audit_log[job[t].req], Entry(t))
    BY <2>2, LogFacts
  <2>8. Top(audit_log'[job[t].req], 1)
    BY <2>3, <2>4, <2>5, <2>6, <2>7, TopAppend
  <2> QED
    BY <2>2, <2>8, CeilingIs DEF LateOK, Pipeline, Fresh, Deciding
<1>4. CASE pc[t] \notin LogLabels
  <2>0. UNCHANGED audit_log
    BY <1>4, NoLogStep
  <2>1. CASE Submit(t)
    <3>1. pc'[t] \in Pipeline
      BY <2>1, SubmitArrives DEF Pipeline, Fresh, Checked, Deciding, Executing
    <3>2. Top(audit_log[job'[t].req], 1)
      <4>1. CASE SubmitInsert(t)
        <5>1. ~Exists(job'[t].req) /\ job'[t].req \in Ids
          <6>1. ~Reply(t)
            BY <1>2, <3>1 DEF Reply, Pipeline, Fresh
          <6>2. PICK i \in Ids :
                   ~Exists(i) /\ Continue(t, "sub_audit", [job[t] EXCEPT !.req = i])
            BY <4>1, <6>1 DEF SubmitInsert, InsertRequest
          <6>3. job'[t].req = i
            BY <1>2, <6>2, LocalFacts DEF Job
          <6> QED
            BY <6>2, <6>3
        <5>2. audit_log[job'[t].req] = <<>>
          BY <5>1 DEF EyesInv, LogsOK
        <5> QED
          BY <5>2 DEF Top
      <4>2. CASE PreviewRun(t) \/ PreviewInsert(t) \/ PreviewStatus(t)
        <5>1. job'[t] = job[t] /\ pc[t] \in Pipeline
          BY <1>2, <3>1, <4>2 DEF PreviewRun, PreviewInsert, PreviewStatus,
                                  SetStatus, Then, Reply, Pipeline, Fresh
        <5> QED
          BY <5>1, CeilingIs DEF OrderInv
      <4> QED
        BY <1>4, <3>1, <4>1, <4>2, <2>1, SubmitArrives
           DEF SubmitAudit, LogLabels, Pipeline, Fresh
    <3> QED
      BY <2>0, <3>1, <3>2, CeilingIs DEF LateOK, Pipeline, Fresh, Deciding
  <2>2. CASE List(t) \/ RequestApproval(t) \/ Refuse(t)
    <3>1. pc'[t] \in {"req_status", "req_audit"}
      BY <2>2, RequestArrives DEF Pipeline, Fresh, Checked, Deciding, Executing
    <3>2. Top(audit_log[job'[t].req], 3)
      <4>1. CASE RequestGet(t)
        <5>1. job'[t] = job[t] /\ job[t].req \in Ids /\ Row(t).status = "previewed"
          BY <1>2, <3>1, <4>1 DEF RequestGet, GetRequest, Reply, NoRequest, NoUser
        <5> QED
          BY <5>1 DEF OrderInv, Bound, Status, Row
      <4>2. CASE RequestStatus(t)
        <5>1. job'[t] = job[t] /\ pc[t] = "req_status"
          BY <1>2, <4>2 DEF RequestStatus, SetStatus, Then
        <5> QED
          BY <5>1, CeilingIs DEF OrderInv, Checked
      <4> QED
        BY <3>1, <4>1, <4>2, <2>2, RequestArrives
    <3> QED
      BY <2>0, <3>1, <3>2, CeilingIs DEF LateOK, Pipeline, Fresh, Deciding
  <2>3. CASE Approve(t) \/ Reject(t)
    <3>1. pc'[t] \in Deciding
      BY <2>3, DecideArrives DEF Pipeline, Fresh, Checked, Deciding, Executing
    <3>2. /\ job'[t].req = job[t].req
          /\ pc[t] \in Deciding \/ (MayDecide(t) /\ pc[t] \in {"app_get", "rej_get"})
      BY <2>3, <3>1, HandleDecisions DEF DecidingStep
    <3>3. Top(audit_log[job[t].req], 4)
      <4>1. CASE pc[t] \in Deciding
        BY <4>1, CeilingIs DEF OrderInv, Checked
      <4>2. CASE MayDecide(t) /\ pc[t] \in {"app_get", "rej_get"}
        <5>1. job[t].req \in Ids
          BY <1>2, <4>2 DEF NoRequest, NoUser
        <5> QED
          BY <4>2, <5>1 DEF MayDecide, OrderInv, Bound, Status, Row
      <4> QED
        BY <3>2, <4>1, <4>2
    <3>4. requests'[job'[t].req].status \in {"pending_approval", "approved", "rejected"}
      <4>1. CASE pc'[t] \in {"app_audit", "rej_audit"}
        <5>1. ApproveStatus(t) \/ RejectStatus(t)
          BY <2>3, <4>1, DecideArrives
        <5>2. Row(t).status = "pending_approval" /\ job[t].req \in Ids
          BY <1>2, <5>1 DEF ApproveStatus, RejectStatus, SerialInv, Held, Holds,
                            NoRequest, NoUser
        <5>3. \E s \in {"approved", "rejected"} : \E o : UpdateStatus(o, job[t].req, s)
          BY <5>1 DEF ApproveStatus, RejectStatus, SetStatus
        <5> QED
          BY <3>2, <5>2, <5>3 DEF UpdateStatus, Row, TypeInv, TypeOK, TablesTypeOK,
                                  RequestRow
      <4> QED
        BY <1>1, <3>1, <4>1 DEF Kept, Holds, Deciding
    <3> QED
      BY <2>0, <3>1, <3>2, <3>3, <3>4
         DEF Ceiling, LateOK, Pipeline, Fresh, Deciding
  <2>4. CASE Execute(t)
    <3>1. pc'[t] \in Executing
      BY <2>4, ExecuteArrives DEF Pipeline, Fresh, Checked, Deciding, Executing
    <3>2. Top(audit_log'[job'[t].req], 5)
      <4>1. job'[t].req \in Ids
        BY <3>1 DEF TypeInv, JobsOK, LocalsOK, NoRequest, NoUser, Executing
      <4>2. audit_log'[job'[t].req] \in Seq(AuditRow)
        BY <4>1 DEF TypeInv, TypeOK, TablesTypeOK
      <4> QED
        BY <4>2, TopAlways
    <3>3. pc'[t] = "exe_audit" =>
             requests'[job'[t].req].status \in {"approved", "executed"}
      <4> SUFFICES ASSUME pc'[t] = "exe_audit"
                   PROVE  requests'[job'[t].req].status \in {"approved", "executed"}
        OBVIOUS
      <4>1. ExecuteRecord(t) \/ ExecuteStatus(t)
        BY <2>4, ExecuteArrives
      <4>2. /\ job'[t] = job[t] /\ Row(t).status = "approved"
            /\ job[t].req \in Ids
        BY <1>2, <4>1 DEF ExecuteRecord, ExecuteStatus, SetStatus, Then, SerialInv,
                          Held, Holds, NoRequest, NoUser
      <4>3. \/ UNCHANGED requests
            \/ \E o : UpdateStatus(o, job[t].req, "executed")
        BY <4>1 DEF ExecuteRecord, InsertExecution, ExecuteStatus, SetStatus
      <4> QED
        BY <4>2, <4>3 DEF UpdateStatus, Row, TypeInv, TypeOK, TablesTypeOK, RequestRow
    <3> QED
      BY <3>1, <3>2, <3>3 DEF Ceiling, LateOK, Pipeline, Fresh, Deciding, Executing
  <2> QED
    BY <2>1, <2>2, <2>3, <2>4 DEF Handle
<1> QED
  BY <1>3, <1>4

\* An event is logged over nothing of a later stage, and not beyond the bound.
LEMMA LogOrder ==
  ASSUME TypeInv, PreviewInv, OrderInv, NEW t \in Threads, Handle(t),
         pc[t] \in LogLabels
  PROVE  /\ job[t].req \in Ids /\ Entry(t) \in AuditRow
         /\ Top(audit_log[job[t].req], Stage(Entry(t).event))
         /\ Stage(Entry(t).event) <= Bound(Row(t).status)
<1> DEFINE s == Row(t).status
<1>1. /\ job[t].req \in Ids /\ job[t].user \in Users /\ s \in Statuses
      /\ pc[t] \in Pipeline \cup Checked
  BY LocalFacts DEF LogLabels, LocalsOK, NoRequest, NoUser, Pipeline, Fresh, Checked,
                    Deciding, Executing, Exists, Row, TypeInv, TypeOK, TablesTypeOK,
                    RequestRow
<1>2. EventOf(t) \in Events /\ Entry(t) \in AuditRow /\ Entry(t).event = EventOf(t)
  BY <1>1, LogStep DEF AuditRow, Entry
<1>3. audit_log[job[t].req] \in Seq(AuditRow)
  BY <1>1 DEF TypeInv, TypeOK, TablesTypeOK
<1>4. /\ Top(audit_log[job[t].req], Ceiling(pc[t]))
      /\ LateOK(pc[t], s)
      /\ pc[t] \in Checked => s # "submitted"
  BY <1>1 DEF OrderInv, PreviewInv, PreviewsOK, Previewed, Status, Row
<1> HIDE DEF s
<1>5. CASE pc[t] \in {"sub_audit", "pre_audit"}
  <2>1. Stage(EventOf(t)) \in {1, 2} /\ Bound(s) >= 2
    BY <1>1, <1>5 DEF EventOf, Stage, Decisions, Bound, Statuses
  <2>2. Ceiling(pc[t]) = 1
    BY <1>5, CeilingIs DEF Pipeline, Fresh
  <2> QED
    <3>1. Top(audit_log[job[t].req], 1)
      BY <1>4, <2>2
    <3>2. Top(audit_log[job[t].req], Stage(EventOf(t)))
      BY <1>3, <2>1, <3>1, TopGrows
    <3>3. Stage(EventOf(t)) <= Bound(s)
      BY <2>1 DEF Bound
    <3> QED
      BY <1>1, <1>2, <3>2, <3>3 DEF s
<1>6. CASE pc[t] = "req_audit"
  <2>1. Stage(EventOf(t)) = 3 /\ Bound(s) >= 3
    BY <1>1, <1>4, <1>6 DEF EventOf, Stage, Decisions, Bound, Statuses, Checked
  <2>2. Ceiling(pc[t]) = 3
    BY <1>6, CeilingIs
  <2> QED
    BY <1>1, <1>2, <1>4, <2>1, <2>2 DEF s
<1>7. CASE pc[t] \in {"app_audit", "rej_audit"}
  <2>1. s \in {"pending_approval", "approved", "rejected"}
    BY <1>4, <1>7 DEF LateOK, Deciding
  <2>2. Stage(EventOf(t)) = 4 /\ Bound(s) >= 4
    BY <1>7, <2>1 DEF EventOf, Stage, Decisions, Bound
  <2>3. Ceiling(pc[t]) = 4
    BY <1>7, CeilingIs DEF Deciding
  <2> QED
    BY <1>1, <1>2, <1>4, <2>2, <2>3 DEF s
<1>8. CASE pc[t] = "exe_audit"
  <2>1. Stage(EventOf(t)) = 5
    BY <1>8 DEF EventOf, Stage, Decisions
  <2>2. Bound(s) = 5
    BY <1>4, <1>8 DEF LateOK, Bound
  <2> QED
    BY <1>1, <1>2, <1>3, <2>1, <2>2, TopAlways DEF s
<1> QED
  BY <1>5, <1>6, <1>7, <1>8 DEF LogLabels

\* A step of a handler leaves the timelines in order, within their bounds.
LEMMA LogsOrdered ==
  ASSUME TypeInv, PreviewInv, OrderInv, Life, NEW t \in Threads, Handle(t),
         NEW i \in Ids
  PROVE  /\ Ordered(audit_log'[i])
         /\ Top(audit_log'[i], Bound(requests'[i].status))
<1>1. audit_log[i] \in Seq(AuditRow)
  BY DEF TypeInv, TypeOK, TablesTypeOK
<1>2. Ordered(audit_log[i]) /\ Top(audit_log[i], Bound(requests[i].status))
  BY DEF OrderInv, TimelineInOrder, Ordered, Status
<1>3. \A s : Bound(s) \in Nat
  BY DEF Bound
<1>4. CASE audit_log'[i] = audit_log[i]
  BY <1>1, <1>2, <1>3, <1>4, BoundGrows, TopGrows
<1>5. CASE /\ pc[t] \in LogLabels /\ job[t].req = i
           /\ audit_log'[i] = Append(audit_log[i], Entry(t))
  <2>1. /\ Entry(t) \in AuditRow
        /\ Top(audit_log[i], Stage(Entry(t).event))
        /\ Stage(Entry(t).event) <= Bound(requests[i].status)
    BY <1>5, LogOrder DEF Row
  <2>2. Ordered(audit_log'[i])
    BY <1>1, <1>2, <1>5, <2>1, OrderAppend
  <2>3. requests' = requests
    BY <1>5, LogStep DEF Audit, AppendAuditEvent
  <2>4. Top(audit_log'[i], Bound(requests[i].status))
    BY <1>1, <1>2, <1>3, <1>5, <2>1, TopAppend
  <2> QED
    BY <2>2, <2>3, <2>4
<1> QED
  BY <1>4, <1>5, LogFacts

\* A step of a handler keeps the invariant,
LEMMA OrderHandle ==
  ASSUME MaxActive = 1, IsFiniteSet(Threads), TypeInv, TypeInv', PreviewInv,
         EyesInv, RunsInv, SerialInv, OrderInv, NEW t \in Threads, Handle(t)
  PROVE  OrderInv'
<1>1. Life /\ StaysPut(t)
  BY HandleLife, HandleDecisions DEF SerialInv
<1>2. TimelineInOrder' /\ \A i \in Ids : Top(audit_log[i], Bound(Status(i)))'
  BY <1>1, LogsOrdered DEF TimelineInOrder, Ordered, Status
<1>3. ASSUME NEW u \in Threads, pc'[u] \in Pipeline \cup Checked
      PROVE  /\ Top(audit_log'[job'[u].req], Ceiling(pc'[u]))
             /\ LateOK(pc'[u], requests'[job'[u].req].status)
  <2>1. CASE u = t
    BY <1>3, <2>1, LabelOrder
  <2>2. CASE u # t
    <3>1. pc'[u] = pc[u] /\ job'[u] = job[u]
      BY <1>1, <2>2 DEF StaysPut
    <3>2. Refuse(t)
      BY <1>3, <2>2, <3>1, HandleSolo
         DEF SerialInv, Solo, Idle, Pipeline, Fresh, Checked, Deciding, Executing
    <3>3. UNCHANGED <<requests, audit_log>>
      BY <3>2 DEF Refuse, tables
    <3> QED
      BY <1>3, <3>1, <3>3 DEF OrderInv, Row
  <2> QED
    BY <2>1, <2>2
<1> QED
  BY <1>2, <1>3 DEF OrderInv, Row, Top

\* and so does every step.
LEMMA OrderInvStep ==
  ASSUME MaxActive = 1, IsFiniteSet(Threads), GateInv, GateInv', SerialInv,
         OrderInv, [Next]_vars
  PROVE  OrderInv'
<1>1. TypeInv /\ TypeInv' /\ PreviewInv /\ EyesInv /\ RunsInv
  BY DEF GateInv, PreviewInv, EyesInv, RunsInv
<1>2. ASSUME UNCHANGED audit_log,
             \A i \in Ids : requests'[i].status = requests[i].status,
             \A t \in Threads : \/ pc'[t] = pc[t] /\ job'[t] = job[t]
                                \/ pc'[t] \in Idle
      PROVE  OrderInv'
  <2>1. TimelineInOrder' /\ \A i \in Ids : Top(audit_log[i], Bound(Status(i)))'
    BY <1>2 DEF OrderInv, TimelineInOrder, Status
  <2>2. ASSUME NEW t \in Threads, pc'[t] \in Pipeline \cup Checked
        PROVE  /\ Top(audit_log'[job'[t].req], Ceiling(pc'[t]))
               /\ LateOK(pc'[t], requests'[job'[t].req].status)
    <3>0. pc'[t] \notin Idle
      BY <2>2 DEF Idle, Pipeline, Fresh, Checked, Deciding, Executing
    <3>1. pc'[t] = pc[t] /\ job'[t] = job[t]
      BY <1>2, <3>0
    <3>2. job[t].req \in Ids
      BY <1>1, <2>2, <3>1, LocalFacts DEF LocalsOK, NoRequest, NoUser, Pipeline, Fresh,
                                    Checked, Deciding, Executing
    <3> QED
      BY <1>2, <2>2, <3>1, <3>2 DEF OrderInv, Row
  <2> QED
    BY <2>1, <2>2 DEF OrderInv, Row, Top
<1>3. CASE Tick \/ UNCHANGED vars
  BY <1>2, <1>3 DEF Tick, vars, tables
<1>4. CASE Tamper
  <2>1. \A i \in Ids : requests'[i].status = requests[i].status
    BY <1>1, <1>4 DEF Tamper, TypeInv, TypeOK, TablesTypeOK, RequestRow
  <2> QED
    BY <1>2, <1>4, <2>1 DEF Tamper
<1>5. CASE Crash
  <2>1. \A t \in Threads : pc'[t] \in Idle
    BY <1>5 DEF Crash, Active, Idle
  <2> QED
    BY <1>2, <1>5, <2>1 DEF Crash, tables
<1> QED
  BY <1>1, <1>3, <1>4, <1>5, OrderHandle DEF Next, Finished

\* One request at a time a timeline never goes back, whatever event or UPDATE a
\* failing statement leaves out and whenever the process is killed
\* (src/db/audit.rs, the audit calls of src/main.rs and of both engines).
THEOREM TimelineInOrderHolds ==
  ASSUME MaxActive = 1, IsFiniteSet(Threads)
  PROVE  Spec => []TimelineInOrder
<1> DEFINE Inv == SerialInv /\ OrderInv
<1>1. Init => Inv
  BY SerialInvInit DEF Init, TablesInit, OrderInv, TimelineInOrder, Top, Pipeline,
                       Fresh, Checked, Deciding, Executing
<1>2. GateInv /\ GateInv' /\ Inv /\ [Next]_vars => Inv'
  BY SerialInvStep, OrderInvStep
<1>3. Inv => TimelineInOrder
  BY DEF OrderInv
<1>4. Spec => []GateInv
  BY GateInvHolds
<1> QED
  BY <1>1, <1>2, <1>3, <1>4, PTL DEF Spec

-----------------------------------------------------------------------------
\* The last event tells the status, serially, over a reliable database and
\* without kills: a handler that set a status is about to log it.

Told(event, s) ==
    CASE s = "pending_approval"          -> event = "requested_approval"
      [] s \in {"approved", "expired"}   -> event \in {"approved", "execution_failed"}
      [] OTHER                           -> event = s

Tells(log, s) == log # <<>> /\ Told(log[Len(log)].event, s)

Logging(t, i) == pc[t] \in LogLabels /\ job[t].req = i

LoggersOK == \A t \in Threads :
    pc[t] \in LogLabels => Told(EventOf(t), Row(t).status)

TellsInv ==
    /\ \A i \in Ids : Exists(i) => \/ Tells(audit_log[i], Status(i))
                                   \/ \E t \in Threads : Logging(t, i)
    /\ LoggersOK

\* t goes on to log the status it just set or found.
Arrives(t) ==
    /\ pc'[t] \in LogLabels /\ job'[t].req \in Ids
    /\ Told(EventOf(t)', requests'[job'[t].req].status)
    /\ \A i \in Ids \ {job'[t].req} : requests'[i].status = requests[i].status

\* t logs nothing next, and set no status but that of expired approvals.
Rests(t) ==
    /\ pc'[t] \notin LogLabels
    /\ \A i \in Ids : \/ requests'[i].status = requests[i].status
                       \/ /\ requests[i].status = "approved"
                          /\ requests'[i].status = "expired"

\* A handler sets a status and goes on to log it.
LEMMA SetArrives ==
  ASSUME TypeInv, Outcomes = {"ok"}, NEW t \in Threads, job[t].req \in Ids, NEW s,
         NEW l \in LogLabels, SetStatus(t, s, l),
         pc'[t] = l /\ job'[t] = job[t] => Told(EventOf(t)', s)
  PROVE  Arrives(t)
<1>1. pc'[t] = l /\ job'[t] = job[t]
  BY ContinueFacts DEF SetStatus, Then
<1>2. requests' = [requests EXCEPT ![job[t].req].status = s]
  BY DEF SetStatus, UpdateStatus
<1>3. /\ requests'[job[t].req].status = s
      /\ \A i \in Ids \ {job[t].req} : requests'[i] = requests[i]
  BY <1>2 DEF TypeInv, TypeOK, TablesTypeOK, RequestRow
<1> QED
  BY <1>1, <1>3 DEF Arrives

\* A step that changes no request logs nothing next.
LEMMA SameRests ==
  ASSUME TypeInv, NEW t \in Threads, NEW l, NEW j, Continue(t, l, j),
         l \notin LogLabels, UNCHANGED requests
  PROVE  Rests(t)
  BY ContinueFacts DEF Rests

\* Nor does the sweep.
LEMMA SweepRests ==
  ASSUME TypeInv, NEW t \in Threads, NEW l, NEW j, Continue(t, l, j),
         l \notin LogLabels, NEW o, NEW n, ExpireStaleApprovals(o, n)
  PROVE  Rests(t)
<1>1. pc'[t] = l
  BY ContinueFacts
<1>2. ASSUME NEW i \in Ids
      PROVE  \/ requests'[i].status = requests[i].status
             \/ requests[i].status = "approved" /\ requests'[i].status = "expired"
  BY DEF ExpireStaleApprovals, Stale, TypeInv, TypeOK, TablesTypeOK, RequestRow
<1> QED
  BY <1>1, <1>2 DEF Rests

\* A submission logs what it set, or rests.
LEMMA SubmitArrivals ==
  ASSUME TypeInv, Outcomes = {"ok"}, NEW t \in Threads, Submit(t),
         pc[t] \notin LogLabels
  PROVE  Arrives(t) \/ Rests(t)
<1>1. CASE SubmitCall(t)
  <2>1. \E j : Call(t, "sub_insert", j)
    BY <1>1 DEF SubmitCall
  <2> QED
    BY <2>1, SameRests DEF Call, tables, LogLabels
<1>2. CASE SubmitInsert(t)
  <2>1. CASE Reply(t) /\ UNCHANGED tables
    BY <2>1, SameRests DEF Reply, tables, LogLabels
  <2>2. ASSUME NEW i \in Ids,
               InsertRequest("ok", i, job[t].query, job[t].kind, job[t].user),
               Continue(t, "sub_audit", [job[t] EXCEPT !.req = i])
        PROVE  Arrives(t)
    <3>1. pc'[t] = "sub_audit" /\ job'[t].req = i
      BY <2>2, ContinueFacts, LocalFacts DEF Job
    <3>2. EventOf(t)' = "submitted"
      BY <3>1 DEF EventOf
    <3>3. /\ requests'[i].status = "submitted"
          /\ \A k \in Ids \ {i} : requests'[k] = requests[k]
      BY <2>2 DEF InsertRequest, TypeInv, TypeOK, TablesTypeOK
    <3> QED
      BY <3>1, <3>2, <3>3 DEF Arrives, Told, LogLabels
  <2> QED
    BY <1>2, <2>1, <2>2 DEF SubmitInsert
<1>3. CASE PreviewRun(t)
  BY <1>3, SameRests DEF PreviewRun, Then, Reply, tables, LogLabels
<1>4. CASE PreviewInsert(t)
  BY <1>4, SameRests DEF PreviewInsert, InsertPreview, Then, Reply, LogLabels
<1>5. CASE PreviewStatus(t)
  <2>1. job[t].req \in Ids
    BY <1>5, LocalFacts DEF PreviewStatus, LocalsOK, NoRequest, NoUser
  <2>2. pc'[t] = "pre_audit" => Told(EventOf(t)', "previewed")
    BY DEF EventOf, Told
  <2> QED
    BY <1>5, <2>1, <2>2, SetArrives DEF PreviewStatus, LogLabels
<1> QED
  BY <1>1, <1>2, <1>3, <1>4, <1>5 DEF Submit, SubmitAudit, PreviewAudit, LogLabels

\* So does a request for approval,
LEMMA RequestArrivals ==
  ASSUME TypeInv, Outcomes = {"ok"}, NEW t \in Threads,
         Refuse(t) \/ List(t) \/ RequestApproval(t), pc[t] \notin LogLabels
  PROVE  Arrives(t) \/ Rests(t)
<1>1. CASE ListCall(t) \/ RequestCall(t)
  <2>1. \E l \in {"list_sweep", "req_get"} : \E j : Call(t, l, j)
    BY <1>1 DEF ListCall, RequestCall, CallOn
  <2> QED
    BY <2>1, SameRests DEF Call, tables, LogLabels
<1>2. CASE ListSweep(t)
  BY <1>2, SweepRests DEF ListSweep, Sweep, Reply, LogLabels
<1>3. CASE RequestGet(t)
  BY <1>3, SameRests DEF RequestGet, GetRequest, Reply, tables, LogLabels
<1>4. CASE RequestStatus(t)
  <2>1. job[t].req \in Ids
    BY <1>4, LocalFacts DEF RequestStatus, LocalsOK, NoRequest, NoUser
  <2>2. pc'[t] = "req_audit" => Told(EventOf(t)', "pending_approval")
    BY DEF EventOf, Told
  <2> QED
    BY <1>4, <2>1, <2>2, SetArrives DEF RequestStatus, LogLabels
<1>5. CASE Refuse(t)
  BY <1>5, SameRests DEF Refuse, Reply, tables, LogLabels
<1> QED
  BY <1>1, <1>2, <1>3, <1>4, <1>5 DEF List, RequestApproval, RequestAudit, LogLabels

\* a decision
LEMMA DecideArrivals ==
  ASSUME TypeInv, Outcomes = {"ok"}, NEW t \in Threads, Approve(t) \/ Reject(t),
         pc[t] \notin LogLabels
  PROVE  Arrives(t) \/ Rests(t)
<1>1. CASE ApproveCall(t) \/ RejectCall(t)
  <2>1. \E l \in {"app_sweep", "rej_get"} : \E j : Call(t, l, j)
    BY <1>1 DEF ApproveCall, RejectCall, CallOn
  <2> QED
    BY <2>1, SameRests DEF Call, tables, LogLabels
<1>2. CASE ApproveSweep(t)
  BY <1>2, SweepRests DEF ApproveSweep, Sweep, Then, LogLabels
<1>3. CASE ApproveGet(t) \/ RejectGet(t) \/ ApproveDeadline(t)
  BY <1>3, SameRests
     DEF ApproveGet, RejectGet, ApproveDeadline, GetRequest, Reply, tables, LogLabels
<1>4. CASE ApproveInsert(t) \/ RejectInsert(t)
  BY <1>4, SameRests
     DEF ApproveInsert, RejectInsert, InsertApproval, Then, LogLabels
<1>5. CASE ApproveStatus(t) \/ RejectStatus(t)
  <2>1. job[t].req \in Ids
    BY <1>5, LocalFacts DEF ApproveStatus, RejectStatus, LocalsOK, NoRequest, NoUser
  <2>2. /\ pc'[t] = "app_audit" => Told(EventOf(t)', "approved")
        /\ pc'[t] = "rej_audit" => Told(EventOf(t)', "rejected")
    BY DEF EventOf, Told
  <2> QED
    BY <1>5, <2>1, <2>2, SetArrives DEF ApproveStatus, RejectStatus, LogLabels
<1> QED
  BY <1>1, <1>2, <1>3, <1>4, <1>5
     DEF Approve, Reject, ApproveAudit, RejectAudit, LogLabels

\* and an execution.
LEMMA ExecuteArrivals ==
  ASSUME TypeInv, RunsInv, Held, Outcomes = {"ok"}, NEW t \in Threads, Execute(t),
         pc[t] \notin LogLabels
  PROVE  Arrives(t) \/ Rests(t)
<1>1. CASE ExecuteCall(t)
  <2>1. \E j : Call(t, "exe_sweep", j)
    BY <1>1 DEF ExecuteCall, CallOn
  <2> QED
    BY <2>1, SameRests DEF Call, tables, LogLabels
<1>2. CASE ExecuteSweep(t)
  BY <1>2, SweepRests DEF ExecuteSweep, LogLabels
<1>3. CASE ExecuteGet(t) \/ ExecuteMismatch(t)
  BY <1>3, SameRests
     DEF ExecuteGet, GetRequest, ExecuteMismatch, InsertExecution, Reply, tables, LogLabels
<1>4. CASE ExecuteRun(t)
  <2>1. pc'[t] \in {"done", "exe_record"} /\ UNCHANGED requests
    BY <1>4, ContinueFacts DEF ExecuteRun, Reply, tables, TypeInv, TypeOK
  <2> QED
    BY <2>1 DEF Rests, LogLabels
<1>5. CASE ExecuteRecord(t)
  <2>1. /\ UNCHANGED requests /\ pc[t] = "exe_record" /\ job[t].req \in Ids
        /\ Row(t).status = "approved"
    BY <1>5, LocalFacts DEF ExecuteRecord, InsertExecution, LocalsOK, NoRequest,
                            NoUser, Held, Holds
  <2>2. CASE job[t].failed
    <3>1. pc'[t] = "exe_audit" /\ job'[t] = job[t]
      BY <1>5, <2>2, ContinueFacts DEF ExecuteRecord, Then
    <3>2. EventOf(t)' = "execution_failed"
      BY <2>2, <3>1 DEF EventOf
    <3> QED
      BY <2>1, <3>1, <3>2 DEF Arrives, Told, Row, LogLabels
  <2>3. CASE ~job[t].failed
    BY <1>5, <2>1, <2>3, SameRests DEF ExecuteRecord, Then, LogLabels
  <2> QED
    BY <2>2, <2>3
<1>6. CASE ExecuteStatus(t)
  <2>1. job[t].req \in Ids /\ ~job[t].failed
    BY <1>6, LocalFacts DEF ExecuteStatus, LocalsOK, NoRequest, NoUser, RunsInv,
                            ExecutorsOK
  <2>2. pc'[t] = "exe_audit" /\ job'[t] = job[t] => Told(EventOf(t)', "executed")
    BY <2>1 DEF EventOf, Told
  <2> QED
    BY <1>6, <2>1, <2>2, SetArrives DEF ExecuteStatus, LogLabels
<1> QED
  BY <1>1, <1>2, <1>3, <1>4, <1>5, <1>6 DEF Execute, ExecuteAudit, LogLabels

\* A step that logs nothing keeps the invariant,
LEMMA TellsQuiet ==
  ASSUME MaxActive = 1, IsFiniteSet(Threads), TypeInv, RunsInv, SerialInv,
         TellsInv, Outcomes = {"ok"}, NEW t \in Threads, Handle(t),
         pc[t] \notin LogLabels
  PROVE  TellsInv'
<1>1. Arrives(t) \/ Rests(t)
  BY SubmitArrivals, RequestArrivals, DecideArrivals, ExecuteArrivals
     DEF Handle, SerialInv
<1>2. StaysPut(t) /\ UNCHANGED audit_log
  BY HandleDecisions, NoLogStep
<1>3. ASSUME NEW i \in Ids, Exists(i)'
      PROVE  Tells(audit_log[i], Status(i))' \/ \E u \in Threads : Logging(u, i)'
  <2>1. CASE Arrives(t) /\ job'[t].req = i
    BY <2>1 DEF Arrives, Logging
  <2>2. CASE \/ requests'[i].status = requests[i].status
             \/ requests[i].status = "approved" /\ requests'[i].status = "expired"
    <3>1. Exists(i)
      BY <1>3, <2>2 DEF Exists
    <3>2. ASSUME NEW u \in Threads, Logging(u, i) PROVE Logging(u, i)'
      BY <1>2, <3>2 DEF Logging, StaysPut
    <3>3. Tells(audit_log[i], Status(i)) => Tells(audit_log[i], Status(i))'
      BY <1>2, <2>2 DEF Tells, Told, Status
    <3> QED
      BY <3>1, <3>2, <3>3 DEF TellsInv
  <2> QED
    BY <1>1, <2>1, <2>2 DEF Arrives, Rests
<1>4. ASSUME NEW u \in Threads, pc'[u] \in LogLabels
      PROVE  Told(EventOf(u), Row(u).status)'
  <2>1. CASE u = t
    BY <1>1, <1>4, <2>1 DEF Arrives, Rests, Row
  <2>2. CASE u # t
    <3>1. pc'[u] = pc[u] /\ job'[u] = job[u]
      BY <1>2, <2>2 DEF StaysPut
    <3>2. Refuse(t)
      BY <1>4, <2>2, <3>1, HandleSolo DEF SerialInv, Solo, Idle, LogLabels
    <3>3. UNCHANGED requests
      BY <3>2 DEF Refuse, tables
    <3> QED
      BY <1>4, <3>1, <3>3 DEF TellsInv, LoggersOK, EventOf, Row
  <2> QED
    BY <2>1, <2>2
<1> QED
  BY <1>3, <1>4 DEF TellsInv, LoggersOK

\* a step that logs keeps it,
LEMMA TellsLogged ==
  ASSUME MaxActive = 1, IsFiniteSet(Threads), TypeInv, SerialInv, TellsInv,
         Outcomes = {"ok"}, NEW t \in Threads, Handle(t), pc[t] \in LogLabels
  PROVE  TellsInv'
<1> DEFINE r == job[t].req
<1>1. r \in Ids
  BY LocalFacts DEF LocalsOK, NoRequest, NoUser, LogLabels
<1>2. /\ audit_log' = [audit_log EXCEPT ![r] = Append(@, Entry(t))]
      /\ UNCHANGED requests
  BY LogStep DEF Audit, AppendAuditEvent, Entry
<1>3. Solo(t) /\ StaysPut(t)
  BY ActiveSolo, HandleDecisions DEF SerialInv, Idle, LogLabels
<1>4. pc'[t] \in {"pre_run", "done"}
  BY LogStep, ContinueFacts DEF Then, Reply
<1>5. ASSUME NEW u \in Threads PROVE pc'[u] \notin LogLabels
  BY <1>3, <1>4 DEF Solo, StaysPut, Idle, LogLabels
<1>6. ASSUME NEW i \in Ids, Exists(i)' PROVE Tells(audit_log[i], Status(i))'
  <2>1. CASE i = r
    <3>1. audit_log[i] \in Seq(AuditRow) /\ audit_log'[i] = Append(audit_log[i], Entry(t))
      BY <1>1, <1>2, <2>1 DEF TypeInv, TypeOK, TablesTypeOK
    <3>2. /\ Len(audit_log'[i]) = Len(audit_log[i]) + 1
          /\ audit_log'[i][Len(audit_log'[i])] = Entry(t)
          /\ audit_log'[i] # <<>>
      BY <3>1
    <3>3. Told(Entry(t).event, requests[i].status)
      BY <2>1 DEF TellsInv, LoggersOK, Row, Entry
    <3> QED
      BY <1>2, <3>2, <3>3 DEF Tells, Status
  <2>2. CASE i # r
    <3>1. \A u \in Threads : ~Logging(u, i)
      BY <1>3, <2>2 DEF Logging, Solo, Idle, LogLabels
    <3>2. Exists(i) /\ Tells(audit_log[i], Status(i))
      BY <1>2, <1>6, <3>1 DEF TellsInv, Exists
    <3>3. audit_log'[i] = audit_log[i] /\ Status(i)' = Status(i)
      BY <1>1, <1>2, <2>2 DEF TypeInv, TypeOK, TablesTypeOK, Status
    <3> QED
      BY <3>2, <3>3 DEF Tells
  <2> QED
    BY <2>1, <2>2
<1> QED
  BY <1>5, <1>6 DEF TellsInv, LoggersOK

\* and so does every step.
LEMMA TellsInvStep ==
  ASSUME MaxActive = 1, IsFiniteSet(Threads), Outcomes = {"ok"}, ~CanCrash,
         GateInv, SerialInv, TellsInv, [Next]_vars
  PROVE  TellsInv'
<1>1. TypeInv /\ RunsInv
  BY DEF GateInv, RunsInv
<1>2. CASE Tick \/ Tamper \/ UNCHANGED vars
  <2>1. UNCHANGED <<pc, job, audit_log>>
    BY <1>2 DEF Tick, Tamper, vars, tables
  <2>2. \A i \in Ids : requests'[i].status = requests[i].status
    <3>1. CASE Tamper
      BY <1>1, <3>1 DEF Tamper, TypeInv, TypeOK, TablesTypeOK, RequestRow
    <3>2. CASE Tick \/ UNCHANGED vars
      BY <3>2 DEF Tick, vars, tables
    <3> QED
      BY <1>2, <3>1, <3>2
  <2>3. \A t \in Threads : pc[t] \in LogLabels => job[t].req \in Ids
    BY <1>1, LocalFacts DEF LocalsOK, NoRequest, NoUser, LogLabels
  <2>4. \A i \in Ids : Exists(i)' = Exists(i) /\ Status(i)' = Status(i)
    BY <2>2 DEF Exists, Status
  <2> QED
    BY <2>1, <2>2, <2>3, <2>4
       DEF TellsInv, LoggersOK, Tells, Logging, EventOf, Row
<1> QED
  BY <1>1, <1>2, TellsQuiet, TellsLogged DEF Next, Finished, Crash

\* One request at a time, over a reliable database and without a kill, the last
\* event in a request's timeline tells its status whenever no handler is in
\* flight, and a request has at least one (list_audit_events of
\* src/db/audit.rs feeds the detail page's history).
THEOREM TimelineTellsStatusHolds ==
  ASSUME MaxActive = 1, IsFiniteSet(Threads), Outcomes = {"ok"}, ~CanCrash
  PROVE  Spec => []TimelineTellsStatus
<1> DEFINE Inv == SerialInv /\ TellsInv
<1>1. Init => Inv
  BY SerialInvInit
     DEF Init, TablesInit, TellsInv, LoggersOK, LogLabels, Exists, NoRow
<1>2. GateInv /\ Inv /\ [Next]_vars => Inv'
  BY SerialInvStep, TellsInvStep
<1>3. Inv => TimelineTellsStatus
  <2> SUFFICES ASSUME Inv, Active = {}, NEW i \in Ids, Exists(i)
               PROVE  Tells(audit_log[i], Status(i))
    BY DEF TimelineTellsStatus, Tells, Told, LastEvent
  <2>1. \A t \in Threads : pc[t] \notin LogLabels
    BY DEF Active, LogLabels
  <2> QED
    BY <2>1 DEF TellsInv, Logging
<1>4. Spec => []GateInv
  BY GateInvHolds
<1> QED
  BY <1>1, <1>2, <1>3, <1>4, PTL DEF Spec
=============================================================================
