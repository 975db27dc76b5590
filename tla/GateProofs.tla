----------------------------- MODULE GateProofs -----------------------------
(***************************************************************************)
(* The safety properties of Gate that hold whatever fails, proved from its *)
(* inductive invariant, in three layers: the types, the previews, the      *)
(* decisions.                                                              *)
(***************************************************************************)
EXTENDS GateInvariants, TLAPS

-----------------------------------------------------------------------------
\* Statements.

TablesGood == TablesTypeOK /\ RowsOK

\* What a statement does to the tables, for the rest of the proof.
Sound == TablesGood' /\ (commits \subseteq commits' => Grows)

USE DEF TablesGood, Sound

\* Tables that stay are sound.
LEMMA UnchangedSound == TablesGood /\ UNCHANGED tables => Sound
  BY DEF tables, TablesTypeOK, RowsOK, Grows, Exists, Previewed, Status

\* The INSERT of a request leaves sound tables with the request in them,
LEMMA InsertRequestSound ==
  ASSUME TablesGood, NEW o, NEW i \in Ids, NEW q \in Queries, NEW k \in Kinds,
         NEW u \in Users, InsertRequest(o, i, q, k, u)
  PROVE  Sound /\ (o # "lost" => Exists(i)')
<1> DEFINE row == [status |-> "submitted", requester_email |-> u,
                   query_text |-> q, query_hash |-> Sha256(q),
                   target_kind |-> k]
<1>1. row \in RequestRow
  BY DEF RequestRow, Statuses
<1>2. row.query_hash # None
  BY HashAssumption
<1> QED
  BY <1>1, <1>2 DEF InsertRequest, TablesTypeOK, RowsOK, Grows, Exists, Previewed, Status

\* so does the UPDATE of a status,
LEMMA UpdateStatusSound ==
  ASSUME TablesGood, NEW o, NEW i \in Ids, NEW s \in Statuses \ {"submitted"},
         Exists(i), UpdateStatus(o, i, s)
  PROVE  Sound
  BY DEF UpdateStatus, TablesTypeOK, RequestRow, Statuses, RowsOK, Grows, Exists, Previewed, Status

\* the INSERT of a preview,
LEMMA InsertPreviewSound ==
  ASSUME TablesGood, NEW o, NEW i \in Ids, InsertPreview(o, i)
  PROVE  Sound
  BY DEF InsertPreview, TablesTypeOK, RowsOK, Grows, Exists, Previewed, Status

\* the INSERT of a decision,
LEMMA InsertApprovalSound ==
  ASSUME TablesGood, NEW o, NEW t \in Threads, NEW i \in Ids, NEW u \in Users,
         NEW d \in Decisions, NEW x \in Nat \cup {None}, NEW n \in Nat,
         InsertApproval(o, t, i, u, d, x, n)
  PROVE  Sound
  BY DEF InsertApproval, ApprovalRow, TablesTypeOK, RowsOK, Grows, Exists, Previewed, Status

\* the sweep of approvals that are past their deadline,
LEMMA ExpireSound ==
  ASSUME TablesGood, NEW o, NEW n, ExpireStaleApprovals(o, n)
  PROVE  Sound
<1>1. ASSUME NEW i \in Ids
      PROVE  \/ requests'[i] = requests[i]
             \/ /\ requests[i].status = "approved"
                /\ requests'[i] = [requests[i] EXCEPT !.status = "expired"]
  BY DEF ExpireStaleApprovals, Stale, TablesTypeOK
<1>2. ASSUME NEW i \in Ids PROVE requests'[i] \in RequestRow
  BY <1>1 DEF TablesTypeOK, RequestRow, Statuses
<1>3. requests' \in [Ids -> RequestRow]
  BY <1>2 DEF ExpireStaleApprovals, TablesTypeOK
<1>4. ASSUME NEW i \in Ids
      PROVE  /\ Exists(i) <=> Exists(i)'
             /\ Previewed(i) => Previewed(i)'
             /\ requests'[i].requester_email = requests[i].requester_email
             /\ requests'[i].query_text = requests[i].query_text
             /\ requests'[i].query_hash = requests[i].query_hash
             /\ requests'[i].target_kind = requests[i].target_kind
  BY <1>1 DEF TablesTypeOK, RequestRow, Exists, Previewed, Status
<1>5. UNCHANGED <<previews, approvals, executions, audit_log>>
  BY DEF ExpireStaleApprovals
<1>6. TablesGood'
  BY <1>3, <1>4, <1>5 DEF TablesTypeOK, RowsOK
<1> QED
  BY <1>4, <1>5, <1>6 DEF Grows

\* the INSERT of an execution
LEMMA InsertExecutionSound ==
  ASSUME TablesGood, NEW o, NEW t \in Threads, NEW i \in Ids,
         NEW m \in BOOLEAN, NEW e \in BOOLEAN, InsertExecution(o, t, i, m, e)
  PROVE  Sound
  BY DEF InsertExecution, ExecutionRow, TablesTypeOK, RowsOK, Grows, Exists, Previewed, Status

\* and an event appended to a timeline.
LEMMA AppendAuditEventSound ==
  ASSUME TablesGood, NEW o, NEW i \in Ids, NEW e \in Events, NEW u \in Users,
         AppendAuditEvent(o, i, e, u)
  PROVE  Sound
<1>1. [event |-> e, actor |-> u] \in AuditRow
  BY DEF AuditRow
<1>2. audit_log' \in [Ids -> Seq(AuditRow)]
  BY <1>1 DEF AppendAuditEvent, TablesTypeOK
<1>3. UNCHANGED <<requests, previews, approvals, executions>>
  BY DEF AppendAuditEvent
<1> QED
  BY <1>2, <1>3 DEF TablesTypeOK, RowsOK, Grows, Exists, Previewed, Status

-----------------------------------------------------------------------------
\* Threads.

\* The locals a step leaves are sound for the label it goes to.
LocalsGood(l, j) ==
    /\ l \in Labels
    /\ j \in Job
    /\ LocalsOK(l, j)
    /\ l \in Pipeline \cup Checked => requests'[j.req].status # "absent"

\* t goes from one label to another, and no other thread moves.
Moves(t, l, j) ==
    /\ pc' = [pc EXCEPT ![t] = l]
    /\ job' = [job EXCEPT ![t] = j]

\* A thread that moves on with good locals, over sound tables, keeps the types.
LEMMA ThreadStep ==
  ASSUME TypeInv, NEW t \in Threads, NEW l, NEW j, LocalsGood(l, j),
         Moves(t, l, j), now' = now, commits' \in SUBSET Commit,
         commits \subseteq commits', Sound
  PROVE  TypeInv' /\ Grows
<1>1. Grows /\ TablesGood'
  OBVIOUS
<1>2. TypeOK'
  BY <1>1 DEF TypeInv, TypeOK, Moves, LocalsGood
<1>3. ASSUME NEW u \in Threads
      PROVE  /\ LocalsOK(pc'[u], job'[u])
             /\ pc'[u] \in Pipeline \cup Checked => requests'[job'[u].req].status # "absent"
  <2>1. CASE u = t
    BY <2>1 DEF TypeInv, TypeOK, Moves, LocalsGood
  <2>2. CASE u # t
    <3>1. pc'[u] = pc[u] /\ job'[u] = job[u]
      BY <2>2 DEF TypeInv, TypeOK, Moves
    <3>2. pc[u] \in Pipeline \cup Checked => job[u].req \in Ids /\ Exists(job[u].req)
      BY DEF TypeInv, JobsOK, LocalsOK, NoRequest, NoUser, Pipeline, Fresh,
             Checked, Deciding, Executing
    <3> QED
      BY <1>1, <3>1, <3>2 DEF TypeInv, JobsOK, Grows, Exists
  <2> QED
    BY <2>1, <2>2
<1>4. JobsOK'
  BY <1>3 DEF JobsOK, LocalsOK, Exists
<1> QED
  BY <1>1, <1>2, <1>4 DEF TypeInv

\* A step to a label with good locals keeps the types.
LEMMA ContinueStep ==
  ASSUME TypeInv, NEW t \in Threads, NEW l, NEW j, LocalsGood(l, j),
         Continue(t, l, j), Sound
  PROVE  TypeInv' /\ Grows
<1>1. /\ Moves(t, l, j) /\ now' = now
      /\ commits' \in SUBSET Commit /\ commits \subseteq commits'
  BY DEF Continue, Moves, TypeInv, TypeOK
<1> QED
  BY <1>1, ThreadStep

\* The answer to a request keeps the types.
LEMMA ReplyStep ==
  ASSUME TypeInv, NEW t \in Threads, Reply(t), Sound
  PROVE  TypeInv' /\ Grows
<1>1. LocalsGood("done", NoJob)
  BY DEF LocalsGood, LocalsOK, NoJob, Job, Labels, NoUser, NoRequest, Pipeline,
         Fresh, Checked, Deciding, Executing
<1> QED
  BY <1>1, ContinueStep DEF Reply

\* Tables that stay are sound.
LEMMA UnchangedTables ==
  ASSUME TypeInv, UNCHANGED tables
  PROVE  Sound
  BY UnchangedSound DEF TypeInv, TypeOK

\* What a thread in the middle of a handler knows of its own locals.
LEMMA LocalFacts ==
  ASSUME TypeInv, NEW t \in Threads
  PROVE  /\ TablesGood
         /\ pc[t] \in Labels
         /\ job[t] \in Job
         /\ LocalsOK(pc[t], job[t])
         /\ pc[t] \in Pipeline \cup Checked => Exists(job[t].req)
  BY DEF TypeInv, TypeOK, JobsOK

\* A statement whose outcome the handler ignores.
LEMMA ThenStep ==
  ASSUME TypeInv, NEW t \in Threads, NEW l \in Labels, LocalsOK(l, job[t]),
         pc[t] \in Pipeline \cup Checked, Then(t, l), Sound
  PROVE  TypeInv' /\ Grows
<1>1. job[t].req \in Ids /\ Exists(job[t].req) /\ job[t] \in Job
  BY LocalFacts DEF LocalsOK, NoRequest, NoUser, Pipeline, Fresh, Checked,
                    Deciding, Executing
<1>2. /\ Continue(t, l, job[t])
      /\ commits \subseteq commits'
  BY DEF Then, Continue
<1>3. requests'[job[t].req].status # "absent"
  BY <1>1, <1>2 DEF Grows, Exists
<1>4. LocalsGood(l, job[t])
  BY <1>1, <1>3 DEF LocalsGood
<1> QED
  BY <1>2, <1>4, ContinueStep

\* A handler that reads its request and goes on, or answers, keeps the types.
LEMMA GetRequestStep ==
  ASSUME TypeInv, NEW t \in Threads, NEW l, NEW j, NEW ok,
         Exists(job[t].req) => LocalsGood(l, j), GetRequest(t, ok, l, j)
  PROVE  TypeInv' /\ Grows
<1>1. Sound
  BY UnchangedTables DEF GetRequest
<1>2. CASE Reply(t)
  BY <1>1, <1>2, ReplyStep
<1>3. CASE Exists(job[t].req) /\ Continue(t, l, j)
  BY <1>1, <1>3, ContinueStep
<1> QED
  BY <1>2, <1>3 DEF GetRequest

\* An event that a handler logs leaves sound tables.
LEMMA AuditSound ==
  ASSUME TypeInv, NEW t \in Threads, pc[t] \in Pipeline \cup Checked,
         NEW e \in Events, Audit(t, e)
  PROVE  Sound
<1>1. job[t].req \in Ids /\ job[t].user \in Users
  BY LocalFacts DEF LocalsOK, NoRequest, NoUser, Pipeline, Fresh, Checked,
                    Deciding, Executing
<1> QED
  BY <1>1, AppendAuditEventSound, LocalFacts DEF Audit

\* A status that a handler sets leaves sound tables.
LEMMA SetStatusSound ==
  ASSUME TypeInv, NEW t \in Threads, pc[t] \in Pipeline \cup Checked,
         NEW s \in Statuses \ {"submitted"}, NEW l, SetStatus(t, s, l)
  PROVE  Sound /\ Then(t, l)
<1>1. job[t].req \in Ids /\ Exists(job[t].req)
  BY LocalFacts DEF LocalsOK, NoRequest, NoUser, Pipeline, Fresh, Checked,
                    Deciding, Executing
<1> QED
  BY <1>1, UpdateStatusSound, LocalFacts DEF SetStatus

-----------------------------------------------------------------------------
\* Handlers.

\* A request that arrives keeps the types,
LEMMA CallStep ==
  ASSUME TypeInv, NEW t \in Threads, NEW l, NEW j, LocalsGood(l, j),
         Call(t, l, j)
  PROVE  TypeInv' /\ Grows
  BY ContinueStep, UnchangedTables DEF Call

\* also one that names a stored request.
LEMMA CallOnStep ==
  ASSUME TypeInv, NEW t \in Threads,
         NEW l \in {"req_get", "app_sweep", "rej_get", "exe_sweep"},
         CallOn(t, l)
  PROVE  TypeInv' /\ Grows
<1> PICK u \in Users, i \in Ids : Call(t, l, [NoJob EXCEPT !.user = u, !.req = i])
  BY DEF CallOn
<1>1. LocalsGood(l, [NoJob EXCEPT !.user = u, !.req = i])
  BY DEF LocalsGood, LocalsOK, NoJob, Job, Labels, NoUser, NoRequest, Pipeline,
         Fresh, Checked, Deciding, Executing
<1> QED
  BY <1>1, CallStep

\* Every step of submit_handler and of its preview keeps the types.
LEMMA SubmitStep ==
  ASSUME TypeInv, NEW t \in Threads, Submit(t)
  PROVE  TypeInv' /\ Grows
<1> USE LocalFacts DEF LocalsOK, Labels, NoUser, NoRequest, Pipeline, Fresh,
                       Checked, Deciding, Executing
<1>1. CASE SubmitCall(t)
  <2> PICK u \in Users, q \in Queries, k \in Kinds :
           Call(t, "sub_insert",
                [NoJob EXCEPT !.user = u, !.query = q, !.kind = k])
    BY <1>1 DEF SubmitCall
  <2>1. LocalsGood("sub_insert", [NoJob EXCEPT !.user = u, !.query = q, !.kind = k])
    BY DEF LocalsGood, NoJob, Job
  <2> QED
    BY <2>1, CallStep
<1>2. CASE SubmitInsert(t)
  <2>1. CASE Reply(t) /\ UNCHANGED tables
    BY <2>1, ReplyStep, UnchangedTables
  <2>2. ASSUME NEW o \in Outcomes, NEW i \in Ids,
               InsertRequest(o, i, job[t].query, job[t].kind, job[t].user),
               IF o = "ok" THEN Continue(t, "sub_audit", [job[t] EXCEPT !.req = i])
                           ELSE Reply(t)
        PROVE  TypeInv' /\ Grows
    <3>1. job[t].query \in Queries /\ job[t].kind \in Kinds /\ job[t].user \in Users
      BY <1>2 DEF SubmitInsert
    <3>2. Sound /\ (o # "lost" => requests'[i].status # "absent")
      BY <2>2, <3>1, InsertRequestSound DEF Exists
    <3>3. CASE o # "ok"
      BY <2>2, <3>2, <3>3, ReplyStep
    <3>4. CASE o = "ok"
      <4>1. LocalsGood("sub_audit", [job[t] EXCEPT !.req = i])
        BY <3>1, <3>2, <3>4 DEF LocalsGood, Job
      <4> QED
        BY <2>2, <3>2, <3>4, <4>1, ContinueStep
    <3> QED
      BY <3>3, <3>4
  <2> QED
    BY <1>2, <2>1, <2>2 DEF SubmitInsert
<1>3. CASE SubmitAudit(t)
  BY <1>3, AuditSound, ThenStep DEF SubmitAudit, Events
<1>4. CASE PreviewRun(t)
  BY <1>4, UnchangedTables, ReplyStep, ThenStep DEF PreviewRun
<1>5. CASE PreviewInsert(t)
  BY <1>5, InsertPreviewSound, ReplyStep, ThenStep DEF PreviewInsert
<1>6. CASE PreviewStatus(t)
  BY <1>6, SetStatusSound, ThenStep DEF PreviewStatus, Statuses
<1>7. CASE PreviewAudit(t)
  BY <1>7, AuditSound, ReplyStep DEF PreviewAudit, Events
<1> QED
  BY <1>1, <1>2, <1>3, <1>4, <1>5, <1>6, <1>7 DEF Submit

\* The sweep at the clock of the thread leaves sound tables.
LEMMA SweepSound == TypeInv /\ Sweep => Sound
  BY ExpireSound DEF Sweep, TypeInv, TypeOK

\* Every step of approvals_handler keeps the types.
LEMMA ListStep ==
  ASSUME TypeInv, NEW t \in Threads, List(t)
  PROVE  TypeInv' /\ Grows
<1>1. CASE ListCall(t)
  <2>1. LocalsGood("list_sweep", NoJob)
    BY DEF LocalsGood, LocalsOK, NoJob, Job, Labels, NoUser, NoRequest,
           Pipeline, Fresh, Checked, Deciding, Executing
  <2> QED
    BY <1>1, <2>1, CallStep DEF ListCall
<1>2. CASE ListSweep(t)
  BY <1>2, SweepSound, ReplyStep DEF ListSweep
<1> QED
  BY <1>1, <1>2 DEF List

\* Every step of request_approval_handler keeps the types.
LEMMA RequestStep ==
  ASSUME TypeInv, NEW t \in Threads, RequestApproval(t)
  PROVE  TypeInv' /\ Grows
<1> USE LocalFacts DEF LocalsOK, Labels, NoUser, NoRequest, Pipeline, Fresh,
                       Checked, Deciding, Executing
<1>1. CASE RequestCall(t)
  BY <1>1, CallOnStep DEF RequestCall
<1>2. CASE RequestGet(t)
  BY <1>2, GetRequestStep DEF RequestGet, LocalsGood, GetRequest, tables, Exists
<1>3. CASE RequestStatus(t)
  BY <1>3, SetStatusSound, ThenStep DEF RequestStatus, Statuses
<1>4. CASE RequestAudit(t)
  BY <1>4, AuditSound, ReplyStep DEF RequestAudit, Events
<1> QED
  BY <1>1, <1>2, <1>3, <1>4 DEF RequestApproval

\* A deadline is a time.
LEMMA DeadlineType == now \in Nat => Deadline \in Nat
  BY TimeAssumption DEF Deadline

\* Every step of approve_handler keeps the types.
LEMMA ApproveStep ==
  ASSUME TypeInv, NEW t \in Threads, Approve(t)
  PROVE  TypeInv' /\ Grows
<1> USE LocalFacts DEF LocalsOK, Labels, NoUser, NoRequest, Pipeline, Fresh,
                       Checked, Deciding, Executing
<1>1. CASE ApproveCall(t)
  BY <1>1, CallOnStep DEF ApproveCall
<1>2. CASE ApproveSweep(t)
  <2>1. LocalsGood("app_get", job[t]) /\ Continue(t, "app_get", job[t])
    BY <1>2 DEF ApproveSweep, Then, LocalsGood
  <2> QED
    BY <1>2, <2>1, SweepSound, ContinueStep DEF ApproveSweep
<1>3. CASE ApproveGet(t)
  BY <1>3, GetRequestStep DEF ApproveGet, LocalsGood, GetRequest, tables, Exists
<1>4. CASE ApproveDeadline(t)
  <2>1. [job[t] EXCEPT !.expires = Deadline] \in Job
    BY DeadlineType DEF Job, TypeInv, TypeOK
  <2>2. LocalsGood("app_insert", [job[t] EXCEPT !.expires = Deadline])
    BY <1>4, <2>1 DEF ApproveDeadline, LocalsGood, Job, tables, Exists
  <2> QED
    BY <1>4, <2>2, UnchangedTables, ContinueStep DEF ApproveDeadline
<1>5. CASE ApproveInsert(t)
  <2>1. job[t].expires \in Nat \cup {None}
    BY DEF Job
  <2> QED
    BY <1>5, <2>1, InsertApprovalSound, ThenStep DEF ApproveInsert, Decisions, TypeInv, TypeOK
<1>6. CASE ApproveStatus(t)
  BY <1>6, SetStatusSound, ThenStep DEF ApproveStatus, Statuses
<1>7. CASE ApproveAudit(t)
  BY <1>7, AuditSound, ReplyStep DEF ApproveAudit, Events
<1> QED
  BY <1>1, <1>2, <1>3, <1>4, <1>5, <1>6, <1>7 DEF Approve

\* Every step of reject_handler keeps the types.
LEMMA RejectStep ==
  ASSUME TypeInv, NEW t \in Threads, Reject(t)
  PROVE  TypeInv' /\ Grows
<1> USE LocalFacts DEF LocalsOK, Labels, NoUser, NoRequest, Pipeline, Fresh,
                       Checked, Deciding, Executing
<1>1. CASE RejectCall(t)
  BY <1>1, CallOnStep DEF RejectCall
<1>2. CASE RejectGet(t)
  BY <1>2, GetRequestStep DEF RejectGet, LocalsGood, GetRequest, tables, Exists
<1>3. CASE RejectInsert(t)
  BY <1>3, InsertApprovalSound, ThenStep DEF RejectInsert, Decisions, TypeInv, TypeOK
<1>4. CASE RejectStatus(t)
  BY <1>4, SetStatusSound, ThenStep DEF RejectStatus, Statuses
<1>5. CASE RejectAudit(t)
  BY <1>5, AuditSound, ReplyStep DEF RejectAudit, Events
<1> QED
  BY <1>1, <1>2, <1>3, <1>4, <1>5 DEF Reject

\* Every step of execute_handler and of the execution keeps the types.
LEMMA ExecuteStep ==
  ASSUME TypeInv, NEW t \in Threads, Execute(t)
  PROVE  TypeInv' /\ Grows
<1> USE LocalFacts DEF LocalsOK, Labels, NoUser, NoRequest, Pipeline, Fresh,
                       Checked, Deciding, Executing
<1>1. CASE ExecuteCall(t)
  BY <1>1, CallOnStep DEF ExecuteCall
<1>2. CASE ExecuteSweep(t)
  <2> PICK o \in Outcomes :
         /\ ExpireStaleApprovals(o, now)
         /\ Continue(t, "exe_get",
                     [job[t] EXCEPT !.swept = IF o = "lost" THEN 0 ELSE now])
    BY <1>2 DEF ExecuteSweep
  <2>1. LocalsGood("exe_get",
                   [job[t] EXCEPT !.swept = IF o = "lost" THEN 0 ELSE now])
    BY <1>2 DEF ExecuteSweep, LocalsGood, Job, TypeInv, TypeOK
  <2> QED
    BY <2>1, ExpireSound, ContinueStep
<1>3. CASE ExecuteGet(t)
  <2> DEFINE l == IF Verified(t) THEN "exe_run" ELSE "exe_mismatch"
             j == [job[t] EXCEPT !.query = Row(t).query_text,
                                 !.kind = Row(t).target_kind]
  <2>1. GetRequest(t, Row(t).status = "approved", l, j)
    BY <1>3 DEF ExecuteGet
  <2>2. ASSUME Exists(job[t].req) PROVE LocalsGood(l, j)
    <3>1. /\ job[t].req \in Ids
          /\ Row(t).query_text \in Queries \cup Forged
          /\ Row(t).target_kind \in Kinds
      BY <1>3, <2>2 DEF ExecuteGet, Row, RowsOK
    <3>2. j \in Job
      BY <3>1 DEF Job
    <3>3. j.req = job[t].req /\ j.user = job[t].user /\ j.query = Row(t).query_text
      BY DEF Job
    <3>4. l \in {"exe_run", "exe_mismatch"}
      OBVIOUS
    <3>5. requests'[job[t].req].status # "absent"
      BY <2>1, <2>2 DEF GetRequest, tables, Exists
    <3> HIDE DEF l, j
    <3>6. job[t].user \in Users
      BY <1>3 DEF ExecuteGet
    <3> QED
      BY <3>1, <3>2, <3>3, <3>4, <3>5, <3>6 DEF LocalsGood
  <2> HIDE DEF l, j
  <2> QED
    BY <2>1, <2>2, GetRequestStep
<1>4. CASE ExecuteMismatch(t)
  BY <1>4, InsertExecutionSound, ReplyStep DEF ExecuteMismatch
<1>5. CASE ExecuteRun(t)
  <2>1. CASE Reply(t)
    BY <1>5, <2>1, UnchangedTables, ReplyStep DEF ExecuteRun, tables
  <2>2. ASSUME NEW o \in Outcomes \cup {"lost"},
               commits' = IF o = "lost" THEN commits ELSE commits \cup
                      {[thread |-> t, req |-> job[t].req,
                        query |-> job[t].query]},
               pc' = [pc EXCEPT ![t] = "exe_record"],
               job' = [job EXCEPT ![t].failed = (o # "ok")]
        PROVE  TypeInv' /\ Grows
    <3> DEFINE j == [job[t] EXCEPT !.failed = (o # "ok")]
    <3>1. job[t].req \in Ids /\ job[t].query \in Queries \cup Forged
          /\ job[t].user \in Users
      BY <1>5 DEF ExecuteRun
    <3>2. commits' \in SUBSET Commit /\ commits \subseteq commits'
      BY <2>2, <3>1 DEF Commit, TypeInv, TypeOK
    <3>3. UNCHANGED tables /\ now' = now
      BY <1>5 DEF ExecuteRun, tables
    <3>4. job' = [job EXCEPT ![t] = j]
      BY <2>2 DEF TypeInv, TypeOK
    <3>5. j \in Job /\ j.req = job[t].req /\ j.user = job[t].user
      BY DEF Job
    <3>6. requests'[job[t].req].status # "absent"
      BY <1>5, <3>3 DEF ExecuteRun, tables, Exists
    <3> HIDE DEF j
    <3>7. LocalsGood("exe_record", j)
      BY <3>1, <3>5, <3>6 DEF LocalsGood
    <3>8. Moves(t, "exe_record", j)
      BY <2>2, <3>4 DEF Moves
    <3> QED
      BY <3>2, <3>3, <3>7, <3>8, UnchangedTables, ThreadStep
  <2> QED
    BY <1>5, <2>1, <2>2 DEF ExecuteRun
<1>6. CASE ExecuteRecord(t)
  <2>1. job[t].failed \in BOOLEAN
    BY DEF Job
  <2> QED
    BY <1>6, <2>1, InsertExecutionSound, ThenStep DEF ExecuteRecord
<1>7. CASE ExecuteStatus(t)
  BY <1>7, SetStatusSound, ThenStep DEF ExecuteStatus, Statuses
<1>8. CASE ExecuteAudit(t)
  BY <1>8, AuditSound, ReplyStep DEF ExecuteAudit, Events
<1> QED
  BY <1>1, <1>2, <1>3, <1>4, <1>5, <1>6, <1>7, <1>8 DEF Execute

\* A connection that is refused keeps the types.
LEMMA RefuseStep ==
  ASSUME TypeInv, NEW t \in Threads, Refuse(t)
  PROVE  TypeInv' /\ Grows
  BY UnchangedTables, ReplyStep DEF Refuse

-----------------------------------------------------------------------------
\* Around the handlers.

\* A tick of the clock keeps the types.
LEMMA TickStep == TypeInv /\ Tick => TypeInv' /\ Grows
<1> SUFFICES ASSUME TypeInv, Tick PROVE TypeInv' /\ Grows
  OBVIOUS
<1>1. Sound /\ UNCHANGED <<pc, job, commits>> /\ now' \in Nat
  BY UnchangedTables DEF Tick, TypeInv, TypeOK
<1>2. JobsOK'
  BY <1>1 DEF JobsOK, Tick, TypeInv, tables, Exists
<1> QED
  BY <1>1, <1>2 DEF TypeInv, TypeOK

\* A kill of the server keeps the types.
LEMMA CrashStep == TypeInv /\ Crash => TypeInv' /\ Grows
<1> SUFFICES ASSUME TypeInv, Crash PROVE TypeInv' /\ Grows
  OBVIOUS
<1>1. Sound /\ UNCHANGED <<now, commits>>
  BY UnchangedTables DEF Crash
<1>2. NoJob \in Job /\ LocalsOK("new", NoJob) /\ LocalsOK("done", NoJob)
      /\ LocalsOK("killed", NoJob)
  BY DEF NoJob, Job, LocalsOK, NoUser, NoRequest
<1>3. ASSUME NEW u \in Threads
      PROVE  pc'[u] \in {"new", "done", "killed"} /\ job'[u] = NoJob
  BY DEF Crash, Active, TypeInv, TypeOK
<1>4. JobsOK'
  BY <1>2, <1>3 DEF JobsOK, LocalsOK, Pipeline, Fresh, Checked, Deciding, Executing
<1>5. pc' \in [Threads -> Labels] /\ job' \in [Threads -> Job]
  BY <1>2, <1>3 DEF Crash, Labels, TypeInv, TypeOK
<1> QED
  BY <1>1, <1>4, <1>5 DEF TypeInv, TypeOK

\* A change behind the back of the server keeps the types.
LEMMA TamperStep == TypeInv /\ Tamper => TypeInv' /\ Grows
<1> SUFFICES ASSUME TypeInv, Tamper PROVE TypeInv' /\ Grows
  OBVIOUS
<1> PICK i \in Ids, q \in Forged :
       Exists(i) /\ requests' = [requests EXCEPT ![i].query_text = q]
  BY DEF Tamper
<1>1. UNCHANGED <<previews, approvals, executions, audit_log, pc, job, now, commits>>
  BY DEF Tamper
<1>2. requests' \in [Ids -> RequestRow]
  BY DEF RequestRow, TypeInv, TypeOK, TablesTypeOK
<1>3. ASSUME NEW k \in Ids
      PROVE  /\ requests'[k].status = requests[k].status
             /\ requests'[k].requester_email = requests[k].requester_email
             /\ requests'[k].query_hash = requests[k].query_hash
             /\ requests'[k].target_kind = requests[k].target_kind
             /\ requests'[k].query_text \in {requests[k].query_text, q}
  BY DEF TypeInv, TypeOK, TablesTypeOK, RequestRow
<1>4. Grows
  BY <1>1, <1>3 DEF Grows, Exists, Previewed, Status
<1>5. RowsOK'
  BY <1>3 DEF RowsOK, TypeInv, Exists
<1>6. JobsOK'
  <2>1. ASSUME NEW u \in Threads, pc[u] \in Pipeline \cup Checked
        PROVE  Exists(job[u].req)'
    <3>1. job[u].req \in Ids /\ Exists(job[u].req)
      BY <2>1, LocalFacts DEF LocalsOK, NoRequest, NoUser, Pipeline, Fresh,
                              Checked, Deciding, Executing
    <3> QED
      BY <1>1, <1>3, <3>1 DEF Exists
  <2> QED
    BY <1>1, <2>1 DEF JobsOK, TypeInv, LocalsOK
<1> QED
  BY <1>1, <1>2, <1>4, <1>5, <1>6 DEF TypeInv, TypeOK, TablesTypeOK

\* A step that changes nothing keeps the types.
LEMMA StutterStep == TypeInv /\ UNCHANGED vars => TypeInv' /\ Grows
<1> SUFFICES ASSUME TypeInv, UNCHANGED vars PROVE TypeInv' /\ Grows
  OBVIOUS
<1>1. Sound /\ UNCHANGED <<pc, job, now, commits, tables>>
  BY UnchangedTables DEF vars, tables
<1> QED
  BY <1>1 DEF TypeInv, TypeOK, JobsOK, LocalsOK, Exists, tables

-----------------------------------------------------------------------------
\* The types hold at first,
LEMMA TypeInvInit == Init => TypeInv
<1> SUFFICES ASSUME Init PROVE TypeInv
  OBVIOUS
<1>1. NoRow \in RequestRow /\ NoRow.status = "absent" /\ NoJob \in Job
  BY DEF NoRow, RequestRow, NoJob, Job
<1>2. TypeOK
  BY <1>1 DEF Init, TablesInit, TypeOK, TablesTypeOK, Labels
<1>3. \A i \in Ids : ~Exists(i)
  BY <1>1 DEF Init, TablesInit, Exists
<1>4. \A t \in Threads : pc[t] = "new" /\ job[t] = NoJob
  BY DEF Init
<1>5. JobsOK
  BY <1>4 DEF JobsOK, LocalsOK, NoUser, NoRequest, Pipeline, Fresh, Checked,
              Deciding, Executing
<1> QED
  BY <1>2, <1>3, <1>5 DEF TypeInv, RowsOK

\* and every step keeps them, and adds to the records only.
LEMMA TypeInvStep == TypeInv /\ [Next]_vars => TypeInv' /\ Grows
<1> SUFFICES ASSUME TypeInv, [Next]_vars PROVE TypeInv' /\ Grows
  OBVIOUS
<1>1. ASSUME NEW t \in Threads, Handle(t) PROVE TypeInv' /\ Grows
  BY <1>1, RefuseStep, SubmitStep, ListStep, RequestStep, ApproveStep,
     RejectStep, ExecuteStep DEF Handle
<1>2. CASE Finished
  BY <1>2, StutterStep DEF Finished
<1> QED
  BY <1>1, <1>2, TickStep, CrashStep, TamperStep, StutterStep DEF Next

\* Every variable of the workflow keeps its type, for any threads, users,
\* texts, clock and faults (src/main.rs:49-371).
THEOREM TypeCorrect == Spec => []TypeOK
<1>1. TypeInv => TypeOK
  BY DEF TypeInv
<1> QED
  BY <1>1, TypeInvInit, TypeInvStep, PTL DEF Spec

HIDE DEF TablesGood, Sound

-----------------------------------------------------------------------------
\* Layer 2: previews.

PreviewInv == PipelineOK /\ PreviewsOK

\* How a step in which thread t moves may change a request's status.
StatusStep(t) == \A i \in Ids :
    \/ requests'[i].status = requests[i].status
    \/ requests[i].status = "absent" /\ requests'[i].status = "submitted"
    \/ /\ requests[i].status = "submitted" /\ requests'[i].status = "previewed"
       /\ pc[t] = "pre_status" /\ job[t].req = i
    \/ Previewed(i) /\ requests'[i].status \notin {"absent", "submitted", "previewed"}

\* What label l must find in the tables for locals j.
PreviewGood(t, l, j) ==
    /\ l \in Pipeline => requests'[j.req].target_kind = j.kind
    /\ l \in {"pre_insert", "pre_status", "pre_audit"} => j.kind = "postgres"
    /\ l \in {"pre_status", "pre_audit"} => j.req \in previews'
    /\ l \in Checked => requests'[j.req].status \notin {"absent", "submitted"}
    /\ l \in Fresh => /\ requests'[j.req].status = "submitted"
                      /\ \A u \in Threads \ {t} :
                             pc[u] \in Fresh => job[u].req # j.req

\* New decisions and new commits are on previewed requests.
DecisionsGood ==
    /\ \A a \in approvals' : a \in approvals \/ Previewed(a.req)
    /\ \A c \in commits' : c \in commits \/ Previewed(c.req)

\* A step of one thread that changes statuses and decisions as it may keeps the
\* invariant.
LEMMA PreviewStep ==
  ASSUME TypeInv, TypeInv', Grows, PreviewInv, NEW t \in Threads, NEW l, NEW j,
         Moves(t, l, j), PreviewGood(t, l, j), StatusStep(t), DecisionsGood
  PROVE  PreviewInv'
<1>1. /\ pc'[t] = l /\ job'[t] = j
      /\ \A u \in Threads \ {t} : pc'[u] = pc[u] /\ job'[u] = job[u]
  BY DEF Moves, TypeInv, TypeOK
<1>2. ASSUME NEW u \in Threads
      PROVE  /\ pc[u] \in Pipeline \cup Checked =>
                    job[u].req \in Ids /\ Exists(job[u].req)
  BY LocalFacts DEF LocalsOK, NoRequest, NoUser, Pipeline, Fresh, Checked,
                    Deciding, Executing
<1>3. ASSUME NEW u \in Threads
      PROVE  /\ pc'[u] \in Pipeline => requests'[job'[u].req].target_kind = job'[u].kind
             /\ pc'[u] \in {"pre_insert", "pre_status", "pre_audit"} =>
                    job'[u].kind = "postgres"
             /\ pc'[u] \in {"pre_status", "pre_audit"} => job'[u].req \in previews'
             /\ pc'[u] \in Checked =>
                    requests'[job'[u].req].status \notin {"absent", "submitted"}
  <2>1. CASE u = t
    BY <1>1, <2>1 DEF PreviewGood
  <2>2. CASE u # t
    BY <1>1, <1>2, <2>2 DEF PreviewInv, PipelineOK, PreviewsOK, Row, Grows,
       Previewed, Status, Pipeline, Fresh
  <2> QED
    BY <2>1, <2>2
<1>4. ASSUME NEW u \in Threads \ {t}, pc[u] \in Fresh
      PROVE  requests'[job[u].req].status = "submitted"
  <2>1. /\ requests[job[u].req].status = "submitted" /\ job[u].req \in Ids
        /\ pc[t] = "pre_status" => job[t].req # job[u].req
    BY <1>2, <1>4 DEF PreviewInv, PipelineOK, Row, Pipeline, Fresh
  <2> QED
    BY <2>1 DEF StatusStep, Previewed, Status
<1>5. ASSUME NEW u \in Threads, pc'[u] \in Fresh
      PROVE  /\ requests'[job'[u].req].status = "submitted"
             /\ \A v \in Threads \ {u} :
                    pc'[v] \in Fresh => job'[v].req # job'[u].req
  <2>1. CASE u = t
    BY <1>1, <1>5, <2>1 DEF PreviewGood
  <2>2. CASE u # t
    BY <1>1, <1>4, <1>5, <2>2 DEF PreviewGood, PreviewInv, PipelineOK
  <2> QED
    BY <2>1, <2>2
<1>6. PipelineOK'
  BY <1>3, <1>5 DEF PipelineOK, Row
<1>7. ASSUME NEW i \in Ids, Previewed(i)'
      PROVE  i \in previews' /\ requests'[i].target_kind = "postgres"
  <2>1. CASE Previewed(i)
    BY <2>1 DEF PreviewInv, PreviewsOK, Grows, Previewed, Status, Exists
  <2>2. CASE pc[t] = "pre_status" /\ job[t].req = i
    BY <2>2 DEF PreviewInv, PipelineOK, Row, Pipeline, Fresh, Grows, TypeInv, JobsOK
  <2> QED
    BY <1>7, <2>1, <2>2 DEF StatusStep, Previewed, Status
<1>8. PreviewsOK'
  <2>1. \A a \in approvals' : Previewed(a.req)'
    BY DEF DecisionsGood, PreviewInv, PreviewsOK, Grows, TypeInv, TypeOK,
           TablesTypeOK, ApprovalRow
  <2>2. \A c \in commits' : Previewed(c.req)'
    BY DEF DecisionsGood, PreviewInv, PreviewsOK, Grows, TypeInv, TypeOK, Commit
  <2> QED
    BY <1>3, <1>7, <2>1, <2>2 DEF PreviewsOK, Previewed, Status
<1> QED
  BY <1>6, <1>8 DEF PreviewInv

\* A step of one thread that changes none of them keeps the invariant.
LEMMA QuietStep ==
  ASSUME TypeInv, TypeInv', Grows, PreviewInv, NEW t \in Threads, NEW l, NEW j,
         Moves(t, l, j), PreviewGood(t, l, j),
         UNCHANGED <<requests, approvals, commits>>
  PROVE  PreviewInv'
<1>1. StatusStep(t) /\ DecisionsGood
  BY DEF StatusStep, DecisionsGood
<1> QED
  BY <1>1, PreviewStep

\* A thread that is done wants nothing of the tables.
LEMMA DoneGood == ASSUME NEW t \in Threads PROVE PreviewGood(t, "done", NoJob)
  BY DEF PreviewGood, Pipeline, Fresh, Checked, Deciding, Executing

\* A handler behind its check sets the status of a previewed request.
LEMMA CheckedUpdate ==
  ASSUME TypeInv, PreviewInv, NEW t \in Threads, pc[t] \in Checked, NEW l,
         NEW s \in Statuses \ {"submitted", "previewed"}, SetStatus(t, s, l)
  PROVE  StatusStep(t) /\ DecisionsGood /\ Moves(t, l, job[t])
<1>1. job[t].req \in Ids /\ Previewed(job[t].req)
  BY LocalFacts DEF LocalsOK, NoRequest, NoUser, PreviewInv, PreviewsOK,
                    Checked, Deciding, Executing
<1> QED
  BY <1>1 DEF SetStatus, UpdateStatus, Then, Continue, StatusStep, DecisionsGood,
              Moves, Statuses, TypeInv, TypeOK, TablesTypeOK, RequestRow

\* The sweep changes the status of approved requests only.
LEMMA SweepStatus ==
  ASSUME TypeInv, NEW t \in Threads, NEW o, NEW n, ExpireStaleApprovals(o, n),
         commits' = commits
  PROVE  StatusStep(t) /\ DecisionsGood
<1>1. ASSUME NEW i \in Ids
      PROVE  \/ requests'[i].status = requests[i].status
             \/ requests[i].status = "approved" /\ requests'[i].status = "expired"
  BY DEF ExpireStaleApprovals, Stale, TypeInv, TypeOK, TablesTypeOK, RequestRow
<1> QED
  BY <1>1 DEF StatusStep, DecisionsGood, ExpireStaleApprovals, Previewed, Status

\* A decision is written on a previewed request.
LEMMA InsertApprovalGood ==
  ASSUME TypeInv, Grows, PreviewInv, NEW t \in Threads, pc[t] \in Checked,
         NEW o, NEW d, NEW x, NEW n, commits' = commits,
         InsertApproval(o, t, job[t].req, job[t].user, d, x, n)
  PROVE  StatusStep(t) /\ DecisionsGood
<1>1. Previewed(job[t].req)
  BY DEF PreviewInv, PreviewsOK
<1> QED
  BY <1>1 DEF InsertApproval, StatusStep, DecisionsGood, Previewed, Status

\* Going on with the same request over the same tables keeps the invariant,
LEMMA ThenQuiet ==
  ASSUME TypeInv, TypeInv', Grows, PreviewInv, NEW t \in Threads, NEW l,
         Then(t, l), PreviewGood(t, l, job[t]), UNCHANGED <<requests, approvals>>
  PROVE  PreviewInv'
<1>1. Moves(t, l, job[t]) /\ UNCHANGED <<requests, approvals, commits>>
  BY DEF Then, Continue, Moves
<1> QED
  BY <1>1, QuietStep

\* so does the answer
LEMMA ReplyQuiet ==
  ASSUME TypeInv, TypeInv', Grows, PreviewInv, NEW t \in Threads, Reply(t),
         UNCHANGED <<requests, approvals>>
  PROVE  PreviewInv'
<1>1. Moves(t, "done", NoJob) /\ UNCHANGED <<requests, approvals, commits>>
  BY DEF Reply, Continue, Moves
<1> QED
  BY <1>1, DoneGood, QuietStep

\* and a request that arrives.
LEMMA CallQuiet ==
  ASSUME TypeInv, TypeInv', Grows, PreviewInv, NEW t \in Threads, NEW l, NEW j,
         l \notin Pipeline \cup Checked, Call(t, l, j)
  PROVE  PreviewInv'
<1>1. Moves(t, l, j) /\ UNCHANGED <<requests, approvals, commits>>
  BY DEF Call, Continue, Moves, tables
<1>2. PreviewGood(t, l, j)
  BY DEF PreviewGood, Pipeline, Fresh
<1> QED
  BY <1>1, <1>2, QuietStep

\* An event of the timeline leaves the other tables alone.
LEMMA AuditQuiet ==
  ASSUME NEW t \in Threads, NEW e, Audit(t, e)
  PROVE  UNCHANGED <<requests, previews, approvals, executions>>
  BY DEF Audit, AppendAuditEvent

\* A check that only lets previewed requests through.
LEMMA GetQuiet ==
  ASSUME TypeInv, TypeInv', Grows, PreviewInv, NEW t \in Threads,
         NEW l \in Checked, NEW j, j.req = job[t].req, NEW ok,
         ok => Row(t).status \notin {"absent", "submitted"},
         GetRequest(t, ok, l, j)
  PROVE  PreviewInv'
<1>1. UNCHANGED <<requests, approvals>>
  BY DEF GetRequest, tables
<1>2. CASE Reply(t)
  BY <1>1, <1>2, ReplyQuiet
<1>3. CASE ok /\ Continue(t, l, j)
  <2>1. Moves(t, l, j) /\ UNCHANGED <<requests, approvals, commits>>
    BY <1>1, <1>3 DEF Continue, Moves
  <2>2. PreviewGood(t, l, j)
    BY <1>1, <1>3 DEF PreviewGood, Row, Pipeline, Fresh, Checked, Deciding, Executing
  <2> QED
    BY <2>1, <2>2, QuietStep
<1> QED
  BY <1>2, <1>3 DEF GetRequest

\* Every step of submit_handler and of its preview keeps the invariant.
LEMMA SubmitPreviews ==
  ASSUME TypeInv, TypeInv', Grows, PreviewInv, NEW t \in Threads, Submit(t)
  PROVE  PreviewInv'
<1> USE DEF Pipeline, Fresh, Checked, Deciding, Executing
<1>1. CASE SubmitCall(t)
  BY <1>1, CallQuiet DEF SubmitCall
<1>2. CASE SubmitInsert(t)
  <2>1. CASE Reply(t) /\ UNCHANGED tables
    BY <2>1, ReplyQuiet DEF tables
  <2>2. ASSUME NEW o \in Outcomes, NEW i \in Ids,
               InsertRequest(o, i, job[t].query, job[t].kind, job[t].user),
               IF o = "ok" THEN Continue(t, "sub_audit", [job[t] EXCEPT !.req = i])
                           ELSE Reply(t)
        PROVE  PreviewInv'
    <3>1. StatusStep(t) /\ DecisionsGood
      BY <2>2 DEF InsertRequest, StatusStep, DecisionsGood, Exists, Continue,
                  Reply, TypeInv, TypeOK, TablesTypeOK
    <3>2. CASE o # "ok"
      <4>1. Moves(t, "done", NoJob)
        BY <2>2, <3>2 DEF Reply, Continue, Moves
      <4> QED
        BY <3>1, <4>1, DoneGood, PreviewStep
    <3>3. CASE o = "ok"
      <4> DEFINE j == [job[t] EXCEPT !.req = i]
      <4>1. /\ requests'[i].status = "submitted"
            /\ requests'[i].target_kind = job[t].kind
        BY <2>2, <3>3 DEF InsertRequest, TypeInv, TypeOK, TablesTypeOK
      <4>2. ASSUME NEW u \in Threads, pc[u] \in Fresh PROVE job[u].req # i
        BY <2>2, <4>2, LocalFacts DEF InsertRequest
      <4>3. j.req = i /\ j.kind = job[t].kind
        BY LocalFacts DEF Job
      <4> HIDE DEF j
      <4>4. PreviewGood(t, "sub_audit", j)
        BY <4>1, <4>2, <4>3 DEF PreviewGood
      <4>5. Moves(t, "sub_audit", j)
        BY <2>2, <3>3 DEF Continue, Moves, j
      <4> QED
        BY <3>1, <4>4, <4>5, PreviewStep
    <3> QED
      BY <3>2, <3>3
  <2> QED
    BY <1>2, <2>1, <2>2 DEF SubmitInsert
<1>3. ASSUME pc[t] \in Pipeline
      PROVE  /\ job[t].req \in Ids
             /\ requests[job[t].req].target_kind = job[t].kind
             /\ pc[t] \in {"pre_insert", "pre_status", "pre_audit"} =>
                    job[t].kind = "postgres"
             /\ pc[t] \in {"pre_status", "pre_audit"} => job[t].req \in previews
             /\ pc[t] \in Fresh =>
                  /\ requests[job[t].req].status = "submitted"
                  /\ \A u \in Threads \ {t} :
                        pc[u] \in Fresh => job[u].req # job[t].req
  BY <1>3, LocalFacts DEF PreviewInv, PipelineOK, Row, LocalsOK, NoRequest, NoUser
<1>4. CASE SubmitAudit(t)
  <2>1. UNCHANGED <<requests, approvals>> /\ Then(t, "pre_run")
    BY <1>4, AuditQuiet DEF SubmitAudit
  <2>2. PreviewGood(t, "pre_run", job[t])
    BY <1>3, <1>4, <2>1 DEF SubmitAudit, PreviewGood
  <2> QED
    BY <2>1, <2>2, ThenQuiet
<1>5. CASE PreviewRun(t)
  <2>1. UNCHANGED <<requests, approvals>>
    BY <1>5 DEF PreviewRun, tables
  <2>2. CASE job[t].kind = "postgres" /\ Then(t, "pre_insert")
    <3>1. PreviewGood(t, "pre_insert", job[t])
      BY <1>3, <1>5, <2>1, <2>2 DEF PreviewRun, PreviewGood
    <3> QED
      BY <2>1, <2>2, <3>1, ThenQuiet
  <2> QED
    BY <1>5, <2>1, <2>2, ReplyQuiet DEF PreviewRun
<1>6. CASE PreviewInsert(t)
  <2> PICK o \in Outcomes :
         /\ InsertPreview(o, job[t].req)
         /\ IF o = "ok" THEN Then(t, "pre_status") ELSE Reply(t)
    BY <1>6 DEF PreviewInsert
  <2>1. UNCHANGED <<requests, approvals>>
    BY DEF InsertPreview
  <2>2. CASE o = "ok"
    <3>1. job[t].req \in previews'
      BY <2>2 DEF InsertPreview
    <3>2. PreviewGood(t, "pre_status", job[t])
      BY <1>3, <1>6, <2>1, <3>1 DEF PreviewInsert, PreviewGood
    <3> QED
      BY <2>1, <2>2, <3>2, ThenQuiet
  <2> QED
    BY <2>1, <2>2, ReplyQuiet
<1>7. CASE PreviewStatus(t)
  <2>1. /\ pc[t] = "pre_status" /\ SetStatus(t, "previewed", "pre_audit")
        /\ Moves(t, "pre_audit", job[t])
    BY <1>7 DEF PreviewStatus, SetStatus, Then, Continue, Moves
  <2>2. StatusStep(t) /\ DecisionsGood
    BY <1>3, <2>1 DEF SetStatus, UpdateStatus, Then, Continue, StatusStep,
       DecisionsGood, TypeInv, TypeOK, TablesTypeOK, RequestRow
  <2>3. PreviewGood(t, "pre_audit", job[t])
    <3>1. requests'[job[t].req].target_kind = requests[job[t].req].target_kind
      BY <1>3, <2>1, LocalFacts DEF Grows
    <3>2. previews' = previews
      BY <2>1 DEF SetStatus, UpdateStatus
    <3> QED
      BY <1>3, <2>1, <3>1, <3>2 DEF PreviewGood
  <2> QED
    BY <2>1, <2>2, <2>3, PreviewStep
<1>8. CASE PreviewAudit(t)
  BY <1>8, AuditQuiet, ReplyQuiet DEF PreviewAudit
<1> QED
  BY <1>1, <1>2, <1>4, <1>5, <1>6, <1>7, <1>8 DEF Submit

\* Handlers that start with a check: past it, they work on a previewed request.
LEMMA CheckedGood ==
  ASSUME TypeInv, Grows, PreviewInv, NEW t \in Threads, pc[t] \in Checked,
         NEW l \in Checked, NEW j, j.req = job[t].req
  PROVE  PreviewGood(t, l, j)
<1>1. job[t].req \in Ids /\ Previewed(job[t].req)
  BY LocalFacts DEF LocalsOK, NoRequest, NoUser, PreviewInv, PreviewsOK,
                    Checked, Deciding, Executing
<1> QED
  BY <1>1 DEF PreviewGood, Grows, Previewed, Status, Pipeline, Fresh, Checked,
              Deciding, Executing

\* A status that is set behind the check keeps it,
LEMMA SetStatusPreviews ==
  ASSUME TypeInv, TypeInv', Grows, PreviewInv, NEW t \in Threads,
         pc[t] \in Checked, NEW l \in Checked,
         NEW s \in Statuses \ {"submitted", "previewed"}, SetStatus(t, s, l)
  PROVE  PreviewInv'
  BY CheckedGood, CheckedUpdate, PreviewStep

\* so does a decision that is written behind the check
LEMMA InsertApprovalPreviews ==
  ASSUME TypeInv, TypeInv', Grows, PreviewInv, NEW t \in Threads,
         pc[t] \in Checked, NEW l \in Checked, NEW o, NEW d, NEW x, NEW n,
         InsertApproval(o, t, job[t].req, job[t].user, d, x, n), Then(t, l)
  PROVE  PreviewInv'
<1>1. Moves(t, l, job[t]) /\ commits' = commits
  BY DEF Then, Continue, Moves
<1> QED
  BY <1>1, CheckedGood, InsertApprovalGood, PreviewStep

\* and the sweep before it.
LEMMA SweepPreviews ==
  ASSUME TypeInv, TypeInv', Grows, PreviewInv, NEW t \in Threads, NEW o, NEW n,
         ExpireStaleApprovals(o, n), NEW l, NEW j, Continue(t, l, j),
         l \notin Pipeline \cup Checked
  PROVE  PreviewInv'
<1>1. Moves(t, l, j) /\ commits' = commits
  BY DEF Continue, Moves
<1>2. PreviewGood(t, l, j)
  BY DEF PreviewGood, Pipeline, Fresh
<1> QED
  BY <1>1, <1>2, SweepStatus, PreviewStep

\* Every step of the list, of a request for approval and of a decision keeps
\* it.
LEMMA OtherPreviews ==
  ASSUME TypeInv, TypeInv', Grows, PreviewInv, NEW t \in Threads,
         List(t) \/ RequestApproval(t) \/ Approve(t) \/ Reject(t)
  PROVE  PreviewInv'
<1> USE DEF Checked, Deciding, Executing
<1>0. "list_sweep" \notin Pipeline \cup Checked /\ "req_get" \notin Pipeline \cup Checked
      /\ "app_sweep" \notin Pipeline \cup Checked /\ "app_get" \notin Pipeline \cup Checked
      /\ "rej_get" \notin Pipeline \cup Checked /\ "done" \notin Pipeline \cup Checked
  BY DEF Pipeline, Fresh
<1>1. CASE ListCall(t)
  BY <1>0, <1>1, CallQuiet DEF ListCall
<1>2. CASE ListSweep(t)
  BY <1>0, <1>2, SweepPreviews DEF ListSweep, Sweep, Reply
<1>3. CASE RequestCall(t)
  BY <1>0, <1>3, CallQuiet DEF RequestCall, CallOn
<1>4. CASE RequestGet(t)
  BY <1>4, GetQuiet DEF RequestGet
<1>5. CASE RequestStatus(t)
  BY <1>5, SetStatusPreviews DEF RequestStatus, Statuses
<1>6. CASE RequestAudit(t)
  BY <1>6, AuditQuiet, ReplyQuiet DEF RequestAudit
<1>7. CASE ApproveCall(t)
  BY <1>0, <1>7, CallQuiet DEF ApproveCall, CallOn
<1>8. CASE ApproveSweep(t)
  BY <1>0, <1>8, SweepPreviews DEF ApproveSweep, Sweep, Then
<1>9. CASE ApproveGet(t)
  BY <1>9, GetQuiet DEF ApproveGet, MayDecide
<1>10. CASE ApproveDeadline(t)
  <2>1. [job[t] EXCEPT !.expires = Deadline].req = job[t].req
    BY LocalFacts DEF Job
  <2>2. PreviewGood(t, "app_insert", [job[t] EXCEPT !.expires = Deadline])
    BY <1>10, <2>1, CheckedGood DEF ApproveDeadline
  <2>3. /\ Moves(t, "app_insert", [job[t] EXCEPT !.expires = Deadline])
        /\ UNCHANGED <<requests, approvals, commits>>
    BY <1>10 DEF ApproveDeadline, Continue, Moves, tables
  <2> QED
    BY <2>2, <2>3, QuietStep
<1>11. CASE ApproveInsert(t)
  BY <1>11, InsertApprovalPreviews DEF ApproveInsert
<1>12. CASE ApproveStatus(t)
  BY <1>12, SetStatusPreviews DEF ApproveStatus, Statuses
<1>13. CASE ApproveAudit(t)
  BY <1>13, AuditQuiet, ReplyQuiet DEF ApproveAudit
<1>14. CASE RejectCall(t)
  BY <1>0, <1>14, CallQuiet DEF RejectCall, CallOn
<1>15. CASE RejectGet(t)
  BY <1>15, GetQuiet DEF RejectGet, MayDecide
<1>16. CASE RejectInsert(t)
  BY <1>16, InsertApprovalPreviews DEF RejectInsert
<1>17. CASE RejectStatus(t)
  BY <1>17, SetStatusPreviews DEF RejectStatus, Statuses
<1>18. CASE RejectAudit(t)
  BY <1>18, AuditQuiet, ReplyQuiet DEF RejectAudit
<1> QED
  BY <1>1, <1>2, <1>3, <1>4, <1>5, <1>6, <1>7, <1>8, <1>9, <1>10, <1>11, <1>12,
     <1>13, <1>14, <1>15, <1>16, <1>17, <1>18
     DEF List, RequestApproval, Approve, Reject

\* Every step of execute_handler keeps it.
LEMMA ExecutePreviews ==
  ASSUME TypeInv, TypeInv', Grows, PreviewInv, NEW t \in Threads, Execute(t)
  PROVE  PreviewInv'
<1> USE DEF Checked, Deciding, Executing
<1>0. "exe_sweep" \notin Pipeline \cup Checked /\ "exe_get" \notin Pipeline \cup Checked
  BY DEF Pipeline, Fresh
<1>1. CASE ExecuteCall(t)
  BY <1>0, <1>1, CallQuiet DEF ExecuteCall, CallOn
<1>2. CASE ExecuteSweep(t)
  BY <1>0, <1>2, SweepPreviews DEF ExecuteSweep
<1>3. CASE ExecuteGet(t)
  <2> DEFINE l == IF Verified(t) THEN "exe_run" ELSE "exe_mismatch"
             j == [job[t] EXCEPT !.query = Row(t).query_text,
                                 !.kind = Row(t).target_kind]
  <2>1. GetRequest(t, Row(t).status = "approved", l, j)
    BY <1>3 DEF ExecuteGet
  <2>2. l \in Checked /\ j.req = job[t].req
    BY LocalFacts DEF Job
  <2> HIDE DEF l, j
  <2> QED
    BY <2>1, <2>2, GetQuiet
<1>4. CASE ExecuteMismatch(t)
  BY <1>4, ReplyQuiet DEF ExecuteMismatch, InsertExecution
<1>5. CASE ExecuteRun(t)
  <2>1. UNCHANGED <<requests, approvals>>
    BY <1>5 DEF ExecuteRun, tables
  <2>2. CASE Reply(t)
    BY <2>1, <2>2, ReplyQuiet
  <2>3. ASSUME NEW o \in Outcomes \cup {"lost"},
               commits' = IF o = "lost" THEN commits ELSE commits \cup
                      {[thread |-> t, req |-> job[t].req,
                        query |-> job[t].query]},
               pc' = [pc EXCEPT ![t] = "exe_record"],
               job' = [job EXCEPT ![t].failed = (o # "ok")]
        PROVE  PreviewInv'
    <3> DEFINE j == [job[t] EXCEPT !.failed = (o # "ok")]
    <3>1. j.req = job[t].req
      BY LocalFacts DEF Job
    <3>2. Moves(t, "exe_record", j)
      BY <2>3 DEF Moves, TypeInv, TypeOK
    <3> HIDE DEF j
    <3>3. PreviewGood(t, "exe_record", j)
      BY <1>5, <3>1, CheckedGood DEF ExecuteRun
    <3>4. StatusStep(t)
      BY <2>1 DEF StatusStep
    <3>5. DecisionsGood
      BY <1>5, <2>1, <2>3 DEF ExecuteRun, DecisionsGood, PreviewInv, PreviewsOK
    <3> QED
      BY <3>2, <3>3, <3>4, <3>5, PreviewStep
  <2> QED
    BY <1>5, <2>2, <2>3 DEF ExecuteRun
<1>6. CASE ExecuteRecord(t)
  <2> DEFINE l == IF job[t].failed THEN "exe_audit" ELSE "exe_status"
  <2>1. pc[t] = "exe_record" /\ UNCHANGED <<requests, approvals>> /\ Then(t, l)
    BY <1>6 DEF ExecuteRecord, InsertExecution
  <2>2. l \in Checked
    OBVIOUS
  <2> HIDE DEF l
  <2> QED
    BY <2>1, <2>2, CheckedGood, ThenQuiet
<1>7. CASE ExecuteStatus(t)
  BY <1>7, SetStatusPreviews DEF ExecuteStatus, Statuses
<1>8. CASE ExecuteAudit(t)
  BY <1>8, AuditQuiet, ReplyQuiet DEF ExecuteAudit
<1> QED
  BY <1>1, <1>2, <1>3, <1>4, <1>5, <1>6, <1>7, <1>8 DEF Execute

\* Steps of no thread: no label is entered that is checked or in the pipeline.
LEMMA AroundPreviews ==
  ASSUME TypeInv, TypeInv', Grows, PreviewInv,
         \A i \in Ids : requests'[i].status = requests[i].status,
         UNCHANGED <<approvals, commits>>,
         \A t \in Threads : \/ pc'[t] = pc[t] /\ job'[t] = job[t]
                            \/ pc'[t] \in {"new", "done", "killed"}
  PROVE  PreviewInv'
<1>1. ASSUME NEW u \in Threads, pc[u] \in Pipeline \cup Checked
      PROVE  job[u].req \in Ids /\ Exists(job[u].req)
  BY <1>1, LocalFacts DEF LocalsOK, NoRequest, NoUser, Pipeline, Fresh, Checked,
                    Deciding, Executing
<1>2. PipelineOK'
  BY <1>1 DEF PreviewInv, PipelineOK, Grows, Row, Pipeline, Fresh
<1>3. \A u \in Threads : pc'[u] \in Checked =>
          requests'[job'[u].req].status \notin {"absent", "submitted"}
  BY <1>1 DEF PreviewInv, PreviewsOK, Previewed, Status, Checked, Deciding, Executing
<1>4. \A i \in Ids : requests'[i].status \notin {"absent", "submitted"} =>
          i \in previews' /\ requests'[i].target_kind = "postgres"
  BY DEF PreviewInv, PreviewsOK, Previewed, Status, Grows, Exists
<1>5. /\ \A a \in approvals' : Previewed(a.req)'
      /\ \A c \in commits' : Previewed(c.req)'
  BY DEF PreviewInv, PreviewsOK, Previewed, Status, TypeInv, TypeOK, TablesTypeOK,
         ApprovalRow, Commit
<1> QED
  BY <1>2, <1>3, <1>4, <1>5 DEF PreviewInv, PreviewsOK, Previewed, Status

\* Every step keeps the invariant,
LEMMA PreviewInvStep ==
  ASSUME TypeInv, TypeInv', Grows, PreviewInv, [Next]_vars
  PROVE  PreviewInv'
<1>1. ASSUME NEW t \in Threads, Handle(t) PROVE PreviewInv'
  <2>1. CASE Refuse(t)
    BY <2>1, ReplyQuiet DEF Refuse, tables
  <2> QED
    BY <1>1, <2>1, SubmitPreviews, OtherPreviews, ExecutePreviews DEF Handle
<1>2. CASE Tick
  BY <1>2, AroundPreviews DEF Tick, tables
<1>3. CASE Crash
  BY <1>3, AroundPreviews DEF Crash, tables, Active, TypeInv, TypeOK
<1>4. CASE Tamper
  <2>1. \A i \in Ids : requests'[i].status = requests[i].status
    BY <1>4 DEF Tamper, TypeInv, TypeOK, TablesTypeOK, RequestRow
  <2> QED
    BY <1>4, <2>1, AroundPreviews DEF Tamper
<1>5. CASE UNCHANGED vars
  BY <1>5, AroundPreviews DEF vars
<1> QED
  BY <1>1, <1>2, <1>3, <1>4, <1>5 DEF Next, Finished

\* which holds at first.
LEMMA PreviewInvInit == Init => PreviewInv
  BY DEF Init, TablesInit, NoRow, PreviewInv, PipelineOK, PreviewsOK, Previewed,
         Status, Pipeline, Fresh, Checked, Deciding, Executing

\* A request that was previewed, decided on or run has a stored preview and is
\* a Postgres request, whatever fails or is killed (src/preview/engine.rs:48-81).
THEOREM NothingUnpreviewedHolds == Spec => []NothingUnpreviewed
<1>1. TypeInv /\ PreviewInv /\ [Next]_vars => (TypeInv /\ PreviewInv)'
  BY TypeInvStep, PreviewInvStep
<1>2. TypeInv /\ PreviewInv => NothingUnpreviewed
  BY DEF TypeInv, TypeOK, TablesTypeOK, ApprovalRow, Commit, PreviewInv,
         PreviewsOK, NothingUnpreviewed, Committed
<1> QED
  BY <1>1, <1>2, TypeInvInit, PreviewInvInit, PTL DEF Spec

-----------------------------------------------------------------------------
\* Who writes "previewed".

NewlyPreviewed(i) == requests'[i].status = "previewed" /\ requests[i].status # "previewed"

\* A request becomes previewed where its own pipeline sets that status.
LEMMA OnlyPipelinePreviews ==
  ASSUME TypeInv, NEW t \in Threads, Handle(t), NEW i \in Ids, NewlyPreviewed(i)
  PROVE  pc[t] = "pre_status" /\ job[t].req = i
<1> USE DEF NewlyPreviewed
<1>1. requests \in [Ids -> RequestRow]
  BY DEF TypeInv, TypeOK, TablesTypeOK
<1>2. requests' # requests
  OBVIOUS
<1>3. ASSUME NEW s, NEW l, SetStatus(t, s, l) PROVE s = "previewed" /\ job[t].req = i
  BY <1>1, <1>3 DEF SetStatus, UpdateStatus, RequestRow
<1>4. ASSUME NEW o, NEW n PROVE ~ExpireStaleApprovals(o, n)
  BY <1>1 DEF ExpireStaleApprovals, RequestRow
<1>5. ~Sweep
  BY <1>4 DEF Sweep
<1>6. ASSUME NEW e PROVE ~Audit(t, e)
  BY <1>2, AuditQuiet
<1>7. ~UNCHANGED tables
  BY <1>2 DEF tables
<1>8. ASSUME NEW ok, NEW l, NEW j PROVE ~GetRequest(t, ok, l, j)
  BY <1>7 DEF GetRequest
<1>9. ~SubmitInsert(t)
  <2>1. ASSUME NEW o, NEW k \in Ids, NEW q, NEW d, NEW u
        PROVE  ~InsertRequest(o, k, q, d, u)
    BY <1>1 DEF InsertRequest
  <2> QED
    BY <1>7, <2>1 DEF SubmitInsert
<1>10. ~SubmitCall(t) /\ ~RequestCall(t) /\ ~ApproveCall(t) /\ ~RejectCall(t)
       /\ ~ExecuteCall(t) /\ ~ListCall(t) /\ ~Refuse(t)
  BY <1>7 DEF SubmitCall, RequestCall, ApproveCall, RejectCall, ExecuteCall,
              ListCall, Refuse, CallOn, Call
<1>11. Submit(t) => pc[t] = "pre_status" /\ job[t].req = i
  BY <1>2, <1>3, <1>6, <1>7, <1>9, <1>10 DEF Submit, SubmitAudit, PreviewRun,
     PreviewInsert, InsertPreview, PreviewStatus, PreviewAudit
<1>12. ~List(t) /\ ~RequestApproval(t)
  BY <1>3, <1>5, <1>6, <1>8, <1>10 DEF List, ListSweep, RequestApproval,
     RequestGet, RequestStatus, RequestAudit
<1>13. ~Approve(t)
  BY <1>2, <1>3, <1>5, <1>6, <1>7, <1>8, <1>10 DEF Approve, ApproveSweep,
     ApproveGet, ApproveDeadline, ApproveInsert, InsertApproval, ApproveStatus,
     ApproveAudit
<1>14. ~Reject(t)
  BY <1>2, <1>3, <1>6, <1>8, <1>10 DEF Reject, RejectGet, RejectInsert,
     InsertApproval, RejectStatus, RejectAudit
<1>15. ~Execute(t)
  <2>1. ~ExecuteSweep(t) /\ ~ExecuteGet(t)
    BY <1>4, <1>8 DEF ExecuteSweep, ExecuteGet
  <2>2. ~ExecuteMismatch(t) /\ ~ExecuteRecord(t)
    BY <1>2 DEF ExecuteMismatch, ExecuteRecord, InsertExecution
  <2>3. ~ExecuteRun(t)
    BY <1>2 DEF ExecuteRun, tables
  <2>4. ~ExecuteStatus(t) /\ ~ExecuteAudit(t)
    BY <1>3, <1>6 DEF ExecuteStatus, ExecuteAudit
  <2> QED
    BY <1>10, <2>1, <2>2, <2>3, <2>4 DEF Execute
<1> QED
  BY <1>10, <1>11, <1>12, <1>13, <1>14, <1>15 DEF Handle

\* Only the pipeline of a request's own submission makes it "previewed", out
\* of "submitted": no late statement takes a request back to its start
\* (src/preview/engine.rs:81, src/db/requests.rs:114).
THEOREM PreviewedOnceHolds == Spec => PreviewedOnce
<1> DEFINE Once == \A i \in Ids : Status(i)' # Status(i) =>
                      /\ Status(i)' = "submitted" => Status(i) = "absent"
                      /\ Status(i)' = "previewed" => Status(i) = "submitted"
<1>1. TypeInv /\ PreviewInv /\ [Next]_vars => (TypeInv /\ PreviewInv)'
  BY TypeInvStep, PreviewInvStep
<1>2. TypeInv /\ PreviewInv /\ [Next]_vars => [Once]_vars
  <2> SUFFICES ASSUME TypeInv, PreviewInv, [Next]_vars, NEW i \in Ids,
                      requests'[i].status # requests[i].status
               PROVE  /\ requests'[i].status = "submitted" => requests[i].status = "absent"
                      /\ requests'[i].status = "previewed" => requests[i].status = "submitted"
    BY DEF Status
  <2>1. requests'[i].status = "submitted" => requests[i].status = "absent"
    BY TypeInvStep DEF Grows, Previewed, Status
  <2>2. CASE \E t \in Threads : Handle(t)
    BY <2>1, <2>2, OnlyPipelinePreviews DEF NewlyPreviewed, PreviewInv,
       PipelineOK, Row, Fresh
  <2>3. CASE Tamper
    BY <2>1, <2>3 DEF Tamper, TypeInv, TypeOK, TablesTypeOK, RequestRow
  <2>4. CASE UNCHANGED requests
    BY <2>4
  <2> QED
    BY <2>2, <2>3, <2>4 DEF Next, Tick, Crash, Finished, vars, tables
<1> QED
  BY <1>1, <1>2, TypeInvInit, PreviewInvInit, PTL DEF Spec, PreviewedOnce, Once

-----------------------------------------------------------------------------
\* Layer 3: nobody decides on a request of their own.

EyesInv == DecidersOK /\ LogsOK /\ FourEyes

\* The decisions and events thread t may write in one step.
DecisionStep(t) ==
    /\ \A a \in approvals' :
           \/ a \in approvals
           \/ /\ pc[t] \in Deciding
              /\ a.req = job[t].req /\ a.approver_email = job[t].user
    /\ \/ audit_log' = audit_log
       \/ /\ pc[t] \in Pipeline \cup Checked
          /\ \E e \in Events :
               /\ e \in Decisions => pc[t] \in Deciding
               /\ audit_log' = [audit_log EXCEPT ![job[t].req] =
                      Append(@, [event |-> e, actor |-> job[t].user])]

\* What a thread that has just entered "deciding" saw.
DecidingStep(t) ==
    pc'[t] \in Deciding =>
        /\ job'[t].req = job[t].req /\ job'[t].user = job[t].user
        /\ pc[t] \in Deciding \/ (MayDecide(t) /\ pc[t] \in {"app_get", "rej_get"})

StaysPut(t) == \A u \in Threads \ {t} : pc'[u] = pc[u] /\ job'[u] = job[u]

\* Where a step to label l leaves thread t.
LEMMA ContinueFacts ==
  ASSUME TypeInv, NEW t \in Threads, NEW l, NEW j, Continue(t, l, j)
  PROVE  pc'[t] = l /\ job'[t] = j /\ StaysPut(t)
  BY DEF TypeInv, TypeOK, Continue, StaysPut

\* An event that is logged is a decision only at the end of a decision.
LEMMA AuditDecisions ==
  ASSUME TypeInv, NEW t \in Threads, pc[t] \in Pipeline \cup Checked,
         NEW e \in Events, e \in Decisions => pc[t] \in Deciding, Audit(t, e)
  PROVE  DecisionStep(t)
  BY DEF Audit, AppendAuditEvent, DecisionStep

\* A step that writes neither a decision nor an event.
LEMMA NoDecision ==
  ASSUME NEW t \in Threads, UNCHANGED <<approvals, audit_log>>
  PROVE  DecisionStep(t)
  BY DEF DecisionStep

\* A submission decides nothing.
LEMMA SubmitDecisions ==
  ASSUME TypeInv, NEW t \in Threads, Submit(t)
  PROVE  DecisionStep(t) /\ DecidingStep(t) /\ StaysPut(t)
<1> USE DEF Deciding
<1>1. CASE SubmitCall(t)
  BY <1>1, ContinueFacts, NoDecision DEF SubmitCall, Call, tables, DecidingStep
<1>2. CASE SubmitInsert(t)
  <2>1. UNCHANGED <<approvals, audit_log>>
    BY <1>2 DEF SubmitInsert, InsertRequest, tables
  <2>2. \E l \in {"done", "sub_audit"} : \E j : Continue(t, l, j)
    BY <1>2 DEF SubmitInsert, Reply
  <2> QED
    BY <2>1, <2>2, ContinueFacts, NoDecision DEF DecidingStep
<1>3. CASE SubmitAudit(t)
  BY <1>3, ContinueFacts, AuditDecisions DEF SubmitAudit, Then, DecidingStep,
     Events, Decisions, Pipeline, Fresh
<1>4. CASE PreviewRun(t)
  BY <1>4, ContinueFacts, NoDecision DEF PreviewRun, Then, Reply, tables, DecidingStep
<1>5. CASE PreviewInsert(t)
  BY <1>5, ContinueFacts, NoDecision DEF PreviewInsert, InsertPreview, Then, Reply, DecidingStep
<1>6. CASE PreviewStatus(t)
  BY <1>6, ContinueFacts, NoDecision DEF PreviewStatus, SetStatus, UpdateStatus, Then, DecidingStep
<1>7. CASE PreviewAudit(t)
  BY <1>7, ContinueFacts, AuditDecisions DEF PreviewAudit, Reply, DecidingStep,
     Events, Decisions, Pipeline
<1> QED
  BY <1>1, <1>2, <1>3, <1>4, <1>5, <1>6, <1>7 DEF Submit

\* The list, a request for approval and a refusal decide nothing.
LEMMA ListRequestDecisions ==
  ASSUME TypeInv, NEW t \in Threads, List(t) \/ RequestApproval(t) \/ Refuse(t)
  PROVE  DecisionStep(t) /\ DecidingStep(t) /\ StaysPut(t)
<1> USE DEF Deciding
<1>1. CASE ListCall(t)
  BY <1>1, ContinueFacts, NoDecision DEF ListCall, Call, tables, DecidingStep
<1>2. CASE ListSweep(t)
  BY <1>2, ContinueFacts, NoDecision DEF ListSweep, Sweep, ExpireStaleApprovals, Reply, DecidingStep
<1>3. CASE RequestCall(t)
  BY <1>3, ContinueFacts, NoDecision DEF RequestCall, CallOn, Call, tables, DecidingStep
<1>4. CASE RequestGet(t)
  BY <1>4, ContinueFacts, NoDecision DEF RequestGet, GetRequest, Reply, tables, DecidingStep
<1>5. CASE RequestStatus(t)
  BY <1>5, ContinueFacts, NoDecision DEF RequestStatus, SetStatus, UpdateStatus, Then, DecidingStep
<1>6. CASE RequestAudit(t)
  BY <1>6, ContinueFacts, AuditDecisions DEF RequestAudit, Reply, DecidingStep,
     Events, Decisions, Checked
<1>7. CASE Refuse(t)
  BY <1>7, ContinueFacts, NoDecision DEF Refuse, Reply, tables, DecidingStep
<1> QED
  BY <1>1, <1>2, <1>3, <1>4, <1>5, <1>6, <1>7 DEF List, RequestApproval

\* approve_handler decides after it compared the two addresses,
LEMMA ApproveDecisions ==
  ASSUME TypeInv, NEW t \in Threads, Approve(t)
  PROVE  DecisionStep(t) /\ DecidingStep(t) /\ StaysPut(t)
<1> USE DEF Deciding
<1>1. CASE ApproveCall(t)
  BY <1>1, ContinueFacts, NoDecision DEF ApproveCall, CallOn, Call, tables, DecidingStep
<1>2. CASE ApproveSweep(t)
  BY <1>2, ContinueFacts, NoDecision DEF ApproveSweep, Sweep, ExpireStaleApprovals, Then, DecidingStep
<1>3. CASE ApproveGet(t)
  BY <1>3, ContinueFacts, NoDecision DEF ApproveGet, GetRequest, Reply, tables, DecidingStep
<1>4. CASE ApproveDeadline(t)
  BY <1>4, ContinueFacts, NoDecision, LocalFacts DEF ApproveDeadline, tables, DecidingStep, Job
<1>5. CASE ApproveInsert(t)
  <2>1. DecisionStep(t)
    BY <1>5 DEF ApproveInsert, InsertApproval, DecisionStep
  <2> QED
    BY <1>5, <2>1, ContinueFacts DEF ApproveInsert, Then, DecidingStep
<1>6. CASE ApproveStatus(t)
  BY <1>6, ContinueFacts, NoDecision DEF ApproveStatus, SetStatus, UpdateStatus, Then, DecidingStep
<1>7. CASE ApproveAudit(t)
  BY <1>7, ContinueFacts, AuditDecisions DEF ApproveAudit, Reply, DecidingStep,
     Events, Checked
<1> QED
  BY <1>1, <1>2, <1>3, <1>4, <1>5, <1>6, <1>7 DEF Approve

\* so does reject_handler.
LEMMA RejectDecisions ==
  ASSUME TypeInv, NEW t \in Threads, Reject(t)
  PROVE  DecisionStep(t) /\ DecidingStep(t) /\ StaysPut(t)
<1> USE DEF Deciding
<1>1. CASE RejectCall(t)
  BY <1>1, ContinueFacts, NoDecision DEF RejectCall, CallOn, Call, tables, DecidingStep
<1>2. CASE RejectGet(t)
  BY <1>2, ContinueFacts, NoDecision DEF RejectGet, GetRequest, Reply, tables, DecidingStep
<1>3. CASE RejectInsert(t)
  <2>1. DecisionStep(t)
    BY <1>3 DEF RejectInsert, InsertApproval, DecisionStep
  <2> QED
    BY <1>3, <2>1, ContinueFacts DEF RejectInsert, Then, DecidingStep
<1>4. CASE RejectStatus(t)
  BY <1>4, ContinueFacts, NoDecision DEF RejectStatus, SetStatus, UpdateStatus, Then, DecidingStep
<1>5. CASE RejectAudit(t)
  BY <1>5, ContinueFacts, AuditDecisions DEF RejectAudit, Reply, DecidingStep,
     Events, Checked
<1> QED
  BY <1>1, <1>2, <1>3, <1>4, <1>5 DEF Reject

\* An execution decides nothing.
LEMMA ExecuteDecisions ==
  ASSUME TypeInv, NEW t \in Threads, Execute(t)
  PROVE  DecisionStep(t) /\ DecidingStep(t) /\ StaysPut(t)
<1> USE DEF Deciding
<1>1. CASE ExecuteCall(t)
  BY <1>1, ContinueFacts, NoDecision DEF ExecuteCall, CallOn, Call, tables, DecidingStep
<1>2. CASE ExecuteSweep(t)
  BY <1>2, ContinueFacts, NoDecision DEF ExecuteSweep, ExpireStaleApprovals, DecidingStep
<1>3. CASE ExecuteGet(t)
  BY <1>3, ContinueFacts, NoDecision DEF ExecuteGet, GetRequest, Reply, tables, DecidingStep
<1>4. CASE ExecuteMismatch(t)
  BY <1>4, ContinueFacts, NoDecision DEF ExecuteMismatch, InsertExecution, Reply, DecidingStep
<1>5. CASE ExecuteRun(t)
  <2>1. DecisionStep(t)
    BY <1>5, NoDecision DEF ExecuteRun, tables
  <2>2. pc'[t] \in {"done", "exe_record"} /\ StaysPut(t)
    BY <1>5 DEF ExecuteRun, Reply, Continue, StaysPut, TypeInv, TypeOK
  <2> QED
    BY <2>1, <2>2 DEF DecidingStep
<1>6. CASE ExecuteRecord(t)
  BY <1>6, ContinueFacts, NoDecision DEF ExecuteRecord, InsertExecution, Then, DecidingStep
<1>7. CASE ExecuteStatus(t)
  BY <1>7, ContinueFacts, NoDecision DEF ExecuteStatus, SetStatus, UpdateStatus, Then, DecidingStep
<1>8. CASE ExecuteAudit(t)
  <2>1. DecisionStep(t)
    BY <1>8, AuditDecisions DEF ExecuteAudit, Events, Decisions, Checked, Executing
  <2> QED
    BY <1>8, <2>1, ContinueFacts DEF ExecuteAudit, Reply, DecidingStep
<1> QED
  BY <1>1, <1>2, <1>3, <1>4, <1>5, <1>6, <1>7, <1>8 DEF Execute

\* Whatever step a thread takes.
LEMMA HandleDecisions ==
  ASSUME TypeInv, NEW t \in Threads, Handle(t)
  PROVE  DecisionStep(t) /\ DecidingStep(t) /\ StaysPut(t)
  BY SubmitDecisions, ListRequestDecisions, ApproveDecisions, RejectDecisions,
     ExecuteDecisions DEF Handle

\* A thread that decides only after the comparison keeps the invariant.
LEMMA EyesStep ==
  ASSUME TypeInv, TypeInv', Grows, PreviewInv, EyesInv, NEW t \in Threads,
         DecisionStep(t), DecidingStep(t), StaysPut(t)
  PROVE  EyesInv'
<1>1. ASSUME NEW u \in Threads
      PROVE  /\ pc[u] \in Pipeline \cup Checked =>
                    /\ job[u].req \in Ids /\ Exists(job[u].req)
                    /\ requests'[job[u].req].requester_email
                           = requests[job[u].req].requester_email
             /\ pc[u] \in Deciding =>
                    requests'[job[u].req].requester_email # job[u].user
  <2>1. pc[u] \in Pipeline \cup Checked => job[u].req \in Ids /\ Exists(job[u].req)
    BY LocalFacts DEF LocalsOK, NoRequest, NoUser, Pipeline, Fresh, Checked,
                      Deciding, Executing
  <2>2. pc[u] \in Deciding => Row(u).requester_email # job[u].user
    BY DEF EyesInv, DecidersOK
  <2> QED
    BY <2>1, <2>2 DEF Grows, Row, Checked
<1>2. ASSUME NEW u \in Threads, pc'[u] \in Deciding
      PROVE  requests'[job'[u].req].requester_email # job'[u].user
  <2>1. CASE u # t
    BY <1>1, <1>2, <2>1 DEF StaysPut
  <2>2. CASE u = t /\ pc[t] \in Deciding
    BY <1>1, <1>2, <2>2 DEF DecidingStep
  <2>3. CASE u = t /\ MayDecide(t) /\ pc[t] \in {"app_get", "rej_get"}
    <3>1. job[t].req \in Ids
      BY <2>3, LocalFacts DEF LocalsOK, NoRequest, NoUser
    <3> QED
      BY <1>2, <2>3, <3>1 DEF DecidingStep, MayDecide, Row, Grows, Exists
  <2> QED
    BY <1>2, <2>1, <2>2, <2>3 DEF DecidingStep
<1>3. ASSUME NEW a \in approvals'
      PROVE  a.approver_email # requests'[a.req].requester_email
  <2>1. CASE a \in approvals
    <3>1. a.req \in Ids /\ Exists(a.req)
      BY <2>1 DEF PreviewInv, PreviewsOK, Previewed, Status, Exists, TypeInv,
                  TypeOK, TablesTypeOK, ApprovalRow
    <3> QED
      BY <2>1, <3>1 DEF EyesInv, FourEyes, Grows
  <2> QED
    BY <1>1, <1>3, <2>1 DEF DecisionStep
<1>4. ASSUME NEW i \in Ids
      PROVE  /\ audit_log'[i] # <<>> => requests'[i].status # "absent"
             /\ \A k \in DOMAIN audit_log'[i] :
                    audit_log'[i][k].event \in Decisions =>
                        audit_log'[i][k].actor # requests'[i].requester_email
  <2>1. /\ audit_log[i] \in Seq(AuditRow)
        /\ audit_log[i] # <<>> => Exists(i)
        /\ \A k \in DOMAIN audit_log[i] :
               audit_log[i][k].event \in Decisions =>
                   audit_log[i][k].actor # requests[i].requester_email
    BY DEF EyesInv, LogsOK, FourEyes, TypeInv, TypeOK, TablesTypeOK
  <2>2. CASE audit_log'[i] = audit_log[i]
    BY <2>1, <2>2 DEF Grows, Exists
  <2>3. ASSUME NEW e \in Events, e \in Decisions => pc[t] \in Deciding,
               pc[t] \in Pipeline \cup Checked, job[t].req = i,
               audit_log'[i] = Append(audit_log[i],
                                      [event |-> e, actor |-> job[t].user])
        PROVE  /\ requests'[i].status # "absent"
               /\ \A k \in DOMAIN audit_log'[i] :
                    audit_log'[i][k].event \in Decisions =>
                        audit_log'[i][k].actor # requests'[i].requester_email
    <3>1. requests'[i].status # "absent" /\
             requests'[i].requester_email = requests[i].requester_email
      BY <1>1, <2>3 DEF Grows, Exists
    <3>2. ASSUME NEW k \in DOMAIN audit_log'[i]
          PROVE  \/ k \in DOMAIN audit_log[i] /\ audit_log'[i][k] = audit_log[i][k]
                 \/ audit_log'[i][k] = [event |-> e, actor |-> job[t].user]
      BY <2>1, <2>3
    <3>3. e \in Decisions => job[t].user # requests'[i].requester_email
      BY <1>1, <2>3
    <3> QED
      BY <2>1, <3>1, <3>2, <3>3
  <2>4. \/ audit_log'[i] = audit_log[i]
        \/ /\ pc[t] \in Pipeline \cup Checked /\ job[t].req = i
           /\ \E e \in Events :
                /\ e \in Decisions => pc[t] \in Deciding
                /\ audit_log'[i] = Append(audit_log[i],
                                          [event |-> e, actor |-> job[t].user])
    BY DEF DecisionStep, TypeInv, TypeOK, TablesTypeOK
  <2> QED
    BY <2>2, <2>3, <2>4
<1> QED
  BY <1>2, <1>3, <1>4 DEF EyesInv, DecidersOK, LogsOK, FourEyes, Row, Exists

\* Every step keeps the invariant,
LEMMA EyesInvStep ==
  ASSUME TypeInv, TypeInv', Grows, PreviewInv, EyesInv, [Next]_vars
  PROVE  EyesInv'
<1>1. ASSUME NEW t \in Threads, Handle(t) PROVE EyesInv'
  BY <1>1, HandleDecisions, EyesStep
<1>2. ASSUME UNCHANGED <<approvals, audit_log>>,
             \A t \in Threads : \/ pc'[t] = pc[t] /\ job'[t] = job[t]
                                \/ pc'[t] \in {"new", "done", "killed"}
      PROVE  EyesInv'
  <2>1. ASSUME NEW t \in Threads, pc'[t] \in Deciding
        PROVE  requests'[job'[t].req].requester_email # job'[t].user
    <3>1. pc'[t] = pc[t] /\ job'[t] = job[t] /\ pc[t] \in Checked
      BY <1>2, <2>1 DEF Deciding, Checked
    <3>2. job[t].req \in Ids /\ Exists(job[t].req)
      BY <3>1, LocalFacts DEF LocalsOK, NoRequest, NoUser, Checked, Deciding, Executing
    <3> QED
      BY <2>1, <3>1, <3>2 DEF EyesInv, DecidersOK, Row, Grows
  <2>2. \A a \in approvals : a.req \in Ids /\ Exists(a.req)
    BY DEF PreviewInv, PreviewsOK, Previewed, Status, Exists, TypeInv,
           TypeOK, TablesTypeOK, ApprovalRow
  <2>3. \A a \in approvals' : a.approver_email # requests'[a.req].requester_email
    BY <1>2, <2>2 DEF EyesInv, FourEyes, Grows
  <2>4. ASSUME NEW i \in Ids
        PROVE  /\ audit_log'[i] # <<>> => requests'[i].status # "absent"
               /\ \A k \in DOMAIN audit_log'[i] :
                    audit_log'[i][k].event \in Decisions =>
                        audit_log'[i][k].actor # requests'[i].requester_email
    <3>1. audit_log[i] \in Seq(AuditRow) /\ audit_log'[i] = audit_log[i]
      BY <1>2 DEF TypeInv, TypeOK, TablesTypeOK
    <3>2. CASE audit_log[i] # <<>>
      BY <3>1, <3>2 DEF EyesInv, LogsOK, FourEyes, Grows, Exists
    <3> QED
      BY <3>1, <3>2
  <2> QED
    BY <2>1, <2>3, <2>4 DEF EyesInv, DecidersOK, LogsOK, FourEyes, Row, Exists
<1>3. CASE Tick \/ Tamper \/ UNCHANGED vars
  BY <1>2, <1>3 DEF Tick, Tamper, vars, tables
<1>4. CASE Crash
  BY <1>2, <1>4 DEF Crash, Active, tables, TypeInv, TypeOK
<1> QED
  BY <1>1, <1>3, <1>4 DEF Next, Finished

\* which holds at first.
LEMMA EyesInvInit == Init => EyesInv
  BY DEF Init, TablesInit, EyesInv, DecidersOK, LogsOK, FourEyes, Deciding

\* Whoever approves or rejects, in the approvals table and in the timeline, is
\* not the requester, with any interleaving, failure or kill (src/main.rs:239,
\* 316).
THEOREM FourEyesHolds == Spec => []FourEyes
<1> DEFINE Inv == TypeInv /\ PreviewInv /\ EyesInv
<1>1. Init => Inv
  BY TypeInvInit, PreviewInvInit, EyesInvInit
<1>2. Inv /\ [Next]_vars => Inv'
  BY TypeInvStep, PreviewInvStep, EyesInvStep
<1>3. Inv => FourEyes
  BY DEF EyesInv
<1> QED
  BY <1>1, <1>2, <1>3, PTL DEF Spec
=============================================================================
