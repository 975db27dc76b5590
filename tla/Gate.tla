-------------------------------- MODULE Gate --------------------------------
(***************************************************************************)
(* The workflow of SQLGate: the request handlers of src/main.rs and the    *)
(* two pipelines they call (src/preview/engine.rs, src/execute/engine.rs), *)
(* run by concurrent connection threads over one shared database.          *)
(*                                                                         *)
(* A thread serves exactly one HTTP request: it is "new", then walks       *)
(* through the database statements of its handler in program order (pc[t]  *)
(* names the next one), then "done".  Statements of different threads      *)
(* interleave freely, and what a handler read stays in its locals (job[t]) *)
(* however stale it becomes.                                               *)
(***************************************************************************)
EXTENDS Persistence

CONSTANTS
    TTL,         \* APPROVAL_TTL_SECONDS, in ticks
    Lead,        \* how far SQLGate's clock is ahead of its database's
    MaxInstant,  \* largest SystemTime checked_add can return
    MaxTime,     \* bound: the clock stops here
    MaxActive,   \* bound: handlers in flight at once (1: requests are serial)
    Outcomes,    \* how a statement may end: {"ok"} is a reliable database
    CanCrash     \* whether the process may be killed and restarted

ASSUME TimeAssumption ==
    /\ TTL \in Nat /\ MaxTime \in Nat /\ MaxInstant \in Nat
    /\ MaxTime <= MaxInstant
    /\ Lead \in Int /\ TTL + Lead \in Nat
ASSUME FaultAssumption ==
    /\ MaxActive \in Nat \ {0}
    /\ CanCrash \in BOOLEAN
    /\ "ok" \in Outcomes
    /\ Outcomes \subseteq {"ok", "lost", "unknown"}

VARIABLES
    pc,      \* pc[t]: the statement thread t runs next
    job,     \* job[t]: the locals of t's handler
    now,     \* the clock of SQLGate's database
    commits  \* what the target database committed: which thread, which text

vars == <<requests, previews, approvals, executions, audit_log,
          pc, job, now, commits>>

NoJob == [user |-> None, req |-> None, query |-> None, kind |-> None,
          expires |-> None, failed |-> FALSE, swept |-> 0]

\* swept is the one history field: the instant of this call's sweep.
Job == [user : Users \cup {None}, req : Ids \cup {None},
        query : Queries \cup Forged \cup {None}, kind : Kinds \cup {None},
        expires : Nat \cup {None}, failed : BOOLEAN, swept : Nat]

Labels == {"new", "done", "killed",
           "sub_insert", "sub_audit",
           "pre_run", "pre_insert", "pre_status", "pre_audit",
           "list_sweep",
           "req_get", "req_status", "req_audit",
           "app_sweep", "app_get", "app_ttl", "app_insert", "app_status",
           "app_audit",
           "rej_get", "rej_insert", "rej_status", "rej_audit",
           "exe_sweep", "exe_get", "exe_mismatch", "exe_run", "exe_record",
           "exe_status", "exe_audit"}

Commit == [thread : Threads, req : Ids, query : Queries \cup Forged]

TypeOK ==
    /\ TablesTypeOK
    /\ pc \in [Threads -> Labels]
    /\ job \in [Threads -> Job]
    /\ now \in Nat
    /\ commits \in SUBSET Commit

\* Instant 0 is UNIX_EPOCH; the program starts later than that.
Init ==
    /\ TablesInit
    /\ pc = [t \in Threads |-> "new"]
    /\ job = [t \in Threads |-> NoJob]
    /\ now = 1
    /\ commits = {}

-----------------------------------------------------------------------------
\* Threads: taking a request, going on to the next statement, replying.

Active == {t \in Threads : pc[t] \notin {"new", "done", "killed"}}

Continue(t, l, j) == /\ pc' = [pc EXCEPT ![t] = l]
                     /\ job' = [job EXCEPT ![t] = j]
                     /\ UNCHANGED <<now, commits>>

Then(t, l) == Continue(t, l, job[t])

\* The handler returns its page and the thread ends.
Reply(t) == Continue(t, "done", NoJob)

\* A request reaches its handler: authenticated, form parsed, id well formed.
Call(t, l, j) ==
    /\ pc[t] = "new"
    /\ Cardinality(Active) < MaxActive
    /\ Continue(t, l, j)
    /\ UNCHANGED tables

CallOn(t, l) == \E u \in Users, i \in Ids :
                    Call(t, l, [NoJob EXCEPT !.user = u, !.req = i])

\* The early returns before a handler's first statement: not authenticated, a
\* malformed request id, a text or a field that validation refuses.
Refuse(t) ==
    /\ pc[t] = "new"
    /\ Reply(t)
    /\ UNCHANGED tables

\* The row get_request fetches for t.
Row(t) == requests[job[t].req]

\* get_request, and the checks a handler makes on the row: it goes on to
\* statement l with locals j if the row exists and is accepted, and replies if
\* the row is missing, refused, or could not be read.
GetRequest(t, accepted, l, j) ==
    /\ UNCHANGED tables
    /\ \/ /\ Exists(job[t].req)
          /\ accepted
          /\ Continue(t, l, j)
       \/ /\ ~Exists(job[t].req) \/ ~accepted \/ Outcomes # {"ok"}
          /\ Reply(t)

\* "let _ = update_status(...)": the outcome is dropped, the handler goes on.
SetStatus(t, status, l) ==
    /\ \E o \in Outcomes : UpdateStatus(o, job[t].req, status)
    /\ Then(t, l)

\* "let _ = append_audit_event(...)", the last statement of most handlers.
Audit(t, event) ==
    \E o \in Outcomes : AppendAuditEvent(o, job[t].req, event, job[t].user)

\* "let _ = expire_stale_approvals(...)".
Sweep == \E o \in Outcomes : ExpireStaleApprovals(o, now)

-----------------------------------------------------------------------------
\* POST /submit: submit_handler, then run_preview_pipeline in the same thread.

SubmitCall(t) ==
    \E u \in Users, q \in Queries, k \in Kinds :
        Call(t, "sub_insert",
             [NoJob EXCEPT !.user = u, !.query = q, !.kind = k])

SubmitInsert(t) ==
    /\ pc[t] = "sub_insert"
    /\ \/ /\ Duplicate(job[t].query)
          /\ Reply(t)
          /\ UNCHANGED tables
       \/ \E o \in Outcomes, i \in Ids :
            /\ InsertRequest(o, i, job[t].query, job[t].kind, job[t].user)
            /\ IF o = "ok" THEN Continue(t, "sub_audit", [job[t] EXCEPT !.req = i])
                           ELSE Reply(t)

SubmitAudit(t) ==
    /\ pc[t] = "sub_audit"
    /\ Audit(t, "submitted")
    /\ Then(t, "pre_run")

\* The preview fails (no URL configured, target error), or has no engine.
PreviewRun(t) ==
    /\ pc[t] = "pre_run"
    /\ UNCHANGED tables
    /\ \/ Reply(t)
       \/ job[t].kind = "postgres" /\ Then(t, "pre_insert")

\* Mistake: this outcome is dropped like the others.
PreviewInsert_Ignored(t) ==
    /\ pc[t] = "pre_insert"
    /\ \E o \in Outcomes : InsertPreview(o, job[t].req)
    /\ Then(t, "pre_status")

\* The one statement of the pipeline whose outcome is looked at.
PreviewInsert(t) ==
    /\ pc[t] = "pre_insert"
    /\ \E o \in Outcomes :
         /\ InsertPreview(o, job[t].req)
         /\ IF o = "ok" THEN Then(t, "pre_status") ELSE Reply(t)

PreviewStatus(t) ==
    /\ pc[t] = "pre_status"
    /\ SetStatus(t, "previewed", "pre_audit")

PreviewAudit(t) ==
    /\ pc[t] = "pre_audit"
    /\ Audit(t, "previewed")
    /\ Reply(t)

-----------------------------------------------------------------------------
\* GET /approvals: approvals_list_handler.

ListCall(t) == Call(t, "list_sweep", NoJob)

ListSweep(t) ==
    /\ pc[t] = "list_sweep"
    /\ Sweep
    /\ Reply(t)

-----------------------------------------------------------------------------
\* POST /request-approval: request_approval_handler.

RequestCall(t) == CallOn(t, "req_get")

\* Mistake: only a second request for approval is refused.
RequestGet_Loose(t) ==
    /\ pc[t] = "req_get"
    /\ GetRequest(t, Row(t).status # "pending_approval", "req_status", job[t])

RequestGet(t) ==
    /\ pc[t] = "req_get"
    /\ GetRequest(t, Row(t).status = "previewed", "req_status", job[t])

RequestStatus(t) ==
    /\ pc[t] = "req_status"
    /\ SetStatus(t, "pending_approval", "req_audit")

RequestAudit(t) ==
    /\ pc[t] = "req_audit"
    /\ Audit(t, "requested_approval")
    /\ Reply(t)

-----------------------------------------------------------------------------
\* POST /approve: approve_handler.

ApproveCall(t) == CallOn(t, "app_sweep")

ApproveSweep(t) ==
    /\ pc[t] = "app_sweep"
    /\ Sweep
    /\ Then(t, "app_get")

\* Mistake: the requester may decide.
MayDecide_Own(t) == Row(t).status = "pending_approval"

\* Mistake: the status is not looked at.
MayDecide_AnyStatus(t) == Row(t).requester_email # job[t].user

\* Somebody else's pending request: what approve and reject both ask for.
MayDecide(t) == /\ Row(t).requester_email # job[t].user
                /\ Row(t).status = "pending_approval"

ApproveGet(t) ==
    /\ pc[t] = "app_get"
    /\ GetRequest(t, MayDecide(t), "app_ttl", job[t])

\* SystemTime::now().checked_add(ttl).unwrap_or(UNIX_EPOCH), by SQLGate's clock
Deadline == IF now + Lead + TTL <= MaxInstant THEN now + Lead + TTL ELSE 0

\* Mistake: the row is not inserted.
ApproveDeadline_NoRow(t) ==
    /\ pc[t] = "app_ttl"
    /\ Continue(t, "app_status", [job[t] EXCEPT !.expires = Deadline])
    /\ UNCHANGED tables

ApproveDeadline(t) ==
    /\ pc[t] = "app_ttl"
    /\ Continue(t, "app_insert", [job[t] EXCEPT !.expires = Deadline])
    /\ UNCHANGED tables

ApproveInsert(t) ==
    /\ pc[t] = "app_insert"
    /\ \E o \in Outcomes : InsertApproval(o, t, job[t].req, job[t].user,
                                          "approved", job[t].expires, now)
    /\ Then(t, "app_status")

ApproveStatus(t) ==
    /\ pc[t] = "app_status"
    /\ SetStatus(t, "approved", "app_audit")

ApproveAudit(t) ==
    /\ pc[t] = "app_audit"
    /\ Audit(t, "approved")
    /\ Reply(t)

-----------------------------------------------------------------------------
\* POST /reject: reject_handler.

RejectCall(t) == CallOn(t, "rej_get")

RejectGet(t) ==
    /\ pc[t] = "rej_get"
    /\ GetRequest(t, MayDecide(t), "rej_insert", job[t])

RejectInsert(t) ==
    /\ pc[t] = "rej_insert"
    /\ \E o \in Outcomes : InsertApproval(o, t, job[t].req, job[t].user,
                                          "rejected", None, now)
    /\ Then(t, "rej_status")

\* Mistake: the request is sent back to its requester.
RejectStatus_SendBack(t) ==
    /\ pc[t] = "rej_status"
    /\ SetStatus(t, "submitted", "rej_audit")

\* Mistake: the event is not logged.
RejectStatus_Unlogged(t) ==
    /\ pc[t] = "rej_status"
    /\ SetStatus(t, "rejected", "done")

RejectStatus(t) ==
    /\ pc[t] = "rej_status"
    /\ SetStatus(t, "rejected", "rej_audit")

RejectAudit(t) ==
    /\ pc[t] = "rej_audit"
    /\ Audit(t, "rejected")
    /\ Reply(t)

-----------------------------------------------------------------------------
\* POST /execute: execute_handler, then run_execute_pipeline.

ExecuteCall(t) == CallOn(t, "exe_sweep")

\* Mistake: expiry is left to other requests' sweeps.
ExecuteSweep_Skipped(t) ==
    /\ pc[t] = "exe_sweep"
    /\ Continue(t, "exe_get", [job[t] EXCEPT !.swept = now])
    /\ UNCHANGED tables

ExecuteSweep(t) ==
    /\ pc[t] = "exe_sweep"
    /\ \E o \in Outcomes :
         /\ ExpireStaleApprovals(o, now)
         /\ Continue(t, "exe_get",
                     [job[t] EXCEPT !.swept = IF o = "lost" THEN 0 ELSE now])

\* Mistake: the stored text is trusted.
Verified_Always(t) == TRUE

\* verify_query_hash on the row just fetched picks the branch.
Verified(t) == Sha256(Row(t).query_text) = Row(t).query_hash

ExecuteGet(t) ==
    /\ pc[t] = "exe_get"
    /\ GetRequest(t, Row(t).status = "approved",
                  IF Verified(t) THEN "exe_run" ELSE "exe_mismatch",
                  [job[t] EXCEPT !.query = Row(t).query_text,
                                 !.kind = Row(t).target_kind])

ExecuteMismatch(t) ==
    /\ pc[t] = "exe_mismatch"
    /\ \E o \in Outcomes : InsertExecution(o, t, job[t].req, FALSE, TRUE)
    /\ Reply(t)

\* Mistake: the transaction's error is not reported.
ExecuteRun_NoError(t) ==
    /\ pc[t] = "exe_run"
    /\ UNCHANGED tables
    /\ Then(t, "exe_record")

\* execute_postgres runs BEGIN, the fetched text and COMMIT over a connection
\* of its own.  Any of them may fail with nothing committed ("lost"), and the
\* reply to COMMIT may be lost ("unknown").
ExecuteRun(t) ==
    /\ pc[t] = "exe_run"
    /\ UNCHANGED <<tables, now>>
    /\ \/ Reply(t)
       \/ /\ job[t].kind = "postgres"
          /\ \E o \in Outcomes \cup {"lost"} :
               /\ commits' = IF o = "lost" THEN commits ELSE commits \cup
                      {[thread |-> t, req |-> job[t].req,
                        query |-> job[t].query]}
               /\ pc' = [pc EXCEPT ![t] = "exe_record"]
               /\ job' = [job EXCEPT ![t].failed = (o # "ok")]

\* Mistake: the status is not updated.
ExecuteRecord_NoStatus(t) ==
    /\ pc[t] = "exe_record"
    /\ \E o \in Outcomes :
         InsertExecution(o, t, job[t].req, TRUE, job[t].failed)
    /\ Then(t, "exe_audit")

ExecuteRecord(t) ==
    /\ pc[t] = "exe_record"
    /\ \E o \in Outcomes :
         InsertExecution(o, t, job[t].req, TRUE, job[t].failed)
    /\ Then(t, IF job[t].failed THEN "exe_audit" ELSE "exe_status")

ExecuteStatus(t) ==
    /\ pc[t] = "exe_status"
    /\ SetStatus(t, "executed", "exe_audit")

\* Mistake: a failure is logged as a success.
ExecuteAudit_Success(t) ==
    /\ pc[t] = "exe_audit"
    /\ Audit(t, "executed")
    /\ Reply(t)

ExecuteAudit(t) ==
    /\ pc[t] = "exe_audit"
    /\ Audit(t, IF job[t].failed THEN "execution_failed" ELSE "executed")
    /\ Reply(t)

-----------------------------------------------------------------------------
\* What happens around the handlers.

Tick ==
    /\ now < MaxTime
    /\ now' = now + 1
    /\ UNCHANGED <<tables, pc, job, commits>>

\* The process is killed and started again: every handler in flight is gone,
\* what it committed stays.  Threads still "new" are served by the new process.
Crash ==
    /\ CanCrash
    /\ Active # {}
    /\ pc' = [t \in Threads |-> IF t \in Active THEN "killed" ELSE pc[t]]
    /\ job' = [t \in Threads |-> NoJob]
    /\ UNCHANGED <<tables, now, commits>>

\* Somebody with access to the database rewrites the text of a stored request.
Tamper ==
    /\ \E i \in Ids, q \in Forged :
         /\ Exists(i)
         /\ requests' = [requests EXCEPT ![i].query_text = q]
    /\ UNCHANGED <<previews, approvals, executions, audit_log,
                   pc, job, now, commits>>

\* Every thread of the instance has been served.
Finished ==
    /\ \A t \in Threads : pc[t] \in {"done", "killed"}
    /\ UNCHANGED vars

Submit(t) == \/ SubmitCall(t) \/ SubmitInsert(t) \/ SubmitAudit(t)
             \/ PreviewRun(t) \/ PreviewInsert(t) \/ PreviewStatus(t)
             \/ PreviewAudit(t)

List(t) == ListCall(t) \/ ListSweep(t)

RequestApproval(t) == \/ RequestCall(t) \/ RequestGet(t)
                      \/ RequestStatus(t) \/ RequestAudit(t)

Approve(t) == \/ ApproveCall(t) \/ ApproveSweep(t) \/ ApproveGet(t)
              \/ ApproveDeadline(t) \/ ApproveInsert(t)
              \/ ApproveStatus(t) \/ ApproveAudit(t)

Reject(t) == \/ RejectCall(t) \/ RejectGet(t) \/ RejectInsert(t)
             \/ RejectStatus(t) \/ RejectAudit(t)

Execute(t) == \/ ExecuteCall(t) \/ ExecuteSweep(t) \/ ExecuteGet(t)
              \/ ExecuteMismatch(t) \/ ExecuteRun(t) \/ ExecuteRecord(t)
              \/ ExecuteStatus(t) \/ ExecuteAudit(t)

Handle(t) == \/ Refuse(t) \/ Submit(t) \/ List(t) \/ RequestApproval(t)
             \/ Approve(t) \/ Reject(t) \/ Execute(t)

Next == \/ \E t \in Threads : Handle(t)
        \/ Tick \/ Crash \/ Tamper \/ Finished

Spec == Init /\ [][Next]_vars
=============================================================================
