----------------------------- MODULE GateSerial -----------------------------
(***************************************************************************)
(* Requests served one at a time: then nothing happens between a handler's *)
(* check and its UPDATE, Gate implements Lifecycle, and an approved text   *)
(* runs at most once and within its approval's lifetime.                   *)
(***************************************************************************)
EXTENDS GateRecords, FiniteSetTheorems

-----------------------------------------------------------------------------
\* What serial handlers may rely on.

Idle == {"new", "done", "killed"}

\* The status s that a handler at label l finds, and leaves, since its check.
Holds(l, s) ==
    /\ l \in {"app_ttl", "app_insert", "app_status", "rej_insert", "rej_status"}
           => s = "pending_approval"
    /\ l = "req_status" => s = "previewed"
    /\ l \in {"exe_run", "exe_record", "exe_status"} => s = "approved"

Alone == \A t, u \in Active : t = u

Held == \A t \in Threads : Holds(pc[t], Row(t).status)

\* Where a thread is that committed.
Ran == {"exe_record", "exe_status", "exe_audit", "done", "killed"}

CommitsOK == /\ IsFiniteSet(commits)
             /\ \A c \in commits : pc[c.thread] \in Ran

SerialInv == Alone /\ Held /\ CommitsOK

\* Nobody but t is served.
Solo(t) == \A u \in Threads \ {t} : pc[u] \in Idle

\* A thread that is let in is alone.
LEMMA CallSolo ==
  ASSUME MaxActive = 1, IsFiniteSet(Threads), NEW t \in Threads, NEW l, NEW j,
         Call(t, l, j)
  PROVE  Solo(t)
<1>1. IsFiniteSet(Active)
  BY FS_Subset DEF Active
<1>2. Cardinality(Active) \in Nat /\ Cardinality(Active) < 1
  BY <1>1, FS_CardinalityType DEF Call
<1>3. Active = {}
  BY <1>1, <1>2, FS_EmptySet
<1> QED
  BY <1>3 DEF Active, Solo, Idle

\* A thread that is served is alone.
LEMMA ActiveSolo ==
  ASSUME Alone, NEW t \in Threads, pc[t] \notin Idle
  PROVE  Solo(t)
  BY DEF Alone, Active, Solo, Idle

\* A thread that takes a step is refused, or is alone.
LEMMA HandleSolo ==
  ASSUME MaxActive = 1, IsFiniteSet(Threads), Alone, NEW t \in Threads, Handle(t)
  PROVE  Refuse(t) \/ Solo(t)
<1>1. CASE \E l, j : Call(t, l, j)
  BY <1>1, CallSolo
<1>2. CASE pc[t] \notin Idle
  BY <1>2, ActiveSolo
<1>3. \/ Refuse(t) \/ pc[t] \notin Idle \/ \E l, j : Call(t, l, j)
  <2>1. CASE Submit(t)
    BY <2>1 DEF Submit, SubmitCall, SubmitInsert, SubmitAudit, PreviewRun,
                PreviewInsert, PreviewStatus, PreviewAudit, Idle
  <2>2. CASE List(t) \/ RequestApproval(t)
    BY <2>2 DEF List, ListCall, ListSweep, RequestApproval, RequestCall, CallOn,
                RequestGet, RequestStatus, RequestAudit, Idle
  <2>3. CASE Approve(t)
    BY <2>3 DEF Approve, ApproveCall, CallOn, ApproveSweep, ApproveGet,
                ApproveDeadline, ApproveInsert, ApproveStatus, ApproveAudit, Idle
  <2>4. CASE Reject(t)
    BY <2>4 DEF Reject, RejectCall, CallOn, RejectGet, RejectInsert,
                RejectStatus, RejectAudit, Idle
  <2>5. CASE Execute(t)
    BY <2>5 DEF Execute, ExecuteCall, CallOn, ExecuteSweep, ExecuteGet,
                ExecuteMismatch, ExecuteRun, ExecuteRecord, ExecuteStatus,
                ExecuteAudit, Idle
  <2> QED
    BY <2>1, <2>2, <2>3, <2>4, <2>5 DEF Handle
<1> QED
  BY <1>1, <1>2, <1>3

-----------------------------------------------------------------------------
\* Steps of Lifecycle.

Same == UNCHANGED <<[i \in Ids |-> Status(i)], Runs>>

Life == [L!Next]_(L!vars)

\* A step that changes neither statuses nor commits stutters in Lifecycle.
LEMMA SameStep ==
  ASSUME \A i \in Ids : requests'[i].status = requests[i].status,
         UNCHANGED commits
  PROVE  Life
<1>1. Same
  BY DEF Same, Status, Runs
<1> QED
  BY <1>1 DEF Life, L!vars, Same

\* The UPDATE of a status is a move of Lifecycle, or nothing.
LEMMA MoveStep ==
  ASSUME TypeInv, NEW o, NEW i \in Ids, NEW s, UpdateStatus(o, i, s),
         UNCHANGED commits
  PROVE  \/ Life
         \/ L!Move(i, Status(i), s)
<1>1. Runs' = Runs
  BY DEF Runs
<1>2. CASE o = "lost"
  BY <1>2, SameStep DEF UpdateStatus
<1>3. CASE o # "lost"
  <2>1. [k \in Ids |-> Status(k)]' = [[k \in Ids |-> Status(k)] EXCEPT ![i] = s]
    BY <1>3 DEF UpdateStatus, Status, TypeInv, TypeOK, TablesTypeOK, RequestRow
  <2> QED
    BY <1>1, <2>1 DEF L!Move
<1> QED
  BY <1>2, <1>3

\* The sweep is a step of Lifecycle.
LEMMA SweepStep ==
  ASSUME TypeInv, NEW o, NEW n, ExpireStaleApprovals(o, n), UNCHANGED commits
  PROVE  Life
<1>1. Runs' = Runs
  BY DEF Runs
<1>2. CASE o = "lost"
  BY <1>2, SameStep DEF ExpireStaleApprovals
<1>3. CASE o # "lost"
  <2>1. Stale(n) \in SUBSET {i \in Ids : [k \in Ids |-> Status(k)][i] = "approved"}
    BY DEF Stale, Status
  <2>2. [k \in Ids |-> Status(k)]' =
            [i \in Ids |-> IF i \in Stale(n) THEN "expired"
                                             ELSE [k \in Ids |-> Status(k)][i]]
    BY <1>3 DEF ExpireStaleApprovals, Status, TypeInv, TypeOK, TablesTypeOK, RequestRow
  <2>3. L!Sweep
    BY <1>1, <2>1, <2>2 DEF L!Sweep
  <2> QED
    BY <2>3 DEF Life, L!Next
<1> QED
  BY <1>2, <1>3

-----------------------------------------------------------------------------
\* Handlers: a step of t is a step of Lifecycle, and leaves its request as the
\* label t goes to wants it.

Kept(t) == Holds(pc'[t], requests'[job'[t].req].status)

\* The labels that want nothing of the status.
Free(l) == \A s : Holds(l, s)

\* A step that changes no request, to a label that wants nothing of one.
LEMMA FreeStep ==
  ASSUME TypeInv, NEW t \in Threads, NEW l, NEW j, Free(l), Continue(t, l, j),
         UNCHANGED requests
  PROVE  Life /\ Kept(t)
<1>1. pc'[t] = l /\ commits' = commits
  BY ContinueFacts DEF Continue
<1>2. Kept(t)
  BY <1>1 DEF Kept, Free
<1> QED
  BY <1>1, <1>2, SameStep

\* The sweep, before a label that wants nothing of the status.
LEMMA FreeSweep ==
  ASSUME TypeInv, NEW t \in Threads, NEW l, NEW j, Free(l), Continue(t, l, j),
         NEW o, NEW n, ExpireStaleApprovals(o, n)
  PROVE  Life /\ Kept(t)
<1>1. pc'[t] = l /\ commits' = commits
  BY ContinueFacts DEF Continue
<1>2. Kept(t)
  BY <1>1 DEF Kept, Free
<1> QED
  BY <1>1, <1>2, SweepStep

\* A move, before a label that wants nothing of the status.
LEMMA FreeMove ==
  ASSUME TypeInv, NEW t \in Threads, job[t].req \in Ids, NEW l, Free(l), NEW s,
         SetStatus(t, s, l),
         L!Move(job[t].req, Row(t).status, s) => Life
  PROVE  Life /\ Kept(t)
<1>1. pc'[t] = l /\ commits' = commits
  BY ContinueFacts DEF SetStatus, Then, Continue
<1>2. Kept(t)
  BY <1>1 DEF Kept, Free
<1>3. Life
  BY <1>1, MoveStep DEF SetStatus, Status, Row
<1> QED
  BY <1>2, <1>3

\* Going on with the same request.
LEMMA KeepStep ==
  ASSUME TypeInv, NEW t \in Threads, NEW l, NEW j, j.req = job[t].req,
         Continue(t, l, j), UNCHANGED requests, Holds(l, Row(t).status)
  PROVE  Life /\ Kept(t)
<1>1. pc'[t] = l /\ job'[t] = j /\ commits' = commits
  BY ContinueFacts DEF Continue
<1>2. Kept(t)
  BY <1>1 DEF Kept, Row
<1> QED
  BY <1>1, <1>2, SameStep

\* A submission takes steps of Lifecycle.
LEMMA SubmitLife ==
  ASSUME TypeInv, PreviewInv, NEW t \in Threads, Submit(t)
  PROVE  Life /\ Kept(t)
<1> USE DEF Free, Holds
<1>1. CASE SubmitCall(t)
  <2>1. \E j : Call(t, "sub_insert", j)
    BY <1>1 DEF SubmitCall
  <2> QED
    BY <2>1, FreeStep DEF Call, tables
<1>2. CASE SubmitInsert(t)
  <2>1. \E l \in {"done", "sub_audit"} : \E j : Continue(t, l, j)
    BY <1>2 DEF SubmitInsert, Reply
  <2>2. Kept(t) /\ commits' = commits
    BY <2>1, ContinueFacts DEF Kept, Continue
  <2>3. CASE UNCHANGED tables
    BY <2>2, <2>3, SameStep DEF tables
  <2>4. ASSUME NEW o, NEW k \in Ids, NEW q, NEW d, NEW u,
               InsertRequest(o, k, q, d, u)
        PROVE  Life
    <3>1. CASE o = "lost"
      BY <2>2, <2>4, <3>1, SameStep DEF InsertRequest
    <3>2. CASE o # "lost"
      <4>1. Runs' = Runs
        BY <2>2 DEF Runs
      <4>2. /\ Status(k) = "absent"
            /\ [i \in Ids |-> Status(i)]' =
                   [[i \in Ids |-> Status(i)] EXCEPT ![k] = "submitted"]
        BY <2>4, <3>2 DEF InsertRequest, Status, Exists, TypeInv, TypeOK, TablesTypeOK
      <4>3. L!Submit(k)
        BY <4>1, <4>2 DEF L!Submit, L!Move
      <4> QED
        BY <4>3 DEF Life, L!Next
    <3> QED
      BY <3>1, <3>2
  <2> QED
    BY <1>2, <2>2, <2>3, <2>4 DEF SubmitInsert
<1>3. CASE SubmitAudit(t)
  BY <1>3, FreeStep DEF SubmitAudit, Audit, AppendAuditEvent, Then
<1>4. CASE PreviewRun(t)
  BY <1>4, FreeStep DEF PreviewRun, Then, Reply, tables
<1>5. CASE PreviewInsert(t)
  BY <1>5, FreeStep DEF PreviewInsert, InsertPreview, Then, Reply
<1>6. CASE PreviewStatus(t)
  <2>1. job[t].req \in Ids /\ Row(t).status = "submitted"
    BY <1>6, LocalFacts DEF PreviewStatus, LocalsOK, NoRequest, NoUser,
                            PreviewInv, PipelineOK, Fresh
  <2>2. L!Move(job[t].req, "submitted", "previewed") => Life
    BY <2>1 DEF Life, L!Next, L!Preview
  <2> QED
    BY <1>6, <2>1, <2>2, FreeMove DEF PreviewStatus
<1>7. CASE PreviewAudit(t)
  BY <1>7, FreeStep DEF PreviewAudit, Audit, AppendAuditEvent, Reply
<1> QED
  BY <1>1, <1>2, <1>3, <1>4, <1>5, <1>6, <1>7 DEF Submit

\* So do the list, a request for approval and a refusal,
LEMMA RequestLife ==
  ASSUME TypeInv, Held, NEW t \in Threads,
         Refuse(t) \/ List(t) \/ RequestApproval(t)
  PROVE  Life /\ Kept(t)
<1> USE DEF Free, Holds
<1>1. CASE ListCall(t) \/ RequestCall(t)
  <2>1. \E l \in {"list_sweep", "req_get"} : \E j : Call(t, l, j)
    BY <1>1 DEF ListCall, RequestCall, CallOn
  <2> QED
    BY <2>1, FreeStep DEF Call, tables
<1>2. CASE ListSweep(t)
  BY <1>2, FreeSweep DEF ListSweep, Sweep, Reply
<1>3. CASE RequestGet(t)
  BY <1>3, FreeStep, KeepStep DEF RequestGet, GetRequest, Reply, tables
<1>4. CASE RequestStatus(t)
  <2>1. job[t].req \in Ids /\ Row(t).status = "previewed"
    BY <1>4, LocalFacts DEF RequestStatus, LocalsOK, NoRequest, NoUser, Held
  <2>2. L!Move(job[t].req, "previewed", "pending_approval") => Life
    BY <2>1 DEF Life, L!Next, L!RequestApproval
  <2> QED
    BY <1>4, <2>1, <2>2, FreeMove DEF RequestStatus
<1>5. CASE RequestAudit(t)
  BY <1>5, FreeStep DEF RequestAudit, Audit, AppendAuditEvent, Reply
<1>6. CASE Refuse(t)
  BY <1>6, FreeStep DEF Refuse, Reply, tables
<1> QED
  BY <1>1, <1>2, <1>3, <1>4, <1>5, <1>6 DEF List, RequestApproval

\* a decision,
LEMMA DecideLife ==
  ASSUME TypeInv, Held, NEW t \in Threads, Approve(t) \/ Reject(t)
  PROVE  Life /\ Kept(t)
<1> USE DEF Free, Holds
<1>1. CASE ApproveCall(t) \/ RejectCall(t)
  <2>1. \E l \in {"app_sweep", "rej_get"} : \E j : Call(t, l, j)
    BY <1>1 DEF ApproveCall, RejectCall, CallOn
  <2> QED
    BY <2>1, FreeStep DEF Call, tables
<1>2. CASE ApproveSweep(t)
  BY <1>2, FreeSweep DEF ApproveSweep, Sweep, Then
<1>3. CASE ApproveGet(t) \/ RejectGet(t)
  BY <1>3, FreeStep, KeepStep
     DEF ApproveGet, RejectGet, GetRequest, MayDecide, Reply, tables
<1>4. CASE ApproveDeadline(t)
  <2> DEFINE j == [job[t] EXCEPT !.expires = Deadline]
  <2>1. j.req = job[t].req
    BY LocalFacts DEF Job
  <2> HIDE DEF j
  <2>2. Continue(t, "app_insert", j) /\ UNCHANGED requests
    BY <1>4 DEF ApproveDeadline, tables, j
  <2>3. Holds("app_insert", Row(t).status)
    BY <1>4 DEF ApproveDeadline, Held
  <2> QED
    BY <2>1, <2>2, <2>3, KeepStep
<1>5. CASE ApproveInsert(t) \/ RejectInsert(t)
  <2>1. \E l \in {"app_status", "rej_status"} : Continue(t, l, job[t])
    BY <1>5 DEF ApproveInsert, RejectInsert, Then
  <2>2. UNCHANGED requests
    BY <1>5 DEF ApproveInsert, RejectInsert, InsertApproval
  <2>3. Row(t).status = "pending_approval"
    BY <1>5 DEF ApproveInsert, RejectInsert, Held
  <2> QED
    BY <2>1, <2>2, <2>3, KeepStep
<1>6. CASE ApproveStatus(t) \/ RejectStatus(t)
  <2>1. job[t].req \in Ids /\ Row(t).status = "pending_approval"
    BY <1>6, LocalFacts DEF ApproveStatus, RejectStatus, LocalsOK, NoRequest,
                            NoUser, Held
  <2>2. /\ L!Move(job[t].req, "pending_approval", "approved") => Life
        /\ L!Move(job[t].req, "pending_approval", "rejected") => Life
    BY <2>1 DEF Life, L!Next, L!Approve, L!Reject
  <2> QED
    BY <1>6, <2>1, <2>2, FreeMove DEF ApproveStatus, RejectStatus
<1>7. CASE ApproveAudit(t) \/ RejectAudit(t)
  BY <1>7, FreeStep DEF ApproveAudit, RejectAudit, Audit, AppendAuditEvent, Reply
<1> QED
  BY <1>1, <1>2, <1>3, <1>4, <1>5, <1>6, <1>7 DEF Approve, Reject

-----------------------------------------------------------------------------
\* Executions.

\* What one more commit does to the count of its request.
LEMMA RunStep ==
  ASSUME CommitsOK, NEW c, c \notin commits, c.req \in Ids,
         commits' = commits \cup {c}, UNCHANGED requests,
         requests[c.req].status = "approved"
  PROVE  Life
<1>1. ASSUME NEW i \in Ids
      PROVE  Runs'[i] = IF i = c.req THEN Runs[i] + 1 ELSE Runs[i]
  <2> DEFINE S == {d \in commits : d.req = i}
             T == {d \in commits' : d.req = i}
  <2>1. Runs[i] = Cardinality(S) /\ Runs'[i] = Cardinality(T)
    BY DEF Runs
  <2>2. IsFiniteSet(S) /\ c \notin S
    BY FS_Subset DEF CommitsOK
  <2>3. T = IF i = c.req THEN S \cup {c} ELSE S
    OBVIOUS
  <2> HIDE DEF S, T
  <2>4. Cardinality(S \cup {c}) = Cardinality(S) + 1
    BY <2>2, FS_AddElement
  <2> QED
    BY <2>1, <2>3, <2>4
<1>2. Runs' = [Runs EXCEPT ![c.req] = @ + 1]
  <2>1. Runs = [i \in Ids |-> Runs[i]] /\ Runs' = [i \in Ids |-> Runs'[i]]
    BY DEF Runs
  <2> QED
    BY <1>1, <2>1
<1>3. [i \in Ids |-> Status(i)]' = [i \in Ids |-> Status(i)]
  BY DEF Status
<1>4. L!Run(c.req)
  BY <1>2, <1>3 DEF L!Run, Status
<1> QED
  BY <1>4 DEF Life, L!Next

\* the run at the target,
LEMMA ExecuteRunLife ==
  ASSUME TypeInv, Held, CommitsOK, NEW t \in Threads, ExecuteRun(t)
  PROVE  Life /\ Kept(t)
<1>1. /\ pc[t] = "exe_run" /\ job[t] \in Job /\ job[t].req \in Ids
      /\ Row(t).status = "approved" /\ UNCHANGED requests
  BY LocalFacts DEF ExecuteRun, tables, LocalsOK, NoRequest, NoUser, Held, Holds
<1>2. CASE Reply(t)
  BY <1>1, <1>2, FreeStep DEF Reply, Free, Holds
<1>3. ASSUME NEW o,
             commits' = IF o = "lost" THEN commits ELSE commits \cup
                    {[thread |-> t, req |-> job[t].req, query |-> job[t].query]},
             pc' = [pc EXCEPT ![t] = "exe_record"],
             job' = [job EXCEPT ![t].failed = (o # "ok")]
      PROVE  Life /\ Kept(t)
  <2>1. pc'[t] = "exe_record" /\ job'[t].req = job[t].req
    BY <1>1, <1>3 DEF TypeInv, TypeOK, Job
  <2>2. Kept(t)
    BY <1>1, <2>1 DEF Kept, Holds, Row
  <2> DEFINE c == [thread |-> t, req |-> job[t].req, query |-> job[t].query]
  <2>3. c \notin commits
    BY <1>1 DEF CommitsOK, Ran
  <2>4. c.req = job[t].req
    OBVIOUS
  <2>5. commits' = commits \/ commits' = commits \cup {c}
    BY <1>3
  <2> HIDE DEF c
  <2>6. Life
    BY <1>1, <2>3, <2>4, <2>5, RunStep, SameStep DEF Row
  <2> QED
    BY <2>2, <2>6
<1> QED
  BY <1>2, <1>3 DEF ExecuteRun

\* every other step of an execution
LEMMA ExecuteLife ==
  ASSUME TypeInv, RunsInv, Held, CommitsOK, NEW t \in Threads, Execute(t)
  PROVE  Life /\ Kept(t)
<1> USE DEF Free, Holds
<1>1. CASE ExecuteCall(t)
  <2>1. \E j : Call(t, "exe_sweep", j)
    BY <1>1 DEF ExecuteCall, CallOn
  <2> QED
    BY <2>1, FreeStep DEF Call, tables
<1>2. CASE ExecuteSweep(t)
  <2>1. \E o, j : ExpireStaleApprovals(o, now) /\ Continue(t, "exe_get", j)
    BY <1>2 DEF ExecuteSweep
  <2> QED
    BY <2>1, FreeSweep
<1>3. CASE ExecuteGet(t)
  <2>1. UNCHANGED requests
    BY <1>3 DEF ExecuteGet, GetRequest, tables
  <2>2. CASE Reply(t)
    BY <2>1, <2>2, FreeStep DEF Reply
  <2> DEFINE l == IF Verified(t) THEN "exe_run" ELSE "exe_mismatch"
             j == [job[t] EXCEPT !.query = Row(t).query_text,
                                 !.kind = Row(t).target_kind]
  <2>3. CASE Row(t).status = "approved" /\ Continue(t, l, j)
    <3>1. j.req = job[t].req
      BY LocalFacts DEF Job
    <3>2. Holds(l, Row(t).status)
      BY <2>3
    <3> HIDE DEF l, j
    <3> QED
      BY <2>1, <2>3, <3>1, <3>2, KeepStep
  <2> QED
    BY <1>3, <2>2, <2>3 DEF ExecuteGet, GetRequest
<1>4. CASE ExecuteMismatch(t)
  BY <1>4, FreeStep DEF ExecuteMismatch, InsertExecution, Reply
<1>5. CASE ExecuteRun(t)
  BY <1>5, ExecuteRunLife
<1>6. CASE ExecuteRecord(t)
  <2>1. \E l \in {"exe_audit", "exe_status"} : Continue(t, l, job[t])
    BY <1>6 DEF ExecuteRecord, Then
  <2>2. UNCHANGED requests /\ Row(t).status = "approved"
    BY <1>6 DEF ExecuteRecord, InsertExecution, Held
  <2> QED
    BY <2>1, <2>2, KeepStep
<1>7. CASE ExecuteStatus(t)
  <2>1. job[t].req \in Ids /\ Row(t).status = "approved"
    BY <1>7, LocalFacts DEF ExecuteStatus, LocalsOK, NoRequest, NoUser, Held
  <2>2. Runs[job[t].req] > 0
    <3> DEFINE S == {c \in commits : c.req = job[t].req}
    <3>1. S # {}
      BY <1>7 DEF ExecuteStatus, RunsInv, ExecutorsOK
    <3>2. IsFiniteSet(S)
      BY FS_Subset DEF CommitsOK
    <3>3. Runs[job[t].req] = Cardinality(S)
      BY <2>1 DEF Runs
    <3> HIDE DEF S
    <3> QED
      BY <3>1, <3>2, <3>3, FS_EmptySet, FS_CardinalityType
  <2>3. L!Move(job[t].req, "approved", "executed") => Life
    BY <2>1, <2>2 DEF Life, L!Next, L!Record
  <2> QED
    BY <1>7, <2>1, <2>3, FreeMove DEF ExecuteStatus
<1>8. CASE ExecuteAudit(t)
  BY <1>8, FreeStep DEF ExecuteAudit, Audit, AppendAuditEvent, Reply
<1> QED
  BY <1>1, <1>2, <1>3, <1>4, <1>5, <1>6, <1>7, <1>8 DEF Execute

\* and so every step of a handler.
LEMMA HandleLife ==
  ASSUME TypeInv, PreviewInv, RunsInv, Held, CommitsOK, NEW t \in Threads, Handle(t)
  PROVE  Life /\ Kept(t)
  BY SubmitLife, RequestLife, DecideLife, ExecuteLife DEF Handle

-----------------------------------------------------------------------------
\* Which statement a label stands for, and which one commits.

\* The label of a thread tells its next step.
LEMMA LabelTells ==
  ASSUME NEW t \in Threads, Handle(t)
  PROVE  /\ pc[t] = "new" \/ pc[t] \notin Idle
         /\ pc[t] = "exe_run" => ExecuteRun(t)
         /\ pc[t] = "exe_record" => ExecuteRecord(t)
         /\ pc[t] = "exe_status" => ExecuteStatus(t)
         /\ pc[t] = "exe_audit" => ExecuteAudit(t)
<1>1. CASE Submit(t)
  BY <1>1 DEF Submit, SubmitCall, Call, SubmitInsert, SubmitAudit, PreviewRun,
              PreviewInsert, PreviewStatus, PreviewAudit, Idle
<1>2. CASE List(t) \/ RequestApproval(t) \/ Refuse(t)
  BY <1>2 DEF List, ListCall, Call, ListSweep, RequestApproval, RequestCall,
              CallOn, RequestGet, RequestStatus, RequestAudit, Refuse, Idle
<1>3. CASE Approve(t)
  BY <1>3 DEF Approve, ApproveCall, CallOn, Call, ApproveSweep, ApproveGet,
              ApproveDeadline, ApproveInsert, ApproveStatus, ApproveAudit, Idle
<1>4. CASE Reject(t)
  BY <1>4 DEF Reject, RejectCall, CallOn, Call, RejectGet, RejectInsert,
              RejectStatus, RejectAudit, Idle
<1>5. CASE Execute(t)
  <2>1. \/ ExecuteCall(t) /\ pc[t] = "new"
        \/ ExecuteSweep(t) /\ pc[t] = "exe_sweep"
        \/ ExecuteGet(t) /\ pc[t] = "exe_get"
        \/ ExecuteMismatch(t) /\ pc[t] = "exe_mismatch"
        \/ ExecuteRun(t) /\ pc[t] = "exe_run"
        \/ ExecuteRecord(t) /\ pc[t] = "exe_record"
        \/ ExecuteStatus(t) /\ pc[t] = "exe_status"
        \/ ExecuteAudit(t) /\ pc[t] = "exe_audit"
    BY <1>5 DEF Execute, ExecuteCall, CallOn, Call, ExecuteSweep, ExecuteGet,
                ExecuteMismatch, ExecuteRun, ExecuteRecord, ExecuteStatus,
                ExecuteAudit
  <2> QED
    BY <2>1 DEF Idle
<1> QED
  BY <1>1, <1>2, <1>3, <1>4, <1>5 DEF Handle

\* Only ExecuteRun commits, and it commits one text.
LEMMA CommitsInRun ==
  ASSUME TypeInv, RunsInv, NEW t \in Threads, Handle(t), commits' # commits
  PROVE  /\ ExecuteRun(t) /\ pc[t] = "exe_run" /\ pc'[t] = "exe_record"
         /\ \E c : /\ c.thread = t /\ c.req = job[t].req
                   /\ commits' = commits \cup {c}
<1>1. \E c \in commits' : c \notin commits
  BY TypeInvStep DEF Next, Grows
<1>2. pc[t] = "exe_run"
  BY <1>1, SubmitRuns, ListRequestRuns, DecideRuns, ExecuteRuns
     DEF Handle, RecordStep
<1>3. ExecuteRun(t)
  BY <1>2, LabelTells
<1>4. ~Reply(t)
  BY DEF Reply, Continue
<1>5. pc'[t] = "exe_record"
  BY <1>3, <1>4 DEF ExecuteRun, TypeInv, TypeOK
<1> DEFINE c == [thread |-> t, req |-> job[t].req, query |-> job[t].query]
<1>6. c.thread = t /\ c.req = job[t].req
  OBVIOUS
<1>7. commits' = commits \cup {c}
  BY <1>3, <1>4 DEF ExecuteRun
<1> HIDE DEF c
<1> QED
  BY <1>2, <1>3, <1>5, <1>6, <1>7

\* A thread that committed is past its run, and the commits are finitely many.
LEMMA CommitStep ==
  ASSUME TypeInv, RunsInv, CommitsOK, NEW t \in Threads, Handle(t)
  PROVE  CommitsOK'
<1>1. StaysPut(t)
  BY HandleDecisions
<1>2. pc[t] \in Ran => pc'[t] \in Ran
  <2>1. CASE pc[t] = "exe_record"
    BY <2>1, LabelTells, ContinueFacts DEF ExecuteRecord, Then, Ran
  <2>2. CASE pc[t] = "exe_status"
    BY <2>2, LabelTells, ContinueFacts DEF ExecuteStatus, SetStatus, Then, Ran
  <2>3. CASE pc[t] = "exe_audit"
    BY <2>3, LabelTells, ContinueFacts DEF ExecuteAudit, Reply, Ran
  <2> QED
    BY <2>1, <2>2, <2>3, LabelTells DEF Ran, Idle
<1>3. CASE commits' = commits
  BY <1>1, <1>2, <1>3 DEF CommitsOK, StaysPut, TypeInv, TypeOK, Commit
<1>4. CASE commits' # commits
  <2>1. pc[t] = "exe_run"
    BY <1>4, CommitsInRun
  <2>2. PICK c : c.thread = t /\ commits' = commits \cup {c} /\ pc'[t] = "exe_record"
    BY <1>4, <2>1, CommitsInRun
  <2>3. IsFiniteSet(commits')
    BY <2>2, FS_AddElement DEF CommitsOK
  <2> QED
    BY <1>1, <1>2, <2>2, <2>3 DEF CommitsOK, StaysPut, TypeInv, TypeOK, Commit, Ran
<1> QED
  BY <1>3, <1>4

\* A handler that is alone takes a step of Lifecycle.
LEMMA SerialStep ==
  ASSUME MaxActive = 1, IsFiniteSet(Threads), TypeInv, PreviewInv, RunsInv,
         SerialInv, NEW t \in Threads, Handle(t)
  PROVE  Life /\ SerialInv'
<1>1. Life /\ Kept(t) /\ CommitsOK' /\ StaysPut(t)
  BY HandleLife, CommitStep, HandleDecisions DEF SerialInv
<1>2. CASE Refuse(t)
  <2>1. pc[t] = "new" /\ pc'[t] = "done" /\ UNCHANGED requests
    BY <1>2, ContinueFacts DEF Refuse, Reply, tables
  <2>2. Alone'
    BY <1>1, <2>1 DEF SerialInv, Alone, Active, StaysPut
  <2>3. Held'
    BY <1>1, <2>1 DEF SerialInv, Held, Holds, Row, StaysPut
  <2> QED
    BY <1>1, <2>2, <2>3 DEF SerialInv
<1>3. CASE Solo(t)
  <2>1. \A u \in Threads \ {t} : pc'[u] \in Idle
    BY <1>1, <1>3 DEF Solo, StaysPut
  <2>2. Alone'
    BY <2>1 DEF Alone, Active, Idle
  <2>3. Held'
    BY <1>1, <2>1 DEF Held, Holds, Kept, Row, Idle
  <2> QED
    BY <1>1, <2>2, <2>3 DEF SerialInv
<1> QED
  BY <1>1, <1>2, <1>3, HandleSolo DEF SerialInv

\* What happens around the handlers leaves the statuses and the commits alone.
LEMMA AroundSerial ==
  ASSUME TypeInv, SerialInv, Tick \/ Tamper \/ Crash \/ UNCHANGED vars
  PROVE  Life /\ SerialInv'
<1>1. /\ UNCHANGED commits
      /\ \A i \in Ids : requests'[i].status = requests[i].status
  <2>1. CASE Tamper
    BY <2>1 DEF Tamper, TypeInv, TypeOK, TablesTypeOK, RequestRow
  <2>2. CASE Tick \/ Crash \/ UNCHANGED vars
    BY <2>2 DEF Tick, Crash, vars, tables
  <2> QED
    BY <2>1, <2>2
<1>2. \A t \in Threads :
         \/ pc'[t] = pc[t] /\ job'[t] = job[t]
         \/ pc'[t] = "killed"
         \/ pc'[t] = pc[t] /\ pc[t] \in Idle
  BY DEF Tick, Tamper, Crash, Active, vars, tables, TypeInv, TypeOK, Idle
<1>3. Alone' /\ CommitsOK'
  BY <1>1, <1>2 DEF SerialInv, Alone, Active, CommitsOK, Ran, TypeInv, TypeOK, Commit
<1>4. Held'
  <2> SUFFICES ASSUME NEW t \in Threads PROVE Holds(pc'[t], requests'[job'[t].req].status)
    BY DEF Held, Row
  <2>1. CASE pc'[t] \in Idle
    BY <2>1 DEF Holds, Idle
  <2>2. CASE pc'[t] \notin Idle
    <3>1. pc'[t] = pc[t] /\ job'[t] = job[t]
      BY <1>2, <2>2 DEF Idle
    <3>2. pc[t] \in NoRequest \/ job[t].req \in Ids
      BY LocalFacts DEF LocalsOK
    <3> QED
      BY <1>1, <3>1, <3>2 DEF SerialInv, Held, Row, Holds, NoRequest, NoUser
  <2> QED
    BY <2>1, <2>2
<1> QED
  BY <1>1, <1>3, <1>4, SameStep DEF SerialInv

\* Every step is one of Lifecycle and keeps the invariant,
LEMMA SerialInvStep ==
  ASSUME MaxActive = 1, IsFiniteSet(Threads), GateInv, SerialInv, [Next]_vars
  PROVE  Life /\ SerialInv'
<1>1. TypeInv /\ PreviewInv /\ RunsInv
  BY DEF GateInv, PreviewInv, RunsInv
<1> QED
  BY <1>1, SerialStep, AroundSerial DEF Next, Finished

\* which holds at first.
LEMMA SerialInvInit == Init => SerialInv /\ L!Init
<1> SUFFICES ASSUME Init PROVE SerialInv /\ L!Init
  OBVIOUS
<1>1. SerialInv
  BY FS_EmptySet DEF Init, TablesInit, SerialInv, Alone, Active, Held, Holds, CommitsOK
<1>2. ASSUME NEW i \in Ids PROVE Status(i) = "absent" /\ Runs[i] = 0
  <2>1. {c \in commits : c.req = i} = {}
    BY DEF Init
  <2> QED
    BY <2>1, FS_EmptySet DEF Init, TablesInit, NoRow, Status, Runs
<1>3. L!Init
  BY <1>2 DEF L!Init, Runs
<1> QED
  BY <1>1, <1>3

\* One request at a time, the workflow implements the documented life cycle:
\* every UPDATE finds the status its handler checked, and "executed" follows a
\* commit, also when statements fail and the process is killed between any two
\* of them (src/main.rs:195-380, src/execute/engine.rs:32-103).
THEOREM ImplementsLifecycleHolds ==
  ASSUME MaxActive = 1, IsFiniteSet(Threads)
  PROVE  Spec => ImplementsLifecycle
<1>1. Init => SerialInv /\ L!Init
  BY SerialInvInit
<1>2. GateInv /\ SerialInv /\ [Next]_vars => SerialInv' /\ [L!Next]_(L!vars)
  BY SerialInvStep DEF Life
<1>3. Spec => []GateInv
  BY GateInvHolds
<1> QED
  BY <1>1, <1>2, <1>3, PTL DEF Spec, ImplementsLifecycle, L!Spec

-----------------------------------------------------------------------------
\* With a reliable database that is not killed, a commit is followed by its
\* bookkeeping before anybody else looks at the request.

Booking(t, i) == /\ pc[t] \in {"exe_record", "exe_status"}
                 /\ job[t].req = i
                 /\ ~job[t].failed

Settled == \A c \in commits : \/ Status(c.req) = "executed"
                              \/ \E t \in Threads : Booking(t, c.req)

Single == \A c, d \in commits : c.req = d.req => c = d

OnceInv == Settled /\ Single

\* In Lifecycle an executed request stays executed.
LEMMA ExecutedStays ==
  ASSUME Life, NEW i \in Ids, Status(i) = "executed"
  PROVE  Status(i)' = "executed"
<1> DEFINE f == [k \in Ids |-> Status(k)]
<1>1. f[i] = "executed"
  OBVIOUS
<1>2. f'[i] = Status(i)' /\ f \in [Ids -> {f[k] : k \in Ids}]
  OBVIOUS
<1> HIDE DEF f
<1>3. CASE UNCHANGED <<f, Runs>>
  BY <1>1, <1>2, <1>3
<1>4. ASSUME NEW k \in Ids, NEW from, from # "executed", NEW to,
             f[k] = from, f' = [f EXCEPT ![k] = to]
      PROVE  f'[i] = "executed"
  BY <1>1, <1>2, <1>4
<1>5. CASE L!Next
  <2>1. \/ f' = f
        \/ \E k \in Ids : \E from \in {"absent", "submitted", "previewed",
                                        "pending_approval", "approved"} :
               \E to : f[k] = from /\ f' = [f EXCEPT ![k] = to]
        \/ \E S \in SUBSET {k \in Ids : f[k] = "approved"} :
               f' = [k \in Ids |-> IF k \in S THEN "expired" ELSE f[k]]
    BY <1>5 DEF L!Next, L!Submit, L!Preview, L!RequestApproval, L!Approve,
                L!Reject, L!Run, L!Record, L!Move, L!Sweep, f
  <2> QED
    BY <1>1, <1>2, <1>4, <2>1
<1> QED
  BY <1>2, <1>3, <1>5 DEF Life, L!vars, f

\* A commit that is being recorded is recorded, or the request is executed.
LEMMA BookingStep ==
  ASSUME TypeInv, RunsInv, Outcomes = {"ok"}, NEW t \in Threads, Handle(t),
         NEW i \in Ids, Booking(t, i)
  PROVE  Booking(t, i)' \/ Status(i)' = "executed"
<1>1. CASE pc[t] = "exe_record"
  <2>1. Then(t, "exe_status")
    BY <1>1, LabelTells DEF ExecuteRecord, Booking
  <2> QED
    BY <2>1, ContinueFacts DEF Then, Booking
<1>2. CASE pc[t] = "exe_status"
  <2>1. UpdateStatus("ok", i, "executed")
    BY <1>2, LabelTells DEF ExecuteStatus, SetStatus, Booking
  <2>2. requests'[i].status = "executed"
    BY <2>1 DEF UpdateStatus, TypeInv, TypeOK, TablesTypeOK, RequestRow
  <2> QED
    BY <2>2 DEF Status
<1> QED
  BY <1>1, <1>2 DEF Booking

\* A commit goes on to be recorded.
LEMMA RunBooks ==
  ASSUME TypeInv, RunsInv, Outcomes = {"ok"}, NEW t \in Threads, Handle(t),
         commits' # commits
  PROVE  pc'[t] = "exe_record" /\ job'[t].req = job[t].req /\ ~job'[t].failed
<1>1. ExecuteRun(t) /\ pc'[t] = "exe_record"
  BY CommitsInRun
<1>2. job' = [job EXCEPT ![t].failed = FALSE]
  BY <1>1 DEF ExecuteRun, Reply, Continue
<1>3. job'[t].req = job[t].req /\ job'[t].failed = FALSE
  BY <1>2, LocalFacts DEF TypeInv, TypeOK, Job
<1> QED
  BY <1>1, <1>3

\* A step of a handler keeps the invariant: a request that is executed, or
\* being recorded, is not run again.
LEMMA OnceHandle ==
  ASSUME TypeInv, RunsInv, SerialInv, OnceInv, Life, Outcomes = {"ok"},
         NEW t \in Threads, Handle(t)
  PROVE  OnceInv'
<1> USE DEF OnceInv
<1>1. StaysPut(t) /\ \A c \in commits : c.req \in Ids
  BY HandleDecisions DEF TypeInv, TypeOK, Commit
<1>2. ASSUME NEW c \in commits
      PROVE  \/ Status(c.req)' = "executed"
             \/ \E u \in Threads : Booking(u, c.req)'
  <2>1. CASE Status(c.req) = "executed"
    BY <1>1, <2>1, ExecutedStays
  <2>2. ASSUME NEW u \in Threads, Booking(u, c.req)
        PROVE  Booking(u, c.req)' \/ Status(c.req)' = "executed"
    <3>1. CASE u = t
      BY <1>1, <2>2, <3>1, BookingStep
    <3>2. CASE u # t
      BY <1>1, <2>2, <3>2 DEF StaysPut, Booking
    <3> QED
      BY <3>1, <3>2
  <2> QED
    BY <2>1, <2>2 DEF Settled
<1>3. CASE commits' = commits
  BY <1>2, <1>3 DEF Settled, Single
<1>4. CASE commits' # commits
  <2>1. PICK c : /\ c.req = job[t].req /\ commits' = commits \cup {c}
                 /\ pc[t] = "exe_run"
    BY <1>4, CommitsInRun
  <2>2. Booking(t, c.req)'
    BY <1>4, <2>1, RunBooks DEF Booking
  <2>3. Settled'
    BY <1>2, <2>1, <2>2 DEF Settled
  <2>4. Row(t).status = "approved"
    BY <2>1 DEF SerialInv, Held, Holds
  <2>5. ASSUME NEW u \in Threads, Booking(u, c.req) PROVE FALSE
    BY <2>1, <2>5 DEF Booking, SerialInv, Alone, Active
  <2>6. \A d \in commits : d.req # c.req
    BY <2>1, <2>4, <2>5 DEF Settled, Status, Row
  <2> QED
    BY <2>1, <2>3, <2>6 DEF Single
<1> QED
  BY <1>3, <1>4

\* Every step keeps the invariant.
LEMMA OnceInvStep ==
  ASSUME MaxActive = 1, IsFiniteSet(Threads), Outcomes = {"ok"}, ~CanCrash,
         GateInv, SerialInv, OnceInv, [Next]_vars
  PROVE  OnceInv'
<1>1. TypeInv /\ RunsInv /\ Life
  BY SerialInvStep DEF GateInv, RunsInv
<1>2. CASE Tick \/ Tamper \/ UNCHANGED vars
  <2>1. UNCHANGED <<pc, job, commits>>
    BY <1>2 DEF Tick, Tamper, vars
  <2>2. \A c \in commits : c.req \in Ids
    BY <1>1 DEF TypeInv, TypeOK, Commit
  <2>3. \A i \in Ids : Status(i) = "executed" => Status(i)' = "executed"
    BY <1>1, ExecutedStays
  <2> QED
    BY <2>1, <2>2, <2>3 DEF OnceInv, Settled, Single, Booking
<1> QED
  BY <1>1, <1>2, OnceHandle DEF Next, Finished, Crash

\* One request at a time, over a reliable database and without a kill, an
\* approved text is committed at most once, however often it is submitted for
\* execution (src/execute/engine.rs:32, 88).
THEOREM AtMostOnceHolds ==
  ASSUME MaxActive = 1, IsFiniteSet(Threads), Outcomes = {"ok"}, ~CanCrash
  PROVE  Spec => []AtMostOnce
<1> DEFINE Inv == SerialInv /\ OnceInv
<1>1. Init => Inv
  BY SerialInvInit DEF Init, OnceInv, Settled, Single
<1>2. GateInv /\ Inv /\ [Next]_vars => Inv'
  BY SerialInvStep, OnceInvStep
<1>3. Inv => AtMostOnce
  <2> SUFFICES ASSUME Inv, NEW i \in Ids PROVE Runs[i] <= 1
    BY DEF AtMostOnce
  <2> DEFINE S == {c \in commits : c.req = i}
  <2>1. Runs[i] = Cardinality(S)
    BY DEF Runs
  <2>2. S = {} \/ \E c : S = {c}
    BY DEF OnceInv, Single
  <2> HIDE DEF S
  <2> QED
    <3>1. Cardinality(S) = 0 \/ Cardinality(S) = 1
      BY <2>2, FS_EmptySet, FS_Singleton
    <3> QED
      BY <2>1, <3>1
<1>4. Spec => []GateInv
  BY GateInvHolds
<1> QED
  BY <1>1, <1>2, <1>3, <1>4, PTL DEF Spec

-----------------------------------------------------------------------------
\* Deadlines.

\* A deadline is at most TTL after its approval by SQLGate's clock: later than
\* the clock can tell, it becomes instant 0.
DeadlinesOK ==
    /\ \A t \in Threads : pc[t] = "app_insert" =>
           job[t].expires \in Nat /\ job[t].expires <= now + TTL + Lead
    /\ \A a \in approvals : a.decision = "approved" =>
           a.expires_at \in Nat /\ a.expires_at <= a.created_at + TTL + Lead

Outlived(i, instant) ==
    \A a \in approvals : a.req = i /\ a.decision = "approved" =>
        instant <= a.expires_at

\* What is approved when an execution fetches its row had not expired when it
\* swept, and neither has the request it goes on with.
SweptOK == \A t \in Threads :
    /\ pc[t] = "exe_get" => \A i \in Ids :
           Status(i) = "approved" => Outlived(i, job[t].swept)
    /\ pc[t] = "exe_run" => Outlived(job[t].req, job[t].swept)

FreshInv == DeadlinesOK /\ SweptOK

\* The statements that write deadlines and decisions, sweep for an execution
\* and let one go on.
LEMMA Reaches ==
  ASSUME TypeInv, NEW t \in Threads, Handle(t)
  PROVE  /\ pc'[t] = "app_insert" => ApproveDeadline(t)
         /\ pc'[t] = "exe_get" => ExecuteSweep(t)
         /\ pc'[t] = "exe_run" => ExecuteGet(t)
         /\ UNCHANGED approvals \/ ApproveInsert(t) \/ RejectInsert(t)
<1>0. \A l, j : Continue(t, l, j) => pc'[t] = l
  BY ContinueFacts
<1>1. CASE Submit(t)
  <2>1. pc'[t] \notin {"app_insert", "exe_get", "exe_run"}
    BY <1>0, <1>1 DEF Submit, SubmitCall, Call, SubmitInsert, SubmitAudit, PreviewRun,
                PreviewInsert, PreviewStatus, PreviewAudit, SetStatus, Then, Reply
  <2>2. UNCHANGED approvals
    BY <1>1 DEF Submit, SubmitCall, Call, SubmitInsert, SubmitAudit, PreviewRun,
                PreviewInsert, PreviewStatus, PreviewAudit, SetStatus, tables,
                InsertRequest, Audit, AppendAuditEvent, InsertPreview, UpdateStatus
  <2> QED
    BY <2>1, <2>2
<1>2. CASE List(t) \/ RequestApproval(t) \/ Refuse(t)
  <2>1. pc'[t] \notin {"app_insert", "exe_get", "exe_run"}
    BY <1>0, <1>2 DEF List, ListCall, Call, ListSweep, RequestApproval, RequestCall,
                CallOn, RequestGet, GetRequest, RequestStatus, RequestAudit,
                Refuse, SetStatus, Then, Reply
  <2>2. UNCHANGED approvals
    BY <1>2 DEF List, ListCall, Call, ListSweep, RequestApproval, RequestCall,
                CallOn, RequestGet, GetRequest, RequestStatus, RequestAudit,
                Refuse, SetStatus, tables, Sweep, ExpireStaleApprovals, Audit,
                AppendAuditEvent, UpdateStatus
  <2> QED
    BY <2>1, <2>2
<1>3. CASE Approve(t)
  <2>1. ApproveDeadline(t) \/ pc'[t] \notin {"app_insert", "exe_get", "exe_run"}
    BY <1>0, <1>3 DEF Approve, ApproveCall, CallOn, Call, ApproveSweep, ApproveGet,
                GetRequest, ApproveInsert, ApproveStatus, ApproveAudit,
                SetStatus, Then, Reply
  <2>2. pc'[t] = "app_insert" \/ ~ApproveDeadline(t)
    BY <1>0 DEF ApproveDeadline
  <2>3. UNCHANGED approvals \/ ApproveInsert(t)
    BY <1>3 DEF Approve, ApproveCall, CallOn, Call, ApproveSweep, ApproveGet,
                GetRequest, ApproveDeadline, ApproveStatus, ApproveAudit,
                SetStatus, tables, Sweep, ExpireStaleApprovals, Audit,
                AppendAuditEvent, UpdateStatus
  <2> QED
    BY <2>1, <2>2, <2>3
<1>4. CASE Reject(t)
  <2>1. pc'[t] \notin {"app_insert", "exe_get", "exe_run"}
    BY <1>0, <1>4 DEF Reject, RejectCall, CallOn, Call, RejectGet, GetRequest,
                RejectInsert, RejectStatus, RejectAudit, SetStatus, Then, Reply
  <2>2. UNCHANGED approvals \/ RejectInsert(t)
    BY <1>4 DEF Reject, RejectCall, CallOn, Call, RejectGet, GetRequest,
                RejectStatus, RejectAudit, SetStatus, tables, Audit,
                AppendAuditEvent, UpdateStatus
  <2> QED
    BY <2>1, <2>2
<1>5. CASE Execute(t)
  <2>1. pc[t] # "exe_run" \/ pc'[t] \in {"done", "exe_record"}
    BY <1>0, <1>5, LabelTells DEF ExecuteRun, Reply, TypeInv, TypeOK, Handle
  <2>2. /\ pc'[t] # "app_insert"
        /\ pc'[t] = "exe_get" => ExecuteSweep(t)
        /\ pc'[t] = "exe_run" => ExecuteGet(t)
    BY <1>0, <1>5, <2>1 DEF Execute, ExecuteCall, CallOn, Call, ExecuteSweep,
                ExecuteGet, GetRequest, ExecuteMismatch, ExecuteRun,
                ExecuteRecord, ExecuteStatus, ExecuteAudit, SetStatus, Then, Reply
  <2>3. UNCHANGED approvals
    BY <1>5 DEF Execute, ExecuteCall, CallOn, Call, ExecuteSweep, ExecuteGet,
                GetRequest, ExecuteMismatch, ExecuteRun, ExecuteRecord,
                ExecuteStatus, ExecuteAudit, SetStatus, tables, Audit,
                ExpireStaleApprovals, AppendAuditEvent, UpdateStatus, InsertExecution
  <2> QED
    BY <2>2, <2>3
<1> QED
  BY <1>1, <1>2, <1>3, <1>4, <1>5 DEF Handle

\* Handlers take no time of their own.
LEMMA HandleClock ==
  ASSUME NEW t \in Threads, Handle(t)
  PROVE  now' = now
<1>1. CASE Submit(t) \/ List(t) \/ RequestApproval(t) \/ Refuse(t)
  BY <1>1 DEF Submit, SubmitCall, Call, SubmitInsert, SubmitAudit, PreviewRun,
              PreviewInsert, PreviewStatus, PreviewAudit, List, ListCall,
              ListSweep, RequestApproval, RequestCall, CallOn, RequestGet,
              GetRequest, RequestStatus, RequestAudit, Refuse, SetStatus, Then,
              Reply, Continue
<1>2. CASE Approve(t) \/ Reject(t)
  BY <1>2 DEF Approve, ApproveCall, CallOn, Call, ApproveSweep, ApproveGet,
              GetRequest, ApproveDeadline, ApproveInsert, ApproveStatus,
              ApproveAudit, Reject, RejectCall, RejectGet, RejectInsert,
              RejectStatus, RejectAudit, SetStatus, Then, Reply, Continue
<1>3. CASE Execute(t)
  BY <1>3 DEF Execute, ExecuteCall, CallOn, Call, ExecuteSweep, ExecuteGet,
              GetRequest, ExecuteMismatch, ExecuteRun, ExecuteRecord,
              ExecuteStatus, ExecuteAudit, SetStatus, Then, Reply, Continue
<1> QED
  BY <1>1, <1>2, <1>3 DEF Handle

\* An approval gets a deadline at most the TTL, and the lead of the clock,
\* ahead.
LEMMA DeadlinesHandle ==
  ASSUME TypeInv, DeadlinesOK, NEW t \in Threads, Handle(t)
  PROVE  DeadlinesOK'
<1>1. StaysPut(t) /\ now' = now /\ now \in Nat
  BY HandleDecisions, HandleClock DEF TypeInv, TypeOK
<1>2. ASSUME NEW u \in Threads, pc'[u] = "app_insert"
      PROVE  job'[u].expires \in Nat /\ job'[u].expires <= now' + TTL + Lead
  <2>1. CASE u # t
    BY <1>1, <1>2, <2>1 DEF DeadlinesOK, StaysPut
  <2>2. CASE u = t
    <3>1. job' = [job EXCEPT ![t] = [job[t] EXCEPT !.expires = Deadline]]
      BY <1>2, <2>2, Reaches DEF ApproveDeadline, Continue
    <3>2. job'[t].expires = Deadline
      BY <3>1, LocalFacts DEF TypeInv, TypeOK, Job
    <3>3. Deadline \in Nat /\ Deadline <= now + TTL + Lead
      BY <1>1, TimeAssumption DEF Deadline
    <3> QED
      BY <1>1, <2>2, <3>2, <3>3
  <2> QED
    BY <2>1, <2>2
<1>3. ASSUME NEW a \in approvals', a.decision = "approved"
      PROVE  a.expires_at \in Nat /\ a.expires_at <= a.created_at + TTL + Lead
  <2>1. CASE a \in approvals
    BY <1>3, <2>1 DEF DeadlinesOK
  <2>2. CASE ApproveInsert(t) /\ a \notin approvals
    <3>1. pc[t] = "app_insert"
      BY <2>2 DEF ApproveInsert
    <3>2. a.expires_at = job[t].expires /\ a.created_at = now
      BY <1>3, <2>2 DEF ApproveInsert, InsertApproval
    <3> QED
      BY <3>1, <3>2 DEF DeadlinesOK
  <2>3. CASE RejectInsert(t) /\ a \notin approvals
    BY <1>3, <2>3 DEF RejectInsert, InsertApproval
  <2> QED
    BY <1>3, <2>1, <2>2, <2>3, Reaches
<1> QED
  BY <1>2, <1>3 DEF DeadlinesOK

\* What thread t finds approved when it has swept had not expired at its sweep.
LEMMA SweptOwn ==
  ASSUME TypeInv, TypeInv', SweptOK, DeadlinesOK, NEW t \in Threads, Handle(t)
  PROVE  /\ pc'[t] = "exe_get" => \A i \in Ids :
                requests'[i].status = "approved" => \A a \in approvals' :
                    a.req = i /\ a.decision = "approved"
                        => job'[t].swept <= a.expires_at
         /\ pc'[t] = "exe_run" => \A a \in approvals' :
                a.req = job'[t].req /\ a.decision = "approved"
                    => job'[t].swept <= a.expires_at
<1>0. now \in Nat /\ job[t] \in Job
  BY LocalFacts DEF TypeInv, TypeOK
<1>1. ASSUME pc'[t] = "exe_get", NEW i \in Ids, requests'[i].status = "approved",
             NEW a \in approvals', a.req = i, a.decision = "approved"
      PROVE  job'[t].swept <= a.expires_at
  <2>1. PICK o \in Outcomes :
           /\ ExpireStaleApprovals(o, now)
           /\ job' = [job EXCEPT ![t] = [job[t] EXCEPT !.swept =
                                           IF o = "lost" THEN 0 ELSE now]]
    BY <1>1, Reaches DEF ExecuteSweep, Continue
  <2>2. job'[t].swept = IF o = "lost" THEN 0 ELSE now
    BY <1>0, <2>1 DEF TypeInv, TypeOK, Job
  <2>3. a \in approvals /\ a.expires_at \in Nat
    BY <1>1, <2>1 DEF ExpireStaleApprovals, DeadlinesOK
  <2>4. a.expires_at # None
    BY <2>3, NoneAssumption
  <2>5. CASE o = "lost"
    BY <2>2, <2>3, <2>5
  <2>6. CASE o # "lost"
    <3>1. i \notin Stale(now)
      BY <1>1, <2>1, <2>6 DEF ExpireStaleApprovals, TypeInv, TypeOK, TablesTypeOK,
                              RequestRow
    <3>2. requests[i].status = "approved"
      BY <1>1, <2>1, <2>6, <3>1 DEF ExpireStaleApprovals
    <3>3. ~(a.expires_at < now)
      BY <1>1, <2>3, <2>4, <3>1, <3>2 DEF Stale
    <3> QED
      BY <1>0, <2>2, <2>3, <2>6, <3>3
  <2> QED
    BY <2>5, <2>6
<1>2. ASSUME pc'[t] = "exe_run", NEW a \in approvals', a.req = job'[t].req,
             a.decision = "approved"
      PROVE  job'[t].swept <= a.expires_at
  <2>0. ExecuteGet(t) /\ ~Reply(t)
    BY <1>2, Reaches, ContinueFacts DEF Reply
  <2>1. /\ pc[t] = "exe_get" /\ UNCHANGED approvals
        /\ Row(t).status = "approved"
        /\ job' = [job EXCEPT ![t] = [job[t] EXCEPT !.query = Row(t).query_text,
                                                    !.kind = Row(t).target_kind]]
    BY <2>0 DEF ExecuteGet, GetRequest, Continue, tables
  <2>2. job'[t].swept = job[t].swept /\ job'[t].req = job[t].req
    BY <1>0, <2>1 DEF TypeInv, TypeOK, Job
  <2>3. job[t].req \in Ids
    BY <2>1, LocalFacts DEF LocalsOK, NoRequest, NoUser
  <2> QED
    BY <1>2, <2>1, <2>2, <2>3 DEF SweptOK, Outlived, Status, Row
<1> QED
  BY <1>1, <1>2

\* Nor had what the others find, where one request is served at a time.
LEMMA SweptHandle ==
  ASSUME MaxActive = 1, IsFiniteSet(Threads), Alone, TypeInv, TypeInv', SweptOK,
         DeadlinesOK, NEW t \in Threads, Handle(t)
  PROVE  SweptOK'
<1>1. ASSUME NEW u \in Threads \ {t}, pc'[u] \in {"exe_get", "exe_run"}
      PROVE  /\ pc'[u] = pc[u] /\ job'[u] = job[u]
             /\ UNCHANGED <<requests, approvals>>
  <2>1. pc'[u] = pc[u] /\ job'[u] = job[u]
    BY HandleDecisions DEF StaysPut
  <2>2. Refuse(t)
    BY <1>1, <2>1, HandleSolo DEF Solo, Idle
  <2> QED
    BY <2>1, <2>2 DEF Refuse, tables
<1>2. ASSUME NEW u \in Threads, pc'[u] = "exe_get", NEW i \in Ids,
             requests'[i].status = "approved", NEW a \in approvals', a.req = i,
             a.decision = "approved"
      PROVE  job'[u].swept <= a.expires_at
  <2>1. CASE u = t
    BY <1>2, <2>1, SweptOwn
  <2>2. CASE u # t
    BY <1>1, <1>2, <2>2 DEF SweptOK, Outlived, Status
  <2> QED
    BY <2>1, <2>2
<1>3. ASSUME NEW u \in Threads, pc'[u] = "exe_run", NEW a \in approvals',
             a.req = job'[u].req, a.decision = "approved"
      PROVE  job'[u].swept <= a.expires_at
  <2>1. CASE u = t
    BY <1>3, <2>1, SweptOwn
  <2>2. CASE u # t
    BY <1>1, <1>3, <2>2 DEF SweptOK, Outlived
  <2> QED
    BY <2>1, <2>2
<1> QED
  BY <1>2, <1>3 DEF SweptOK, Outlived, Status

\* Every step keeps the invariant.
LEMMA FreshInvStep ==
  ASSUME MaxActive = 1, IsFiniteSet(Threads), GateInv, GateInv', SerialInv,
         FreshInv, [Next]_vars
  PROVE  FreshInv'
<1>1. TypeInv /\ TypeInv' /\ now \in Nat
  BY DEF GateInv, TypeInv, TypeOK
<1>2. ASSUME UNCHANGED approvals,
             now' \in {now, now + 1},
             \A i \in Ids : requests'[i].status = requests[i].status,
             \A t \in Threads : \/ pc'[t] = pc[t] /\ job'[t] = job[t]
                                \/ pc'[t] \in Idle
      PROVE  FreshInv'
  <2>1. DeadlinesOK'
    <3>1. ASSUME NEW t \in Threads, pc'[t] = "app_insert"
          PROVE  job'[t].expires \in Nat /\ job'[t].expires <= now' + TTL + Lead
      <4>1. pc[t] = "app_insert" /\ job'[t] = job[t]
        BY <1>2, <3>1 DEF Idle
      <4>2. job[t].expires \in Nat /\ job[t].expires <= now + TTL + Lead
        BY <4>1 DEF FreshInv, DeadlinesOK
      <4> QED
        BY <1>1, <1>2, <4>1, <4>2, TimeAssumption
    <3> QED
      BY <1>2, <3>1 DEF FreshInv, DeadlinesOK
  <2>2. SweptOK'
    <3>1. \A t \in Threads : pc'[t] \in {"exe_get", "exe_run"} =>
             pc'[t] = pc[t] /\ job'[t] = job[t]
      BY <1>2 DEF Idle
    <3> QED
      BY <1>2, <3>1 DEF FreshInv, SweptOK, Outlived, Status
  <2> QED
    BY <2>1, <2>2 DEF FreshInv
<1>3. CASE Tick \/ UNCHANGED vars
  BY <1>2, <1>3 DEF Tick, vars, tables
<1>4. CASE Tamper
  <2>1. \A i \in Ids : requests'[i].status = requests[i].status
    BY <1>1, <1>4 DEF Tamper, TypeInv, TypeOK, TablesTypeOK, RequestRow
  <2> QED
    BY <1>2, <1>4, <2>1 DEF Tamper
<1>5. CASE Crash
  <2>1. \A t \in Threads : pc'[t] \in Idle
    BY <1>5 DEF Crash, Active, Idle
  <2> QED
    BY <1>2, <1>5, <2>1 DEF Crash, tables
<1>6. ASSUME NEW t \in Threads, Handle(t) PROVE FreshInv'
  BY <1>1, <1>6, DeadlinesHandle, SweptHandle DEF FreshInv, SerialInv
<1> QED
  BY <1>3, <1>4, <1>5, <1>6 DEF Next, Finished

\* One request at a time, an execution that reaches the target was inside the
\* lifetime of every approval its request has when it swept, whatever fails or
\* is killed, and also where SystemTime cannot represent a deadline
\* (src/main.rs:257-259, 368).
THEOREM FreshWhenSweptHolds ==
  ASSUME MaxActive = 1, IsFiniteSet(Threads)
  PROVE  Spec => []FreshWhenSwept
<1> DEFINE Inv == SerialInv /\ FreshInv
<1>1. Init => Inv
  BY SerialInvInit DEF Init, TablesInit, FreshInv, DeadlinesOK, SweptOK
<1>2. GateInv /\ GateInv' /\ Inv /\ [Next]_vars => Inv'
  BY SerialInvStep, FreshInvStep
<1>3. GateInv /\ Inv => FreshWhenSwept
  <2> SUFFICES ASSUME GateInv, Inv, NEW t \in Threads, pc[t] = "exe_run",
                      NEW a \in approvals, a.req = job[t].req,
                      a.decision = "approved"
               PROVE  /\ a.expires_at # None /\ job[t].swept <= a.expires_at
                      /\ job[t].swept <= a.created_at + TTL + Lead
    BY DEF FreshWhenSwept
  <2>1. a.expires_at \in Nat /\ a.expires_at <= a.created_at + TTL + Lead
    BY DEF FreshInv, DeadlinesOK
  <2>2. job[t].swept \in Nat /\ a.created_at \in Nat
    BY DEF GateInv, TypeInv, TypeOK, TablesTypeOK, ApprovalRow, Job
  <2>3. job[t].swept <= a.expires_at
    BY DEF FreshInv, SweptOK, Outlived
  <2> QED
    BY <2>1, <2>2, <2>3, NoneAssumption, TimeAssumption
<1>4. Spec => []GateInv
  BY GateInvHolds
<1> QED
  BY <1>1, <1>2, <1>3, <1>4, PTL DEF Spec
=============================================================================
