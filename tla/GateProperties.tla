--------------------------- MODULE GateProperties ---------------------------
(***************************************************************************)
(* What the workflow of Gate promises, from the strongest setting (any     *)
(* interleaving, any statement failure, kills at any point, forged texts)  *)
(* to the weakest (one request at a time over a reliable database).        *)
(***************************************************************************)
EXTENDS Gate

Status(i) == requests[i].status

\* The request got as far as its preview's UPDATE.
Previewed(i) == Status(i) \notin {"absent", "submitted"}

Committed(i) == \E c \in commits : c.req = i

Logged(i, event) == \E k \in DOMAIN audit_log[i] : audit_log[i][k].event = event

-----------------------------------------------------------------------------
\* Whatever interleaves, fails, dies or is forged.

\* A request that got past "submitted", was decided on or ran has a stored
\* preview and is a Postgres request: no order of late statements lets a
\* request reach a decision, let alone the target, around the preview pipeline
\* (src/preview/engine.rs:48-81), and no MySQL request ever gets that far.
NothingUnpreviewed ==
    \A i \in Ids :
        (Previewed(i) \/ Committed(i) \/ \E a \in approvals : a.req = i)
            => i \in previews /\ requests[i].target_kind = "postgres"

\* Nobody decides on a request of their own, in the approvals table as in the
\* timeline: the check of src/main.rs:239 and 316 is made on a row read
\* before the decision is written, and still holds when it is.
FourEyes ==
    /\ \A a \in approvals : a.approver_email # requests[a.req].requester_email
    /\ \A i \in Ids : \A k \in DOMAIN audit_log[i] :
           audit_log[i][k].event \in Decisions
               => audit_log[i][k].actor # requests[i].requester_email

\* What the database says ran, ran: a successful executions row belongs to a
\* thread that committed, and a request is "executed", or has an "executed"
\* event, only if its text was committed (src/execute/engine.rs:70-103).
RecordsTruthful ==
    /\ \A e \in executions : ~e.error =>
           \E c \in commits : c.thread = e.thread /\ c.req = e.req
    /\ \A i \in Ids : Status(i) = "executed" \/ Logged(i, "executed")
                          => Committed(i)

\* Only the text that was hashed at submission is ever committed, even when
\* the stored text is rewritten between any two steps of an execution
\* (src/execute/engine.rs:40-55, src/execute/hash.rs:8).
TextIntegrity ==
    \A c \in commits : requests[c.req].query_hash = Sha256(c.query)

\* The preview pipeline owns the start of a request's life: no late statement
\* of another handler takes a request back to "submitted", and "previewed" is
\* entered from "submitted" only (src/preview/engine.rs:81).
PreviewedOnce ==
    [][\A i \in Ids : Status(i)' # Status(i) =>
           /\ Status(i)' = "submitted" => Status(i) = "absent"
           /\ Status(i)' = "previewed" => Status(i) = "submitted"]_vars

-----------------------------------------------------------------------------
\* Over a database whose statements do not fail, with any interleaving.

\* A request is approved, executed or expired, or ran, only if somebody other
\* than its requester left an approval in the approvals table.
ApprovalOnRecord ==
    \A i \in Ids :
        Status(i) \in {"approved", "executed", "expired"} \/ Committed(i)
            => \E a \in approvals :
                   /\ a.req = i
                   /\ a.decision = "approved"
                   /\ a.approver_email # requests[i].requester_email

\* A handler that replied left its decision in the request's timeline, with the
\* person who took it, and its commit, if only as a failure: also when others
\* worked on the request at the same time, or were killed around it.
TimelineComplete ==
    /\ \A a \in approvals : pc[a.thread] = "done" =>
           \E k \in DOMAIN audit_log[a.req] :
               audit_log[a.req][k] = [event |-> a.decision,
                                      actor |-> a.approver_email]
    /\ \A c \in commits : pc[c.thread] = "done" =>
           Logged(c.req, "executed") \/ Logged(c.req, "execution_failed")

-----------------------------------------------------------------------------
\* One request at a time (MaxActive = 1).

\* With handlers that do not overlap, every step of the workflow is a step of
\* the documented state machine, or none: also when statements fail and the
\* process is killed between a commit at the target and its bookkeeping.
Runs == [i \in Ids |-> Cardinality({c \in commits : c.req = i})]

L == INSTANCE Lifecycle WITH status <- [i \in Ids |-> Status(i)], runs <- Runs

ImplementsLifecycle == L!Spec

Stage(event) == CASE event = "submitted"                          -> 1
                  [] event = "previewed"                          -> 2
                  [] event = "requested_approval"                 -> 3
                  [] event \in Decisions                          -> 4
                  [] event \in {"executed", "execution_failed"}   -> 5

\* A request's timeline never goes back: no preview after a decision, and no
\* decision after an execution, whatever events a failing statement leaves out
\* (list_audit_events of src/db/audit.rs feeds the detail page's history).
TimelineInOrder ==
    \A i \in Ids : \A k, m \in DOMAIN audit_log[i] :
        k < m => Stage(audit_log[i][k].event) <= Stage(audit_log[i][m].event)

\* With a reliable database too, a request's last event tells its status
\* whenever no handler is in flight.
LastEvent(i) == audit_log[i][Len(audit_log[i])].event

TimelineTellsStatus ==
    Active = {} => \A i \in Ids : Exists(i) =>
        /\ audit_log[i] # <<>>
        /\ CASE Status(i) = "pending_approval" ->
                    LastEvent(i) = "requested_approval"
             [] Status(i) \in {"approved", "expired"} ->
                    LastEvent(i) \in {"approved", "execution_failed"}
             [] OTHER -> LastEvent(i) = Status(i)

\* An approved text is committed at most once: a request that ran leaves
\* "approved" before the next handler looks at it (src/execute/engine.rs:88).
AtMostOnce == \A i \in Ids : Runs[i] <= 1

\* An execution that reaches the target was inside its approval's lifetime
\* when its own handler swept, and no approval is without one: a deadline that
\* SystemTime cannot represent, which becomes 1970, approves nothing that can
\* run (src/main.rs:257-259, 368, then src/execute/engine.rs:32).  By the
\* database's clock the approval is then no older than its lifetime and what
\* SQLGate's clock, which set the deadline, is ahead.
FreshWhenSwept ==
    \A t \in Threads : pc[t] = "exe_run" =>
        \A a \in approvals : a.req = job[t].req /\ a.decision = "approved"
            => /\ a.expires_at # None /\ job[t].swept <= a.expires_at
               /\ job[t].swept <= a.created_at + TTL + Lead
=============================================================================
